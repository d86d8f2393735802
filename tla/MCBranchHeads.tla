--------------------------- MODULE MCBranchHeads ---------------------------
(* A root with two children, one of them with a child; trusted and other   *)
(* branch certs on the forks, and suspensions of two revisions.            *)
EXTENDS BranchHeads

MCParents == [r \in 1..4 |-> CASE r = 1 -> {} [] r = 4 -> {2} [] OTHER -> {1}]

BranchCert(r, t) == [ident |-> r, name |-> "branch", value |-> "b", trusted |-> t]
SuspendCert(r, t) == [ident |-> r, name |-> "suspend", value |-> "b", trusted |-> t]

MCCert ==
  {BranchCert(r, TRUE) : r \in 1..4} \cup {BranchCert(2, FALSE), BranchCert(4, FALSE)}
  \cup {SuspendCert(4, TRUE), SuspendCert(3, FALSE)}
=============================================================================
