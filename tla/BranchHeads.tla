---------------------------- MODULE BranchHeads ----------------------------
(***************************************************************************)
(* Branch heads as a project_t computes and caches them (project.cc), and  *)
(* the indicators by which it learns that its answers are out of date      *)
(* (outdated_indicator.cc).  The table branch_leaves is taken for what it  *)
(* is shown to be in RevisionStore: the leaves by certs, trusted or not.   *)
(* A project_t belongs to one command, so a rollback ends it; the database *)
(* object, with the stamper, may live on.                                  *)
(***************************************************************************)
EXTENDS FiniteSets, Integers

CONSTANTS
  Rev,
  Parents,     \* parents of each revision
  Branch,
  Cert,        \* certs that may be put: [ident, name, value, trusted]
  MaxPending,  \* bound on certs put in one transaction
  MaxChanged   \* bound on the stamps given out

ASSUME RevAssumption == IsFiniteSet(Rev) /\ Parents \in [Rev -> SUBSET Rev]
ASSUME CertAssumption == \A c \in Cert : c.ident \in Rev

VARIABLES
  certs,         \* table revision_certs
  pending,       \* those put in the open transaction
  stamper,       \* [changed, dispensed] of the cert_stamper
  branch_heads,  \* project_t::branch_heads: [when, heads] by branch and flag
  branches       \* project_t::branches: [when, names]

vars == <<certs, pending, stamper, branch_heads, branches>>

\* The default indicator is always outdated.
Never == -1

\* What the search up from r's parents accumulates: the least set that holds
\* them and is closed under parents.
Ancestors ==
  [r \in Rev |-> {a \in Rev : \A S \in SUBSET Rev :
                    Parents[r] \subseteq S /\ (\A q \in S : Parents[q] \subseteq S) => a \in S}]

\* Revisions are named by a hash that covers their parents.
ASSUME AcyclicAssumption == \A r \in Rev : r \notin Ancestors[r]

erase_ancestors(C) == {r \in C : \A s \in C : r \notin Ancestors[s]}

Certified(name, b, C) == {c.ident : c \in {d \in C : d.name = name /\ d.value = b}}

\* Certs that erase_bogus_certs leaves.
Trusted == {c \in certs : c.trusted}

branch_leaves(b) == erase_ancestors(Certified("branch", b, certs))

not_in_branch(b, r) == r \notin Certified("branch", b, Trusted)

suspended_in_branch(b, r) == r \in Certified("suspend", b, Trusted)

---------------------------------------------------------------------------
(* Indicators *)

note_change_Never(s) == s

note_change(s) == IF s.changed = s.dispensed THEN [s EXCEPT !.changed = @ + 1] ELSE s

dispense(s) == [s EXCEPT !.dispensed = s.changed]

outdated(when) == when = Never \/ when < stamper.changed

---------------------------------------------------------------------------
(* Queries *)

erase_ancestors_and_failures_Late(b, C) == {r \in erase_ancestors(C) : ~ not_in_branch(b, r)}

\* Only a revision that is not a failure erases its ancestors.
erase_ancestors_and_failures(b, C) == erase_ancestors({r \in C : ~ not_in_branch(b, r)})

\* The leaves when all of them are trusted, else the slow way.
Heads(b, ignore_suspend_certs) ==
  LET leaves == branch_leaves(b)
      heads == IF \E r \in leaves : not_in_branch(b, r)
               THEN erase_ancestors_and_failures(b, Certified("branch", b, certs))
               ELSE leaves
  IN IF ignore_suspend_certs THEN heads ELSE {r \in heads : ~ suspended_in_branch(b, r)}

get_branch_heads(b, ignore) ==
  /\ outdated(branch_heads[<<b, ignore>>].when)
  /\ stamper' = dispense(stamper)
  /\ branch_heads' = [branch_heads EXCEPT ![<<b, ignore>>] =
                        [when |-> stamper.changed, heads |-> Heads(b, ignore)]]
  /\ UNCHANGED <<certs, pending, branches>>

Names == {b \in Branch : branch_leaves(b) # {}}

\* The form netsync uses, which does not look at heads.
get_branch_list ==
  /\ outdated(branches.when)
  /\ stamper' = dispense(stamper)
  /\ branches' = [when |-> stamper.changed, names |-> Names]
  /\ UNCHANGED <<certs, pending, branch_heads>>

---------------------------------------------------------------------------
(* Changes *)

Init ==
  /\ certs = {} /\ pending = {} /\ stamper = [changed |-> 0, dispensed |-> 0]
  /\ branch_heads = [k \in Branch \X BOOLEAN |-> [when |-> Never, heads |-> {}]]
  /\ branches = [when |-> Never, names |-> {}]

\* record_as_branch_leaf reads the leaves, which gives out a stamp.
put_revision_cert(c) ==
  /\ c \notin certs
  /\ Cardinality(pending) < MaxPending /\ stamper.changed < MaxChanged
  /\ certs' = certs \cup {c} /\ pending' = pending \cup {c}
  /\ stamper' = note_change(IF c.name = "branch" THEN dispense(stamper) ELSE stamper)
  /\ UNCHANGED <<branch_heads, branches>>

\* The certs of a name on a revision, and the leaves of their branches.
delete_certs_locally(r, name) ==
  /\ pending = {} /\ stamper.changed < MaxChanged
  /\ \E c \in certs : c.ident = r /\ c.name = name
  /\ certs' = {c \in certs : ~ (c.ident = r /\ c.name = name)}
  /\ stamper' = note_change(stamper)
  /\ UNCHANGED <<pending, branch_heads, branches>>

commit_transaction ==
  /\ pending' = {}
  /\ UNCHANGED <<certs, stamper, branch_heads, branches>>

NewProject ==
  /\ branch_heads' = [k \in Branch \X BOOLEAN |-> [when |-> Never, heads |-> {}]]
  /\ branches' = [when |-> Never, names |-> {}]

\* No change is noted; the command, and its project, are over.
rollback_transaction ==
  /\ certs' = certs \ pending /\ pending' = {}
  /\ NewProject
  /\ UNCHANGED stamper

Next ==
  \/ \E b \in Branch, ignore \in BOOLEAN : get_branch_heads(b, ignore)
  \/ get_branch_list
  \/ \E c \in Cert : put_revision_cert(c)
  \/ \E r \in Rev, name \in {"branch", "suspend"} : delete_certs_locally(r, name)
  \/ commit_transaction \/ rollback_transaction

Spec == Init /\ [][Next]_vars

---------------------------------------------------------------------------
(* Properties *)

\* The heads by definition: revisions with a trusted branch cert without a
\* descendant that has one; suspended ones are left out on demand.
TrueHeads(b, ignore) ==
  LET C == Certified("branch", b, Trusted)
  IN {r \in C : /\ \A s \in C : r \notin Ancestors[s]
                /\ ignore \/ r \notin Certified("suspend", b, Trusted)}

\* What get_branch_heads answers, from its cache or by either of its two
\* ways, are the heads by the certs as they are now.
HeadsExact ==
  \A b \in Branch, ignore \in BOOLEAN :
    LET k == branch_heads[<<b, ignore>>]
    IN (IF outdated(k.when) THEN Heads(b, ignore) ELSE k.heads) = TrueHeads(b, ignore)

\* A cached answer that its indicator does not call outdated, the heads of a
\* branch or the list of branches, is the answer that the certs now give.
CachesCurrent ==
  /\ \A k \in Branch \X BOOLEAN :
       ~ outdated(branch_heads[k].when) => branch_heads[k].heads = Heads(k[1], k[2])
  /\ ~ outdated(branches.when) => branches.names = Names
=============================================================================
