-------------------------- MODULE MCNetsyncSession --------------------------
(* One branch with two revisions, signed with two keys, and up to two      *)
(* clients.                                                                *)
EXTENDS NetsyncSession

MCParents == [r \in Rev |-> IF r = 2 THEN {1} ELSE {}]

\* c1 and c2 put the revisions in the branch, a1 is another certificate.
MCCertRev == [x \in Cert |-> IF x = "c2" THEN 2 ELSE 1]
MCCertKey == [x \in Cert |-> IF x = "a1" THEN "k2" ELSE "k1"]
MCCertBranch == [x \in Cert |-> IF x = "a1" THEN NoBranch ELSE "b"]

Empty == [epoch |-> {}, key |-> {}, rev |-> {}, cert |-> {}]
EpochOnly == [Empty EXCEPT !.epoch = {<<"b", "e1">>}]
One == [epoch |-> {}, key |-> {"k1"}, rev |-> {1}, cert |-> {"c1"}]
Signed == [epoch |-> {<<"b", "e0">>}, key |-> {"k1", "k2"}, rev |-> {1}, cert |-> {"c1", "a1"}]
Two == [epoch |-> {<<"b", "e1">>}, key |-> {"k1"}, rev |-> {1, 2}, cert |-> {"c1", "c2"}]
TwoZero == [epoch |-> {}, key |-> {"k1"}, rev |-> {1, 2}, cert |-> {"c1", "c2"}]

OneOther == [epoch |-> {<<"b", "e1">>}, key |-> {"k1"}, rev |-> {1}, cert |-> {"c1"}]

Request == [role : {"source", "sink", "both"}, dry : BOOLEAN]
Idle == [role |-> "none", dry |-> FALSE]

\* One client and the server, with any two of the databases.
Alone ==
  {[disk |-> [p \in Process |-> IF p = "server" THEN s ELSE IF p = "ca" THEN a ELSE Empty],
    request |-> [c \in Client |-> IF c = "ca" THEN q ELSE Idle]] :
     s, a \in {Empty, EpochOnly, One, Signed, Two, TwoZero}, q \in Request}

\* Two clients, which bring an empty server the same items or other epochs.
Together ==
  {[disk |-> [p \in Process |-> IF p = "server" THEN Empty ELSE IF p = "ca" THEN One ELSE b],
    request |-> [c \in Client |-> [role |-> IF c = "ca" THEN "both" ELSE "source", dry |-> FALSE]]] :
     b \in {One, OneOther}}

MCScenario == Alone \cup Together
=============================================================================
