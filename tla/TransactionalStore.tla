------------------------- MODULE TransactionalStore -------------------------
(***************************************************************************)
(* What the database promises to the code that stores things in it, apart  *)
(* from how versions are kept: within a transaction everything stored can  *)
(* be read at once and nothing gets lost, the outermost commit makes it    *)
(* durable, and the outermost rollback, or a crash, returns to what was    *)
(* durable.  FileStore and RosterStore implement it.                       *)
(***************************************************************************)
EXTENDS Integers

CONSTANT Item  \* file versions, or rosters

VARIABLES
  visible,    \* what this process can read
  committed,  \* what the next process could read
  level       \* transaction_level

vars == <<visible, committed, level>>

Init == visible = {} /\ committed = {} /\ level = 0

Begin == level' = level + 1 /\ UNCHANGED <<visible, committed>>

Put(i) ==
  /\ level > 0 /\ visible' = visible \cup {i}
  /\ UNCHANGED <<committed, level>>

Commit ==
  /\ level > 0 /\ level' = level - 1
  /\ committed' = IF level = 1 THEN visible ELSE committed
  /\ UNCHANGED visible

Checkpoint == level = 1 /\ committed' = visible /\ UNCHANGED <<visible, level>>

Rollback ==
  /\ level > 0 /\ level' = level - 1
  /\ visible' = IF level = 1 THEN committed ELSE visible
  /\ UNCHANGED committed

Crash == level' = 0 /\ visible' = committed /\ UNCHANGED committed

Next ==
  \/ Begin \/ Commit \/ Checkpoint \/ Rollback \/ Crash
  \/ \E i \in Item : Put(i)

Spec == Init /\ [][Next]_vars
=============================================================================
