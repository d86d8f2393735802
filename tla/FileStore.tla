----------------------------- MODULE FileStore -----------------------------
(***************************************************************************)
(* The file versions of a database (database.cc): full texts, some of them *)
(* not yet written, deltas between versions, and the nested transaction    *)
(* guards that commit or abandon them.  A version is its content, named by *)
(* its hash; what matters is from which rows it can be put together.  The  *)
(* version cache only saves work and is left out: a version counts as      *)
(* readable when a new process could read it.                              *)
(***************************************************************************)
EXTENDS FiniteSets, Integers

CONSTANTS
  File,        \* file versions
  Direction,   \* the values delta-direction may be set to
  MaxDelayed,  \* full texts kept before they are written (db_max_delayed_file_bytes)
  MaxLevel     \* bound on nested guards

VARIABLES
  store,      \* tables inside the transaction: full texts, deltas; delayed_files
  saved,      \* the tables as committed
  level,      \* transaction_level
  direction   \* the database variable delta-direction

vars == <<store, saved, level, direction>>

Empty == [full |-> {}, delta |-> {}, delayed |-> {}]

file_or_manifest_base_exists(s, f) == f \in s.full \cup s.delayed

delta_exists(s, f) == \E b \in File : <<f, b>> \in s.delta

file_version_exists(s, f) == delta_exists(s, f) \/ file_or_manifest_base_exists(s, f)

\* Everything that can be put together: the least set with the full texts
\* that holds with a base what has a delta against it.
Closed(s, S) ==
  /\ s.full \cup s.delayed \subseteq S
  /\ \A d \in s.delta : d[2] \in S => d[1] \in S

Readable(s) ==
  LET closed == {S \in SUBSET File : Closed(s, S)}
  IN {f \in File : \A S \in closed : f \in S}

flush_delayed_writes(s) == [s EXCEPT !.full = @ \cup s.delayed, !.delayed = {}]

schedule_delayed_file(s, f) ==
  LET t == [s EXCEPT !.delayed = @ \cup {f}]
  IN IF Cardinality(t.delayed) > MaxDelayed THEN flush_delayed_writes(t) ELSE t

drop_or_cancel_file(s, f) ==
  IF f \in s.delayed THEN [s EXCEPT !.delayed = @ \ {f}] ELSE [s EXCEPT !.full = @ \ {f}]

drop_deltas(s, f) == [s EXCEPT !.delta = {d \in @ : d[1] # f}]

WithDeltas_IfNew(s, old, new, dir) ==
  LET r == IF file_version_exists(s, new) THEN s ELSE schedule_delayed_file(s, new)
      t == IF dir \in {"reverse", "both"} THEN [r EXCEPT !.delta = @ \cup {<<old, new>>}] ELSE s
  IN IF dir \in {"forward", "both"} THEN [t EXCEPT !.delta = @ \cup {<<new, old>>}] ELSE t

\* The deltas made for the new version, in either direction.
WithDeltas(s, old, new, dir) ==
  LET r == IF file_or_manifest_base_exists(s, new) THEN s ELSE schedule_delayed_file(s, new)
      t == IF dir \in {"reverse", "both"} THEN [r EXCEPT !.delta = @ \cup {<<old, new>>}] ELSE s
  IN IF dir \in {"forward", "both"} THEN [t EXCEPT !.delta = @ \cup {<<new, old>>}]
                                    ELSE drop_deltas(t, new)

\* The old full text goes when the old version has a delta.
Replaced(s, old) ==
  IF file_or_manifest_base_exists(s, old) /\ delta_exists(s, old)
  THEN drop_or_cancel_file(s, old) ELSE s

PutVersion(s, old, new, dir) == Replaced(WithDeltas(s, old, new, dir), old)

Init ==
  /\ store = Empty /\ saved = Empty /\ level = 0
  /\ direction \in Direction

begin_transaction ==
  /\ level < MaxLevel /\ level' = level + 1
  /\ UNCHANGED <<store, saved, direction>>

\* What a commit of the outermost guard does, by commit() or a checkpoint.
Commit_NoFlush == store' = [store EXCEPT !.delayed = {}] /\ saved' = store'

Commit == store' = flush_delayed_writes(store) /\ saved' = store'

\* Only the outermost guard writes the delayed texts and commits.
commit_transaction ==
  /\ level > 0 /\ level' = level - 1
  /\ IF level = 1 THEN Commit ELSE UNCHANGED <<store, saved>>
  /\ UNCHANGED direction

rollback_transaction_KeepsDelayed ==
  /\ level > 0 /\ level' = level - 1
  /\ store' = IF level = 1 THEN [saved EXCEPT !.delayed = store.delayed] ELSE store
  /\ UNCHANGED <<saved, direction>>

\* Only the outermost guard rolls back.
rollback_transaction ==
  /\ level > 0 /\ level' = level - 1
  /\ store' = IF level = 1 THEN saved ELSE store
  /\ UNCHANGED <<saved, direction>>

\* do_checkpoint commits and begins again.
do_checkpoint ==
  /\ level = 1 /\ Commit
  /\ UNCHANGED <<level, direction>>

Crash ==
  /\ level > 0 /\ store' = saved /\ level' = 0
  /\ UNCHANGED <<saved, direction>>

put_file(f) ==
  /\ level > 0 /\ ~ file_version_exists(store, f)
  /\ store' = schedule_delayed_file(store, f)
  /\ UNCHANGED <<saved, level, direction>>

put_file_version(old, new) ==
  /\ level > 0 /\ old # new
  /\ file_version_exists(store, old) /\ old \in Readable(store)
  /\ store' = PutVersion(store, old, new, direction)
  /\ UNCHANGED <<saved, level, direction>>

\* One file of deltify_revision, in a store where both versions exist.
Deltified(s, old, new) ==
  IF file_or_manifest_base_exists(s, old) /\ file_version_exists(s, new)
  THEN PutVersion(drop_deltas(drop_or_cancel_file(s, new), new), old, new, direction)
  ELSE s

deltify_revision(old, new) ==
  /\ level > 0 /\ old # new
  /\ {old, new} \subseteq Readable(store)
  /\ store' = Deltified(store, old, new)
  /\ UNCHANGED <<saved, level, direction>>

SetDirection(d) ==
  /\ level = 0 /\ direction' = d /\ d # direction
  /\ UNCHANGED <<store, saved, level>>

Next ==
  \/ begin_transaction \/ commit_transaction \/ rollback_transaction
  \/ do_checkpoint \/ Crash
  \/ \E f \in File : put_file(f)
  \/ \E old, new \in File : put_file_version(old, new) \/ deltify_revision(old, new)
  \/ \E d \in Direction : SetDirection(d)

Spec == Init /\ [][Next]_vars

\* A revision pulled with a change of one file: its delta, then put_revision.
PullChange(old, new) ==
  /\ level > 0 /\ old # new
  /\ file_version_exists(store, old) /\ old \in Readable(store)
  /\ store' = Deltified(PutVersion(store, old, new, direction), old, new)
  /\ UNCHANGED <<saved, level, direction>>

PullNext ==
  \/ begin_transaction \/ commit_transaction
  \/ \E f \in File : store = Empty /\ put_file(f)
  \/ \E old, new \in File : PullChange(old, new)

\* One file is added and then only changed, by pulled revisions.
PullSpec == Init /\ [][PullNext]_vars

---------------------------------------------------------------------------
(* Properties *)

Store == [full : SUBSET File, delta : SUBSET (File \X File), delayed : SUBSET File]

\* Types; no text is both written and waiting to be written, which would
\* make the INSERT of write_delayed_file fail.
TypeOK ==
  /\ store \in Store /\ saved \in Store
  /\ level \in 0..MaxLevel /\ direction \in Direction
  /\ store.full \cap store.delayed = {}

\* Every version the database has can be put together from a full text, in
\* whatever order versions are stored, replaced and deltified
\* (put_file_version drops the full text of the old version).
AllReadable == {f \in File : file_version_exists(store, f)} \subseteq Readable(store)

Promise ==
  INSTANCE TransactionalStore
    WITH Item <- File, visible <- Readable(store), committed <- Readable(saved)

\* The store keeps the promise of TransactionalStore: no step but the end of
\* the outermost guard makes a version unreadable, what was committed can be
\* read after every later step, failed transactions and crashes included
\* (commit_transaction writes the delayed texts first).
KeepsPromise == Promise!Spec

\* begin_transaction asserts that no delayed text is left from an earlier
\* transaction; between transactions memory and tables agree.
NothingPending == level = 0 => store = saved /\ saved.delayed = {}
=============================================================================
