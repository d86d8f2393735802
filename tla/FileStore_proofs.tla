-------------------------- MODULE FileStore_proofs --------------------------
(***************************************************************************)
(* With reverse deltas, or both kinds, no sequence of operations makes a   *)
(* stored version unreadable, for any set of versions, any limit on the    *)
(* delayed texts and any nesting of guards, and the store implements       *)
(* TransactionalStore.  The invariant speaks of the transaction and of the *)
(* committed tables, which a rollback brings back.                         *)
(***************************************************************************)
EXTENDS FileStore, TLAPS

Base(s) == s.full \cup s.delayed
Good(s) == \A f \in File : file_version_exists(s, f) => f \in Readable(s)

Exists(s) == {f \in File : file_version_exists(s, f)}
Apart(s) == s.full \cap s.delayed = {}

Inv ==
  /\ store \in Store /\ saved \in Store /\ direction \in Direction
  /\ Good(store) /\ Good(saved)
  /\ Apart(store) /\ saved.delayed = {}
  /\ level \in Nat /\ (level = 0 => store = saved)

\* Full texts are readable, and what has a delta against a readable version
\* (get_reconstruction_path ends at a full text).
LEMMA ReadableClosed ==
  ASSUME NEW s \in Store
  PROVE  Readable(s) \subseteq File /\ Closed(s, Readable(s))
BY DEF Readable, Closed, Store

\* Nothing else is readable.
LEMMA ReadableLeast ==
  ASSUME NEW s \in Store, NEW S \in SUBSET File, Closed(s, S)
  PROVE  Readable(s) \subseteq S
BY DEF Readable

\* Writing the delayed texts, or adding one, changes the full texts only as
\* meant (flush_delayed_writes, schedule_delayed_file).
LEMMA Scheduling ==
  ASSUME NEW s \in Store, NEW f \in File
  PROVE  /\ flush_delayed_writes(s) \in Store
         /\ Base(flush_delayed_writes(s)) = Base(s)
         /\ flush_delayed_writes(s).delta = s.delta
         /\ schedule_delayed_file(s, f) \in Store
         /\ Base(schedule_delayed_file(s, f)) = Base(s) \cup {f}
         /\ schedule_delayed_file(s, f).delta = s.delta
BY Zenon DEF flush_delayed_writes, schedule_delayed_file, Store, Base

\* Two stores with the same full texts and deltas are equally good.
LEMMA GoodSame ==
  ASSUME NEW s \in Store, NEW t \in Store, Base(s) = Base(t), s.delta = t.delta, Good(s)
  PROVE  Good(t)
BY DEF Good, Base, Readable, Closed, file_version_exists, delta_exists,
       file_or_manifest_base_exists

\* What put_file_version leaves: the new version is a full text, the old one
\* has a delta against it, and only the old full text may be gone.
LEMMA PutVersionRows ==
  ASSUME NEW s \in Store, NEW old \in File, NEW new \in File, old # new,
         NEW dir \in {"reverse", "both"}
  PROVE  LET u == PutVersion(s, old, new, dir)
         IN /\ u \in Store
            /\ new \in Base(u)
            /\ Base(u) \subseteq Base(s) \cup {new}
            /\ Base(s) \ {old} \subseteq Base(u)
            /\ <<old, new>> \in u.delta
            /\ u.delta \subseteq s.delta \cup {<<old, new>>, <<new, old>>}
            /\ \A d \in s.delta : d[1] # new => d \in u.delta
<1> DEFINE r == IF file_or_manifest_base_exists(s, new) THEN s ELSE schedule_delayed_file(s, new)
           t == [r EXCEPT !.delta = @ \cup {<<old, new>>}]
           w == IF dir = "both" THEN [t EXCEPT !.delta = @ \cup {<<new, old>>}]
                                ELSE drop_deltas(t, new)
<1>1. r \in Store /\ Base(r) = Base(s) \cup {new} /\ r.delta = s.delta
  BY Scheduling DEF file_or_manifest_base_exists, Base
<1> HIDE DEF r
<1>2. t \in Store /\ Base(t) = Base(r) /\ t.delta = r.delta \cup {<<old, new>>}
  BY <1>1 DEF Store, Base
<1> HIDE DEF t
<1>3. /\ w \in Store /\ Base(w) = Base(t) /\ <<old, new>> \in w.delta
      /\ w.delta \subseteq t.delta \cup {<<new, old>>}
      /\ \A d \in t.delta : d[1] # new => d \in w.delta
  BY <1>2 DEF Store, Base, drop_deltas
<1>4. w = WithDeltas(s, old, new, dir)
  BY DEF WithDeltas, r, t
<1> HIDE DEF w
<1>5. Replaced(w, old) \in Store /\ Replaced(w, old).delta = w.delta
  BY <1>3 DEF Replaced, drop_or_cancel_file, Store
<1>6. Base(Replaced(w, old)) \subseteq Base(w) /\ Base(w) \ {old} \subseteq Base(Replaced(w, old))
  BY <1>3 DEF Replaced, drop_or_cancel_file, Store, Base
<1> QED
  BY <1>1, <1>2, <1>3, <1>4, <1>5, <1>6 DEF PutVersion

\* The core of the argument: whatever could be read with the new version at
\* hand can be read after put_file_version.  It is enough that s is good
\* once the new version is there, which deltify_revision relies on.
LEMMA PutVersionGood ==
  ASSUME NEW s \in Store, NEW old \in File, NEW new \in File, old # new,
         NEW dir \in {"reverse", "both"}, NEW R \in SUBSET File,
         \A S \in SUBSET File : Closed(s, S) /\ new \in S => R \subseteq S,
         \A f \in File : file_version_exists(s, f) => f \in R
  PROVE  PutVersion(s, old, new, dir) \in Store /\ Good(PutVersion(s, old, new, dir))
<1> DEFINE u == PutVersion(s, old, new, dir)
<1>1. /\ u \in Store /\ new \in Base(u) /\ Base(u) \subseteq Base(s) \cup {new}
      /\ Base(s) \ {old} \subseteq Base(u) /\ <<old, new>> \in u.delta
      /\ u.delta \subseteq s.delta \cup {<<old, new>>, <<new, old>>}
      /\ \A d \in s.delta : d[1] # new => d \in u.delta
  BY PutVersionRows
<1> HIDE DEF u
<1>2. Readable(u) \in SUBSET File /\ Closed(u, Readable(u))
  BY <1>1, ReadableClosed
<1>3. new \in Readable(u) /\ old \in Readable(u)
  BY <1>1, <1>2 DEF Closed, Base
<1>4. Closed(s, Readable(u))
  BY <1>1, <1>2, <1>3 DEF Closed, Base
<1>5. R \subseteq Readable(u)
  BY <1>2, <1>3, <1>4
<1>6. ASSUME NEW f \in File, file_version_exists(u, f) PROVE f \in Readable(u)
  <2>1. file_version_exists(s, f) \/ f \in {old, new}
    BY <1>1, <1>6 DEF file_version_exists, delta_exists, file_or_manifest_base_exists, Base
  <2> QED BY <2>1, <1>3, <1>5
<1> QED BY <1>1, <1>6 DEF Good, u

\* put_file_version keeps every version readable.
LEMMA PutKeepsGood ==
  ASSUME NEW s \in Store, NEW old \in File, NEW new \in File, old # new,
         NEW dir \in {"reverse", "both"}, Good(s)
  PROVE  PutVersion(s, old, new, dir) \in Store /\ Good(PutVersion(s, old, new, dir))
<1>1. Readable(s) \in SUBSET File
  BY ReadableClosed
<1>2. \A S \in SUBSET File : Closed(s, S) /\ new \in S => Readable(s) \subseteq S
  BY ReadableLeast
<1> QED BY <1>1, <1>2, PutVersionGood DEF Good

\* deltify_revision may take away the text and the deltas of the new version,
\* since put_file_version stores it again.
LEMMA DeltifyKeepsGood ==
  ASSUME NEW s \in Store, NEW old \in File, NEW new \in File, old # new,
         direction \in {"reverse", "both"}, Good(s)
  PROVE  Deltified(s, old, new) \in Store /\ Good(Deltified(s, old, new))
<1> DEFINE t == drop_deltas(drop_or_cancel_file(s, new), new)
<1>1. /\ t \in Store /\ Base(s) \ {new} \subseteq Base(t) /\ Base(t) \subseteq Base(s)
      /\ t.delta \subseteq s.delta /\ \A d \in s.delta : d[1] # new => d \in t.delta
  BY DEF drop_deltas, drop_or_cancel_file, Store, Base
<1> HIDE DEF t
<1>2. Readable(s) \in SUBSET File
  BY ReadableClosed
<1>3. ASSUME NEW S \in SUBSET File, Closed(t, S), new \in S PROVE Readable(s) \subseteq S
  <2>1. Closed(s, S)
    BY <1>1, <1>3 DEF Closed, Base
  <2> QED BY <2>1, ReadableLeast
<1>4. \A f \in File : file_version_exists(t, f) => f \in Readable(s)
  BY <1>1 DEF Good, file_version_exists, delta_exists, file_or_manifest_base_exists, Base
<1>5. PutVersion(t, old, new, direction) \in Store /\ Good(PutVersion(t, old, new, direction))
  BY <1>1, <1>2, <1>3, <1>4, PutVersionGood, Zenon
<1> QED BY <1>5 DEF Deltified, t

\* put_file adds a full text.
LEMMA PutFileKeepsGood ==
  ASSUME NEW s \in Store, NEW f \in File, Good(s)
  PROVE  schedule_delayed_file(s, f) \in Store /\ Good(schedule_delayed_file(s, f))
<1> DEFINE u == schedule_delayed_file(s, f)
<1>1. u \in Store /\ Base(u) = Base(s) \cup {f} /\ u.delta = s.delta
  BY Scheduling
<1> HIDE DEF u
<1>2. Readable(u) \in SUBSET File /\ Closed(u, Readable(u))
  BY <1>1, ReadableClosed
<1>3. Closed(s, Readable(u))
  BY <1>1, <1>2 DEF Closed, Base
<1>4. Readable(s) \subseteq Readable(u) /\ f \in Readable(u)
  BY <1>1, <1>2, <1>3, ReadableLeast DEF Closed, Base
<1> QED
  BY <1>1, <1>4 DEF Good, u, file_version_exists, delta_exists, file_or_manifest_base_exists, Base

\* In a good store exactly the versions that exist can be read.
LEMMA ReadableExists ==
  ASSUME NEW s \in Store, Good(s)
  PROVE  Readable(s) = Exists(s)
<1>1. Closed(s, Exists(s))
  BY DEF Closed, Exists, Store, file_version_exists, delta_exists, file_or_manifest_base_exists
<1>2. Readable(s) \subseteq Exists(s)
  BY <1>1, ReadableLeast DEF Exists
<1> QED BY <1>2 DEF Good, Exists

\* put_file_version makes the new version exist and no other one disappear.
LEMMA PutVersionExists ==
  ASSUME NEW s \in Store, NEW old \in File, NEW new \in File, old # new,
         NEW dir \in {"reverse", "both"}
  PROVE  Exists(PutVersion(s, old, new, dir)) = Exists(s) \cup {old, new}
<1> DEFINE u == PutVersion(s, old, new, dir)
<1>1. /\ u \in Store /\ new \in Base(u) /\ Base(u) \subseteq Base(s) \cup {new}
      /\ Base(s) \ {old} \subseteq Base(u) /\ <<old, new>> \in u.delta
      /\ u.delta \subseteq s.delta \cup {<<old, new>>, <<new, old>>}
      /\ \A d \in s.delta : d[1] # new => d \in u.delta
  BY PutVersionRows
<1> HIDE DEF u
<1>2. ASSUME NEW f \in Exists(u) PROVE f \in Exists(s) \cup {old, new}
  BY <1>1, <1>2, Zenon DEF Exists, file_version_exists, delta_exists, file_or_manifest_base_exists, Base
<1>3. old \in Exists(u) /\ new \in Exists(u)
  BY <1>1 DEF Exists, file_version_exists, delta_exists, file_or_manifest_base_exists, Base
<1>4. ASSUME NEW f \in Exists(s), f # old, f # new PROVE f \in Exists(u)
  <2>1. CASE f \in Base(s)
    BY <1>1, <1>4, <2>1 DEF Exists, file_version_exists, file_or_manifest_base_exists, Base
  <2>2. CASE delta_exists(s, f)
    <3>1. PICK b \in File : <<f, b>> \in s.delta
      BY <2>2 DEF delta_exists
    <3>2. <<f, b>> \in u.delta
      BY <1>1, <1>4, <3>1
    <3> QED BY <3>2, <1>4 DEF Exists, file_version_exists, delta_exists
  <2> QED BY <1>4, <2>1, <2>2 DEF Exists, file_version_exists, file_or_manifest_base_exists, Base
<1> QED BY <1>2, <1>3, <1>4 DEF u

\* deltify_revision changes how versions are kept, never which exist.
LEMMA DeltifyExists ==
  ASSUME NEW s \in Store, NEW old \in File, NEW new \in File, old # new,
         direction \in {"reverse", "both"}, old \in Exists(s), new \in Exists(s)
  PROVE  Exists(Deltified(s, old, new)) = Exists(s)
<1> DEFINE t == drop_deltas(drop_or_cancel_file(s, new), new)
<1>1. /\ t \in Store /\ Base(s) \ {new} \subseteq Base(t) /\ Base(t) \subseteq Base(s)
      /\ t.delta \subseteq s.delta /\ \A d \in s.delta : d[1] # new => d \in t.delta
  BY DEF drop_deltas, drop_or_cancel_file, Store, Base
<1> HIDE DEF t
<1>2. Exists(t) \subseteq Exists(s)
  BY <1>1 DEF Exists, file_version_exists, delta_exists, file_or_manifest_base_exists, Base
<1>3. ASSUME NEW f \in Exists(s), f # new PROVE f \in Exists(t)
  <2>1. CASE f \in Base(s)
    BY <1>1, <1>3, <2>1 DEF Exists, file_version_exists, file_or_manifest_base_exists, Base
  <2>2. CASE delta_exists(s, f)
    <3>1. PICK b \in File : <<f, b>> \in s.delta
      BY <2>2 DEF delta_exists
    <3>2. <<f, b>> \in t.delta
      BY <1>1, <1>3, <3>1
    <3> QED BY <3>2, <1>3 DEF Exists, file_version_exists, delta_exists
  <2> QED BY <1>3, <2>1, <2>2 DEF Exists, file_version_exists, file_or_manifest_base_exists, Base
<1>4. Exists(PutVersion(t, old, new, direction)) = Exists(t) \cup {old, new}
  BY <1>1, PutVersionExists
<1> QED BY <1>2, <1>3, <1>4 DEF Deltified, t

\* put_file adds its version.
LEMMA PutFileExists ==
  ASSUME NEW s \in Store, NEW f \in File
  PROVE  Exists(schedule_delayed_file(s, f)) = Exists(s) \cup {f}
<1> DEFINE u == schedule_delayed_file(s, f)
<1>1. u \in Store /\ Base(u) = Base(s) \cup {f} /\ u.delta = s.delta
  BY Scheduling
<1> HIDE DEF u
<1> QED
  BY <1>1 DEF Exists, file_version_exists, delta_exists, file_or_manifest_base_exists, Base, u

\* No operation keeps a text both written and waiting (file_or_manifest_base_exists
\* looks at both).
LEMMA StaysApart ==
  ASSUME NEW s \in Store, NEW f \in File, Apart(s)
  PROVE  /\ f \notin s.full => Apart(schedule_delayed_file(s, f))
         /\ Apart(drop_or_cancel_file(s, f)) /\ Apart(drop_deltas(s, f))
BY DEF Apart, schedule_delayed_file, flush_delayed_writes, drop_or_cancel_file, drop_deltas, Store

\* In particular put_file_version does not.
LEMMA PutVersionApart ==
  ASSUME NEW s \in Store, NEW old \in File, NEW new \in File,
         NEW dir \in {"reverse", "both"}, Apart(s)
  PROVE  Apart(PutVersion(s, old, new, dir))
<1> DEFINE r == IF file_or_manifest_base_exists(s, new) THEN s ELSE schedule_delayed_file(s, new)
           t == [r EXCEPT !.delta = @ \cup {<<old, new>>}]
           w == IF dir = "both" THEN [t EXCEPT !.delta = @ \cup {<<new, old>>}]
                                ELSE drop_deltas(t, new)
<1>1. r \in Store /\ Apart(r)
  BY Scheduling, StaysApart DEF file_or_manifest_base_exists
<1> HIDE DEF r
<1>2. t \in Store /\ Apart(t)
  BY <1>1 DEF Store, Apart
<1> HIDE DEF t
<1>3. w \in Store /\ Apart(w)
  BY <1>2 DEF Store, Apart, drop_deltas
<1>4. w = WithDeltas(s, old, new, dir)
  BY DEF WithDeltas, r, t
<1> HIDE DEF w
<1> QED BY <1>3, <1>4, StaysApart DEF PutVersion, Replaced

\* The inductive invariant (Good is AllReadable, said of both tables).
LEMMA Invariance ==
  ASSUME Direction \subseteq {"reverse", "both"}
  PROVE  Spec => []Inv
<1>1. Init => Inv
  BY DEF Init, Inv, Empty, Store, Good, Apart, file_version_exists, delta_exists,
         file_or_manifest_base_exists
<1>2. Inv /\ [Next]_vars => Inv'
  <2> SUFFICES ASSUME Inv, [Next]_vars PROVE Inv'
    OBVIOUS
  <2> USE DEF Inv
  <2>0. direction \in {"reverse", "both"}
    OBVIOUS
  <2>1. ASSUME NEW t, store' = t, t \in Store, Good(t), Apart(t), UNCHANGED saved,
               direction' \in Direction, level' \in Nat, level' = 0 => t = saved
        PROVE  Inv'
    BY <2>1 DEF Good, Apart, Readable, Closed, file_version_exists, delta_exists, file_or_manifest_base_exists
  <2>2. Apart(saved)
    BY DEF Apart, Store
  <2>3. ASSUME Commit, UNCHANGED direction, level' \in Nat PROVE Inv'
    <3>1. store' = flush_delayed_writes(store) /\ saved' = store' /\ direction' = direction
      BY <2>3 DEF Commit
    <3>2. flush_delayed_writes(store) \in Store /\ Good(flush_delayed_writes(store))
      <4>1. CASE File = {}
        BY <4>1, Zenon DEF Good, flush_delayed_writes, Store
      <4>2. CASE File # {}
        BY <4>2, Scheduling, GoodSame
      <4> QED BY <4>1, <4>2
    <3>3. flush_delayed_writes(store).delayed = {} /\ Apart(flush_delayed_writes(store))
      BY DEF flush_delayed_writes, Apart, Store
    <3> QED BY <2>3, <3>1, <3>2, <3>3, Zenon DEF Good, Apart, Readable, Closed, file_version_exists, delta_exists, file_or_manifest_base_exists
  <2>4. CASE begin_transaction
    BY <2>4, <2>1 DEF begin_transaction
  <2>5. CASE commit_transaction
    <3>1. CASE level = 1
      BY <2>5, <2>3, <3>1 DEF commit_transaction
    <3>2. CASE level # 1
      <4>1. store' = store /\ saved' = saved /\ direction' = direction /\ level' \in Nat /\ level' # 0
        BY <2>5, <3>2 DEF commit_transaction
      <4> QED BY <4>1, <2>1
    <3> QED BY <3>1, <3>2
  <2>6. CASE rollback_transaction
    <3>1. CASE level = 1
      <4>1. store' = saved /\ saved' = saved /\ direction' = direction /\ level' \in Nat
        BY <2>6, <3>1 DEF rollback_transaction
      <4> QED BY <4>1, <2>1, <2>2
    <3>2. CASE level # 1
      <4>1. store' = store /\ saved' = saved /\ direction' = direction /\ level' \in Nat /\ level' # 0
        BY <2>6, <3>2 DEF rollback_transaction
      <4> QED BY <4>1, <2>1
    <3> QED BY <3>1, <3>2
  <2>7. CASE do_checkpoint
    BY <2>7, <2>3 DEF do_checkpoint
  <2>8. CASE Crash
    BY <2>8, <2>1, <2>2 DEF Crash
  <2>9. ASSUME NEW f \in File, put_file(f) PROVE Inv'
    <3>1. /\ store' = schedule_delayed_file(store, f) /\ UNCHANGED <<saved, direction, level>>
          /\ f \notin store.full /\ level # 0
      BY <2>9 DEF put_file, file_version_exists, file_or_manifest_base_exists
    <3> QED BY <3>1, <2>1, PutFileKeepsGood, StaysApart
  <2>10. ASSUME NEW old \in File, NEW new \in File, put_file_version(old, new) PROVE Inv'
    <3>1. /\ old # new /\ store' = PutVersion(store, old, new, direction)
          /\ UNCHANGED <<saved, direction, level>> /\ level # 0
      BY <2>10 DEF put_file_version
    <3> QED BY <3>1, <2>0, <2>1, PutKeepsGood, PutVersionApart
  <2>11. ASSUME NEW old \in File, NEW new \in File, deltify_revision(old, new) PROVE Inv'
    <3>1. /\ old # new /\ store' = Deltified(store, old, new)
          /\ UNCHANGED <<saved, direction, level>> /\ level # 0
      BY <2>11 DEF deltify_revision
    <3>2. Apart(Deltified(store, old, new))
      <4>1. drop_or_cancel_file(store, new) \in Store /\ Apart(drop_or_cancel_file(store, new))
        BY StaysApart DEF drop_or_cancel_file, Store
      <4>2. drop_deltas(drop_or_cancel_file(store, new), new) \in Store
        BY <4>1 DEF drop_deltas, Store
      <4>3. Apart(drop_deltas(drop_or_cancel_file(store, new), new))
        BY <4>1, StaysApart
      <4> QED BY <2>0, <4>2, <4>3, PutVersionApart DEF Deltified
    <3> QED BY <3>1, <3>2, <2>0, <2>1, DeltifyKeepsGood
  <2>12. ASSUME NEW d \in Direction, SetDirection(d) PROVE Inv'
    BY <2>12, <2>1 DEF SetDirection
  <2>13. CASE UNCHANGED vars
    BY <2>13, <2>1 DEF vars
  <2> QED
    BY <2>4, <2>5, <2>6, <2>7, <2>8, <2>9, <2>10, <2>11, <2>12, <2>13 DEF Next
<1> QED BY <1>1, <1>2, PTL DEF Spec

\* With reverse deltas or both kinds, every version in the database can be
\* put together after any sequence of operations, guards and crashes.
THEOREM VersionsStayReadable ==
  ASSUME Direction \subseteq {"reverse", "both"}
  PROVE  Spec => []AllReadable
<1>1. Inv => AllReadable
  BY DEF Inv, Good, AllReadable
<1> QED BY <1>1, Invariance, PTL

\* Between transactions no delayed text is left, so that the assertion of
\* begin_transaction never fails.
THEOREM NothingLeftPending ==
  ASSUME Direction \subseteq {"reverse", "both"}
  PROVE  Spec => []NothingPending
<1>1. Inv => NothingPending
  BY DEF Inv, NothingPending
<1> QED BY <1>1, Invariance, PTL

\* The store implements the abstract transactional store: a step on the
\* tables is a put, an end of a guard, or changes only how versions are kept.
THEOREM StoreKeepsPromise ==
  ASSUME Direction \subseteq {"reverse", "both"}
  PROVE  Spec => KeepsPromise
<1>1. Init => Promise!Init
  <2> SUFFICES ASSUME Init PROVE Promise!Init
    OBVIOUS
  <2>1. Empty \in Store /\ Good(Empty) /\ Exists(Empty) = {}
    BY DEF Empty, Store, Good, Exists, file_version_exists, delta_exists, file_or_manifest_base_exists
  <2>2. Readable(store) = {} /\ Readable(saved) = {} /\ level = 0
    BY <2>1, ReadableExists DEF Init
  <2> QED BY <2>2 DEF Promise!Init
<1>2. Inv /\ Inv' /\ [Next]_vars => [Promise!Next]_(Promise!vars)
  <2> SUFFICES ASSUME Inv, Inv', [Next]_vars PROVE [Promise!Next]_(Promise!vars)
    OBVIOUS
  <2>0. direction \in {"reverse", "both"}
    BY DEF Inv
  <2>1. /\ Readable(store) = Exists(store) /\ Readable(saved) = Exists(saved)
        /\ Readable(store)' = Exists(store') /\ Readable(saved)' = Exists(saved')
    <3>1. store' \in Store /\ saved' \in Store /\ Good(store') /\ Good(saved')
      BY Zenon DEF Inv, Good, Readable, Closed, file_version_exists, delta_exists, file_or_manifest_base_exists
    <3>2. Readable(store') = Exists(store') /\ Readable(saved') = Exists(saved')
      BY <3>1, ReadableExists
    <3>3. Readable(store) = Exists(store) /\ Readable(saved) = Exists(saved)
      BY ReadableExists DEF Inv
    <3> QED BY <3>2, <3>3 DEF Readable, Closed
  <2>2. CASE begin_transaction
    BY <2>1, <2>2 DEF begin_transaction, Promise!Next, Promise!Begin
  <2>3. ASSUME Commit PROVE Exists(store') = Exists(store) /\ Exists(saved') = Exists(store)
    <3>1. Exists(flush_delayed_writes(store)) = Exists(store)
      BY DEF Inv, Store, flush_delayed_writes, Exists, file_version_exists, delta_exists, file_or_manifest_base_exists
    <3> QED BY <2>3, <3>1 DEF Commit
  <2>4. CASE commit_transaction
    <3>1. CASE level = 1
      BY <2>1, <2>3, <2>4, <3>1 DEF commit_transaction, Promise!Next, Promise!Commit
    <3>2. CASE level # 1
      BY <2>1, <2>4, <3>2 DEF commit_transaction, Promise!Next, Promise!Commit
    <3> QED BY <3>1, <3>2
  <2>5. CASE rollback_transaction
    BY <2>1, <2>5 DEF rollback_transaction, Promise!Next, Promise!Rollback
  <2>6. CASE do_checkpoint
    BY <2>1, <2>3, <2>6 DEF do_checkpoint, Promise!Next, Promise!Checkpoint
  <2>7. CASE Crash
    BY <2>1, <2>7 DEF Crash, Promise!Next, Promise!Crash
  <2>8. ASSUME NEW f \in File, level > 0, UNCHANGED <<saved, level>>,
               Exists(store') = Exists(store) \cup {f}
        PROVE  Promise!Next
    BY <2>1, <2>8 DEF Promise!Next, Promise!Put
  <2>9. ASSUME NEW f \in File, put_file(f) PROVE Promise!Next
    BY <2>8, <2>9, PutFileExists DEF put_file, Inv
  <2>10. ASSUME NEW old \in File, NEW new \in File, put_file_version(old, new) PROVE Promise!Next
    <3>1. Exists(store') = Exists(store) \cup {old, new} /\ old \in Exists(store)
      BY <2>0, <2>10, PutVersionExists DEF put_file_version, Exists, Inv
    <3> QED BY <2>8, <2>10, <3>1 DEF put_file_version
  <2>11. ASSUME NEW old \in File, NEW new \in File, deltify_revision(old, new)
         PROVE  UNCHANGED Promise!vars
    <3>1. Exists(store') = Exists(store)
      BY <2>0, <2>1, <2>11, DeltifyExists DEF deltify_revision, Inv
    <3> QED BY <2>1, <2>11, <3>1 DEF deltify_revision, Promise!vars
  <2>12. ASSUME NEW d \in Direction, SetDirection(d) PROVE UNCHANGED Promise!vars
    BY <2>1, <2>12 DEF SetDirection, Promise!vars
  <2>13. CASE UNCHANGED vars
    BY <2>1, <2>13 DEF vars, Promise!vars
  <2> QED
    BY <2>2, <2>4, <2>5, <2>6, <2>7, <2>9, <2>10, <2>11, <2>12, <2>13 DEF Next
<1> QED BY <1>1, <1>2, Invariance, PTL DEF Spec, KeepsPromise, Promise!Spec
=============================================================================
