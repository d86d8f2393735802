---------------------------- MODULE RosterStore ----------------------------
(***************************************************************************)
(* The rosters of a database: full rosters and deltas in the tables, and   *)
(* the write-back cache (lru_writeback_cache.hh) in front of them, which   *)
(* holds new rosters until the transaction ends or they are evicted.  A    *)
(* roster gives every live node its content and its marking; the history,  *)
(* which the identifiers fix, is chosen in Init.                           *)
(***************************************************************************)
EXTENDS Marking, FiniteSets, Integers, SequencesExt

CONSTANTS
  Rev, Node,
  Edges,      \* the parents of each revision, in the order of the edge map
  Histories,  \* what each revision may have in each node
  CacheSize,  \* rosters the cache holds (db_roster_cache_sz)
  MaxLevel    \* bound on nested guards

ASSUME CacheAssumption == CacheSize \in Nat \ {0}

VARIABLES
  truth,  \* the roster each revision stands for
  db,     \* tables inside the transaction, with the cache
  saved,  \* tables as committed
  level   \* transaction_level

vars == <<truth, db, saved, level>>

Absent == "absent"
Empty == [revisions |-> {}, rosters |-> <<>>, deltas |-> <<>>, list |-> <<>>, dirty |-> {}]

Without(f, k) == [x \in DOMAIN f \ {k} |-> f[x]]
With(f, k, v) == [x \in DOMAIN f \cup {k} |-> IF x = k THEN v ELSE f[x]]

ContentIn(roster, n) == IF n \in DOMAIN roster THEN roster[n].content ELSE Absent

---------------------------------------------------------------------------
(* Making a roster from those of the parents *)

Parents(r) == {Edges[r][i] : i \in DOMAIN Edges[r]}

RECURSIVE Ancestors(_)
Ancestors(r) == {r} \cup UNION {Ancestors(p) : p \in Parents(r)}

\* The marking of node n with content val in revision r, from the parents' rosters.
MarkNode(r, n, val, rosters) ==
  LET from == {p \in Parents(r) : n \in DOMAIN rosters[p]}
      old(p) == rosters[p][n].marking
      side(p, q) == [val |-> rosters[p][n].content, marks |-> old(p).marks,
                     uncommon |-> Ancestors(p) \ Ancestors(q)]
  IN CASE from = {} -> [birth |-> r, marks |-> {r}]
       [] Cardinality(from) = 1 ->
            LET p == CHOOSE p \in from : TRUE
            IN [old(p) EXCEPT !.marks =
                  mark_unmerged_scalar(@, rosters[p][n].content, r, val)]
       [] OTHER ->
            LET p == Edges[r][1]  q == Edges[r][2]
            IN [old(p) EXCEPT !.marks = mark_merged_scalar(side(p, q), side(q, p), r, val)]

make_roster(r, contents, rosters) ==
  [n \in {m \in Node : contents[m] # Absent} |->
     [content |-> contents[n], marking |-> MarkNode(r, n, contents[n], rosters)]]

\* No node comes back: it is in a parent or unborn there.
Sensible(contents) ==
  \A r \in Rev, n \in Node : contents[r][n] # Absent =>
    \/ \A p \in Parents(r) : contents[p][n] # Absent
    \/ \A p \in Parents(r) : contents[p][n] = Absent =>
         \A a \in Ancestors(p) : contents[a][n] = Absent

Truth(contents) ==
  LET T[k \in 0..Cardinality(Rev)] ==
        IF k = 0 THEN [r \in Rev |-> <<>>]
        ELSE [r \in Rev |-> make_roster(r, contents[r], T[k - 1])]
  IN T[Cardinality(Rev)]

---------------------------------------------------------------------------
(* Roster deltas *)

Touched(from, to) == {n \in Node : ContentIn(from, n) # ContentIn(to, n)}

MarksChanged(from, to) ==
  {n \in DOMAIN to : n \notin DOMAIN from \/ from[n].marking # to[n].marking}

Delta(from, to, nodes) ==
  [content |-> [n \in Touched(from, to) |-> ContentIn(to, n)],
   marking |-> [n \in MarksChanged(from, to) \cap nodes |-> to[n].marking]]

delta_rosters_Constrained(from, to, num_edges) == Delta(from, to, Touched(from, to))

\* With one edge only the nodes of its cset are looked at.
delta_rosters(from, to, num_edges) ==
  Delta(from, to, IF num_edges > 1 THEN Node ELSE Touched(from, to))

apply_roster_delta(del, roster) ==
  LET here == {n \in Node :
                 IF n \in DOMAIN del.content THEN del.content[n] # Absent ELSE n \in DOMAIN roster}
  IN [n \in here |->
        [content |-> IF n \in DOMAIN del.content THEN del.content[n] ELSE roster[n].content,
         marking |-> IF n \in DOMAIN del.marking THEN del.marking[n] ELSE roster[n].marking]]

---------------------------------------------------------------------------
(* The write-back cache: list is most recently used first *)

exists(s, k) == \E i \in DOMAIN s.list : s.list[i].key = k

fetch(s, k) == s.list[CHOOSE i \in DOMAIN s.list : s.list[i].key = k].data

touch(s, k) ==
  [s EXCEPT !.list = <<[key |-> k, data |-> fetch(s, k)]>> \o SelectSeq(@, LAMBDA e : e.key # k)]

writeout(s, e) == [s EXCEPT !.rosters = With(@, e.key, e.data)]

insert_clean_NoWriteout(s, k, data) ==
  LET t == [s EXCEPT !.list = <<[key |-> k, data |-> data]>> \o @]
      e == Last(t.list)
  IN IF Len(t.list) <= CacheSize THEN t
     ELSE [t EXCEPT !.list = Front(@), !.dirty = @ \ {e.key}]

\* One roster is evicted when there are too many, and written if dirty.
insert_clean(s, k, data) ==
  LET t == [s EXCEPT !.list = <<[key |-> k, data |-> data]>> \o @]
      e == Last(t.list)
      w == IF e.key \in t.dirty THEN writeout(t, e) ELSE t
  IN IF Len(t.list) <= CacheSize THEN t
     ELSE [w EXCEPT !.list = Front(@), !.dirty = @ \ {e.key}]

insert_dirty(s, k, data) == [insert_clean(s, k, data) EXCEPT !.dirty = @ \cup {k}]

clean_all(s) ==
  [s EXCEPT !.rosters = [k \in DOMAIN @ \cup s.dirty |->
                           IF k \in s.dirty THEN fetch(s, k) ELSE @[k]],
            !.dirty = {}]

clear_and_drop_writes_Dirty(s) == [s EXCEPT !.dirty = {}]

clear_and_drop_writes(s) == [s EXCEPT !.list = <<>>, !.dirty = {}]

---------------------------------------------------------------------------
(* Reading *)

roster_base_stored(s, r) == r \in s.dirty \/ r \in DOMAIN s.rosters

roster_base_available(s, r) == exists(s, r) \/ r \in DOMAIN s.rosters

Bases(s, r) == {b \in Rev : <<r, b>> \in DOMAIN s.deltas}

roster_version_exists(s, r) == Bases(s, r) # {} \/ roster_base_available(s, r)

BaseRoster(s, r) == IF exists(s, r) THEN fetch(s, r) ELSE s.rosters[r]

\* The paths along deltas, up to the first roster at hand.
Paths(s, r) ==
  LET P[k \in 0..Cardinality(Rev)] ==
        IF k = 0 THEN {<<r>>}
        ELSE LET Q == P[k - 1]
             IN Q \cup UNION {{Append(p, b) : b \in Bases(s, Last(p))} :
                                p \in {q \in Q : ~ roster_base_available(s, Last(q))}}
  IN {p \in P[Cardinality(Rev)] : roster_base_available(s, Last(p))}

get_reconstruction_path(s, r) ==
  LET paths == Paths(s, r)
  IN CHOOSE p \in paths : \A q \in paths : Len(p) <= Len(q)

Reconstructed(s, r) ==
  LET p == get_reconstruction_path(s, r)
      R[i \in 1..Len(p)] ==
        IF i = Len(p) THEN BaseRoster(s, p[i])
        ELSE apply_roster_delta(s.deltas[<<p[i], p[i + 1]>>], R[i + 1])
  IN R[1]

\* What reading a roster returns, and what it does to the cache.
RosterOf(s, r) == IF exists(s, r) THEN fetch(s, r) ELSE Reconstructed(s, r)

get_roster_version(s, r) ==
  IF exists(s, r) THEN touch(s, r)
  ELSE LET b == Last(get_reconstruction_path(s, r))
           t == IF exists(s, b) THEN touch(s, b) ELSE s
       IN insert_clean(t, r, Reconstructed(s, r))

\* One field of one node: from the nearest deltas, else along the path.
extract_from_deltas(s, r, n, field) ==
  LET near == {b \in Bases(s, r) : n \in DOMAIN s.deltas[<<r, b>>][field]}
      p == get_reconstruction_path(s, r)
      hits == {i \in 1..(Len(p) - 1) : n \in DOMAIN s.deltas[<<p[i], p[i + 1]>>][field]}
      first == CHOOSE i \in hits : \A j \in hits : i <= j
      base == BaseRoster(s, Last(p))
  IN CASE near # {} -> {s.deltas[<<r, b>>][field][n] : b \in near}
       [] near = {} /\ hits # {} -> {s.deltas[<<p[first], p[first + 1]>>][field][n]}
       [] OTHER -> {IF n \in DOMAIN base THEN base[n][field] ELSE Absent}

---------------------------------------------------------------------------
(* Writing *)

\* Each parent stored in full gets a delta against the new roster instead.
DeltifyParent(s, r, roster, old) ==
  LET t == get_roster_version(s, old)
      del == delta_rosters(roster, RosterOf(s, old), Len(Edges[r]))
  IN IF ~ roster_base_stored(s, old) THEN s
     ELSE [t EXCEPT !.dirty = @ \ {old},
                    !.rosters = Without(@, old),
                    !.deltas = With(@, <<old, r>>, del)]

put_roster(s, r, roster) ==
  FoldLeft(LAMBDA t, old : DeltifyParent(t, r, roster, old), insert_dirty(s, r, roster), Edges[r])

\* The rosters of the parents, read in order.
ReadParents(s, r) ==
  FoldLeft(LAMBDA acc, p : [s |-> get_roster_version(acc.s, p),
                            rosters |-> With(acc.rosters, p, RosterOf(acc.s, p))],
           [s |-> s, rosters |-> <<>>], Edges[r])

put_roster_for_revision(s, r) ==
  LET read == ReadParents(s, r)
  IN put_roster(read.s, r, make_roster(r, [n \in Node |-> ContentIn(truth[r], n)], read.rosters))

---------------------------------------------------------------------------
(* Actions *)

Init ==
  /\ truth \in {Truth(c) : c \in {d \in Histories : Sensible(d)}}
  /\ db = Empty /\ saved = Empty /\ level = 0

begin_transaction ==
  /\ level < MaxLevel /\ level' = level + 1
  /\ UNCHANGED <<truth, db, saved>>

\* A roster left over by a local kill is used again.
put_revision(r) ==
  /\ level > 0 /\ r \notin db.revisions /\ Parents(r) \subseteq db.revisions
  /\ LET s == [db EXCEPT !.revisions = @ \cup {r}]
     IN db' = IF roster_version_exists(s, r) THEN s ELSE put_roster_for_revision(s, r)
  /\ UNCHANGED <<truth, saved, level>>

ReadRoster(r) ==
  /\ r \in db.revisions
  /\ db' = get_roster_version(db, r)
  /\ UNCHANGED <<truth, saved, level>>

\* The roster of a killed revision stays.
delete_existing_rev_and_certs(r) ==
  /\ level > 0 /\ r \in db.revisions
  /\ \A c \in db.revisions : r \notin Parents(c)
  /\ db' = [db EXCEPT !.revisions = @ \ {r}]
  /\ UNCHANGED <<truth, saved, level>>

Tables(s) == clear_and_drop_writes(s)

\* The cached rosters stay after a commit, as clean ones.
Commit == db' = clean_all(db) /\ saved' = Tables(clean_all(db))

commit_transaction ==
  /\ level > 0 /\ level' = level - 1
  /\ IF level = 1 THEN Commit ELSE UNCHANGED <<db, saved>>
  /\ UNCHANGED truth

do_checkpoint == level = 1 /\ Commit /\ UNCHANGED <<truth, level>>

rollback_transaction ==
  /\ level > 0 /\ level' = level - 1
  /\ db' = IF level = 1 THEN clear_and_drop_writes([saved EXCEPT !.list = db.list]) ELSE db
  /\ UNCHANGED <<truth, saved>>

Crash ==
  /\ db' = saved /\ level' = 0
  /\ UNCHANGED <<truth, saved>>

Next ==
  \/ begin_transaction \/ commit_transaction \/ do_checkpoint
  \/ rollback_transaction \/ Crash
  \/ \E r \in Rev : put_revision(r) \/ ReadRoster(r) \/ delete_existing_rev_and_certs(r)

Spec == Init /\ [][Next]_vars

---------------------------------------------------------------------------
(* Properties *)

Known(s) == {r \in Rev : roster_version_exists(s, r)}

\* Every revision has a roster, and every roster reads back as it was made,
\* in this process and, as committed, in the next, whatever was cached,
\* evicted, deltified, rolled back or killed in between.
RostersExact ==
  \A s \in {db, saved} :
    /\ s.revisions \subseteq Known(s)
    /\ \A r \in Known(s) : Paths(s, r) # {} /\ RosterOf(s, r) = truth[r]

\* Reading one node from the deltas (get_file_content, get_markings) agrees
\* with reading the whole roster.
ExtractExact ==
  \A r \in db.revisions, n \in Node :
    /\ extract_from_deltas(db, r, n, "content") = {ContentIn(truth[r], n)}
    /\ n \in DOMAIN truth[r] =>
         extract_from_deltas(db, r, n, "marking") = {truth[r][n].marking}

Promise ==
  INSTANCE TransactionalStore
    WITH Item <- Rev, visible <- Known(db), committed <- Known(saved)

\* Rosters keep the promise of TransactionalStore: none disappears but by a
\* rollback or a crash, and then only uncommitted ones.
KeepsPromise == Promise!Spec
=============================================================================
