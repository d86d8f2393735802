---------------------------- MODULE MergeHistory ----------------------------
(***************************************************************************)
(* Histories that grow from commits and merges, criss-cross ones included. *)
(* A commit or a merge knows the roster it wants; what is stored is the    *)
(* roster rebuilt from the csets of the new revision.                      *)
(***************************************************************************)
EXTENDS RosterMerge, FiniteSets

CONSTANTS
  Plan,      \* [edits, revs]: edits [op, node, parent, name, val] a commit may
             \* make, and the bound on the revisions of a history
  Content,   \* contents a merge of two contents may result in
  Root       \* the roster of the first revision

VARIABLES
  revs,      \* revisions: [parents, wanted, roster, marks]
  plan       \* the plan this history follows

vars == <<revs, plan>>

RECURSIVE Ancestors(_, _)
Ancestors(h, r) == h[r].parents \cup UNION {Ancestors(h, p) : p \in h[r].parents}

Lineage(h, r) == {r} \cup Ancestors(h, r)

Side(h, r, other) ==
  [roster |-> h[r].roster, marks |-> h[r].marks, uncommon |-> Lineage(h, r) \ Lineage(h, other)]

Unrelated(h, l, r) == l \notin Lineage(h, r) /\ r \notin Lineage(h, l)

\* Identities that node_id_source gives to the nodes of revision rid.
FirstId(rid) == 10 * rid
FirstTemp(rid) == 1000 + 10 * rid

---------------------------------------------------------------------------
(* Rosters from csets *)

At(cs, field, r) == {get_node(r, x.path) : x \in cs[field]}

\* The markings as the editing operations change them on the way.
make_roster_for_nonmerge(cs, rid, parent, marks) ==
  LET r == apply_to(cs, parent, FirstId(rid))
      moved == At(cs, "nodes_renamed", parent)
      set == At(cs, "attrs_set", r) \cup At(cs, "attrs_cleared", r)
      old(i) == IF i \in DOMAIN marks THEN marks[i]
                ELSE mark_new_node(rid, NewNode(r.nodes[i].type, "null"))
  IN [roster |-> r,
      marks |-> [i \in Ids(r) |->
                   [birth |-> old(i).birth,
                    name |-> IF i \in moved THEN {rid} ELSE old(i).name,
                    content |-> IF i \in At(cs, "deltas_applied", r) THEN {rid}
                                ELSE old(i).content,
                    attr |-> IF i \in set THEN {rid} ELSE old(i).attr]]]

\* replace_node_id for all nodes at once.
Renumber(r, id) ==
  LET new(i) == IF i \in DOMAIN id THEN id[i] ELSE i
      back(j) == CHOOSE i \in Ids(r) : new(i) = j
  IN [r EXCEPT !.nodes = [j \in {new(i) : i \in Ids(r)} |->
                            [r.nodes[back(j)] EXCEPT !.parent = new(@)]],
               !.root = new(@)]

New(r, base) == {i \in Ids(r) : i > base}

\* A node new in both is a new node, one new in a only is the one that b has
\* at its path.
union_new_nodes(a, b, base, rid) ==
  [i \in New(a, base) |->
     LET j == get_node(b, get_name(a, i))
     IN IF j \in New(b, base) THEN FirstId(rid) + Cardinality({k \in New(a, base) : k <= i}) ELSE j]

union_corpses(a, b) ==
  [a EXCEPT !.nodes = [i \in Ids(a) |->
     IF a.nodes[i].attr = "unknown" /\ i \in Ids(b) /\ b.nodes[i].attr = "dead"
     THEN [a.nodes[i] EXCEPT !.attr = "dead"] ELSE a.nodes[i]]]

unify_rosters(a, b, base, rid) ==
  LET b_of_a == union_new_nodes(a, b, base, rid)
      a1 == Renumber(a, b_of_a)
      b1 == Renumber(b, [j \in New(b, base) |-> get_node(a1, get_name(b, j))])
  IN <<union_corpses(a1, b1), union_corpses(b1, a1)>>

make_roster_for_merge(L, left_cs, R, right_cs, rid) ==
  LET both == unify_rosters(apply_to(left_cs, L.roster, FirstTemp(rid)),
                            apply_to(right_cs, R.roster, FirstTemp(rid)), FirstTemp(rid), rid)
      r == Check(both[1], both[1] = both[2])
  IN [roster |-> r, marks |-> mark_merge_roster(L, R, rid, r)]

---------------------------------------------------------------------------
(* Edits of a workspace *)

Possible(e, r) ==
  /\ e.node \in Ids(r)
  /\ e.op = "drop" => e.node # r.root /\ \A n \in Ids(r) : r.nodes[n].parent # e.node
  /\ e.op = "patch" => r.nodes[e.node].content # e.val
  /\ e.op = "attr" => IF Alive(e.val) THEN r.nodes[e.node].attr # e.val
                      ELSE Alive(r.nodes[e.node].attr)
  /\ e.op = "pivot" => e.node # r.root /\ ~ has_child(r, e.node, e.name)
                       /\ ~ has_child(r, e.node, "_MTN")
  /\ e.op \in {"move", "add"} =>
       /\ e.parent \in Ids(r) /\ ~ has_child(r, e.parent, e.name)
       /\ e.op = "move" => e.node # r.root /\ ~ Above(r, e.node, e.parent)

Edited(e, r, rid) ==
  LET place(t, n) == [t EXCEPT !.nodes[n].parent = e.parent, !.nodes[n].name = e.name]
  IN CASE e.op = "drop" -> [r EXCEPT !.nodes = Without(@, e.node)]
       [] e.op = "patch" -> [r EXCEPT !.nodes[e.node].content = e.val]
       [] e.op = "attr" -> [r EXCEPT !.nodes[e.node].attr = e.val]
       [] e.op = "move" -> place(r, e.node)
       [] e.op = "add" -> place(create_node(r, FirstId(rid) + 1, "file", e.val), FirstId(rid) + 1)
       [] e.op = "pivot" ->
            [r EXCEPT !.root = e.node, !.nodes[e.node].parent = Null, !.nodes[e.node].name = "",
                      !.nodes[r.root].parent = e.node, !.nodes[r.root].name = e.name]

---------------------------------------------------------------------------

Init ==
  /\ plan \in Plan
  /\ revs = <<[parents |-> {}, wanted |-> Root, roster |-> Root,
               marks |-> [i \in Ids(Root) |-> mark_new_node(1, Root.nodes[i])]]>>

Commit(p, e) ==
  /\ Len(revs) < plan.revs
  /\ Possible(e, revs[p].roster)
  /\ \E rid \in {Len(revs) + 1} : \E wanted \in {Edited(e, revs[p].roster, rid)} :
     \E new \in {make_roster_for_nonmerge(cset(revs[p].roster, wanted), rid,
                                          revs[p].roster, revs[p].marks)} :
       revs' = Append(revs, [parents |-> {p}, wanted |-> wanted] @@ new)
  /\ UNCHANGED plan

\* A merge without conflicts, or with content conflicts that are resolved.
Merge(l, r) ==
  /\ Len(revs) < plan.revs /\ l < r /\ Unrelated(revs, l, r)
  /\ \E L \in {Side(revs, l, r)}, R \in {Side(revs, r, l)} : \E m \in {roster_merge(L, R)} :
       /\ ~ Aborted(m) /\ ~ has_non_content_conflicts(m)
       /\ \E f \in [m.file_content -> Content] :
          \E w \in {[m.r EXCEPT !.nodes = [i \in Ids(m.r) |->
                       IF i \in m.file_content THEN [@[i] EXCEPT !.content = f[i]] ELSE @[i]]]} :
          \E new \in {make_roster_for_merge(L, cset(L.roster, w), R, cset(R.roster, w),
                                            Len(revs) + 1)} :
            revs' = Append(revs, [parents |-> {l, r}, wanted |-> w] @@ new)
  /\ UNCHANGED plan

Next ==
  \/ \E p \in DOMAIN revs, e \in plan.edits : Commit(p, e)
  \/ \E l, r \in DOMAIN revs : Merge(l, r)

Spec == Init /\ [][Next]_vars

---------------------------------------------------------------------------
(* Properties, of the newest revision and of its merges with others *)

newest == Len(revs)

Merged(l, r) == roster_merge(Side(revs, l, r), Side(revs, r, l))

\* For every revision unrelated to the newest one, and every merge of them.
ForMerges(P(_, _)) ==
  \A l \in DOMAIN revs : Unrelated(revs, l, newest) =>
    \A m \in {Merged(l, newest)} : P(l, m)

\* The roster rebuilt from csets, by paths and without identities, is the one
\* that was committed or merged; markings kept up while editing are those
\* that comparing the two rosters gives.
RebuiltExact ==
  LET v == revs[newest]
  IN /\ v.roster = v.wanted /\ check_sane(v.roster)
     /\ \A p \in v.parents : v.parents = {p} =>
          v.marks = mark_roster_with_one_parent(revs[p].roster, revs[p].marks, newest, v.roster)

InConflict(m) ==
  UNION {m.invalid_name, m.directory_loop, m.orphaned_node, m.multiple_name, m.dropped_modified}
  \cup UNION {{d.left, d.right} : d \in m.duplicate_name}

\* A clean merge is a sane tree ("this roster is sane if is_clean() returns
\* true"), no scalar is won by both sides ("theoretically impossible"), and a
\* node left out of the tree is named by a conflict or lies below one that
\* is; unless the merge recreates a dropped file or has no root.
MergeSane ==
  ForMerges(LAMBDA l, m :
    /\ ~ m.ambiguous
    /\ is_clean(m) /\ ~ m.failed => check_sane(m.r)
    /\ m.dropped_modified = {} /\ ~ m.missing_root =>
         \A n \in Ids(m.r) :
           \E d \in InConflict(m) \cup {m.r.root} : d \in Ids(m.r) /\ Above(m.r, d, n))

\* It makes no difference which parent is the left one.
MergeSymmetric ==
  ForMerges(LAMBDA l, m :
    LET o == Merged(newest, l)
    IN /\ is_clean(m) = is_clean(o) /\ Aborted(m) = Aborted(o)
       /\ is_clean(m) /\ ~ Aborted(m) => m.r = o.r)

\* A node that an ancestor of one side had and that side has no more stays
\* dead, unless the other side changed it, which is a conflict.
DeadStayDead ==
  ForMerges(LAMBDA l, m : \A n \in Ids(m.r), s \in {l, newest} :
    n \notin Ids(revs[s].roster) /\ (\E a \in Ancestors(revs, s) : n \in Ids(revs[a].roster)) =>
      n \in m.dropped_modified)

Base(l, r) ==
  LET C == Lineage(revs, l) \cap Lineage(revs, r)
  IN {c \in C : \A d \in C : c \notin Ancestors(revs, d)}

ThreeWay(b, x, y) == IF x = b THEN y ELSE x

\* With a single least common ancestor, a merge that is clean is the
\* three-way merge with it as the base: of what is there, and of every scalar.
AgreesWithThreeWay ==
  ForMerges(LAMBDA l, m : is_clean(m) /\ ~ Aborted(m) => \A b \in Base(l, newest) :
    Base(l, newest) = {b} =>
      LET A == revs[b].roster.nodes
          L == revs[l].roster.nodes
          R == revs[newest].roster.nodes
          fields == {"parent", "name", "content", "attr"}
      IN /\ Ids(m.r) = (DOMAIN L \cap DOMAIN R)
                       \cup ((DOMAIN L \cup DOMAIN R) \ DOMAIN A)
         /\ \A n \in DOMAIN A \cap Ids(m.r), f \in fields :
              m.r.nodes[n][f] = ThreeWay(A[n][f], L[n][f], R[n][f]))

Places ==
  {<<Root.nodes[n].parent, Root.nodes[n].name>> : n \in Ids(Root)}
  \cup UNION {{<<e.parent, e.name>> : e \in p.edits} \cup {<<e.node, e.name>> : e \in p.edits}
              : p \in Plan}

ValueOf(n, f, r) ==
  CASE n \notin Ids(r) -> <<>>
    [] f = "name" -> <<r.nodes[n].parent, r.nodes[n].name>>
    [] OTHER -> <<r.nodes[n].content>>

Scalar(n, f) ==
  INSTANCE ScalarMarks WITH
    Val <- IF f = "name" THEN Places ELSE {<<c>> : c \in Content},
    Absent <- <<>>, n <- Len(revs),
    anc <- [r \in DOMAIN revs |-> Lineage(revs, r)],
    val <- [r \in DOMAIN revs |-> ValueOf(n, f, revs[r].roster)],
    marks <- [r \in DOMAIN revs |-> IF n \in Ids(revs[r].roster)
                                    THEN revs[r].marks[n][f] ELSE {}]

Files == {n \in Ids(Root) : Root.nodes[n].type = "file"}

\* The place of every node and the content of every file go through a history
\* as the scalar of ScalarMarks does: the store's markings, made by editing
\* rosters and by merging them, are the ones its theorems are about.
MarksByRule ==
  /\ \A n \in Ids(Root) : Scalar(n, "name")!Init
  /\ \A n \in Files : Scalar(n, "content")!Init
  /\ [][/\ \A n \in Ids(Root) : Scalar(n, "name")!Next
        /\ \A n \in Files : Scalar(n, "content")!Next]_vars

\* Looking for a recreated file always finds what the code expects: the node
\* in the other parent, or the duplicate name conflict to delete.
RecreatedFound == ForMerges(LAMBDA l, m : ~ m.failed)
=============================================================================
