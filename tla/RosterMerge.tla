---------------------------- MODULE RosterMerge ----------------------------
(***************************************************************************)
(* Merging two rosters (merge_roster.cc), and the markings of a new roster *)
(* (roster.cc).  A side of a merge is [roster, marks, uncommon]: a parent, *)
(* its markings and the ancestors it does not share with the other parent; *)
(* the marks of a node are [birth, name, content, attr].                   *)
(***************************************************************************)
EXTENDS Roster, Marking, FiniteSets

---------------------------------------------------------------------------
(* roster_merge *)

a_wins(b_marks, b_uncommon) == b_marks \cap b_uncommon = {}

merge_scalar_SameUncommon(left, lmarks, L, right, rmarks, R) ==
  CASE left = right \/ a_wins(rmarks, R.uncommon) -> [how |-> "left", val |-> left]
    [] left # right /\ ~ a_wins(rmarks, R.uncommon) /\ a_wins(lmarks, R.uncommon) ->
         [how |-> "right", val |-> right]
    [] OTHER -> [how |-> "conflict", val |-> left]

merge_scalar_Swapped(left, lmarks, L, right, rmarks, R) ==
  CASE left = right \/ (a_wins(lmarks, L.uncommon) /\ ~ a_wins(rmarks, R.uncommon)) ->
         [how |-> "left", val |-> left]
    [] left # right /\ ~ a_wins(lmarks, L.uncommon) /\ a_wins(rmarks, R.uncommon) ->
         [how |-> "right", val |-> right]
    [] OTHER -> [how |-> "conflict", val |-> left]

\* The value both have or the one that wins; a conflict; or neither.
merge_scalar(left, lmarks, L, right, rmarks, R) ==
  LET left_wins == a_wins(rmarks, R.uncommon)
      right_wins == a_wins(lmarks, L.uncommon)
  IN CASE left = right -> [how |-> "left", val |-> left]
       [] left # right /\ left_wins /\ right_wins -> [how |-> "ambiguous", val |-> left]
       [] left # right /\ left_wins /\ ~ right_wins -> [how |-> "left", val |-> left]
       [] left # right /\ ~ left_wins /\ right_wins -> [how |-> "right", val |-> right]
       [] OTHER -> [how |-> "conflict", val |-> left]

\* failed: an I() failed, or an iterator past the end was erased.
NewResult ==
  [r |-> EmptyRoster, failed |-> FALSE, ambiguous |-> FALSE, missing_root |-> FALSE,
   invalid_name |-> {}, directory_loop |-> {}, orphaned_node |-> {}, multiple_name |-> {},
   dropped_modified |-> {}, duplicate_name |-> {}, attribute |-> {}, file_content |-> {}]

has_non_content_conflicts(m) ==
  \/ m.missing_root
  \/ {} # UNION {m.invalid_name, m.directory_loop, m.orphaned_node, m.multiple_name,
                 m.dropped_modified, m.attribute}
  \/ m.duplicate_name # {}

Aborted(m) == m.failed \/ m.ambiguous

is_clean(m) == ~ has_non_content_conflicts(m) /\ m.file_content = {}

\* n is in one parent only: alive if it is unborn in the other, detached and
\* in conflict if it was changed here and dropped there.
insert_if_unborn_Always(m, n, S) ==
  [m EXCEPT !.r = create_node(@, n, S.roster.nodes[n].type, "null")]

insert_if_unborn(m, n, S) ==
  LET created == create_node(m.r, n, S.roster.nodes[n].type, "null")
  IN CASE S.marks[n].birth \in S.uncommon -> [m EXCEPT !.r = created]
       [] S.marks[n].birth \notin S.uncommon /\ S.marks[n].content \cap S.uncommon # {} ->
            [m EXCEPT !.r = created, !.dropped_modified = @ \cup {n}]
       [] OTHER -> m

would_make_dir_loop(r, n, parent) == Above(r, n, parent)

Duplicate(n, other, side, at) ==
  [left |-> IF side = "left" THEN n ELSE other, right |-> IF side = "left" THEN other ELSE n,
   at |-> at]

Orphan_Forgotten(m, n) == m

Orphan(m, n) ==
  IF n \in m.dropped_modified THEN m ELSE [m EXCEPT !.orphaned_node = @ \cup {n}]

\* Neither of two nodes with the same name is attached.
Collide(m, n, other, side, at) ==
  [m EXCEPT !.r = detach_child(@, other),
            !.duplicate_name = @ \cup {Duplicate(n, other, side, at)}]

\* The name is decided; attach the node there, or record why it cannot be.
assign_name(m, n, parent, name, side) ==
  LET attached == [m EXCEPT !.r = attach_node(@, n, parent, name)]
      modified == n \in m.dropped_modified
      child == CHOOSE c \in get_child(m.r, parent, name) : TRUE
  IN IF parent = Null
     THEN IF m.r.root = Null THEN attached
          ELSE [m EXCEPT !.r = detach_node(@, <<>>),
                         !.duplicate_name = @ \cup {Duplicate(n, m.r.root, side, <<Null, "">>)}]
     ELSE CASE parent \notin Ids(m.r) -> Orphan(m, n)
            [] parent \in Ids(m.r) /\ has_child(m.r, parent, name) ->
                 Collide(m, n, child, side, <<parent, name>>)
            [] parent \in Ids(m.r) /\ ~ has_child(m.r, parent, name)
               /\ would_make_dir_loop(m.r, n, parent) ->
                 [m EXCEPT !.directory_loop = @ \cup {n}]
            [] OTHER -> IF modified THEN m ELSE attached

copy_node_forward(m, n, S, side) ==
  LET o == S.roster.nodes[n]
  IN assign_name([m EXCEPT !.r.nodes[n].attr = o.attr, !.r.nodes[n].content = o.content],
                 n, o.parent, o.name, side)

MergeName(m, n, L, R) ==
  LET l == L.roster.nodes[n]
      r == R.roster.nodes[n]
      v == merge_scalar(<<l.parent, l.name>>, L.marks[n].name, L,
                        <<r.parent, r.name>>, R.marks[n].name, R)
  IN CASE v.how = "ambiguous" -> [m EXCEPT !.ambiguous = TRUE]
       [] v.how = "conflict" -> [m EXCEPT !.multiple_name = @ \cup {n}]
       [] OTHER -> assign_name(m, n, v.val[1], v.val[2], v.how)

MergeContent(m, n, L, R) ==
  LET v == merge_scalar(L.roster.nodes[n].content, L.marks[n].content, L,
                        R.roster.nodes[n].content, R.marks[n].content, R)
  IN CASE m.r.nodes[n].type = "dir" -> m
       [] m.r.nodes[n].type = "file" /\ v.how = "ambiguous" -> [m EXCEPT !.ambiguous = TRUE]
       [] m.r.nodes[n].type = "file" /\ v.how = "conflict" ->
            [m EXCEPT !.file_content = @ \cup {n}]
       [] OTHER -> [m EXCEPT !.r.nodes[n].content = v.val]

\* An attribute only one side has seen is taken from there.
MergeAttr(m, n, L, R) ==
  LET l == L.roster.nodes[n].attr
      r == R.roster.nodes[n].attr
      v == merge_scalar(l, L.marks[n].attr, L, r, R.marks[n].attr, R)
      with(a) == [m EXCEPT !.r.nodes[n].attr = a]
  IN CASE r = "unknown" -> with(l)
       [] r # "unknown" /\ l = "unknown" -> with(r)
       [] r # "unknown" /\ l # "unknown" /\ v.how = "ambiguous" -> [m EXCEPT !.ambiguous = TRUE]
       [] r # "unknown" /\ l # "unknown" /\ v.how = "conflict" ->
            [m EXCEPT !.attribute = @ \cup {n}]
       [] OTHER -> with(v.val)

\* A node that was dropped on one side and changed on the other: look at what
\* the dropping side P has under the name it has in K.
Recreated(m, n, K, P) ==
  LET path == get_name(K.roster, n)
      other == get_node(P.roster, path)
      at == IF other = Null THEN <<Null, "">>
            ELSE <<P.roster.nodes[other].parent, P.roster.nodes[other].name>>
      conflicts == {d \in m.duplicate_name : other \in {d.left, d.right}}
  IN CASE get_node(m.r, path) # Null ->
            IF other = Null \/ ~ has_child(m.r, at[1], at[2]) THEN [m EXCEPT !.failed = TRUE]
            ELSE [m EXCEPT !.r = detach_child(@, CHOOSE x \in get_child(m.r, at[1], at[2]) : TRUE)]
       [] get_node(m.r, path) = Null /\ other # Null ->
            IF conflicts = {} THEN [m EXCEPT !.failed = TRUE]
            ELSE [m EXCEPT !.duplicate_name = @ \ {CHOOSE d \in conflicts : TRUE}]
       [] OTHER -> m

RECURSIVE Sorted(_)
Sorted(S) ==
  IF S = {} THEN <<>>
  ELSE LET x == CHOOSE y \in S : \A z \in S : y <= z IN <<x>> \o Sorted(S \ {x})

roster_merge(L, R) ==
  LET ids == Sorted(Ids(L.roster) \cup Ids(R.roster))
      in_left(n) == n \in Ids(L.roster)
      in_right(n) == n \in Ids(R.roster)
      lifecycle(m, n) ==
        IF in_left(n) /\ in_right(n)
        THEN [m EXCEPT !.r = create_node(@, n, L.roster.nodes[n].type, "null")]
        ELSE IF in_left(n) THEN insert_if_unborn(m, n, L)
        ELSE insert_if_unborn(m, n, R)
      fill(m, n) ==
        CASE n \notin Ids(m.r) -> m
          [] n \in Ids(m.r) /\ ~ in_right(n) -> copy_node_forward(m, n, L, "left")
          [] n \in Ids(m.r) /\ ~ in_left(n) -> copy_node_forward(m, n, R, "right")
          [] OTHER -> MergeAttr(MergeContent(MergeName(m, n, L, R), n, L, R), n, L, R)
      recreated(m, n) ==
        IF n \in Ids(L.roster) THEN Recreated(m, n, L, R) ELSE Recreated(m, n, R, L)
      filled == Each(fill, Each(lifecycle, NewResult, ids), ids)
      m == Each(recreated, filled, Sorted(filled.dropped_modified))
  IN CASE m.r.root = Null -> [m EXCEPT !.missing_root = TRUE]
       [] m.r.root # Null /\ has_child(m.r, m.r.root, "_MTN") ->
            [m EXCEPT !.r = detach_node(@, <<"_MTN">>),
                      !.invalid_name = get_child(m.r, m.r.root, "_MTN")]
       [] OTHER -> m

---------------------------------------------------------------------------
(* Markings of a new roster *)

mark_new_node(rid, n) ==
  [birth |-> rid, name |-> {rid}, content |-> IF n.type = "file" THEN {rid} ELSE {},
   attr |-> IF n.attr = "unknown" THEN {} ELSE {rid}]

MarkAttr(marks, old, rid, new) ==
  CASE new = "unknown" -> {}
    [] new # "unknown" /\ old = "unknown" -> {rid}
    [] OTHER -> mark_unmerged_scalar(marks, old, rid, new)

mark_unmerged_node(pm, pn, rid, n) ==
  [birth |-> pm.birth,
   name |-> mark_unmerged_scalar(pm.name, <<pn.parent, pn.name>>, rid, <<n.parent, n.name>>),
   content |-> mark_unmerged_scalar(pm.content, pn.content, rid, n.content),
   attr |-> MarkAttr(pm.attr, pn.attr, rid, n.attr)]

mark_merged_node_LeftOnly(L, R, i, rid, n) ==
  mark_unmerged_node(L.marks[i], L.roster.nodes[i], rid, n)

mark_merged_node(L, R, i, rid, n) ==
  LET l == L.roster.nodes[i]
      r == R.roster.nodes[i]
      scalar(val, marks, S) == [val |-> val, marks |-> marks, uncommon |-> S.uncommon]
  IN [birth |-> L.marks[i].birth,
      name |-> mark_merged_scalar(scalar(<<l.parent, l.name>>, L.marks[i].name, L),
                                  scalar(<<r.parent, r.name>>, R.marks[i].name, R),
                                  rid, <<n.parent, n.name>>),
      content |-> IF n.type = "dir" THEN {}
                  ELSE mark_merged_scalar(scalar(l.content, L.marks[i].content, L),
                                          scalar(r.content, R.marks[i].content, R),
                                          rid, n.content),
      attr |-> CASE r.attr = "unknown" -> MarkAttr(L.marks[i].attr, l.attr, rid, n.attr)
                 [] r.attr # "unknown" /\ l.attr = "unknown" ->
                      MarkAttr(R.marks[i].attr, r.attr, rid, n.attr)
                 [] OTHER -> mark_merged_scalar(scalar(l.attr, L.marks[i].attr, L),
                                                scalar(r.attr, R.marks[i].attr, R), rid, n.attr)]

mark_merge_roster(L, R, rid, merge) ==
  [i \in Ids(merge) |->
     LET n == merge.nodes[i]
         in_left == i \in Ids(L.roster)
         in_right == i \in Ids(R.roster)
     IN CASE ~ in_left /\ ~ in_right -> mark_new_node(rid, n)
          [] ~ in_left /\ in_right -> mark_unmerged_node(R.marks[i], R.roster.nodes[i], rid, n)
          [] in_left /\ ~ in_right -> mark_unmerged_node(L.marks[i], L.roster.nodes[i], rid, n)
          [] OTHER -> mark_merged_node(L, R, i, rid, n)]

mark_roster_with_one_parent(parent, marks, rid, child) ==
  [i \in Ids(child) |->
     IF i \in Ids(parent) THEN mark_unmerged_node(marks[i], parent.nodes[i], rid, child.nodes[i])
     ELSE mark_new_node(rid, child.nodes[i])]
=============================================================================
