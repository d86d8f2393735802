------------------------------ MODULE Marking ------------------------------
(***************************************************************************)
(* Markings (roster.cc): for every scalar of a node (its place, its        *)
(* content, an attribute) the revisions that last decided its value.       *)
(***************************************************************************)

mark_unmerged_scalar(parent_marks, parent_val, new_rid, new_val) ==
  IF parent_val = new_val THEN parent_marks ELSE {new_rid}

\* The value b wins over a: the merge decided it unless b had seen all that
\* decided a.
mark_won_merge(a_marks, a_uncommon_ancestors, b_marks, new_rid) ==
  IF a_marks \cap a_uncommon_ancestors # {} THEN {new_rid} ELSE b_marks

\* A side is [val, marks, uncommon].
mark_merged_scalar(left, right, new_rid, new_val) ==
  CASE new_val # left.val /\ new_val # right.val -> {new_rid}
    [] new_val # left.val /\ new_val = right.val ->
         mark_won_merge(left.marks, left.uncommon, right.marks, new_rid)
    [] new_val = left.val /\ new_val # right.val ->
         mark_won_merge(right.marks, right.uncommon, left.marks, new_rid)
    [] OTHER -> left.marks \cup right.marks
=============================================================================
