---------------------------- MODULE ScalarMarks ----------------------------
(***************************************************************************)
(* One scalar of one node, its place or its content, through a whole       *)
(* history of commits and merges: its value in every revision, Absent      *)
(* where the node does not exist, and its marks by the rules of Marking    *)
(* (roster.cc).  It is what the rosters of MergeHistory come to, scalar by *)
(* scalar, and what merge_roster.cc relies on when it compares marks.      *)
(***************************************************************************)
EXTENDS Marking, Integers

CONSTANTS Val, Absent

VARIABLES
  n,      \* the revisions are 1..n
  anc,    \* ancestors of each, itself included
  val, marks

vars == <<n, anc, val, marks>>

Revs == 1..n

Present(r) == val[r] # Absent

Marked(r) == Present(r) /\ r \in marks[r]

\* No ancestor has the node: it is unborn, not dead.
Unborn(r) == \A a \in anc[r] : ~ Present(a)

Side(p, q) == [val |-> val[p], marks |-> marks[p], uncommon |-> anc[p] \ anc[q]]

Extended(f, x) == [r \in 1..(n + 1) |-> IF r = n + 1 THEN x ELSE f[r]]

\* A new revision with the parents P.
Revision(P) ==
  /\ n' = n + 1
  /\ anc' = Extended(anc, {n + 1} \cup UNION {anc[p] : p \in P})

\* Its value and its marks.
Decided(v, m) == val' = Extended(val, v) /\ marks' = Extended(marks, m)

Init ==
  /\ n = 1 /\ anc = [r \in 1..1 |-> {1}]
  /\ \E v \in Val \cup {Absent} :
       val = [r \in 1..1 |-> v] /\ marks = [r \in 1..1 |-> IF v = Absent THEN {} ELSE {1}]

\* The node does not exist, or no more.
Without == Decided(Absent, {})

\* The node is born.
mark_new_node(P, v) == (\A p \in P : Unborn(p)) /\ Decided(v, {n + 1})

\* It is in the parent p, and unborn in another.
mark_unmerged_node(P, p, v) ==
  /\ Present(p) /\ \A q \in P \ {p} : Unborn(q)
  /\ Decided(v, mark_unmerged_scalar(marks[p], val[p], n + 1, v))

\* It is in both parents.
mark_merged_node(p, q, v) ==
  /\ p # q /\ Present(p) /\ Present(q)
  /\ Decided(v, mark_merged_scalar(Side(p, q), Side(q, p), n + 1, v))

Next ==
  \E p, q \in Revs :
    /\ Revision({p, q})
    /\ \/ Without
       \/ \E v \in Val : \/ mark_new_node({p, q}, v)
                         \/ mark_unmerged_node({p, q}, p, v)
                         \/ mark_merged_node(p, q, v)

Spec == Init /\ [][Next]_vars

---------------------------------------------------------------------------
(* Properties *)

\* The marks of a revision are marked ancestors that had its value, and cover
\* all marked ancestors.
MarksCover ==
  \A r \in Revs : Present(r) =>
    /\ marks[r] # {}
    /\ \A m \in marks[r] : m \in anc[r] /\ Marked(m) /\ val[m] = val[r]
    /\ \A a \in anc[r] : Marked(a) => \E m \in marks[r] : a \in anc[m]

Wins(l, r) == marks[r] \cap (anc[r] \ anc[l]) = {}

\* Two values that differ do not win over each other: merge_scalar calls this
\* "theoretically impossible" and gives up.
NeverAmbiguous ==
  \A l, r \in Revs : Present(l) /\ Present(r) /\ Wins(l, r) /\ Wins(r, l) => val[l] = val[r]
=============================================================================
