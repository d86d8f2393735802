------------------------ MODULE ScalarMarks_proofs ------------------------
(***************************************************************************)
(* The mark-merge of a scalar is never ambiguous, in any history.          *)
(***************************************************************************)
EXTENDS ScalarMarks, TLAPS, WellFoundedInduction

\* The types, and ancestry as an order that agrees with the numbering.
Typed ==
  /\ n \in Nat \ {0}
  /\ anc \in [Revs -> SUBSET Revs]
  /\ val \in [Revs -> Val \cup {Absent}]
  /\ marks \in [Revs -> SUBSET Revs]
  /\ \A r \in Revs : r \in anc[r] /\ \A a \in anc[r] : a <= r /\ anc[a] \subseteq anc[r]

IInv == Typed /\ MarksCover

---------------------------------------------------------------------------

\* A bounded set of numbers that is not empty has a greatest element.
LEMMA Greatest ==
  ASSUME NEW N \in Nat, NEW S \in SUBSET (1..N), S # {}
  PROVE  \E x \in S : \A y \in S : y <= x
<1> DEFINE T == {N - y : y \in S}
<1>1. T \subseteq Nat /\ T # {}
  <2>1. \A y \in S : N - y \in Nat
    OBVIOUS
  <2> QED
    BY <2>1, Zenon
<1> DEFINE R == OpToRel(<, Nat)
<1>2. PICK t \in T : \A u \in T : ~ (<<u, t>> \in R)
  <2>1. IsWellFoundedOn(R, Nat)
    BY NatLessThanWellFounded, Zenon
  <2> HIDE DEF R, T
  <2> QED
    BY <1>1, <2>1, WFMin, Zenon
<1>3. \A u \in T : t <= u
  <2> SUFFICES ASSUME NEW u \in T, ~ (t <= u) PROVE FALSE
    OBVIOUS
  <2>1. u \in Nat /\ t \in Nat /\ u < t
    BY <1>1
  <2>2. <<u, t>> \in R
    BY <2>1 DEF OpToRel
  <2> QED
    BY <1>2, <2>2, Zenon
<1>4. PICK x \in S : t = N - x
  OBVIOUS
<1>5. \A y \in S : N - x <= N - y
  BY <1>3, <1>4, Zenon
<1> QED
  BY <1>5

\* If all that decided l lies in r, and all that decided r in l, the last of
\* these decisions decided both.
LEMMA LastDecision == IInv => NeverAmbiguous
<1> SUFFICES ASSUME IInv, NEW l \in Revs, NEW r \in Revs,
                    Present(l), Present(r), Wins(l, r), Wins(r, l)
             PROVE  val[l] = val[r]
  BY DEF NeverAmbiguous
<1> USE DEF IInv
<1>1. marks[l] \subseteq anc[r] /\ marks[r] \subseteq anc[l]
  BY DEF Wins, MarksCover, Typed
<1>2. PICK x \in marks[l] \cup marks[r] : \A y \in marks[l] \cup marks[r] : y <= x
  <2>1. marks[l] \cup marks[r] \in SUBSET (1..n) /\ marks[l] \cup marks[r] # {} /\ n \in Nat
    <3>1. marks[l] # {} /\ marks[l] \subseteq Revs /\ marks[r] \subseteq Revs /\ n \in Nat
      BY DEF MarksCover, Typed
    <3> QED
      BY <3>1 DEF Revs
  <2> QED
    BY <2>1, Greatest, Zenon
<1>3. ASSUME NEW p \in {l, r}, NEW q \in {l, r}, x \in marks[p], marks[p] \subseteq anc[q]
      PROVE  val[p] = val[q]
  <2>1. x \in anc[q] /\ x \in Revs /\ Marked(x) /\ val[x] = val[p]
    BY <1>3 DEF MarksCover, Typed
  <2>2. PICK m \in marks[q] : x \in anc[m]
    BY <2>1 DEF MarksCover
  <2>3. m \in Revs /\ x <= m /\ m <= x /\ val[m] = val[q]
    BY <1>2, <2>2 DEF MarksCover, Typed
  <2>4. x = m
    BY <2>1, <2>3 DEF Typed, Revs
  <2> QED
    BY <2>1, <2>3, <2>4
<1> QED
  BY <1>1, <1>2, <1>3

---------------------------------------------------------------------------

\* What a new revision does to the types and to the revisions before it.
LEMMA Grows ==
  ASSUME Typed, NEW P \in SUBSET Revs, P # {}, NEW v \in Val \cup {Absent},
         NEW m \in SUBSET (1..(n + 1)), Revision(P), Decided(v, m)
  PROVE  /\ Typed'
         /\ Revs' = Revs \cup {n + 1} /\ n + 1 \notin Revs
         /\ \A r \in Revs : anc'[r] = anc[r] /\ val'[r] = val[r] /\ marks'[r] = marks[r]
         /\ anc'[n + 1] = {n + 1} \cup UNION {anc[p] : p \in P}
         /\ val'[n + 1] = v /\ marks'[n + 1] = m
<1> DEFINE new == n + 1
<1>1. n \in Nat \ {0} /\ Revs = 1..n /\ Revs' = 1..new /\ Revs' = Revs \cup {new} /\ new \notin Revs
  BY DEF Typed, Revs, Revision
<1>2. /\ \A r \in Revs : anc'[r] = anc[r] /\ val'[r] = val[r] /\ marks'[r] = marks[r]
      /\ anc'[new] = {new} \cup UNION {anc[p] : p \in P}
      /\ val'[new] = v /\ marks'[new] = m
  BY <1>1 DEF Revision, Decided, Extended
<1>3. UNION {anc[p] : p \in P} \subseteq Revs
  BY DEF Typed
<1>4. anc' \in [Revs' -> SUBSET Revs']
  <2>1. \A r \in 1..new : (IF r = new THEN {new} \cup UNION {anc[p] : p \in P} ELSE anc[r])
                            \in SUBSET (1..new)
    BY <1>1, <1>3 DEF Typed
  <2> QED
    BY <2>1, <1>1 DEF Revision, Decided, Extended
<1>5. val' \in [Revs' -> Val \cup {Absent}]
  BY <1>1 DEF Typed, Revision, Decided, Extended
<1>6. marks' \in [Revs' -> SUBSET Revs']
  <2>1. \A r \in 1..new : (IF r = new THEN m ELSE marks[r]) \in SUBSET (1..new)
    BY <1>1 DEF Typed
  <2> QED
    BY <2>1, <1>1 DEF Revision, Decided, Extended
<1>7. ASSUME NEW r \in Revs'
      PROVE  r \in anc'[r] /\ \A a \in anc'[r] : a <= r /\ anc'[a] \subseteq anc'[r]
  <2>1. CASE r \in Revs
    <3>1. anc[r] \subseteq Revs
      BY <2>1 DEF Typed
    <3> QED
      BY <2>1, <3>1, <1>2 DEF Typed
  <2>2. CASE r = new
    <3>1. \A p \in P : \A a \in anc[p] : a \in Revs /\ anc[a] \subseteq anc[p]
      BY DEF Typed
    <3>2. \A a \in Revs : a <= new
      BY <1>1
    <3>3. \A p \in P : \A a \in anc[p] : a <= new /\ anc'[a] \subseteq anc'[new]
      BY <3>1, <3>2, <1>2
    <3> QED
      BY <2>2, <3>3, <1>1, <1>2
  <2> QED
    BY <2>1, <2>2, <1>1
<1>8. n' \in Nat \ {0}
  BY <1>1 DEF Revision
<1> QED
  BY <1>1, <1>2, <1>4, <1>5, <1>6, <1>7, <1>8 DEF Typed

\* A step that adds a revision keeps MarksCover if its marks decide its value
\* and cover what its parents have seen.
LEMMA CoverGrows ==
  ASSUME IInv, NEW P \in SUBSET Revs, P # {}, NEW v \in Val \cup {Absent},
         NEW m \in SUBSET (1..(n + 1)), Revision(P), Decided(v, m),
         v # Absent =>
           \/ m = {n + 1}
           \/ /\ m # {} /\ m \subseteq Revs
              /\ \A k \in m : (\E p \in P : k \in anc[p]) /\ Marked(k) /\ val[k] = v
              /\ \A p \in P : \A a \in anc[p] : Marked(a) => \E k \in m : a \in anc[k]
  PROVE  IInv'
<1>0. PICK new : new = n + 1
  OBVIOUS
<1>1. /\ Typed'
      /\ Revs' = Revs \cup {new} /\ new \notin Revs
      /\ \A r \in Revs : anc'[r] = anc[r] /\ val'[r] = val[r] /\ marks'[r] = marks[r]
      /\ anc'[new] = {new} \cup UNION {anc[p] : p \in P}
      /\ val'[new] = v /\ marks'[new] = m
  BY <1>0, Grows, Zenon DEF IInv
<1>2. /\ \A r \in Revs : anc[r] \subseteq Revs /\ marks[r] \subseteq Revs
      /\ \A r \in Revs : Present(r)' = Present(r) /\ Marked(r)' = Marked(r)
  BY <1>1 DEF IInv, Typed, Present, Marked
<1>3. ASSUME NEW r \in Revs, Present(r)'
      PROVE  /\ marks'[r] # {}
             /\ \A k \in marks'[r] : k \in anc'[r] /\ Marked(k)' /\ val'[k] = val'[r]
             /\ \A a \in anc'[r] : Marked(a)' => \E k \in marks'[r] : a \in anc'[k]
  BY <1>1, <1>2, <1>3 DEF IInv, MarksCover
<1>4. ASSUME Present(new)'
      PROVE  /\ marks'[new] # {}
             /\ \A k \in marks'[new] : k \in anc'[new] /\ Marked(k)' /\ val'[k] = val'[new]
             /\ \A a \in anc'[new] : Marked(a)' => \E k \in marks'[new] : a \in anc'[k]
  <2>1. v # Absent
    BY <1>1, <1>4 DEF Present
  <2>2. CASE m = {n + 1}
    BY <1>0, <1>1, <1>4, <2>2 DEF Marked
  <2>3. CASE /\ m # {} /\ m \subseteq Revs
             /\ \A k \in m : (\E p \in P : k \in anc[p]) /\ Marked(k) /\ val[k] = v
             /\ \A p \in P : \A a \in anc[p] : Marked(a) => \E k \in m : a \in anc[k]
    <3>1. ~ Marked(new)'
      BY <1>1, <2>3, Zenon DEF Marked
    <3>2. \A k \in m : k \in anc'[new] /\ Marked(k)' /\ val'[k] = val'[new]
      BY <1>1, <1>2, <2>3
    <3>3. ASSUME NEW a \in anc'[new], Marked(a)'
          PROVE  \E k \in m : a \in anc'[k]
      <4>1. PICK p \in P : a \in anc[p]
        BY <1>1, <3>1, <3>3
      <4>2. a \in Revs /\ Marked(a)
        BY <1>2, <3>3, <4>1
      <4> QED
        BY <1>1, <2>3, <4>1, <4>2
    <3> QED
      BY <1>1, <2>3, <3>2, <3>3, Zenon
  <2> QED
    BY <2>1, <2>2, <2>3
<1> QED
  BY <1>1, <1>3, <1>4 DEF IInv, MarksCover

---------------------------------------------------------------------------

\* Every way in which roster.cc marks a scalar keeps the marks covering.
LEMMA Inductive == IInv /\ [Next]_vars => IInv'
<1> SUFFICES ASSUME IInv, [Next]_vars PROVE IInv'
  OBVIOUS
<1>1. CASE UNCHANGED vars
  <2>1. Typed' /\ Revs' = Revs
    BY <1>1 DEF vars, IInv, Typed, Revs
  <2>2. MarksCover'
    BY <1>1, <2>1 DEF vars, IInv, MarksCover, Present, Marked
  <2> QED
    BY <2>1, <2>2 DEF IInv
<1>2. CASE Next
  <2>1. PICK p \in Revs, q \in Revs :
          /\ Revision({p, q})
          /\ \/ Without
             \/ \E v \in Val : \/ mark_new_node({p, q}, v)
                               \/ mark_unmerged_node({p, q}, p, v)
                               \/ mark_merged_node(p, q, v)
    BY <1>2, Zenon DEF Next
  <2> DEFINE P == {p, q}
  <2>2. P \in SUBSET Revs /\ P # {} /\ n + 1 \in 1..(n + 1) /\ Revs \subseteq 1..(n + 1)
    BY DEF IInv, Typed, Revs
  <2>3. /\ marks[p] \subseteq Revs /\ marks[q] \subseteq Revs
        /\ anc[p] \subseteq Revs /\ anc[q] \subseteq Revs
        /\ \A a \in anc[p] : anc[a] \subseteq anc[p]
        /\ \A a \in anc[q] : anc[a] \subseteq anc[q]
    BY DEF IInv, Typed
  <2>4. CASE Without
    BY <2>1, <2>2, <2>4, CoverGrows DEF Without
  <2>5. ASSUME NEW v \in Val, mark_new_node(P, v) PROVE IInv'
    <3>1. Decided(v, {n + 1}) /\ {n + 1} \in SUBSET (1..(n + 1))
      BY <2>2, <2>5 DEF mark_new_node
    <3> QED
      BY <2>1, <2>2, <3>1, CoverGrows
  <2>6. ASSUME NEW v \in Val, mark_unmerged_node(P, p, v) PROVE IInv'
    <3> DEFINE m == mark_unmerged_scalar(marks[p], val[p], n + 1, v)
    <3>1. Decided(v, m) /\ Present(p) /\ (q # p => Unborn(q))
      BY <2>6 DEF mark_unmerged_node
    <3>2. m = {n + 1} \/ (m = marks[p] /\ val[p] = v)
      BY DEF mark_unmerged_scalar
    <3>3. m \in SUBSET (1..(n + 1))
      BY <2>2, <2>3, <3>2
    <3>4. /\ marks[p] # {}
          /\ \A k \in marks[p] : k \in anc[p] /\ Marked(k) /\ val[k] = val[p]
          /\ \A a \in anc[p] : Marked(a) => \E k \in marks[p] : a \in anc[k]
          /\ q # p => \A a \in anc[q] : ~ Marked(a)
      BY <3>1 DEF IInv, MarksCover, Unborn, Marked
    <3> HIDE DEF m
    <3> QED
      BY <2>1, <2>2, <2>3, <3>1, <3>2, <3>3, <3>4, CoverGrows
  <2>7. ASSUME NEW v \in Val, mark_merged_node(p, q, v) PROVE IInv'
    <3> DEFINE m == mark_merged_scalar(Side(p, q), Side(q, p), n + 1, v)
    <3>1. Decided(v, m) /\ Present(p) /\ Present(q)
      BY <2>7 DEF mark_merged_node
    <3>2. \/ m = {n + 1}
          \/ m = marks[q] /\ val[q] = v /\ marks[p] \cap (anc[p] \ anc[q]) = {}
          \/ m = marks[p] /\ val[p] = v /\ marks[q] \cap (anc[q] \ anc[p]) = {}
          \/ m = marks[p] \cup marks[q] /\ val[p] = v /\ val[q] = v
      BY DEF mark_merged_scalar, mark_won_merge, Side
    <3>3. m \in SUBSET (1..(n + 1))
      BY <2>2, <2>3, <3>2, Zenon
    <3>4. \A s \in P :
            /\ marks[s] # {}
            /\ \A k \in marks[s] : k \in anc[s] /\ Marked(k) /\ val[k] = val[s]
            /\ \A a \in anc[s] : Marked(a) => \E k \in marks[s] : a \in anc[k]
      BY <3>1 DEF IInv, MarksCover
    <3> HIDE DEF m
    <3>5. ASSUME NEW s \in P, NEW t \in P, marks[s] \cap (anc[s] \ anc[t]) = {}
          PROVE  \A a \in anc[s] : Marked(a) => \E k \in marks[t] : a \in anc[k]
      BY <2>3, <3>4, <3>5
    <3>6. \/ m = {n + 1}
          \/ /\ m # {} /\ m \subseteq Revs
             /\ \A k \in m : (\E s \in P : k \in anc[s]) /\ Marked(k) /\ val[k] = v
             /\ \A s \in P : \A a \in anc[s] : Marked(a) => \E k \in m : a \in anc[k]
      BY <2>3, <3>2, <3>4, <3>5
    <3> QED
      BY <2>1, <2>2, <3>1, <3>3, <3>6, CoverGrows, Zenon
  <2> QED
    BY <2>1, <2>4, <2>5, <2>6, <2>7
<1> QED
  BY <1>1, <1>2

\* In every history of commits and merges, the marks of a scalar are the
\* decisions that cover all others its revision has seen.
THEOREM MarksAlwaysCover == Spec => []IInv
<1>1. Init => IInv
  BY DEF Init, IInv, Typed, MarksCover, Revs, Present, Marked
<1> QED
  BY <1>1, Inductive, PTL DEF Spec

\* In every history of commits and merges the assertion of merge_scalar, that
\* not both sides win, holds.
THEOREM MergeNeverAmbiguous == Spec => []NeverAmbiguous
  BY MarksAlwaysCover, LastDecision, PTL
=============================================================================
