------------------------ MODULE RevisionStore_proofs ------------------------
(* For every history, set of branches and set of keys, the tables of the   *)
(* revision store stay consistent: heights order the ancestry, the pruned  *)
(* ancestor search is exact, and branch_leaves is the set of branch heads. *)
EXTENDS RevisionStore, TLAPS, FiniteSetTheorems

(***************************************************************************)
(* Heights.  Their order is a strict total order, and a child height is    *)
(* above the height it is derived from.                                    *)
(***************************************************************************)

\* A nonempty set of naturals has a least element.
LEMMA LeastNat ==
  ASSUME NEW T, T \subseteq Nat, T # {}
  PROVE  \E n \in T : \A m \in T : n <= m
<1> DEFINE R == OpToRel(<, Nat)
<1>1. PICK n \in T : \A m \in T : ~ (<<m, n>> \in R)
  <2>1. IsWellFoundedOn(R, Nat)
    BY NatLessThanWellFounded, Zenon
  <2> HIDE DEF R
  <2> QED
    BY <2>1, WFMin, Zenon
<1>2. \A m \in T : n <= m
  <2> SUFFICES ASSUME NEW m \in T, ~ (n <= m) PROVE FALSE
    OBVIOUS
  <2>1. m \in Nat /\ n \in Nat /\ m < n
    OBVIOUS
  <2>2. <<m, n>> \in R
    BY <2>1 DEF OpToRel
  <2> QED
    BY <1>1, <2>2, Zenon
<1> QED
  BY <1>2

\* What a sequence holds.
LEMMA SeqElement ==
  ASSUME NEW S, NEW s \in Seq(S), NEW j \in 1..Len(s)
  PROVE  s[j] \in S
OBVIOUS

\* A height is a nonempty sequence of components.
LEMMA HeightFacts ==
  ASSUME NEW h \in Height
  PROVE  /\ h \in Seq(0..MaxU32) /\ Len(h) \in Nat /\ Len(h) > 0
         /\ \A j \in 1..Len(h) : h[j] \in 0..MaxU32 /\ h[j] \in Int
<1>1. h \in Seq(0..MaxU32) /\ Len(h) > 0
  BY DEF Height
<1>2. Len(h) \in Nat
  BY <1>1
<1>3. \A j \in 1..Len(h) : h[j] \in 0..MaxU32
  BY <1>1, SeqElement, Zenon
<1> QED
  BY <1>1, <1>2, <1>3, MaxU32Assumption

\* No height is below itself (rev_height::operator<).
LEMMA BelowIrreflexive ==
  ASSUME NEW h \in Height
  PROVE  ~ Below(h, h)
<1> SUFFICES ASSUME NEW i \in 1..Len(h), i <= Len(h) => h[i] < h[i]
             PROVE  FALSE
  BY DEF Below
<1>1. h[i] \in Int
  BY HeightFacts
<1> QED
  BY <1>1

\* Below is transitive.
LEMMA BelowTransitive ==
  ASSUME NEW f \in Height, NEW g \in Height, NEW h \in Height,
         Below(f, g), Below(g, h)
  PROVE  Below(f, h)
<1>1. PICK i \in 1..Len(g) : /\ i <= Len(f) + 1
                             /\ \A j \in 1..(i - 1) : f[j] = g[j]
                             /\ i <= Len(f) => f[i] < g[i]
  BY DEF Below
<1>2. PICK k \in 1..Len(h) : /\ k <= Len(g) + 1
                             /\ \A j \in 1..(k - 1) : g[j] = h[j]
                             /\ k <= Len(g) => g[k] < h[k]
  BY DEF Below
<1>3. /\ Len(f) \in Nat /\ Len(g) \in Nat /\ Len(h) \in Nat
      /\ \A j \in 1..Len(f) : f[j] \in Int
      /\ \A j \in 1..Len(g) : g[j] \in Int
      /\ \A j \in 1..Len(h) : h[j] \in Int
  BY HeightFacts
<1>4. CASE i < k
  <2>1. i \in 1..Len(h) /\ g[i] = h[i]
    BY <1>1, <1>2, <1>3, <1>4
  <2>2. \A j \in 1..(i - 1) : f[j] = h[j]
    BY <1>1, <1>2, <1>3, <1>4
  <2> QED
    BY <1>1, <2>1, <2>2 DEF Below
<1>5. CASE i = k
  <2>1. \A j \in 1..(i - 1) : f[j] = h[j]
    BY <1>1, <1>2, <1>3, <1>5
  <2>2. i <= Len(f) => f[i] < h[i]
    BY <1>1, <1>2, <1>3, <1>5
  <2> QED
    BY <1>1, <1>2, <1>5, <2>1, <2>2 DEF Below
<1>6. CASE k < i
  <2>1. k \in 1..Len(f) /\ k <= Len(g) /\ f[k] = g[k] /\ g[k] < h[k]
    BY <1>1, <1>2, <1>3, <1>6
  <2>2. \A j \in 1..(k - 1) : f[j] = h[j]
    BY <1>1, <1>2, <1>3, <1>6
  <2>3. k <= Len(f) + 1 /\ f[k] < h[k]
    BY <1>3, <2>1
  <2> QED
    BY <2>2, <2>3 DEF Below
<1> QED
  BY <1>1, <1>2, <1>3, <1>4, <1>5, <1>6

\* Two different heights are comparable.
LEMMA BelowTotal ==
  ASSUME NEW g \in Height, NEW h \in Height, g # h
  PROVE  Below(g, h) \/ Below(h, g)
<1> DEFINE T == {i \in 1..(Len(g) + 1) : i = Len(g) + 1 \/ i = Len(h) + 1
                                         \/ (i <= Len(h) /\ g[i] # h[i])}
<1>1. /\ Len(g) \in Nat /\ Len(h) \in Nat
      /\ \A j \in 1..Len(g) : g[j] \in Int
      /\ \A j \in 1..Len(h) : h[j] \in Int
  BY HeightFacts
<1>2. T \subseteq Nat /\ T # {}
  <2>1. Len(g) + 1 \in T
    BY <1>1
  <2> QED
    BY <1>1, <2>1
<1>3. PICK i \in T : \A m \in T : i <= m
  <2> HIDE DEF T
  <2> QED
    BY <1>2, LeastNat, Zenon
<1>4. i \in 1..(Len(g) + 1) /\ i <= Len(h) + 1
  <2>1. CASE Len(g) < Len(h)
    BY <1>1, <2>1
  <2>2. CASE Len(h) <= Len(g)
    <3>1. Len(h) + 1 \in T
      BY <1>1, <2>2
    <3> HIDE DEF T
    <3>2. i <= Len(h) + 1
      BY <1>3, <3>1
    <3> QED
      BY <1>1, <1>3, <3>2 DEF T
  <2> QED
    BY <1>1, <2>1, <2>2
<1>5. \A j \in 1..(i - 1) : g[j] = h[j]
  <2> SUFFICES ASSUME NEW j \in 1..(i - 1), g[j] # h[j] PROVE FALSE
    OBVIOUS
  <2>1. j \in T
    BY <1>1, <1>4
  <2> HIDE DEF T
  <2> QED
    BY <1>1, <1>3, <1>4, <2>1
<1>6. CASE i <= Len(g) /\ i <= Len(h)
  <2>1. g[i] # h[i]
    BY <1>1, <1>6
  <2>2. g[i] < h[i] \/ h[i] < g[i]
    BY <1>1, <1>4, <1>6, <2>1
  <2> HIDE DEF T
  <2> QED
    BY <1>1, <1>4, <1>5, <1>6, <2>2 DEF Below
<1>7. CASE i = Len(g) + 1 /\ i <= Len(h)
  BY <1>1, <1>4, <1>5, <1>7 DEF Below
<1>8. CASE i = Len(h) + 1 /\ i <= Len(g)
  BY <1>1, <1>4, <1>5, <1>8 DEF Below
<1>9. CASE i = Len(g) + 1 /\ i = Len(h) + 1
  <2>1. Len(g) = Len(h) /\ \A j \in 1..Len(g) : g[j] = h[j]
    BY <1>1, <1>5, <1>9
  <2>2. g = h
    BY <2>1 DEF Height
  <2> QED
    BY <2>2
<1> QED
  BY <1>1, <1>4, <1>6, <1>7, <1>8, <1>9

\* child_height yields a height above its argument, whatever child number
\* put_height_for_revision tries.
LEMMA ChildHigher ==
  ASSUME NEW h \in Height, ChildFits(h), NEW nr \in 0..MaxU32
  PROVE  child_height(h, nr) \in Height /\ Below(h, child_height(h, nr))
<1>1. /\ Len(h) \in Nat /\ Len(h) > 0 /\ h \in Seq(0..MaxU32)
      /\ \A j \in 1..Len(h) : h[j] \in 0..MaxU32
  BY HeightFacts
<1>2. CASE nr = 0
  <2> DEFINE c == [h EXCEPT ![Len(h)] = h[Len(h)] + 1]
  <2>1. c \in Seq(0..MaxU32) /\ Len(c) = Len(h)
    BY <1>1, MaxU32Assumption DEF ChildFits
  <2>2. /\ \A j \in 1..(Len(h) - 1) : h[j] = c[j]
        /\ c[Len(h)] = h[Len(h)] + 1
    BY <1>1, MaxU32Assumption
  <2>3. h[Len(h)] < c[Len(h)]
    BY <1>1, <2>2, MaxU32Assumption
  <2>4. child_height(h, nr) = c
    BY <1>2 DEF child_height
  <2> HIDE DEF c
  <2> QED
    BY <1>1, <2>1, <2>2, <2>3, <2>4 DEF Below, Height
<1>3. CASE nr # 0
  <2> DEFINE c == h \o <<nr - 1, 0>>
  <2>1. <<nr - 1, 0>> \in Seq(0..MaxU32)
    BY <1>3, MaxU32Assumption
  <2>2. c \in Seq(0..MaxU32) /\ Len(c) = Len(h) + 2
    BY <1>1, <2>1
  <2>3. \A j \in 1..Len(h) : h[j] = c[j]
    BY <1>1, <2>1
  <2>4. child_height(h, nr) = c
    BY <1>3 DEF child_height
  <2> HIDE DEF c
  <2>5. Len(h) + 1 \in 1..Len(c)
    BY <1>1, <2>2
  <2> QED
    BY <1>1, <2>2, <2>3, <2>4, <2>5 DEF Below, Height
<1> QED
  BY <1>2, <1>3

(***************************************************************************)
(* Ancestry.  AncestorsOf is a least set, so membership is used through    *)
(* closed sets: no induction is needed.                                    *)
(***************************************************************************)

\* Whatever contains r's parents and is closed under parents contains the
\* ancestors of r.
LEMMA AncestorsLeast ==
  ASSUME NEW r \in Rev, NEW S, S \subseteq Rev,
         Parents[r] \ {NullRev} \subseteq S,
         \A x \in S : Parents[x] \ {NullRev} \subseteq S
  PROVE  AncestorsOf(r) \subseteq S
BY DEF AncestorsOf

\* Stored parents are revisions.
LEMMA ParentsInRev ==
  ASSUME NEW r \in Rev
  PROVE  Parents[r] \ {NullRev} \subseteq Rev
BY ParentsAssumption

\* A parent is an ancestor.
LEMMA ParentIsAncestor ==
  ASSUME NEW r \in Rev, NEW p \in Parents[r] \ {NullRev}
  PROVE  p \in AncestorsOf(r)
BY ParentsInRev DEF AncestorsOf

\* The ancestors of r are closed under parents.
LEMMA AncestorsClosed ==
  ASSUME NEW r \in Rev, NEW x \in AncestorsOf(r)
  PROVE  x \in Rev /\ Parents[x] \ {NullRev} \subseteq AncestorsOf(r)
<1>1. x \in Rev
  BY DEF AncestorsOf
<1>2. ASSUME NEW p \in Parents[x] \ {NullRev} PROVE p \in AncestorsOf(r)
  BY <1>1, ParentsInRev DEF AncestorsOf
<1> QED
  BY <1>1, <1>2

\* Ancestry is transitive.
LEMMA AncestorsTransitive ==
  ASSUME NEW r \in Rev, NEW x \in AncestorsOf(r)
  PROVE  AncestorsOf(x) \subseteq AncestorsOf(r)
<1>1. AncestorsOf(r) \subseteq Rev
  BY DEF AncestorsOf
<1>2. x \in Rev /\ Parents[x] \ {NullRev} \subseteq AncestorsOf(r)
  BY AncestorsClosed
<1>3. \A y \in AncestorsOf(r) : Parents[y] \ {NullRev} \subseteq AncestorsOf(r)
  BY AncestorsClosed
<1> QED
  BY <1>1, <1>2, <1>3, AncestorsLeast

\* An ancestor of s is a parent of s or of an ancestor of s.
LEMMA AncestorHasChild ==
  ASSUME NEW s \in Rev, NEW a \in AncestorsOf(s)
  PROVE  \E x \in AncestorsOf(s) \cup {s} : a \in Parents[x]
<1> DEFINE S == {y \in AncestorsOf(s) : \E x \in AncestorsOf(s) \cup {s} : y \in Parents[x]}
<1>1. S \subseteq Rev
  BY DEF AncestorsOf
<1>2. Parents[s] \ {NullRev} \subseteq S
  BY ParentIsAncestor
<1>3. \A x \in S : Parents[x] \ {NullRev} \subseteq S
  BY AncestorsClosed
<1>4. AncestorsOf(s) \subseteq S
  <2> HIDE DEF S
  <2> QED
    BY <1>1, <1>2, <1>3, AncestorsLeast
<1> QED
  BY <1>4

(***************************************************************************)
(* A consistent set of tables.                                             *)
(***************************************************************************)

ParentsClosed(R) == \A r \in R : Parents[r] \ {NullRev} \subseteq R

AncestryRows(R) == {e \in (Rev \cup {NullRev}) \X R : e[1] \in Parents[e[2]]}

HeightsOrdered(R, H) ==
  /\ \A r \in R : \A p \in Parents[r] \ {NullRev} : Below(H[p], H[r])
  /\ \A r, s \in R : H[r] = H[s] => r = s

Heads(C) == {r \in C : \A s \in C : r \notin AncestorsOf(s)}

StoreInv(R, A, H, C, L, E) ==
  /\ R \subseteq Rev
  /\ IsFiniteSet(R)
  /\ ParentsClosed(R)
  /\ A = AncestryRows(R)
  /\ DOMAIN H = R
  /\ \A r \in R : H[r] \in Height
  /\ HeightsOrdered(R, H)
  /\ C \subseteq Cert
  /\ \A t \in C : t.ident \in R
  /\ L \in [Branch -> SUBSET Rev]
  /\ \A b \in Branch : L[b] = Heads(InBranch(C, b))
  /\ E \subseteq Branch

\* A parents-closed set holds the ancestors of its members.
LEMMA StoredAncestors ==
  ASSUME NEW R, R \subseteq Rev, ParentsClosed(R), NEW r \in R
  PROVE  AncestorsOf(r) \subseteq R
BY AncestorsLeast DEF ParentsClosed

\* Heights order ancestors, not only parents.
LEMMA AncestorsLower ==
  ASSUME NEW R, R \subseteq Rev, ParentsClosed(R),
         NEW H, \A r \in R : H[r] \in Height,
         HeightsOrdered(R, H),
         NEW b \in R, NEW a \in AncestorsOf(b)
  PROVE  a \in R /\ Below(H[a], H[b])
<1> DEFINE S == {x \in R : Below(H[x], H[b])}
<1>1. Parents[b] \ {NullRev} \subseteq S
  BY DEF ParentsClosed, HeightsOrdered
<1>2. ASSUME NEW x \in S, NEW p \in Parents[x] \ {NullRev} PROVE p \in S
  <2>1. p \in R /\ Below(H[p], H[x])
    BY DEF ParentsClosed, HeightsOrdered
  <2>2. Below(H[p], H[b])
    BY <2>1, BelowTransitive
  <2> QED
    BY <2>1, <2>2
<1>3. AncestorsOf(b) \subseteq S
  <2>1. S \subseteq Rev /\ b \in Rev
    OBVIOUS
  <2>2. \A x \in S : Parents[x] \ {NullRev} \subseteq S
    BY <1>2
  <2> HIDE DEF S
  <2> QED
    BY <1>1, <2>1, <2>2, AncestorsLeast
<1> QED
  BY <1>3

(***************************************************************************)
(* The reads.                                                              *)
(***************************************************************************)

Consistent ==
  /\ StoreInv(revisions, revision_ancestry, heights, revision_certs,
              branch_leaves, branch_epochs)
  /\ CachedHeightsCurrent

\* Reads through the caches return what the tables hold.
LEMMA ReadsExact ==
  ASSUME Consistent
  PROVE  /\ \A r \in revisions : get_rev_height(r) = heights[r]
         /\ \A r \in revisions : get_revision_parents(r) = Parents[r]
         /\ \A r \in Rev : get_revision_children(r) = {c \in revisions : r \in Parents[c]}
<1>1. \A r \in revisions : get_rev_height(r) = heights[r]
  BY NullRevAssumption DEF Consistent, StoreInv, CachedHeightsCurrent, get_rev_height
<1>2. ASSUME NEW r \in revisions PROVE get_revision_parents(r) = Parents[r]
  BY ParentsAssumption DEF Consistent, StoreInv, AncestryRows, get_revision_parents
<1>3. ASSUME NEW r \in Rev
      PROVE  get_revision_children(r) = {c \in revisions : r \in Parents[c]}
  BY DEF Consistent, StoreInv, AncestryRows, get_revision_children
<1> QED
  BY <1>1, <1>2, <1>3

\* is_a_ancestor_of_b answers true exactly for ancestors.
LEMMA SearchExact ==
  ASSUME Consistent, NEW a \in revisions, NEW b \in revisions
  PROVE  is_a_ancestor_of_b(a, b) <=> a \in AncestorsOf(b)
<1>1. /\ revisions \subseteq Rev /\ ParentsClosed(revisions)
      /\ \A r \in revisions : heights[r] \in Height
      /\ HeightsOrdered(revisions, heights)
  BY DEF Consistent, StoreInv
<1>2. /\ \A r \in revisions : get_rev_height(r) = heights[r]
      /\ \A r \in Rev : get_revision_children(r) = {c \in revisions : r \in Parents[c]}
  BY ReadsExact
<1>3. ASSUME is_a_ancestor_of_b(a, b) PROVE a \in AncestorsOf(b)
  <2> DEFINE D == {y \in Rev : y = a \/ a \in AncestorsOf(y)}
  <2>1. Visited(a, b) \subseteq D
    <3>1. a \in D /\ D \subseteq Rev
      BY <1>1
    <3>2. ASSUME NEW y \in D, NEW c \in get_revision_children(y) PROVE c \in D
      <4>1. c \in Rev /\ y \in Parents[c] /\ y # NullRev
        BY <1>1, <1>2, NullRevAssumption
      <4>2. y \in AncestorsOf(c)
        BY <4>1, ParentIsAncestor
      <4>3. AncestorsOf(y) \subseteq AncestorsOf(c)
        BY <4>1, <4>2, AncestorsTransitive
      <4> QED
        BY <4>1, <4>2, <4>3
    <3> HIDE DEF D
    <3> QED
      BY <3>1, <3>2 DEF Visited
  <2>2. PICK x \in Visited(a, b) : b \in get_revision_children(x)
    BY <1>3 DEF is_a_ancestor_of_b
  <2>3. x \in Rev /\ (x = a \/ a \in AncestorsOf(x))
    BY <2>1
  <2>4. x \in AncestorsOf(b)
    BY <1>1, <1>2, <2>2, <2>3, NullRevAssumption, ParentIsAncestor
  <2>5. AncestorsOf(x) \subseteq AncestorsOf(b)
    BY <1>1, <2>4, AncestorsTransitive
  <2> QED
    BY <2>3, <2>4, <2>5
<1>4. ASSUME a \in AncestorsOf(b) PROVE is_a_ancestor_of_b(a, b)
  <2> DEFINE Found(x) == \E y \in Visited(x, b) : b \in get_revision_children(y)
             S == {x \in AncestorsOf(b) : Found(x)}
  <2>1. AncestorsOf(b) \subseteq revisions /\ \A x \in AncestorsOf(b) : Below(heights[x], heights[b])
    BY <1>1, AncestorsLower
  <2>2. ASSUME NEW p \in Parents[b] \ {NullRev} PROVE p \in S
    <3>1. p \in AncestorsOf(b) /\ p \in Rev
      BY <1>1, <2>1, ParentIsAncestor
    <3>2. p \in Visited(p, b)
      BY <3>1 DEF Visited
    <3>3. b \in get_revision_children(p)
      BY <1>2, <3>1
    <3> QED
      BY <3>1, <3>2, <3>3
  <2>3. ASSUME NEW x \in S, NEW p \in Parents[x] \ {NullRev} PROVE p \in S
    <3>1. p \in AncestorsOf(b) /\ p \in Rev /\ x \in revisions
      BY <1>1, <2>1, AncestorsClosed
    <3>2. x \in get_revision_children(p) /\ Below(get_rev_height(x), get_rev_height(b))
      BY <1>2, <2>1, <3>1
    <3>3. Visited(x, b) \subseteq Visited(p, b)
      BY <3>2 DEF Visited
    <3> QED
      BY <3>1, <3>3
  <2>4. AncestorsOf(b) \subseteq S
    <3>1. S \subseteq Rev /\ b \in Rev
      BY <1>1, <2>1
    <3>2. Parents[b] \ {NullRev} \subseteq S /\ \A x \in S : Parents[x] \ {NullRev} \subseteq S
      BY <2>2, <2>3
    <3> HIDE DEF S
    <3> QED
      BY <3>1, <3>2, AncestorsLeast
  <2>5. Found(a)
    BY <1>4, <2>4
  <2>6. a # b
    BY <1>1, <1>4, AcyclicAssumption
  <2>7. ~ Below(get_rev_height(b), get_rev_height(a))
    <3>1. SUFFICES ASSUME Below(heights[b], heights[a]) PROVE FALSE
      BY <1>2
    <3>2. Below(heights[a], heights[b])
      BY <1>4, <2>1
    <3>3. Below(heights[a], heights[a])
      BY <1>1, <3>1, <3>2, BelowTransitive
    <3> QED
      BY <1>1, <3>3, BelowIrreflexive
  <2> QED
    BY <2>5, <2>6, <2>7 DEF is_a_ancestor_of_b
<1> QED
  BY <1>3, <1>4

\* erase_ancestors keeps exactly the heads of a set of stored revisions, in
\* spite of its pruning by the lowest candidate.
LEMMA EraseExact ==
  ASSUME Consistent, NEW C, C \subseteq revisions
  PROVE  erase_ancestors(C) = Heads(C)
<1>1. /\ revisions \subseteq Rev /\ ParentsClosed(revisions)
      /\ \A r \in revisions : heights[r] \in Height
      /\ HeightsOrdered(revisions, heights)
  BY DEF Consistent, StoreInv
<1>2. /\ \A r \in revisions : get_rev_height(r) = heights[r]
      /\ \A r \in revisions : get_revision_parents(r) = Parents[r]
  BY ReadsExact
<1>3. ASSUME NEW x \in C, x \in Accumulated(C) PROVE \E s \in C : x \in AncestorsOf(s)
  <2> DEFINE S == {y \in Rev : \E s \in C : y \in AncestorsOf(s)}
  <2>1. ASSUME NEW y \in C \cup S, NEW p \in get_revision_parents(y) \ {NullRev}
        PROVE  p \in S
    <3>1. CASE y \in C
      <4>1. y \in Rev /\ p \in Parents[y] \ {NullRev}
        BY <1>1, <1>2, <3>1
      <4> QED
        BY <3>1, <4>1, ParentIsAncestor, ParentsInRev
    <3>2. CASE y \in S
      <4>1. PICK s \in C : y \in AncestorsOf(s)
        BY <3>2
      <4>2. s \in Rev /\ y \in revisions
        BY <1>1, <4>1, StoredAncestors
      <4>3. p \in AncestorsOf(s)
        BY <1>2, <4>1, <4>2, AncestorsClosed
      <4> QED
        BY <4>2, <4>3 DEF AncestorsOf
    <3> QED
      BY <3>1, <3>2
  <2>2. x \in S
    <3>1. S \subseteq Rev
      OBVIOUS
    <3> HIDE DEF S
    <3> QED
      BY <1>3, <2>1, <3>1 DEF Accumulated
  <2> QED
    BY <2>2
<1>4. ASSUME NEW x \in C, NEW s \in C, x \in AncestorsOf(s) PROVE x \in Accumulated(C)
  <2> SUFFICES ASSUME NEW S \in SUBSET Rev,
                      \A y \in C \cup S : \A p \in get_revision_parents(y) \ {NullRev} :
                        (\E c \in C : ~ Below(get_rev_height(p), get_rev_height(c))) => p \in S
               PROVE  x \in S
    BY <1>1 DEF Accumulated
  <2> DEFINE T == {y \in AncestorsOf(s) : (y = x \/ x \in AncestorsOf(y)) => y \in S}
  <2>1. s \in Rev /\ AncestorsOf(s) \subseteq revisions /\ x \in revisions
    BY <1>1, StoredAncestors
  <2>2. ASSUME NEW y \in C \cup S, y \in revisions, NEW p \in Parents[y] \ {NullRev},
               p = x \/ x \in AncestorsOf(p)
        PROVE  p \in S
    <3>1. p \in revisions /\ p \in get_revision_parents(y) \ {NullRev}
      BY <1>1, <1>2, <2>2 DEF ParentsClosed
    <3>2. ~ Below(heights[p], heights[x])
      <4>1. SUFFICES ASSUME Below(heights[p], heights[x]) PROVE FALSE
        OBVIOUS
      <4>2. Below(heights[p], heights[p])
        <5>1. CASE p = x
          BY <4>1, <5>1
        <5>2. CASE x \in AncestorsOf(p)
          <6>1. Below(heights[x], heights[p])
            BY <1>1, <3>1, <5>2, AncestorsLower
          <6> QED
            BY <1>1, <2>1, <3>1, <4>1, <6>1, BelowTransitive
        <5> QED
          BY <2>2, <5>1, <5>2
      <4> QED
        BY <1>1, <3>1, <4>2, BelowIrreflexive
    <3>3. ~ Below(get_rev_height(p), get_rev_height(x))
      BY <1>2, <2>1, <3>1, <3>2
    <3> QED
      BY <3>1, <3>3
  <2>3. ASSUME NEW p \in Parents[s] \ {NullRev} PROVE p \in T
    <3>1. p \in AncestorsOf(s)
      BY <2>1, ParentIsAncestor
    <3> QED
      BY <2>2, <3>1
  <2>4. ASSUME NEW y \in T, NEW p \in Parents[y] \ {NullRev} PROVE p \in T
    <3>1. p \in AncestorsOf(s) /\ y \in revisions /\ y \in Rev
      BY <1>1, <2>1, AncestorsClosed
    <3>2. SUFFICES ASSUME p = x \/ x \in AncestorsOf(p) PROVE p \in S
      BY <3>1
    <3>3. p \in AncestorsOf(y)
      BY <3>1, ParentIsAncestor
    <3>4. x \in AncestorsOf(y)
      BY <3>1, <3>2, <3>3, AncestorsTransitive
    <3>5. y \in S
      BY <3>4
    <3> QED
      BY <2>2, <3>1, <3>2, <3>5
  <2>5. AncestorsOf(s) \subseteq T
    <3>1. T \subseteq Rev
      BY <1>1, <2>1
    <3>2. Parents[s] \ {NullRev} \subseteq T /\ \A y \in T : Parents[y] \ {NullRev} \subseteq T
      BY <2>3, <2>4
    <3> HIDE DEF T
    <3> QED
      BY <2>1, <3>1, <3>2, AncestorsLeast
  <2> QED
    BY <1>4, <2>5
<1> QED
  BY <1>3, <1>4 DEF erase_ancestors, Heads

\* An ancestor that is not a parent is an ancestor of a parent.
LEMMA AncestorViaParent ==
  ASSUME NEW r \in Rev, NEW a \in AncestorsOf(r)
  PROVE  a \in Parents[r] \/ \E p \in Parents[r] \ {NullRev} : a \in AncestorsOf(p)
<1> DEFINE S == {y \in Rev : \/ y \in Parents[r]
                            \/ \E p \in Parents[r] \ {NullRev} : y \in AncestorsOf(p)}
<1>1. Parents[r] \ {NullRev} \subseteq S
  BY ParentsInRev
<1>2. ASSUME NEW x \in S, NEW q \in Parents[x] \ {NullRev} PROVE q \in S
  <2>1. q \in Rev
    BY ParentsInRev
  <2>2. CASE x \in Parents[r]
    <3>1. x # NullRev
      BY NullRevAssumption
    <3>2. q \in AncestorsOf(x)
      BY ParentIsAncestor
    <3> QED
      BY <2>1, <2>2, <3>1, <3>2
  <2>3. ASSUME NEW p \in Parents[r] \ {NullRev}, x \in AncestorsOf(p) PROVE q \in S
    <3>1. q \in AncestorsOf(p)
      BY <2>3, ParentsInRev, AncestorsClosed
    <3> QED
      BY <2>1, <3>1
  <2> QED
    BY <2>2, <2>3
<1>3. AncestorsOf(r) \subseteq S
  <2>1. S \subseteq Rev /\ \A x \in S : Parents[x] \ {NullRev} \subseteq S
    BY <1>2
  <2> HIDE DEF S
  <2> QED
    BY <1>1, <2>1, AncestorsLeast
<1> QED
  BY <1>3

\* In a finite set of revisions, what has a descendant has a descendant that
\* is a head: take the one with the fewest descendants in the set.
LEMMA HeadAbove ==
  ASSUME NEW K, K \subseteq Rev, IsFiniteSet(K),
         NEW r \in Rev, NEW s \in K, r \in AncestorsOf(s)
  PROVE  \E x \in Heads(K) : r \in AncestorsOf(x)
<1> DEFINE D(x) == {t \in K : x \in AncestorsOf(t)}
           N == {n \in Nat : \E x \in D(r) : n = Cardinality(D(x))}
<1>1. \A x : D(x) \in SUBSET K
  OBVIOUS
<1>2. ASSUME NEW x PROVE IsFiniteSet(D(x)) /\ Cardinality(D(x)) \in Nat
  <2> HIDE DEF D
  <2>1. D(x) \in SUBSET K
    BY <1>1
  <2>2. IsFiniteSet(D(x))
    BY <2>1, FS_Subset
  <2> QED
    BY <2>2, FS_CardinalityType
<1>3. N # {} /\ N \subseteq Nat
  <2>1. s \in D(r)
    OBVIOUS
  <2>2. Cardinality(D(s)) \in N
    <3> HIDE DEF D
    <3> QED
      BY <1>2, <2>1
  <2> QED
    BY <2>2, Zenon
<1>4. PICK n \in N : \A m \in N : n <= m
  <2> HIDE DEF N
  <2> QED
    BY <1>3, LeastNat, Zenon
<1>5. PICK x \in D(r) : n = Cardinality(D(x))
  BY <1>4
<1>6. x \in K /\ r \in AncestorsOf(x) /\ x \in Rev
  OBVIOUS
<1>7. ASSUME NEW t \in K, x \in AncestorsOf(t) PROVE FALSE
  <2>1. t \in Rev /\ r \in AncestorsOf(t)
    BY <1>6, <1>7, AncestorsTransitive
  <2>2. t \in D(r)
    BY <2>1
  <2>3. D(t) \subseteq D(x)
    <3> SUFFICES ASSUME NEW u \in K, t \in AncestorsOf(u) PROVE x \in AncestorsOf(u)
      OBVIOUS
    <3> QED
      BY <1>7, AncestorsTransitive
  <2>4. t \in D(x) /\ t \notin D(t)
    BY <1>7, <2>1, AcyclicAssumption
  <2>5. Cardinality(D(t)) \in N
    <3> HIDE DEF D
    <3> QED
      BY <1>2, <2>2
  <2>6. n <= Cardinality(D(t))
    <3> HIDE DEF N, D
    <3> QED
      BY <1>4, <2>5
  <2> HIDE DEF D, N
  <2>7. Cardinality(D(t)) <= Cardinality(D(x)) /\ Cardinality(D(x)) # Cardinality(D(t))
    BY <1>2, <2>3, <2>4, FS_Subset
  <2> QED
    BY <1>2, <1>5, <2>6, <2>7
<1> QED
  BY <1>6, <1>7 DEF Heads

\* record_as_branch_leaf turns the heads of a branch into the heads of the
\* branch with r in it, whether r is new, old, or in the branch already.
LEMMA RecordExact ==
  ASSUME Consistent, NEW b \in Branch, NEW r \in revisions
  PROVE  record_as_branch_leaf(b, r) = Heads(InBranch(revision_certs, b) \cup {r})
<1> DEFINE K == InBranch(revision_certs, b)
           parents == get_revision_parents(r)
           current == branch_leaves[b]
           remaining == current \ parents
           older == IF parents \subseteq current THEN {}
                    ELSE {x \in remaining : is_a_ancestor_of_b(x, r)}
           some_ancestor == parents \cap current # {} \/ older # {}
<1>1. /\ revisions \subseteq Rev /\ IsFiniteSet(revisions) /\ ParentsClosed(revisions)
      /\ current = Heads(K)
  BY DEF Consistent, StoreInv
<1>2. K \subseteq revisions /\ IsFiniteSet(K) /\ K \subseteq Rev
  <2>1. K \subseteq revisions
    BY DEF Consistent, StoreInv, InBranch
  <2> QED
    BY <1>1, <2>1, FS_Subset
<1>3. parents = Parents[r]
  BY ReadsExact
<1>4. \A x \in revisions, y \in revisions : is_a_ancestor_of_b(x, y) <=> x \in AncestorsOf(y)
  BY SearchExact
<1>5. current \subseteq K /\ current \subseteq revisions
  BY <1>1, <1>2 DEF Heads
<1>6. older \subseteq AncestorsOf(r)
  BY <1>4, <1>5
<1>7. record_as_branch_leaf(b, r) =
        IF r \in current THEN current
        ELSE IF ~ some_ancestor /\ \E x \in remaining : is_a_ancestor_of_b(r, x)
             THEN remaining ELSE (remaining \ older) \cup {r}
  BY DEF record_as_branch_leaf
<1> HIDE DEF K, current, older, remaining, parents, some_ancestor
<1>8. CASE r \in current
  <2>1. K \cup {r} = K
    BY <1>5, <1>8
  <2> QED
    BY <1>1, <1>7, <1>8, <2>1 DEF K
<1>9. CASE r \notin current /\ \E s \in K : r \in AncestorsOf(s)
  <2>1. PICK s \in K : r \in AncestorsOf(s)
    BY <1>9
  <2>2. AncestorsOf(r) \subseteq AncestorsOf(s)
    BY <1>2, <2>1, AncestorsTransitive
  <2>3. current \cap AncestorsOf(r) = {}
    BY <1>1, <2>1, <2>2 DEF Heads
  <2>4. parents \cap current = {}
    <3>1. ASSUME NEW p \in parents, p \in current PROVE p \in AncestorsOf(r)
      <4>1. p \in Parents[r] \ {NullRev}
        BY <1>1, <1>3, <1>5, <3>1, NullRevAssumption
      <4> QED
        BY <1>1, <4>1, ParentIsAncestor
    <3> QED
      BY <2>3, <3>1
  <2>5. older = {} /\ remaining = current
    <3>1. older \subseteq current
      BY DEF older, remaining
    <3> QED
      BY <1>6, <2>3, <2>4, <3>1 DEF remaining
  <2>6. PICK x \in Heads(K) : r \in AncestorsOf(x)
    BY <1>1, <1>2, <2>1, HeadAbove
  <2>7. is_a_ancestor_of_b(r, x) /\ x \in remaining
    BY <1>1, <1>4, <1>5, <2>5, <2>6
  <2>8. record_as_branch_leaf(b, r) = current
    BY <1>7, <1>9, <2>4, <2>5, <2>7 DEF some_ancestor
  <2>9. Heads(K \cup {r}) = Heads(K)
    BY <1>1, <2>1, <2>3 DEF Heads
  <2> QED
    BY <1>1, <2>8, <2>9 DEF K
<1>10. CASE r \notin current /\ ~ \E s \in K : r \in AncestorsOf(s)
  <2>1. record_as_branch_leaf(b, r) = (remaining \ older) \cup {r}
    <3>1. ~ \E x \in remaining : is_a_ancestor_of_b(r, x)
      BY <1>4, <1>5, <1>10 DEF remaining
    <3> QED
      BY <1>7, <1>10, <3>1
  <2>2. remaining \ older = {x \in current : x \notin AncestorsOf(r)}
    <3>1. ASSUME NEW x \in current, x \in AncestorsOf(r), x \in remaining PROVE x \in older
      <4>1. CASE parents \subseteq current
        <5>1. x \notin Parents[r]
          BY <1>3, <3>1 DEF remaining
        <5>2. PICK p \in Parents[r] \ {NullRev} : x \in AncestorsOf(p)
          BY <1>1, <3>1, <5>1, AncestorViaParent
        <5>3. p \in K
          BY <1>3, <1>5, <4>1, <5>2
        <5> QED
          BY <1>1, <3>1, <5>2, <5>3 DEF Heads
      <4>2. CASE ~ (parents \subseteq current)
        <5>1. is_a_ancestor_of_b(x, r)
          BY <1>4, <1>5, <3>1
        <5> QED
          BY <3>1, <4>2, <5>1 DEF older
      <4> QED
        BY <4>1, <4>2
    <3>2. ASSUME NEW x \in current, x \in parents PROVE x \in AncestorsOf(r)
      <4>1. x \in Parents[r] \ {NullRev}
        BY <1>1, <1>3, <1>5, <3>2, NullRevAssumption
      <4> QED
        BY <1>1, <4>1, ParentIsAncestor
    <3> QED
      BY <1>6, <3>1, <3>2 DEF remaining
  <2>3. Heads(K \cup {r}) = {x \in current : x \notin AncestorsOf(r)} \cup {r}
    <3>1. r \notin AncestorsOf(r)
      BY <1>1, AcyclicAssumption
    <3> QED
      BY <1>1, <1>10, <3>1 DEF Heads
  <2> QED
    BY <2>1, <2>2, <2>3 DEF K
<1> QED
  BY <1>8, <1>9, <1>10

(***************************************************************************)
(* The inductive invariant: the tables in use and the tables on disk are   *)
(* both consistent, and what is on disk keeps its height in memory, so     *)
(* that a rollback cannot make the height cache stale.                     *)
(***************************************************************************)

DiskInv ==
  /\ StoreInv(disk.revisions, disk.revision_ancestry, disk.heights,
              disk.revision_certs, disk.branch_leaves, disk.branch_epochs)
  /\ disk.revisions \subseteq revisions
  /\ \A r \in disk.revisions : disk.heights[r] = heights[r]
  /\ disk.branch_epochs \subseteq branch_epochs

CacheTypeOK ==
  /\ DOMAIN height_cache \subseteq Rev
  /\ \A r \in DOMAIN height_cache : height_cache[r] \in Height

IInv == Consistent /\ CacheTypeOK /\ DiskInv

\* The empty database is consistent.
LEMMA InitIInv == Init => IInv
<1> SUFFICES ASSUME Init PROVE IInv
  OBVIOUS
<1>1. IsFiniteSet({})
  BY FS_EmptySet
<1>2. \A b \in Branch : Heads(InBranch({}, b)) = {}
  BY DEF Heads, InBranch
<1>3. revisions = {} /\ revision_ancestry = {} /\ DOMAIN heights = {}
      /\ revision_certs = {} /\ branch_leaves = [b \in Branch |-> {}]
      /\ branch_epochs = {} /\ DOMAIN height_cache = {} /\ disk = Snapshot
  BY DEF Init
<1>4. AncestryRows({}) = {}
  BY DEF AncestryRows
<1>5. StoreInv(revisions, revision_ancestry, heights, revision_certs,
               branch_leaves, branch_epochs)
  BY <1>1, <1>2, <1>3, <1>4 DEF StoreInv, ParentsClosed, HeightsOrdered
<1>6. DiskInv
  BY <1>3, <1>5 DEF DiskInv, Snapshot
<1> QED
  BY <1>3, <1>5, <1>6 DEF IInv, Consistent, CachedHeightsCurrent, CacheTypeOK

\* Committing consistent tables leaves a consistent disk.
LEMMA SnapshotDiskInv ==
  ASSUME Consistent', disk' = Snapshot'
  PROVE  DiskInv'
BY DEF Consistent, DiskInv, Snapshot

\* Fresh tables with no cached height: what a local command leaves behind.
LEMMA ExitIInv ==
  ASSUME StoreInv(revisions, revision_ancestry, heights, revision_certs,
                  branch_leaves, branch_epochs)',
         CommitAndExit
  PROVE  IInv'
<1>1. DOMAIN height_cache' = {}
  BY DEF CommitAndExit
<1>2. Consistent' /\ CacheTypeOK'
  BY <1>1 DEF Consistent, CachedHeightsCurrent, CacheTypeOK
<1> QED
  BY <1>2, SnapshotDiskInv DEF IInv, CommitAndExit

\* put_revision keeps the invariant: the new height is above every parent's
\* and unused, and no stored revision can have the new one as a parent.
LEMMA PutRevisionIInv ==
  ASSUME IInv, NEW r \in Rev, put_revision(r)
  PROVE  IInv'
<1>1. /\ revisions \subseteq Rev /\ IsFiniteSet(revisions) /\ ParentsClosed(revisions)
      /\ revision_ancestry = AncestryRows(revisions) /\ DOMAIN heights = revisions
      /\ \A q \in revisions : heights[q] \in Height
      /\ HeightsOrdered(revisions, heights)
  BY DEF IInv, Consistent, StoreInv
<1>2. PICK hp \in {get_rev_height(p) : p \in Parents[r]}, nr \in 0..MaxChildNr :
        /\ IsHighestParent(r, hp)
        /\ ChildFits(hp)
        /\ IsFirstUnused(hp, nr)
        /\ heights' = [q \in DOMAIN heights \cup {r} |->
                         IF q = r THEN child_height(hp, nr) ELSE heights[q]]
  BY DEF put_revision, revision_exists
<1>3. /\ r \notin revisions /\ Parents[r] \ {NullRev} \subseteq revisions
      /\ revisions' = revisions \cup {r}
      /\ revision_ancestry' = revision_ancestry \cup {<<p, r>> : p \in Parents[r]}
      /\ height_cache' = WithoutCached(r)
      /\ revision_certs' = revision_certs /\ branch_leaves' = branch_leaves
      /\ branch_epochs' = branch_epochs /\ disk' = disk
  BY DEF put_revision, revision_exists
<1>4. \A q \in revisions : get_rev_height(q) = heights[q]
  BY ReadsExact DEF IInv
<1>5. root_height \in Height
  BY MaxU32Assumption DEF root_height, Height
<1>6. \A p \in Parents[r] : get_rev_height(p) \in Height
  BY <1>1, <1>3, <1>4, <1>5 DEF get_rev_height
<1>7. hp \in Height
  BY <1>2, <1>6
<1> DEFINE new == child_height(hp, nr)
<1>8. new \in Height /\ Below(hp, new)
  BY <1>2, <1>7, ChildHigher, MaxChildNrAssumption, MaxU32Assumption
<1>9. \A q \in revisions : heights[q] # new
  BY <1>1, <1>2 DEF IsFirstUnused, has_rev_height
<1>10. ASSUME NEW p \in Parents[r] \ {NullRev} PROVE Below(heights[p], new)
  <2>1. ~ Below(hp, heights[p]) /\ heights[p] \in Height
    BY <1>1, <1>2, <1>3, <1>4 DEF IsHighestParent
  <2>2. CASE heights[p] = hp
    BY <1>8, <2>2
  <2>3. CASE heights[p] # hp
    <3>1. Below(heights[p], hp)
      BY <1>7, <2>1, <2>3, BelowTotal
    <3> QED
      BY <1>7, <1>8, <2>1, <3>1, BelowTransitive
  <2> QED
    BY <2>2, <2>3
<1> HIDE DEF new
<1>11. /\ DOMAIN heights' = revisions' /\ heights'[r] = new
       /\ \A q \in revisions : heights'[q] = heights[q]
  BY <1>1, <1>2, <1>3 DEF new
<1>12. HeightsOrdered(revisions', heights')
  <2>1. ASSUME NEW q \in revisions', NEW p \in Parents[q] \ {NullRev}
        PROVE  Below(heights'[p], heights'[q])
    <3>1. CASE q = r
      BY <1>3, <1>10, <1>11, <3>1
    <3>2. CASE q # r
      <4>1. q \in revisions /\ p \in revisions
        BY <1>1, <1>3, <3>2 DEF ParentsClosed
      <4> QED
        BY <1>1, <1>11, <4>1 DEF HeightsOrdered
    <3> QED
      BY <3>1, <3>2
  <2>2. \A q, s \in revisions' : heights'[q] = heights'[s] => q = s
    BY <1>1, <1>3, <1>9, <1>11 DEF HeightsOrdered
  <2> QED
    BY <2>1, <2>2 DEF HeightsOrdered
<1>13. revision_ancestry' = AncestryRows(revisions')
  BY <1>1, <1>3, ParentsAssumption DEF AncestryRows
<1>14. ParentsClosed(revisions') /\ IsFiniteSet(revisions') /\ revisions' \subseteq Rev
  <2>1. IsFiniteSet(revisions')
    BY <1>1, <1>3, FS_AddElement
  <2> QED
    BY <1>1, <1>3, <2>1 DEF ParentsClosed
<1>15. \A q \in revisions' : heights'[q] \in Height
  BY <1>1, <1>3, <1>8, <1>11
<1>16. StoreInv(revisions, revision_ancestry, heights, revision_certs,
                branch_leaves, branch_epochs)'
  <2>1. /\ revision_certs \subseteq Cert /\ \A t \in revision_certs : t.ident \in revisions
        /\ branch_leaves \in [Branch -> SUBSET Rev]
        /\ \A b \in Branch : branch_leaves[b] = Heads(InBranch(revision_certs, b))
        /\ branch_epochs \subseteq Branch
    BY DEF IInv, Consistent, StoreInv
  <2> QED
    BY <1>3, <1>11, <1>12, <1>13, <1>14, <1>15, <2>1, Zenon DEF StoreInv
<1>17. /\ DOMAIN height_cache' = DOMAIN height_cache \ {r}
       /\ \A q \in DOMAIN height_cache' : height_cache'[q] = height_cache[q]
  BY <1>3 DEF WithoutCached
<1>18. CachedHeightsCurrent' /\ CacheTypeOK'
  BY <1>3, <1>11, <1>17 DEF IInv, Consistent, CachedHeightsCurrent, CacheTypeOK
<1>19. DiskInv'
  BY <1>3, <1>11 DEF IInv, DiskInv
<1> QED
  BY <1>16, <1>18, <1>19 DEF IInv, Consistent

\* put_revision_cert keeps the invariant.
LEMMA PutCertIInv ==
  ASSUME IInv, NEW t \in Cert, put_revision_cert(t)
  PROVE  IInv'
<1>1. /\ t.ident \in revisions
      /\ revision_certs' = revision_certs \cup {t}
      /\ branch_leaves' = IF t.name = "branch"
            THEN [branch_leaves EXCEPT ![t.value] = record_as_branch_leaf(t.value, t.ident)]
            ELSE branch_leaves
      /\ UNCHANGED <<revisions, revision_ancestry, heights, branch_epochs, height_cache, disk>>
  BY DEF put_revision_cert, revision_exists
<1>2. /\ revisions \subseteq Rev /\ revision_certs \subseteq Cert
      /\ \A u \in revision_certs : u.ident \in revisions
      /\ branch_leaves \in [Branch -> SUBSET Rev]
      /\ \A b \in Branch : branch_leaves[b] = Heads(InBranch(revision_certs, b))
  BY DEF IInv, Consistent, StoreInv
<1>3. t.value \in Branch /\ t.ident \in Rev
  BY DEF Cert
<1>4. ASSUME NEW b \in Branch
      PROVE  InBranch(revision_certs', b) =
               IF t.name = "branch" /\ t.value = b
               THEN InBranch(revision_certs, b) \cup {t.ident}
               ELSE InBranch(revision_certs, b)
  BY <1>1 DEF InBranch
<1>5. ASSUME NEW b \in Branch
      PROVE  branch_leaves'[b] = Heads(InBranch(revision_certs', b))
  <2>1. CASE t.name = "branch" /\ t.value = b
    <3>1. branch_leaves'[b] = record_as_branch_leaf(b, t.ident)
      BY <1>1, <1>2, <2>1
    <3>2. record_as_branch_leaf(b, t.ident) = Heads(InBranch(revision_certs, b) \cup {t.ident})
      BY <1>1, RecordExact DEF IInv
    <3> QED
      BY <1>4, <2>1, <3>1, <3>2
  <2>2. CASE ~ (t.name = "branch" /\ t.value = b)
    <3>1. branch_leaves'[b] = branch_leaves[b]
      BY <1>1, <1>2, <2>2
    <3> QED
      BY <1>2, <1>4, <2>2, <3>1
  <2> QED
    BY <2>1, <2>2
<1>6. branch_leaves' \in [Branch -> SUBSET Rev]
  <2>1. \A b \in Branch : branch_leaves'[b] \subseteq Rev
    <3>1. revision_certs' \subseteq Cert
      BY <1>1, <1>2
    <3>2. \A b \in Branch : InBranch(revision_certs', b) \subseteq Rev
      BY <3>1 DEF InBranch, Cert
    <3> QED
      BY <1>5, <3>2 DEF Heads
  <2>2. branch_leaves' = [b \in Branch |-> branch_leaves'[b]]
    BY <1>1, <1>2, Zenon
  <2> QED
    BY <2>1, <2>2
<1>7. StoreInv(revisions, revision_ancestry, heights, revision_certs,
               branch_leaves, branch_epochs)'
  BY <1>1, <1>2, <1>5, <1>6, Zenon DEF IInv, Consistent, StoreInv
<1> QED
  BY <1>1, <1>7 DEF IInv, Consistent, CachedHeightsCurrent, CacheTypeOK, DiskInv

\* recalc_branch_leaves leaves every branch with its heads when the branches
\* it is not asked to recompute lost no certificate that matters.
LEMMA RecalcExact ==
  ASSUME Consistent, NEW B, NEW C, C \subseteq revision_certs,
         \A b \in Branch \ B : InBranch(C, b) = InBranch(revision_certs, b)
  PROVE  /\ recalc_branch_leaves(B, C) \in [Branch -> SUBSET Rev]
         /\ \A b \in Branch : recalc_branch_leaves(B, C)[b] = Heads(InBranch(C, b))
<1>1. /\ revisions \subseteq Rev /\ \A t \in revision_certs : t.ident \in revisions
      /\ \A b \in Branch : branch_leaves[b] = Heads(InBranch(revision_certs, b))
  BY DEF Consistent, StoreInv
<1>2. \A b \in Branch : InBranch(C, b) \subseteq revisions
  BY <1>1 DEF InBranch
<1>3. \A b \in Branch : erase_ancestors(InBranch(C, b)) = Heads(InBranch(C, b))
  BY <1>2, EraseExact
<1>4. \A b \in Branch : recalc_branch_leaves(B, C)[b] = Heads(InBranch(C, b))
  BY <1>1, <1>3 DEF recalc_branch_leaves
<1>5. \A b \in Branch : recalc_branch_leaves(B, C)[b] \in SUBSET Rev
  BY <1>1, <1>2, <1>4 DEF Heads
<1> QED
  BY <1>4, <1>5 DEF recalc_branch_leaves

\* db local kill_revision keeps the invariant: a revision without stored
\* children that is no leaf of a branch is not in that branch.
LEMMA DeleteIInv ==
  ASSUME IInv, NEW r \in Rev, delete_existing_rev_and_certs(r)
  PROVE  IInv'
<1> DEFINE B == {b \in Branch : r \in branch_leaves[b]}
           C == {t \in revision_certs : t.ident # r}
<1>1. /\ r \in revisions /\ get_revision_children(r) = {}
      /\ revision_certs' = C /\ branch_leaves' = recalc_branch_leaves(B, C)
      /\ revision_ancestry' = {e \in revision_ancestry : e[2] # r}
      /\ heights' = [q \in DOMAIN heights \ {r} |-> heights[q]]
      /\ revisions' = revisions \ {r} /\ branch_epochs' = branch_epochs
      /\ CommitAndExit
  BY DEF delete_existing_rev_and_certs, WithoutCertsOf, WithoutRowsOf, revision_exists
<1>2. /\ revisions \subseteq Rev /\ IsFiniteSet(revisions) /\ ParentsClosed(revisions)
      /\ revision_ancestry = AncestryRows(revisions) /\ DOMAIN heights = revisions
      /\ \A q \in revisions : heights[q] \in Height
      /\ HeightsOrdered(revisions, heights)
      /\ revision_certs \subseteq Cert /\ \A t \in revision_certs : t.ident \in revisions
      /\ \A b \in Branch : branch_leaves[b] = Heads(InBranch(revision_certs, b))
      /\ branch_epochs \subseteq Branch
  BY DEF IInv, Consistent, StoreInv
<1>3. Consistent
  BY DEF IInv
<1>4. \A c \in revisions : r \notin Parents[c]
  BY <1>1, <1>3, ReadsExact
<1>5. \A s \in revisions : r \notin AncestorsOf(s)
  BY <1>2, <1>4, AncestorHasChild, StoredAncestors
<1>6. ASSUME NEW b \in Branch \ B
      PROVE  InBranch(C, b) = InBranch(revision_certs, b)
  <2>1. r \notin InBranch(revision_certs, b)
    <3>1. InBranch(revision_certs, b) \subseteq revisions
      BY <1>2 DEF InBranch
    <3> QED
      BY <1>2, <1>5, <3>1 DEF Heads
  <2> QED
    BY <2>1 DEF InBranch
<1>7. /\ branch_leaves' \in [Branch -> SUBSET Rev]
      /\ \A b \in Branch : branch_leaves'[b] = Heads(InBranch(C, b))
  <2>1. C \subseteq revision_certs
    OBVIOUS
  <2> HIDE DEF B, C
  <2> QED
    BY <1>1, <1>3, <1>6, <2>1, RecalcExact
<1>8. ParentsClosed(revisions') /\ IsFiniteSet(revisions')
  <2>1. IsFiniteSet(revisions')
    BY <1>1, <1>2, FS_RemoveElement
  <2> QED
    BY <1>1, <1>2, <1>4, <2>1 DEF ParentsClosed
<1>9. revision_ancestry' = AncestryRows(revisions')
  BY <1>1, <1>2 DEF AncestryRows
<1>10. /\ DOMAIN heights' = revisions'
       /\ \A q \in revisions' : heights'[q] = heights[q]
  BY <1>1, <1>2
<1>11. HeightsOrdered(revisions', heights')
  BY <1>1, <1>2, <1>8, <1>10 DEF HeightsOrdered, ParentsClosed
<1>12. StoreInv(revisions, revision_ancestry, heights, revision_certs,
                branch_leaves, branch_epochs)'
  BY <1>1, <1>2, <1>7, <1>8, <1>9, <1>10, <1>11, Zenon DEF StoreInv
<1> QED
  BY <1>1, <1>12, ExitIInv

\* The two forms of db local kill_certs keep the invariant: they recompute
\* every branch that may have lost a certificate.
LEMMA KillCertsIInv ==
  ASSUME IInv, NEW B, NEW C, C \subseteq revision_certs,
         \A b \in Branch \ B : InBranch(C, b) = InBranch(revision_certs, b),
         revision_certs' = C, RecalcAndClearEpochs(B)
  PROVE  IInv'
<1>1. /\ branch_leaves' = recalc_branch_leaves(B, C)
      /\ branch_epochs' \subseteq branch_epochs
      /\ UNCHANGED <<revisions, revision_ancestry, heights>>
      /\ CommitAndExit
  BY DEF RecalcAndClearEpochs
<1>2. /\ branch_leaves' \in [Branch -> SUBSET Rev]
      /\ \A b \in Branch : branch_leaves'[b] = Heads(InBranch(C, b))
  BY <1>1, RecalcExact DEF IInv
<1>3. StoreInv(revisions, revision_ancestry, heights, revision_certs,
               branch_leaves, branch_epochs)'
  BY <1>1, <1>2 DEF IInv, Consistent, StoreInv
<1> QED
  BY <1>1, <1>3, ExitIInv

\* Rolling back and restarting return to the tables on disk.
LEMMA RestoreIInv ==
  ASSUME IInv, RestoreDisk,
         \/ height_cache' = height_cache
         \/ height_cache' = <<>>
  PROVE  IInv'
<1>1. StoreInv(revisions, revision_ancestry, heights, revision_certs,
               branch_leaves, branch_epochs)'
  BY DEF IInv, DiskInv, RestoreDisk
<1>2. CachedHeightsCurrent' /\ CacheTypeOK'
  <2>1. CASE height_cache' = height_cache
    BY <2>1 DEF IInv, Consistent, CachedHeightsCurrent, CacheTypeOK, DiskInv, RestoreDisk
  <2>2. CASE height_cache' = <<>>
    BY <2>2 DEF CachedHeightsCurrent, CacheTypeOK
  <2> QED
    BY <2>1, <2>2
<1>3. DiskInv'
  BY DEF IInv, DiskInv, RestoreDisk
<1> QED
  BY <1>1, <1>2, <1>3 DEF IInv, Consistent

\* Every step keeps the invariant.
LEMMA NextIInv == IInv /\ [Next]_vars => IInv'
<1> SUFFICES ASSUME IInv, [Next]_vars PROVE IInv'
  OBVIOUS
<1>1. ASSUME NEW r \in Rev, put_revision(r) PROVE IInv'
  BY <1>1, PutRevisionIInv
<1>2. ASSUME NEW t \in Cert, put_revision_cert(t) PROVE IInv'
  BY <1>2, PutCertIInv
<1>3. ASSUME NEW b \in Branch, set_epoch(b) PROVE IInv'
  <2>1. StoreInv(revisions, revision_ancestry, heights, revision_certs,
                 branch_leaves, branch_epochs)'
    BY <1>3 DEF IInv, Consistent, StoreInv, set_epoch
  <2> QED
    BY <1>3, <2>1 DEF IInv, Consistent, CachedHeightsCurrent, CacheTypeOK, DiskInv, set_epoch
<1>4. ASSUME NEW r \in Rev, CacheHeight(r) PROVE IInv'
  <2>1. /\ r \in revisions /\ heights[r] \in Height
        /\ UNCHANGED <<revisions, revision_ancestry, heights, revision_certs,
                       branch_leaves, branch_epochs, disk>>
        /\ height_cache' = [q \in DOMAIN height_cache \cup {r} |->
                              IF q = r THEN heights[r] ELSE height_cache[q]]
    BY <1>4 DEF CacheHeight, tables, IInv, Consistent, StoreInv
  <2>2. CachedHeightsCurrent' /\ CacheTypeOK'
    BY <2>1 DEF IInv, Consistent, CachedHeightsCurrent, CacheTypeOK
  <2> QED
    BY <2>1, <2>2 DEF IInv, Consistent, DiskInv
<1>5. CASE commit_transaction
  <2>1. /\ UNCHANGED <<revisions, revision_ancestry, heights, revision_certs,
                       branch_leaves, branch_epochs, height_cache>>
        /\ disk' = Snapshot
    BY <1>5 DEF commit_transaction, tables
  <2>2. disk' = Snapshot'
    BY <2>1 DEF Snapshot
  <2>3. Consistent' /\ CacheTypeOK'
    BY <2>1 DEF IInv, Consistent, CachedHeightsCurrent, CacheTypeOK
  <2> QED
    BY <2>2, <2>3, SnapshotDiskInv DEF IInv
<1>6. CASE rollback_transaction
  BY <1>6, RestoreIInv DEF rollback_transaction
<1>7. CASE Restart
  BY <1>7, RestoreIInv DEF Restart
<1>8. ASSUME NEW r \in Rev, delete_existing_rev_and_certs(r) PROVE IInv'
  BY <1>8, DeleteIInv
<1>9. ASSUME NEW R \in SUBSET revisions, NEW n \in CertName, kill_certs_named(R, n)
      PROVE  IInv'
  <2> DEFINE B == IF n = "branch"
                  THEN {t.value : t \in {u \in revision_certs : u.name = n /\ u.ident \in R}}
                  ELSE {}
             C == {t \in revision_certs : ~ (t.ident \in R /\ t.name = n)}
  <2>1. revision_certs' = C /\ RecalcAndClearEpochs(B)
    BY <1>9 DEF kill_certs_named
  <2>2. C \subseteq revision_certs
    OBVIOUS
  <2>3. \A b \in Branch \ B : InBranch(C, b) = InBranch(revision_certs, b)
    BY DEF InBranch
  <2> HIDE DEF B, C
  <2> QED
    BY <2>1, <2>2, <2>3, KillCertsIInv
<1>10. ASSUME NEW R \in SUBSET revisions, NEW n \in CertName, NEW v \in Branch,
              kill_certs_valued(R, n, v)
       PROVE  IInv'
  <2> DEFINE C == {t \in revision_certs : ~ (t.ident \in R /\ t.name = n /\ t.value = v)}
  <2>1. revision_certs' = C /\ RecalcAndClearEpochs({v})
    BY <1>10 DEF kill_certs_valued
  <2>2. C \subseteq revision_certs
    OBVIOUS
  <2>3. \A b \in Branch \ {v} : InBranch(C, b) = InBranch(revision_certs, b)
    BY DEF InBranch
  <2> HIDE DEF C
  <2> QED
    BY <2>1, <2>2, <2>3, KillCertsIInv
<1>11. CASE regenerate_branches
  <2>1. /\ branch_leaves' = recalc_branch_leaves(Branch, revision_certs)
        /\ UNCHANGED <<revisions, revision_ancestry, heights, revision_certs, branch_epochs>>
        /\ CommitAndExit
    BY <1>11 DEF regenerate_branches, recalc_branch_leaves
  <2>2. /\ branch_leaves' \in [Branch -> SUBSET Rev]
        /\ \A b \in Branch : branch_leaves'[b] = Heads(InBranch(revision_certs, b))
    BY <2>1, RecalcExact DEF IInv
  <2>3. StoreInv(revisions, revision_ancestry, heights, revision_certs,
                 branch_leaves, branch_epochs)'
    BY <2>1, <2>2 DEF IInv, Consistent, StoreInv
  <2> QED
    BY <2>1, <2>3, ExitIInv
<1>12. CASE UNCHANGED vars
  BY <1>12 DEF vars, tables, IInv, Consistent, CachedHeightsCurrent, CacheTypeOK, DiskInv
<1> QED
  BY <1>1, <1>2, <1>3, <1>4, <1>5, <1>6, <1>7, <1>8, <1>9, <1>10, <1>11, <1>12 DEF Next

\* No step changes a stored height: new rows are added, killed rows removed,
\* and a rollback only forgets rows that were never committed.
LEMMA NextHeightsStable ==
  ASSUME IInv, Next, NEW q \in revisions \cap revisions'
  PROVE  heights'[q] = heights[q]
<1>1. DOMAIN heights = revisions /\ \A s \in disk.revisions : disk.heights[s] = heights[s]
  BY Zenon DEF IInv, Consistent, StoreInv, DiskInv
<1>2. ASSUME NEW r \in Rev, put_revision(r) PROVE heights'[q] = heights[q]
  BY <1>1, <1>2 DEF put_revision, revision_exists
<1>3. ASSUME NEW r \in Rev, delete_existing_rev_and_certs(r) PROVE heights'[q] = heights[q]
  BY <1>1, <1>3 DEF delete_existing_rev_and_certs
<1>4. CASE RestoreDisk
  BY <1>1, <1>4 DEF RestoreDisk
<1>5. CASE UNCHANGED heights
  BY <1>5
<1> QED
  BY <1>2, <1>3, <1>4, <1>5, Zenon DEF Next, put_revision_cert, set_epoch, CacheHeight,
     commit_transaction, rollback_transaction, Restart, kill_certs_named,
     kill_certs_valued, RecalcAndClearEpochs, regenerate_branches, tables

\* The invariant holds in every reachable state.
LEMMA SpecIInv == Spec => []IInv
BY InitIInv, NextIInv, PTL DEF Spec

\* Type correctness of the tables and the cache, for every history of
\* put_revision, put_revision_cert, the kill commands and the transactions.
THEOREM StoreTypeCorrect == Spec => []TypeOK
<1>1. IInv => TypeOK
  BY DEF IInv, Consistent, StoreInv, AncestryRows, CacheTypeOK, TypeOK
<1> QED
  BY <1>1, SpecIInv, PTL

\* Heights increase along ancestry and are unique (put_height_for_revision).
THEOREM HeightsAreSound == Spec => []HeightsSound
<1>1. IInv => HeightsSound
  BY DEF IInv, Consistent, StoreInv, ParentsClosed, HeightsOrdered, HeightsSound
<1> QED
  BY <1>1, SpecIInv, PTL

\* The incrementally kept branch_leaves table always equals the heads that a
\* recomputation from the certificates would give (record_as_branch_leaf,
\* recalc_branch_leaves).
THEOREM LeavesAreExact == Spec => []LeavesExact
<1>1. IInv => LeavesExact
  BY DEF IInv, Consistent, StoreInv, Heads, LeavesExact
<1> QED
  BY <1>1, SpecIInv, PTL

\* is_a_ancestor_of_b, which prunes its search by cached heights, is correct
\* in every reachable state.
THEOREM AncestorSearchIsExact == Spec => []AncestorSearchExact
<1>1. IInv => AncestorSearchExact
  BY SearchExact DEF IInv, AncestorSearchExact
<1> QED
  BY <1>1, SpecIInv, PTL

\* The height cache, which survives a rollback, never contradicts the table
\* (put_rev_height erases the entry), and no cert outlives its revision.
THEOREM CachesAndCertsSound == Spec => [](CachedHeightsCurrent /\ CertsHaveRevisions)
<1>1. IInv => CachedHeightsCurrent /\ CertsHaveRevisions
  BY DEF IInv, Consistent, StoreInv, CertsHaveRevisions
<1> QED
  BY <1>1, SpecIInv, PTL

\* The height of a revision that stays stored never changes.
THEOREM HeightsAreStable == Spec => HeightsStable
<1>1. IInv /\ [Next]_vars =>
        [\A r \in revisions \cap revisions' : heights'[r] = heights[r]]_vars
  BY NextHeightsStable
<1> QED
  BY <1>1, SpecIInv, PTL DEF Spec, HeightsStable
=============================================================================
