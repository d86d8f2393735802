------------------------ MODULE BranchHeads_proofs ------------------------
(***************************************************************************)
(* The indicators of outdated_indicator.cc never let a project_t return a  *)
(* cached answer that certs put or deleted since have changed, and both    *)
(* ways of get_branch_heads compute the heads by definition.               *)
(***************************************************************************)
EXTENDS BranchHeads, TLAPS, FiniteSetTheorems, WellFoundedInduction

Key == Branch \X BOOLEAN

\* No answer is stamped later than the last stamp given out, and that is not
\* later than the last change.
Stamped ==
  /\ stamper \in [changed : Nat, dispensed : Nat]
  /\ stamper.dispensed <= stamper.changed
  /\ branch_heads = [k \in Key |-> branch_heads[k]]
  /\ \A k \in Key : branch_heads[k].when \in Int /\ branch_heads[k].when <= stamper.dispensed
  /\ branches.when \in Int /\ branches.when <= stamper.dispensed

IInv == Stamped /\ CachesCurrent

---------------------------------------------------------------------------

\* A change puts the stamper ahead of all that was stamped before.
LEMMA ChangeIsAhead ==
  ASSUME NEW s \in [changed : Nat, dispensed : Nat], s.dispensed <= s.changed
  PROVE  /\ note_change(s) \in [changed : Nat, dispensed : Nat]
         /\ note_change(s).dispensed = s.dispensed
         /\ s.dispensed < note_change(s).changed
BY DEF note_change

\* Without a change of certs the answers stay the same.
LEMMA SameAnswers ==
  ASSUME certs' = certs
  PROVE  Names' = Names /\ \A k \in Key : Heads(k[1], k[2])' = Heads(k[1], k[2])
BY DEF Names, Heads, branch_leaves, erase_ancestors, erase_ancestors_and_failures, Certified,
       not_in_branch, suspended_in_branch, Trusted

\* After a noted change every answer is outdated.
LEMMA ChangeOutdatesAll ==
  ASSUME Stamped, NEW s \in [changed : Nat, dispensed : Nat],
         stamper.dispensed <= s.dispensed, s.dispensed <= s.changed,
         stamper' = note_change(s), UNCHANGED <<branch_heads, branches>>
  PROVE  IInv'
<1>1. /\ stamper' \in [changed : Nat, dispensed : Nat]
      /\ stamper'.dispensed = s.dispensed /\ s.dispensed < stamper'.changed
  BY ChangeIsAhead
<1>2. Stamped'
  BY <1>1 DEF Stamped, Key
<1>3. /\ \A k \in Key : branch_heads'[k].when < stamper'.changed
      /\ branches'.when < stamper'.changed
  BY <1>1 DEF Stamped
<1>4. CachesCurrent'
  BY <1>3 DEF CachesCurrent, outdated, Key
<1> QED
  BY <1>2, <1>4 DEF IInv

\* A query stamps its answer with the last change, and no other answer with a
\* current stamp becomes wrong by it.
LEMMA QueryKeeps ==
  ASSUME IInv, \/ \E b \in Branch, ignore \in BOOLEAN : get_branch_heads(b, ignore)
               \/ get_branch_list
  PROVE  IInv'
<1>1. /\ stamper' \in [changed : Nat, dispensed : Nat]
      /\ stamper'.dispensed = stamper.changed /\ stamper'.changed = stamper.changed
      /\ certs' = certs
  BY Zenon DEF IInv, Stamped, get_branch_heads, get_branch_list, dispense
<1>2. Names' = Names /\ \A k \in Key : Heads(k[1], k[2])' = Heads(k[1], k[2])
  BY <1>1, SameAnswers
<1>3. /\ stamper.changed \in Nat /\ stamper.dispensed \in Nat /\ stamper.dispensed <= stamper.changed
      /\ \A k \in Key : branch_heads[k].when \in Int /\ branch_heads[k].when <= stamper.changed
      /\ branches.when \in Int /\ branches.when <= stamper.changed
  BY DEF IInv, Stamped
<1>4. ASSUME NEW b \in Branch, NEW ignore \in BOOLEAN, get_branch_heads(b, ignore)
      PROVE  IInv'
  <2> DEFINE new == [when |-> stamper.changed, heads |-> Heads(b, ignore)]
  <2>1. /\ branches' = branches
        /\ branch_heads' = [branch_heads EXCEPT ![<<b, ignore>>] = new]
    BY <1>4 DEF get_branch_heads
  <2>2. <<b, ignore>> \in Key /\ <<b, ignore>>[1] = b /\ <<b, ignore>>[2] = ignore
    BY DEF Key
  <2>3. new.when = stamper.changed /\ new.heads = Heads(b, ignore)
    OBVIOUS
  <2> HIDE DEF new
  <2>4. /\ branch_heads' = [k \in Key |-> branch_heads'[k]]
        /\ \A k \in Key : branch_heads'[k] = IF k = <<b, ignore>> THEN new ELSE branch_heads[k]
    BY <2>1, <2>2, Zenon DEF IInv, Stamped
  <2>5. Stamped'
    BY <1>1, <1>3, <2>1, <2>3, <2>4 DEF Stamped, Key
  <2>6. CachesCurrent'
    <3>1. \A k \in Key : ~ outdated(branch_heads[k].when)' =>
            branch_heads'[k].heads = Heads(k[1], k[2])
      BY <1>1, <2>2, <2>3, <2>4 DEF IInv, CachesCurrent, outdated, Key
    <3>2. ~ outdated(branches.when)' => branches'.names = Names
      BY <1>1, <2>1 DEF IInv, CachesCurrent, outdated
    <3> QED
      BY <1>2, <3>1, <3>2 DEF CachesCurrent, Key, outdated
  <2> QED
    BY <2>5, <2>6 DEF IInv
<1>5. ASSUME get_branch_list PROVE IInv'
  <2>1. /\ branch_heads' = branch_heads
        /\ branches'.when = stamper.changed /\ branches'.names = Names
    BY <1>5 DEF get_branch_list
  <2>2. Stamped'
    BY <1>1, <1>3, <2>1 DEF IInv, Stamped, Key
  <2>3. CachesCurrent'
    BY <1>1, <1>2, <2>1 DEF IInv, CachesCurrent, outdated, Key
  <2> QED
    BY <2>2, <2>3 DEF IInv
<1> QED
  BY <1>4, <1>5

---------------------------------------------------------------------------

\* For every history, set of certs and length of a session: a cached answer
\* that is returned is the one the certs give.
THEOREM CachedAnswersCurrent == Spec => []CachesCurrent
<1>1. Init => IInv
  BY DEF Init, IInv, Stamped, CachesCurrent, outdated, Never, Key
<1>2. IInv /\ [Next]_vars => IInv'
  <2> SUFFICES ASSUME IInv, [Next]_vars PROVE IInv'
    OBVIOUS
  <2>1. CASE UNCHANGED vars
    <3>1. Names' = Names /\ \A k \in Key : Heads(k[1], k[2])' = Heads(k[1], k[2])
      BY <2>1, SameAnswers DEF vars
    <3> QED
      BY <2>1, <3>1 DEF vars, IInv, Stamped, CachesCurrent, outdated, Key
  <2>2. ASSUME NEW b \in Branch, NEW ignore \in BOOLEAN, get_branch_heads(b, ignore) PROVE IInv'
    BY <2>2, QueryKeeps
  <2>3. CASE get_branch_list
    BY <2>3, QueryKeeps
  <2>4. ASSUME NEW c \in Cert, put_revision_cert(c) PROVE IInv'
    <3> DEFINE s == IF c.name = "branch" THEN dispense(stamper) ELSE stamper
    <3>1. /\ s \in [changed : Nat, dispensed : Nat]
          /\ stamper.dispensed <= s.dispensed /\ s.dispensed <= s.changed
      BY DEF IInv, Stamped, dispense
    <3>2. stamper' = note_change(s) /\ UNCHANGED <<branch_heads, branches>>
      BY <2>4 DEF put_revision_cert
    <3> HIDE DEF s
    <3> QED
      BY <3>1, <3>2, ChangeOutdatesAll DEF IInv
  <2>5. ASSUME NEW r \in Rev, NEW name \in {"branch", "suspend"}, delete_certs_locally(r, name)
        PROVE  IInv'
    <3>1. /\ stamper \in [changed : Nat, dispensed : Nat]
          /\ stamper.dispensed <= stamper.dispensed /\ stamper.dispensed <= stamper.changed
      BY DEF IInv, Stamped
    <3>2. stamper' = note_change(stamper) /\ UNCHANGED <<branch_heads, branches>>
      BY <2>5 DEF delete_certs_locally
    <3> QED
      BY <3>1, <3>2, ChangeOutdatesAll DEF IInv
  <2>6. CASE commit_transaction
    <3>1. Names' = Names /\ \A k \in Key : Heads(k[1], k[2])' = Heads(k[1], k[2])
      BY <2>6, SameAnswers DEF commit_transaction
    <3> QED
      BY <2>6, <3>1 DEF commit_transaction, IInv, Stamped, CachesCurrent, outdated, Key
  <2>7. CASE rollback_transaction
    BY <2>7 DEF rollback_transaction, NewProject, IInv, Stamped, CachesCurrent, outdated, Never, Key
  <2> QED
    BY <2>1, <2>2, <2>3, <2>4, <2>5, <2>6, <2>7 DEF Next
<1>3. IInv => CachesCurrent
  BY DEF IInv
<1> QED
  BY <1>1, <1>2, <1>3, PTL DEF Spec

---------------------------------------------------------------------------
(* The two ways to compute heads *)

\* The ancestors of an ancestor are ancestors.
LEMMA AncestorsTransitive ==
  ASSUME NEW a \in Rev, NEW b \in Rev, NEW c \in Rev, a \in Ancestors[b], b \in Ancestors[c]
  PROVE  a \in Ancestors[c]
<1> SUFFICES ASSUME NEW S \in SUBSET Rev, Parents[c] \subseteq S,
                    \A q \in S : Parents[q] \subseteq S
             PROVE  a \in S
  BY DEF Ancestors
<1>1. b \in S
  BY DEF Ancestors
<1>2. Parents[b] \subseteq S
  BY <1>1
<1> QED
  BY <1>2 DEF Ancestors

\* An ancestor has fewer ancestors.
LEMMA FewerAncestors ==
  ASSUME NEW a \in Rev, NEW b \in Rev, a \in Ancestors[b]
  PROVE  /\ Cardinality(Ancestors[a]) < Cardinality(Ancestors[b])
         /\ Cardinality(Ancestors[a]) \in Nat /\ Cardinality(Ancestors[b]) \in Nat
<1>1. Ancestors[a] \subseteq Rev /\ Ancestors[b] \subseteq Rev
  BY DEF Ancestors
<1>2. IsFiniteSet(Ancestors[a]) /\ IsFiniteSet(Ancestors[b])
  BY <1>1, RevAssumption, FS_Subset
<1>3. Ancestors[a] \subseteq Ancestors[b]
  BY <1>1, AncestorsTransitive
<1>4. Ancestors[a] # Ancestors[b]
  BY AcyclicAssumption
<1>5. Cardinality(Ancestors[a]) \in Nat /\ Cardinality(Ancestors[b]) \in Nat
  BY <1>2, FS_CardinalityType
<1>6. /\ Cardinality(Ancestors[a]) <= Cardinality(Ancestors[b])
      /\ Cardinality(Ancestors[a]) # Cardinality(Ancestors[b])
  BY <1>2, <1>3, <1>4, FS_Subset
<1> QED
  BY <1>5, <1>6

\* A set of naturals has a least member.
LEMMA LeastNatural ==
  ASSUME NEW S \in SUBSET Nat, S # {}
  PROVE  \E x \in S : \A y \in S : x <= y
<1> DEFINE R == OpToRel(<, Nat)
<1>1. IsWellFoundedOn(R, Nat)
  BY NatLessThanWellFounded, Zenon
<1>2. \A y, x \in Nat : y < x => <<y, x>> \in R
  BY DEF OpToRel
<1> HIDE DEF R
<1>3. PICK x \in S : \A y \in S : ~ (<<y, x>> \in R)
  BY <1>1, WFMin, Zenon
<1>4. \A y \in S : ~ (y < x)
  BY <1>2, <1>3, Zenon
<1>5. \A y \in S : x <= y
  BY <1>4
<1> QED
  BY <1>5

\* Every member of a set of revisions is, or is an ancestor of, one that
\* erase_ancestors leaves.
LEMMA LeafAbove ==
  ASSUME NEW C \in SUBSET Rev, NEW s \in C
  PROVE  \E l \in erase_ancestors(C) : s = l \/ s \in Ancestors[l]
<1> DEFINE U == {x \in C : s = x \/ s \in Ancestors[x]}
           N == Cardinality(Rev)
           left(x) == N - Cardinality(Ancestors[x])
           Left == {left(x) : x \in U}
<1>1. N \in Nat
  BY RevAssumption, FS_CardinalityType
<1>2. \A x \in Rev : left(x) \in Nat /\ Cardinality(Ancestors[x]) \in Nat
  <2> TAKE x \in Rev
  <2>1. Ancestors[x] \subseteq Rev
    BY DEF Ancestors
  <2>2. /\ Cardinality(Ancestors[x]) <= N
        /\ IsFiniteSet(Ancestors[x]) 
    BY <2>1, RevAssumption, FS_Subset
  <2>3. Cardinality(Ancestors[x]) \in Nat
    BY <2>2, FS_CardinalityType
  <2> QED
    BY <1>1, <2>2, <2>3
<1>3. s \in U
  OBVIOUS
<1>4. Left \in SUBSET Nat /\ Left # {}
  <2> HIDE DEF left
  <2> QED
    BY <1>2, <1>3
<1>5. PICK n \in Left : \A y \in Left : n <= y
  <2> HIDE DEF Left
  <2> QED
    BY <1>4, LeastNatural
<1>6. PICK l \in U : n = left(l)
  BY <1>5
<1>7. \A x \in U : left(l) <= left(x)
  BY <1>5, <1>6
<1>8. \A x \in C : l \notin Ancestors[x]
  <2> SUFFICES ASSUME NEW x \in C, l \in Ancestors[x] PROVE FALSE
    OBVIOUS
  <2>1. l \in Rev /\ x \in Rev
    OBVIOUS
  <2>2. s \in Ancestors[x]
    BY <2>1, AncestorsTransitive
  <2>3. left(l) <= left(x)
    BY <1>7, <2>2
  <2>4. Cardinality(Ancestors[l]) < Cardinality(Ancestors[x])
    BY <2>1, FewerAncestors
  <2>5. Cardinality(Ancestors[l]) \in Nat /\ Cardinality(Ancestors[x]) \in Nat
    BY <1>2, <2>1
  <2> QED
    BY <1>1, <2>3, <2>4, <2>5
<1>9. l \in erase_ancestors(C)
  BY <1>8 DEF erase_ancestors
<1> QED
  BY <1>9

\* If every leaf of C is in T, a subset of C, both have the same leaves: an
\* untrusted cert below a trusted one on a descendant changes nothing.
LEMMA SameLeaves ==
  ASSUME NEW C \in SUBSET Rev, NEW T \in SUBSET C, erase_ancestors(C) \subseteq T
  PROVE  erase_ancestors(C) = erase_ancestors(T)
<1>1. erase_ancestors(C) \subseteq erase_ancestors(T)
  BY DEF erase_ancestors
<1>2. ASSUME NEW r \in erase_ancestors(T), NEW s \in C, r \in Ancestors[s]
      PROVE  FALSE
  <2>1. r \in T /\ \A x \in T : r \notin Ancestors[x]
    BY DEF erase_ancestors
  <2>2. PICK l \in erase_ancestors(C) : s = l \/ s \in Ancestors[l]
    BY LeafAbove
  <2>3. l \in T /\ l \in Rev
    BY <2>2
  <2>4. r \in Ancestors[l]
    BY <1>2, <2>1, <2>2, <2>3, AncestorsTransitive
  <2> QED
    BY <2>1, <2>3, <2>4
<1>3. erase_ancestors(T) \subseteq erase_ancestors(C)
  BY <1>2 DEF erase_ancestors
<1> QED
  BY <1>1, <1>3

\* The leaves when they are all trusted, and the slow search otherwise, are
\* the revisions with a trusted cert and no descendant with one.
LEMMA HeadsByDefinition ==
  ASSUME certs \subseteq Cert, NEW b, NEW ignore \in BOOLEAN
  PROVE  Heads(b, ignore) = TrueHeads(b, ignore)
<1> DEFINE C == Certified("branch", b, certs)
           T == Certified("branch", b, Trusted)
           Susp == Certified("suspend", b, Trusted)
<1>1. T \subseteq C /\ C \subseteq Rev
  BY CertAssumption DEF Certified, Trusted
<1>2. TrueHeads(b, ignore) = {r \in erase_ancestors(T) : ignore \/ r \notin Susp}
  BY DEF TrueHeads, erase_ancestors
<1>3. PICK heads : heads = IF \E r \in erase_ancestors(C) : r \notin T
                           THEN erase_ancestors({r \in C : r \in T}) ELSE erase_ancestors(C)
  OBVIOUS
<1>4. Heads(b, ignore) = IF ignore THEN heads ELSE {r \in heads : r \notin Susp}
  BY <1>3 DEF Heads, branch_leaves, not_in_branch, suspended_in_branch,
              erase_ancestors_and_failures
<1> HIDE DEF C, T, Susp
<1>5. heads = erase_ancestors(T)
  <2>1. CASE \E r \in erase_ancestors(C) : r \notin T
    <3>1. {r \in C : r \in T} = T
      BY <1>1
    <3> QED
      BY <1>3, <2>1, <3>1
  <2>2. CASE ~ \E r \in erase_ancestors(C) : r \notin T
    <3>1. erase_ancestors(C) \subseteq T
      BY <2>2
    <3> QED
      BY <1>1, <1>3, <2>2, <3>1, SameLeaves
  <2> QED
    BY <2>1, <2>2
<1> QED
  BY <1>2, <1>4, <1>5

\* Whatever is put or deleted, the table holds certs of revisions.
LEMMA CertsOfRevisions == Spec => [](certs \subseteq Cert)
<1>1. Init => certs \subseteq Cert
  BY DEF Init
<1>2. certs \subseteq Cert /\ [Next]_vars => (certs \subseteq Cert)'
  BY Zenon DEF Next, vars, get_branch_heads, get_branch_list, put_revision_cert, delete_certs_locally,
         commit_transaction, rollback_transaction
<1> QED
  BY <1>1, <1>2, PTL DEF Spec

\* For every ancestry and every set of certs, trusted or not: the answer of
\* get_branch_heads, from the cache, from the leaves table or by the slow
\* search, is the set of heads by definition.
THEOREM BranchHeadsExact == Spec => []HeadsExact
<1>1. CachesCurrent /\ certs \subseteq Cert => HeadsExact
  <2> SUFFICES ASSUME CachesCurrent, certs \subseteq Cert,
                      NEW b \in Branch, NEW ignore \in BOOLEAN
               PROVE  LET k == branch_heads[<<b, ignore>>]
                      IN (IF outdated(k.when) THEN Heads(b, ignore) ELSE k.heads)
                            = TrueHeads(b, ignore)
    BY Zenon DEF HeadsExact
  <2>1. Heads(b, ignore) = TrueHeads(b, ignore)
    BY HeadsByDefinition
  <2>2. <<b, ignore>> \in Branch \X BOOLEAN /\ <<b, ignore>>[1] = b /\ <<b, ignore>>[2] = ignore
    OBVIOUS
  <2>3. ~ outdated(branch_heads[<<b, ignore>>].when) =>
          branch_heads[<<b, ignore>>].heads = Heads(b, ignore)
    BY <2>2 DEF CachesCurrent
  <2> QED
    BY <2>1, <2>3
<1> QED
  BY <1>1, CachedAnswersCurrent, CertsOfRevisions, PTL
=============================================================================
