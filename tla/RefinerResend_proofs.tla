----------------------- MODULE RefinerResend_proofs -----------------------
(***************************************************************************)
(* For any trie shape and any items: refinement never sends an item that   *)
(* the peer has.  Every item of both sides is, until both know of it, in   *)
(* a command that will tell, or below a query that is still open.          *)
(***************************************************************************)
EXTENDS Refiner_proofs

Common == local_items["client"] \cap local_items["server"]

Msgs(v) == {net[v][k] : k \in DOMAIN net[v]}

\* A command that tells its receiver v that the peer has item i.
Teaches(v, m, i) ==
  /\ m.cmd \in {"query", "response"}
  /\ i \in note_item_in_peer(m.node) \cup note_subtree_shared_with_peer(Node(v, m.pref), m.node)

\* A query to v that will lead both sides to item i: v has a node there, and
\* the sender shows the item alone or with all that it has beside it.
Open(v, m, i) ==
  /\ m.cmd = "query" /\ m.pref \in Seq(Slot) /\ Len(m.pref) < Depth
  /\ i \in Under(Item, m.pref)
  /\ merkle_node_exists(v, m.pref)
  /\ LET s == i[Len(m.pref) + 1]
     IN /\ i \in m.node[s]
        /\ m.node[s] = {i} \/ m.node[s] = Under(local_items[Peer(v)], Append(m.pref, s))

\* Side v knows that the peer has item i, or will.
Finds(v, i) ==
  \/ i \in peer_items[v]
  \/ \E m \in Msgs(v) : Teaches(v, m, i)
  \/ \E w \in Voice : \E m \in Msgs(w) : Open(w, m, i)

Found == sent_initial_query => \A v \in Voice, i \in Common : Finds(v, i)

\* How refinement proceeds: commands are exchanged, the last one to the
\* client being a response; the client decides when its last query has been
\* answered, and only responses and its done command are left; then the
\* server does.
Stages ==
  /\ ~ sent_initial_query => \A v \in Voice : net[v] = <<>> /\ ~ calculated_items_to_send[v]
  /\ ~ calculated_items_to_send["client"] =>
       /\ ~ calculated_items_to_send["server"]
       /\ \A v \in Voice : ~ done[v] /\ \A m \in Msgs(v) : m.cmd # "done"
       /\ net["client"] # <<>> => net["client"][Len(net["client"])].cmd = "response"
  /\ calculated_items_to_send["client"] => \A v \in Voice : \A m \in Msgs(v) : m.cmd # "query"
  /\ calculated_items_to_send["client"] /\ ~ done["server"] =>
       /\ net["client"] = <<>> /\ ~ done["client"] /\ ~ calculated_items_to_send["server"]
       /\ \A k \in DOMAIN net["server"] :
            net["server"][k].cmd = "done" => k = Len(net["server"])
  /\ done["server"] => /\ calculated_items_to_send["client"]
                       /\ net["server"] = <<>>
                       /\ \A m \in Msgs("client") : m.cmd # "response"

---------------------------------------------------------------------------

\* A set of naturals has a least member.
LEMMA LeastNatural ==
  ASSUME NEW S \in SUBSET Nat, S # {}
  PROVE  \E x \in S : \A y \in S : x <= y
<1> DEFINE R == OpToRel(<, Nat)
<1>1. IsWellFoundedOn(R, Nat)
  BY NatLessThanWellFounded, Zenon
<1>2. \A y, x \in Nat : y < x => <<y, x>> \in R
  BY DEF OpToRel
<1> HIDE DEF R
<1>3. PICK x \in S : \A y \in S : ~ (<<y, x>> \in R)
  BY <1>1, WFMin, Zenon
<1>4. \A y \in S : ~ (y < x)
  BY <1>2, <1>3, Zenon
<1>5. \A y \in S : x <= y
  BY <1>4
<1> QED
  BY <1>5

\* The items below a slot are those below the node with that digit next.
LEMMA UnderSlot ==
  ASSUME NEW I, NEW p \in Seq(Slot), NEW s \in Slot
  PROVE  Under(I, Append(p, s)) = {i \in Under(I, p) : i[Len(p) + 1] = s}
<1>1. /\ Len(p) \in Nat /\ Len(Append(p, s)) = Len(p) + 1
      /\ \A k \in 1..Len(p) : Append(p, s)[k] = p[k]
      /\ Append(p, s)[Len(p) + 1] = s
  BY SeqAppend, SeqBasics
<1>2. 1..(Len(p) + 1) = 1..Len(p) \cup {Len(p) + 1}
  BY <1>1
<1> QED
  BY <1>1, <1>2 DEF Under

\* Items with the same digits are the same.
LEMMA SameItem ==
  ASSUME NEW i \in [1..Depth -> Slot], NEW j \in [1..Depth -> Slot], \A k \in 1..Depth : i[k] = j[k]
  PROVE  i = j
<1>1. i = [k \in 1..Depth |-> i[k]] /\ j = [k \in 1..Depth |-> j[k]]
  OBVIOUS
<1> QED
  BY <1>1, Zenon

\* A node with several items below it is not at the bottom.
LEMMA SeveralNotDeepest ==
  ASSUME NEW I \in SUBSET Item, NEW p \in Seq(Slot), Several(Under(I, p))
  PROVE  Len(p) < Depth
<1> SUFFICES ASSUME Len(p) >= Depth PROVE FALSE
  BY SeqBasics, DepthAssumption
<1>1. PICK i \in Under(I, p), j \in Under(I, p) : i # j
  BY DEF Several
<1>2. i \in [1..Depth -> Slot] /\ j \in [1..Depth -> Slot]
  BY ItemAssumption DEF Under
<1>3. \A k \in 1..Depth : i[k] = j[k]
  <2> TAKE k \in 1..Depth
  <2>1. k \in 1..Len(p)
    BY DepthAssumption, SeqBasics
  <2> QED
    BY <2>1 DEF Under
<1> QED
  BY <1>1, <1>2, <1>3, SameItem, Zenon

\* locate_item finds the node that holds a local item as a leaf.
LEMMA LocateItem ==
  ASSUME TypeOK, NEW v \in Voice, ~ done[v], NEW i \in local_items[v]
  PROVE  LET q == locate_item(v, i) IN i[Len(q) + 1] \in Slot /\ Node(v, q)[i[Len(q) + 1]] = {i}
<1> DEFINE L == local_items[v]
           K == {k \in 1..Depth : Under(L, Prefix(i, k)) = {i}}
<1>1. L \subseteq Item /\ i \in [1..Depth -> Slot]
  BY ItemAssumption DEF TypeOK
<1>2. \A k \in 0..Depth : /\ Prefix(i, k) \in Seq(Slot) /\ Len(Prefix(i, k)) = k
                          /\ \A j \in 1..k : Prefix(i, k)[j] = i[j]
  <2> TAKE k \in 0..Depth
  <2>1. \A j \in 1..k : i[j] \in Slot
    BY <1>1, DepthAssumption
  <2>2. /\ SubSeq(i, 1, k) \in Seq(Slot)
        /\ Len(SubSeq(i, 1, k)) = IF 1 <= k THEN k - 1 + 1 ELSE 0
        /\ \A j \in 1..(k - 1 + 1) : SubSeq(i, 1, k)[j] = i[1 + j - 1]
    BY <2>1, SeqSub, DepthAssumption
  <2> QED
    BY <2>2, DepthAssumption DEF Prefix
<1>3. \A k \in 0..Depth : i \in Under(L, Prefix(i, k))
  BY <1>2 DEF Under
<1>4. Under(L, Prefix(i, Depth)) = {i}
  <2>1. ASSUME NEW j \in Under(L, Prefix(i, Depth)) PROVE j = i
    <3>1. j \in [1..Depth -> Slot]
      BY <1>1, <2>1, ItemAssumption DEF Under
    <3>2. \A k \in 1..Depth : j[k] = i[k]
      BY <1>2, <2>1, DepthAssumption DEF Under
    <3> QED
      BY <1>1, <3>1, <3>2, SameItem, Zenon
  <2> QED
    BY <1>3, <2>1, DepthAssumption
<1>5. PICK k \in K : \A y \in K : k <= y
  <2>1. K \in SUBSET Nat /\ K # {}
    BY <1>4, DepthAssumption
  <2> HIDE DEF K
  <2> QED
    BY <2>1, LeastNatural, Zenon
<1>6. k \in 1..Depth /\ k - 1 \in 0..(Depth - 1) /\ k - 1 \in 0..Depth
      /\ Under(L, Prefix(i, k)) = {i}
  BY <1>5, DepthAssumption
<1>0. PICK p : p = Prefix(i, k - 1)
  OBVIOUS
<1>7. p \in Seq(Slot) /\ Len(p) = k - 1 /\ Len(p) + 1 = k /\ i[k] \in Slot
  BY <1>0, <1>1, <1>2, <1>6
<1>8. Under(L, Append(p, i[k])) = {i}
  <2>1. \A j : j \in Under(L, Append(p, i[k])) <=> j \in Under(L, p) /\ j[k] = i[k]
    <3>1. PICK d \in Slot : d = i[k]
      BY <1>7
    <3>2. Under(L, Append(p, d)) = {j \in Under(L, p) : j[Len(p) + 1] = d}
      <4>1. p \in Seq(Slot)
        BY <1>7
      <4> HIDE DEF L, K
      <4> QED
        BY <4>1, UnderSlot
    <3> QED
      BY <1>7, <3>1, <3>2
  <2>2. \A j : j \in Under(L, p) /\ j[k] = i[k] <=> j \in Under(L, Prefix(i, k))
    <3>1. 1..k = 1..(k - 1) \cup {k}
      BY <1>6, DepthAssumption
    <3> QED
      BY <1>0, <1>2, <1>6, <1>7, <3>1 DEF Under
  <2> QED
    BY <1>6, <2>1, <2>2
<1>9. merkle_node_exists(v, p)
  <2>1. CASE k = 1
    <3>1. p = <<>>
      BY <1>7, <2>1, SeqBasics
    <3> QED
      BY <3>1 DEF merkle_node_exists
  <2>2. CASE k # 1
    <3>1. k - 1 \notin K
      BY <1>5, <1>6, DepthAssumption
    <3>2. Under(L, p) # {i}
      BY <1>0, <1>6, <2>2, <3>1, DepthAssumption
    <3>3. i \in Under(L, p)
      BY <1>0, <1>3, <1>6
    <3> QED
      BY <3>2, <3>3 DEF Several, merkle_node_exists
  <2> QED
    BY <2>1, <2>2
<1>10. Node(v, p) = [s \in Slot |-> Under(L, Append(p, s))]
  BY <1>9 DEF Node
<1>11. Leaf(Node(v, p), i[Len(p) + 1])
  BY <1>7, <1>8, <1>10 DEF Leaf
<1> DEFINE P == {Prefix(i, n) : n \in 0..(Depth - 1)}
<1>12. p \in P
  BY <1>0, <1>6
<1>13. PICK q : q = locate_item(v, i)
  OBVIOUS
<1>14. q \in P /\ merkle_node_exists(v, q) /\ Leaf(Node(v, q), i[Len(q) + 1])
  BY <1>9, <1>11, <1>12, <1>13 DEF locate_item
<1>15. PICK n \in 0..(Depth - 1) : q = Prefix(i, n)
  BY <1>14
<1>16. /\ q \in Seq(Slot) /\ Len(q) = n /\ i[Len(q) + 1] \in Slot /\ n \in 0..Depth
       /\ i \in Under(L, q)
  BY <1>1, <1>2, <1>3, <1>15, DepthAssumption
<1>17. i \in Under(L, Append(q, i[Len(q) + 1]))
  BY <1>16, UnderSlot
<1>18. i \in Node(v, q)[i[Len(q) + 1]]
  BY <1>14, <1>16, <1>17 DEF Node
<1>19. Node(v, q)[i[Len(q) + 1]] = {i}
  BY <1>14, <1>18 DEF Leaf
<1> QED
  BY <1>13, <1>16, <1>19

\* A query that is open for an item settles it: the receiver learns of it, or
\* asks on with a query that is open for it; the sender is taught by the
\* response or by that query, or the query is open for it.
LEMMA OpenSettles ==
  ASSUME TypeOK, NEW u \in Voice, ~ done[u], ~ done[Peer(u)], NEW i \in Common,
         NEW m, Open(u, m, i)
  PROVE  LET our == Node(u, m.pref)
             s == i[Len(m.pref) + 1]
             sub == SubQuery(u, m.pref, our, m.node, s)
             resp == [cmd |-> "response", pref |-> m.pref, node |-> our]
             asks == s \in QuerySlots(u, our, m.node)
         IN /\ \/ i \in note_item_in_peer(m.node) \cup note_subtree_shared_with_peer(our, m.node)
               \/ asks /\ Open(Peer(u), sub, i)
            /\ \/ Teaches(Peer(u), resp, i)
               \/ asks /\ (Teaches(Peer(u), sub, i) \/ Open(Peer(u), sub, i))
<1>1. PICK w : w = Peer(u)
  OBVIOUS
<1>2. w \in Voice /\ Peer(w) = u /\ local_items[u] \subseteq Item /\ local_items[w] \subseteq Item
      /\ i \in local_items[u] /\ i \in local_items[w] /\ i \in Item
  BY <1>1, PeerFacts DEF TypeOK, Common, Voice, Peer
<1>3. PICK p : p = m.pref
  OBVIOUS
<1>4. p \in Seq(Slot) /\ Len(p) < Depth /\ Len(p) \in Nat /\ i \in Under(Item, p)
      /\ merkle_node_exists(u, p) /\ m.cmd = "query"
  BY <1>3 DEF Open
<1>5. PICK s : s = i[Len(p) + 1]
  OBVIOUS
<1>6. s \in Slot
  <2>1. Len(p) + 1 \in 1..Depth
    BY <1>4, DepthAssumption
  <2>2. i \in [1..Depth -> Slot]
    BY <1>2, ItemAssumption
  <2> QED
    BY <1>5, <2>1, <2>2
<1>7. PICK our : our = Node(u, p)
  OBVIOUS
<1>8. our = [t \in Slot |-> Under(local_items[u], Append(p, t))]
  BY <1>4, <1>7 DEF Node
<1>9. PICK S, W, X : /\ S = our[s] /\ S = Under(local_items[u], Append(p, s))
                     /\ W = Under(local_items[w], Append(p, s)) /\ X = m.node[s]
  BY <1>6, <1>8
<1>10. i \in S /\ i \in W /\ i \in X /\ (X = {i} \/ X = W)
  <2>1. i \in Under(local_items[u], p) /\ i \in Under(local_items[w], p)
    BY <1>2, <1>4 DEF Under
  <2>2. i \in S /\ i \in W
    BY <1>4, <1>5, <1>6, <1>9, <2>1, UnderSlot
  <2>3. i \in X /\ (X = {i} \/ X = W)
    BY <1>1, <1>3, <1>5, <1>9 DEF Open
  <2> QED
    BY <2>2, <2>3
<1>11. PICK sub, resp : /\ sub = SubQuery(u, p, our, m.node, s)
                        /\ resp = [cmd |-> "response", pref |-> p, node |-> our]
  BY Zenon
<1>12. PICK q : q = Append(p, s)
  BY Zenon
<1>13. q \in Seq(Slot) /\ i \in Under(Item, q)
  <2>1. i \in Under(Item, p) /\ i[Len(p) + 1] = s
    BY <1>4, <1>5
  <2> QED
    BY <1>4, <1>6, <1>12, <2>1, UnderSlot, SeqAppend
<1>14. S = Under(local_items[u], q) /\ W = Under(local_items[w], q)
  BY <1>9, <1>12
<1> SUFFICES /\ \/ i \in note_item_in_peer(m.node) \cup note_subtree_shared_with_peer(our, m.node)
                \/ s \in QuerySlots(u, our, m.node) /\ Open(w, sub, i)
             /\ \/ Teaches(w, resp, i)
                \/ s \in QuerySlots(u, our, m.node) /\ (Teaches(w, sub, i) \/ Open(w, sub, i))
  BY <1>1, <1>3, <1>5, <1>7, <1>11
<1>15. CASE X = {i}
  <2>1. i \in note_item_in_peer(m.node)
    BY <1>6, <1>9, <1>15, Zenon DEF note_item_in_peer, Leaf
  <2>2. CASE S = {i}
    <3>1. Leaf(our, s) /\ i \in our[s]
      BY <1>9, <2>2 DEF Leaf
    <3>2. Teaches(w, resp, i)
      BY <1>6, <1>11, <3>1 DEF Teaches, note_item_in_peer
    <3> QED
      BY <2>1, <3>2
  <2>3. CASE S # {i}
    <3>1. Subtree(our, s) /\ ~ Leaf(our, s)
      BY <1>9, <1>10, <2>3 DEF Subtree, Several, Leaf
    <3>2. Leaf(m.node, s) /\ m.node[s] \subseteq local_items[u]
      BY <1>2, <1>9, <1>15 DEF Leaf
    <3>3. s \in QuerySlots(u, our, m.node)
      BY <1>6, <3>1, <3>2 DEF QuerySlots
    <3>4. (CHOOSE j \in m.node[s] : TRUE) = i
      BY <1>9, <1>15
    <3>5. PICK l : l = locate_item(u, i)
      OBVIOUS
    <3>6. sub = [cmd |-> "query", pref |-> l, node |-> Node(u, l)]
      BY <1>11, <3>1, <3>2, <3>4, <3>5, Zenon DEF SubQuery
    <3>7. i[Len(l) + 1] \in Slot /\ Node(u, l)[i[Len(l) + 1]] = {i}
      BY <1>2, <3>5, LocateItem, Zenon
    <3>8. i \in note_item_in_peer(Node(u, l))
      BY <3>7 DEF note_item_in_peer, Leaf
    <3>9. Teaches(w, sub, i)
      BY <3>6, <3>8 DEF Teaches
    <3> QED
      BY <2>1, <3>3, <3>9
  <2> QED
    BY <2>2, <2>3
<1>16. CASE X # {i}
  <2>1. X = W /\ Several(X) /\ Subtree(m.node, s) /\ ~ Leaf(m.node, s)
    BY <1>9, <1>10, <1>16 DEF Several, Subtree, Leaf
  <2>2. Len(q) < Depth /\ Len(q) \in Nat
    BY <1>2, <1>13, <1>14, <2>1, SeveralNotDeepest, SeqBasics
  <2>3. merkle_node_exists(w, q)
    BY <1>1, <1>14, <2>1 DEF merkle_node_exists
  <2>4. PICK t : t = i[Len(q) + 1]
    OBVIOUS
  <2>5. t \in Slot
    <3>1. Len(q) + 1 \in 1..Depth
      BY <2>2, DepthAssumption
    <3>2. i \in [1..Depth -> Slot]
      BY <1>2, ItemAssumption
    <3> QED
      BY <2>4, <3>1, <3>2
  <2>6. CASE S = {i}
    <3>1. Leaf(our, s) /\ (CHOOSE j \in our[s] : TRUE) = i
      BY <1>9, <2>6 DEF Leaf
    <3>2. s \in QuerySlots(u, our, m.node)
      BY <1>6, <2>1, <3>1 DEF QuerySlots
    <3>3. sub = [cmd |-> "query", pref |-> q, node |-> SyntheticNode(q, i)]
      BY <1>11, <1>12, <2>1, <3>1, Zenon DEF SubQuery
    <3>4. SyntheticNode(q, i)[t] = {i}
      BY <2>4, <2>5 DEF SyntheticNode
    <3>5. Open(w, sub, i)
      BY <1>13, <2>2, <2>3, <2>4, <3>3, <3>4 DEF Open
    <3> QED
      BY <3>2, <3>5
  <2>7. CASE S # {i} /\ X = S
    <3>1. Subtree(our, s) /\ m.node[s] = our[s] /\ i \in our[s]
      BY <1>9, <1>10, <2>1, <2>7 DEF Subtree
    <3>2. i \in note_subtree_shared_with_peer(our, m.node)
      BY <1>6, <3>1 DEF note_subtree_shared_with_peer
    <3>3. merkle_node_exists(w, p)
      <4>1. W \subseteq Under(local_items[w], p)
        BY <1>4, <1>6, <1>9, UnderSlot
      <4> QED
        BY <1>1, <2>1, <4>1 DEF merkle_node_exists, Several
    <3>4. Node(w, p)[s] = our[s]
      BY <1>6, <1>9, <2>1, <2>7, <3>3, Zenon DEF Node
    <3>5. i \in note_subtree_shared_with_peer(Node(w, p), our)
      BY <1>6, <3>1, <3>4 DEF note_subtree_shared_with_peer, Subtree
    <3>6. Teaches(w, resp, i)
      BY <1>11, <3>5 DEF Teaches
    <3> QED
      BY <3>2, <3>6
  <2>8. CASE S # {i} /\ X # S
    <3>1. Subtree(our, s) /\ ~ Leaf(our, s) /\ m.node[s] # our[s] /\ Several(S)
      BY <1>9, <1>10, <2>8 DEF Subtree, Leaf, Several
    <3>2. s \in QuerySlots(u, our, m.node)
      BY <1>6, <2>1, <3>1 DEF QuerySlots
    <3>3. sub = [cmd |-> "query", pref |-> q, node |-> Node(u, q)]
      BY <1>11, <1>12, <2>1, <3>1 DEF SubQuery
    <3>4. merkle_node_exists(u, q)
      BY <1>14, <3>1 DEF merkle_node_exists
    <3>5. Node(u, q)[t] = Under(local_items[u], Append(q, t))
      BY <2>5, <3>4 DEF Node
    <3>6. i \in Node(u, q)[t]
      <4>1. i \in Under(local_items[u], q) /\ i[Len(q) + 1] = t
        BY <1>10, <1>14, <2>4
      <4> QED
        BY <1>13, <2>5, <3>5, <4>1, UnderSlot
    <3>7. Open(w, sub, i)
      BY <1>2, <1>13, <2>2, <2>3, <2>4, <3>3, <3>5, <3>6 DEF Open
    <3> QED
      BY <3>2, <3>7
  <2> QED
    BY <2>6, <2>7, <2>8
<1> QED
  BY <1>15, <1>16

\* The commands under way after one was delivered and others were sent.
LEMMA ExchangeMsgs ==
  ASSUME NEW v \in Voice, Channel(v), Channel(Peer(v)), DOMAIN net = Voice, net[v] # <<>>,
         NEW T, NEW out \in Seq(T), Exchange(v, out)
  PROVE  /\ Head(net[v]) \in Msgs(v) /\ Msgs(v)' \subseteq Msgs(v)
         /\ Msgs(v) \subseteq Msgs(v)' \cup {Head(net[v])}
         /\ Msgs(Peer(v))' = Msgs(Peer(v)) \cup {out[k] : k \in DOMAIN out}
<1>1. Peer(v) \in Voice /\ Peer(v) # v
  BY PeerFacts
<1>2. net'[v] = Tail(net[v]) /\ net'[Peer(v)] = net[Peer(v)] \o out
  BY <1>1 DEF Exchange
<1>3. PICK S : net[v] \in Seq(S)
  BY DEF Channel
<1>4. PICK s \in Seq(S) : s = net[v]
  BY <1>3
<1>5. /\ s # <<>> /\ Len(s) \in Nat \ {0} /\ DOMAIN s = 1..Len(s) /\ Head(s) = s[1]
      /\ DOMAIN Tail(s) = 1..(Len(s) - 1) /\ \A i \in 1..(Len(s) - 1) : Tail(s)[i] = s[i + 1]
  BY <1>4
<1>6. Head(s) \in {s[k] : k \in DOMAIN s}
  BY <1>5
<1>7. {Tail(s)[k] : k \in DOMAIN Tail(s)} \subseteq {s[k] : k \in DOMAIN s}
  <2> SUFFICES ASSUME NEW k \in 1..(Len(s) - 1) PROVE Tail(s)[k] \in {s[j] : j \in DOMAIN s}
    BY <1>5
  <2>1. k + 1 \in DOMAIN s /\ Tail(s)[k] = s[k + 1]
    BY <1>5
  <2> QED
    BY <2>1
<1>8. {s[k] : k \in DOMAIN s} \subseteq {Tail(s)[k] : k \in DOMAIN Tail(s)} \cup {Head(s)}
  <2> SUFFICES ASSUME NEW k \in 1..Len(s), k # 1
               PROVE  s[k] \in {Tail(s)[j] : j \in DOMAIN Tail(s)}
    BY <1>5
  <2>1. k - 1 \in 1..(Len(s) - 1) /\ (k - 1) + 1 = k
    BY <1>5
  <2>2. Tail(s)[k - 1] = s[k]
    BY <1>5, <2>1
  <2> QED
    BY <1>5, <2>1, <2>2, Zenon
<1>9. PICK S2 : net[Peer(v)] \in Seq(S2)
  BY DEF Channel
<1>10. PICK r \in Seq(S2) : r = net[Peer(v)]
  BY <1>9
<1>11. r \in Seq(S2 \cup T) /\ out \in Seq(S2 \cup T)
  BY SeqWiden
<1>12. /\ Len(r) \in Nat /\ Len(out) \in Nat /\ DOMAIN r = 1..Len(r) /\ DOMAIN out = 1..Len(out)
       /\ DOMAIN (r \o out) = 1..(Len(r) + Len(out))
       /\ \A k \in 1..(Len(r) + Len(out)) :
            (r \o out)[k] = IF k <= Len(r) THEN r[k] ELSE out[k - Len(r)]
  BY <1>11, SeqConcat, SeqBasics
<1>13. {(r \o out)[k] : k \in DOMAIN (r \o out)} =
         {r[k] : k \in DOMAIN r} \cup {out[k] : k \in DOMAIN out}
  <2>1. ASSUME NEW k \in 1..(Len(r) + Len(out))
        PROVE  (r \o out)[k] \in {r[j] : j \in DOMAIN r} \cup {out[j] : j \in DOMAIN out}
    <3>1. CASE k <= Len(r)
      BY <1>12, <3>1
    <3>2. CASE ~ (k <= Len(r))
      <4>1. k - Len(r) \in 1..Len(out)
        BY <1>12, <3>2
      <4> QED
        BY <1>12, <3>2, <4>1
    <3> QED
      BY <3>1, <3>2
  <2>2. \A k \in DOMAIN r : k \in DOMAIN (r \o out) /\ (r \o out)[k] = r[k]
    BY <1>12
  <2>3. ASSUME NEW k \in DOMAIN out
        PROVE  k + Len(r) \in DOMAIN (r \o out) /\ (r \o out)[k + Len(r)] = out[k]
    <3>1. /\ k + Len(r) \in 1..(Len(r) + Len(out)) /\ ~ (k + Len(r) <= Len(r))
          /\ (k + Len(r)) - Len(r) = k
      BY <1>12
    <3> QED
      BY <1>12, <3>1
  <2>4. {(r \o out)[k] : k \in DOMAIN (r \o out)} \subseteq
          {r[k] : k \in DOMAIN r} \cup {out[k] : k \in DOMAIN out}
    BY <1>12, <2>1
  <2>5. {r[k] : k \in DOMAIN r} \subseteq {(r \o out)[k] : k \in DOMAIN (r \o out)}
    BY <2>2
  <2>6. {out[k] : k \in DOMAIN out} \subseteq {(r \o out)[k] : k \in DOMAIN (r \o out)}
    BY <2>3, Zenon
  <2> QED
    BY <2>4, <2>5, <2>6, Zenon
<1>14. Msgs(v) = {s[k] : k \in DOMAIN s} /\ Msgs(Peer(v)) = {r[k] : k \in DOMAIN r}
  BY <1>4, <1>10 DEF Msgs
<1>15. Msgs(v)' = {Tail(s)[k] : k \in DOMAIN Tail(s)}
  BY <1>2, <1>4 DEF Msgs
<1>16. Msgs(Peer(v))' = {(r \o out)[k] : k \in DOMAIN (r \o out)}
  BY <1>2, <1>10 DEF Msgs, Peer
<1>17. Msgs(Peer(v))' = Msgs(Peer(v)) \cup {out[k] : k \in DOMAIN out}
  BY <1>13, <1>14, <1>16, Zenon
<1> QED
  BY <1>4, <1>6, <1>7, <1>8, <1>14, <1>15, <1>17

\* Before a side is done, what a command teaches and which queries are open
\* depends only on items and commands.
LEMMA SameMeaning ==
  ASSUME UNCHANGED <<local_items, done>>, NEW v \in Voice, NEW m, NEW i
  PROVE  (Teaches(v, m, i))' = Teaches(v, m, i) /\ (Open(v, m, i))' = Open(v, m, i)
BY DEF Teaches, Open, Node, merkle_node_exists, note_subtree_shared_with_peer,
       note_item_in_peer

\* What a side finds, it still finds after a command to u was processed, but
\* for what that command taught u or was open for.
LEMMA FindsKept ==
  ASSUME IInv, UNCHANGED <<local_items, done>>, NEW u \in Voice, net[u] # <<>>,
         NEW T, NEW out \in Seq(T), Exchange(u, out),
         \A w \in Voice : peer_items[w] \subseteq peer_items'[w],
         NEW v \in Voice, NEW i, Finds(v, i),
         v = u /\ Teaches(u, Head(net[u]), i) => Finds(v, i)',
         Open(u, Head(net[u]), i) => Finds(v, i)'
  PROVE  Finds(v, i)'
<1>1. /\ Msgs(u) \subseteq Msgs(u)' \cup {Head(net[u])}
      /\ Msgs(Peer(u)) \subseteq Msgs(Peer(u))'
  BY PeerFacts, ExchangeMsgs DEF IInv
<1>2. \A w \in Voice : w = u \/ w = Peer(u)
  BY PeerFacts
<1>3. CASE i \in peer_items[v]
  BY <1>3 DEF Finds
<1>4. ASSUME NEW m \in Msgs(v), Teaches(v, m, i) PROVE Finds(v, i)'
  <2>1. m \in Msgs(v)' \/ (v = u /\ m = Head(net[u]))
    BY <1>1, <1>2
  <2>2. (Teaches(v, m, i))'
    BY <1>4, SameMeaning
  <2> QED
    BY <1>4, <2>1, <2>2 DEF Finds
<1>5. ASSUME NEW w \in Voice, NEW m \in Msgs(w), Open(w, m, i) PROVE Finds(v, i)'
  <2>1. m \in Msgs(w)' \/ (w = u /\ m = Head(net[u]))
    BY <1>1, <1>2
  <2>2. (Open(w, m, i))'
    BY <1>5, SameMeaning
  <2> QED
    BY <1>5, <2>1, <2>2 DEF Finds
<1> QED
  BY <1>3, <1>4, <1>5 DEF Finds

\* Refinement takes its course, and no item of both sides is lost sight of.
RInv == Stages /\ Found /\ NothingResent

\* The last command of a queue after the head was taken and after more was
\* sent.
LEMMA LastKept ==
  ASSUME NEW S, NEW s \in Seq(S), NEW T, NEW t \in Seq(T)
  PROVE  /\ s # <<>> /\ Tail(s) # <<>> => Tail(s)[Len(Tail(s))] = s[Len(s)]
         /\ t # <<>> => (s \o t)[Len(s \o t)] = t[Len(t)]
<1>1. ASSUME s # <<>>, Tail(s) # <<>> PROVE Tail(s)[Len(Tail(s))] = s[Len(s)]
  <2>1. PICK r \in Seq(S) : r = Tail(s)
    BY <1>1, SeqTail, Zenon
  <2>2. /\ Len(r) = Len(s) - 1 /\ Len(r) \in Nat \ {0} /\ Len(s) \in Nat
        /\ \A i \in 1..Len(r) : r[i] = s[i + 1]
    BY <1>1, <2>1, SeqTail, SeqBasics
  <2>3. PICK n \in Nat \ {0} : n = Len(r)
    BY <2>2
  <2>4. n \in 1..n /\ n + 1 = Len(s)
    BY <2>2, <2>3
  <2>5. r[n] = s[n + 1]
    BY <2>2, <2>3, <2>4
  <2> QED
    BY <2>1, <2>3, <2>4, <2>5
<1>2. ASSUME t # <<>> PROVE (s \o t)[Len(s \o t)] = t[Len(t)]
  <2>1. s \in Seq(S \cup T) /\ t \in Seq(S \cup T)
    BY SeqWiden
  <2>2. /\ Len(s) \in Nat /\ Len(t) \in Nat \ {0} /\ Len(s \o t) = Len(s) + Len(t)
        /\ \A i \in 1..(Len(s) + Len(t)) :
             (s \o t)[i] = IF i <= Len(s) THEN s[i] ELSE t[i - Len(s)]
    BY <1>2, <2>1, SeqConcat, SeqBasics
  <2> QED
    BY <2>2
<1> QED
  BY <1>1, <1>2

\* Answering a query keeps the course of refinement and loses no item.
LEMMA QueryRInv ==
  ASSUME IInv, RInv, NEW v \in Voice, process_refinement_query(v)
  PROVE  RInv'
<1>1. PICK m : m = Head(net[v])
  OBVIOUS
<1>2. PICK our : our = Node(v, m.pref)
  OBVIOUS
<1>3. /\ net[v] # <<>> /\ m.cmd = "query" /\ CompareNodes(v, our, m.node)
      /\ UNCHANGED <<local_items, calculated_items_to_send, items_to_send, done,
                     sent_initial_query>>
  BY <1>1, <1>2 DEF process_refinement_query
<1>4. PICK resp : resp = [cmd |-> "response", pref |-> m.pref, node |-> our]
  BY Zenon
<1>5. PICK T : \E out \in Seq(T) :
        /\ Exchange(v, out)
        /\ \A s \in QuerySlots(v, our, m.node) :
             \E k \in DOMAIN out : out[k] = SubQuery(v, m.pref, our, m.node, s)
        /\ out # <<>> /\ out[Len(out)] = resp
        /\ \A k \in DOMAIN out : out[k].cmd \in {"query", "response"}
  BY <1>1, <1>2, <1>4, QueryAnswered, Zenon
<1>6. PICK out \in Seq(T) :
        /\ Exchange(v, out)
        /\ \A s \in QuerySlots(v, our, m.node) :
             \E k \in DOMAIN out : out[k] = SubQuery(v, m.pref, our, m.node, s)
        /\ out # <<>> /\ out[Len(out)] = resp
        /\ \A k \in DOMAIN out : out[k].cmd \in {"query", "response"}
  BY <1>5
<1>7. /\ Peer(v) \in Voice /\ Peer(v) # v /\ Channel(v) /\ Channel(Peer(v)) /\ DOMAIN net = Voice
      /\ \A w \in Voice : w = v \/ w = Peer(v)
  BY PeerFacts DEF IInv
<1>8. /\ m \in Msgs(v) /\ Msgs(v)' \subseteq Msgs(v)
      /\ Msgs(Peer(v))' = Msgs(Peer(v)) \cup {out[k] : k \in DOMAIN out}
  BY <1>1, <1>3, <1>6, <1>7, ExchangeMsgs
<1>9. "client" \in Voice /\ "server" \in Voice /\ Peer("server") = "client"
  BY DEF Voice, Peer
<1>10. /\ ~ calculated_items_to_send["client"] /\ ~ calculated_items_to_send["server"]
       /\ \A w \in Voice : ~ done[w] /\ \A x \in Msgs(w) : x.cmd # "done"
       /\ net["client"] # <<>> => net["client"][Len(net["client"])].cmd = "response"
       /\ sent_initial_query
  BY <1>3, <1>8 DEF RInv, Stages
<1>11. \A w \in Voice : \A x \in Msgs(w)' : x.cmd # "done"
  BY <1>6, <1>7, <1>8, <1>10
<1>12. net'["client"] # <<>> => net'["client"][Len(net'["client"])].cmd = "response"
  <2>1. net'[v] = Tail(net[v]) /\ net'[Peer(v)] = net[Peer(v)] \o out
    BY <1>6, <1>7 DEF Exchange
  <2>2. PICK S : net[v] \in Seq(S)
    BY <1>7 DEF Channel
  <2>3. PICK S2 : net[Peer(v)] \in Seq(S2)
    BY <1>7 DEF Channel
  <2>4. /\ net'[v] # <<>> => net'[v][Len(net'[v])] = net[v][Len(net[v])]
        /\ net'[Peer(v)][Len(net'[Peer(v)])] = resp
    BY <1>3, <1>6, <2>1, <2>2, <2>3, LastKept
  <2>5. CASE v = "client"
    BY <1>3, <1>10, <2>4, <2>5
  <2>6. CASE v = "server"
    BY <1>4, <1>9, <2>4, <2>6
  <2> QED
    BY <2>5, <2>6 DEF Voice
<1>13. Stages'
  BY <1>3, <1>9, <1>10, <1>11, <1>12 DEF Stages
<1>14. NothingResent'
  BY <1>3, <1>10 DEF NothingResent, Voice
<1>15. peer_items' = [peer_items EXCEPT ![v] =
         @ \cup note_item_in_peer(m.node) \cup note_subtree_shared_with_peer(our, m.node)]
  BY <1>3 DEF CompareNodes
<1>16. /\ \A w \in Voice : peer_items[w] \subseteq peer_items'[w]
       /\ note_item_in_peer(m.node) \cup note_subtree_shared_with_peer(our, m.node)
            \subseteq peer_items'[v]
  BY <1>15 DEF IInv, TypeOK
<1>17. ASSUME NEW w \in Voice, NEW i \in Common PROVE Finds(w, i)'
  <2>1. Finds(w, i)
    BY <1>10 DEF RInv, Found
  <2>2. w = v /\ Teaches(v, m, i) => Finds(w, i)'
    BY <1>2, <1>16 DEF Teaches, Finds
  <2>3. ASSUME Open(v, m, i) PROVE Finds(w, i)'
    <3>1. PICK s : s = i[Len(m.pref) + 1]
      OBVIOUS
    <3>2. PICK sub : sub = SubQuery(v, m.pref, our, m.node, s)
      OBVIOUS
    <3>3. /\ \/ i \in note_item_in_peer(m.node) \cup note_subtree_shared_with_peer(our, m.node)
             \/ s \in QuerySlots(v, our, m.node) /\ Open(Peer(v), sub, i)
          /\ \/ Teaches(Peer(v), resp, i)
             \/ /\ s \in QuerySlots(v, our, m.node)
                /\ Teaches(Peer(v), sub, i) \/ Open(Peer(v), sub, i)
      BY <1>2, <1>4, <1>7, <1>10, <2>3, <3>1, <3>2, OpenSettles DEF IInv
    <3>4. resp \in Msgs(Peer(v))'
      <4>1. Len(out) \in DOMAIN out
        BY <1>6, SeqBasics
      <4> QED
        BY <1>6, <1>8, <4>1
    <3>5. s \in QuerySlots(v, our, m.node) => sub \in Msgs(Peer(v))'
      BY <1>6, <1>8, <3>2
    <3>6. /\ Open(Peer(v), sub, i) => (Open(Peer(v), sub, i))'
          /\ Teaches(Peer(v), sub, i) => (Teaches(Peer(v), sub, i))'
          /\ Teaches(Peer(v), resp, i) => (Teaches(Peer(v), resp, i))'
      BY <1>3, <1>7, SameMeaning
    <3>7. CASE w = v
      <4>1. CASE i \in note_item_in_peer(m.node) \cup note_subtree_shared_with_peer(our, m.node)
        BY <1>16, <3>7, <4>1 DEF Finds
      <4>2. CASE s \in QuerySlots(v, our, m.node) /\ Open(Peer(v), sub, i)
        BY <1>7, <3>5, <3>6, <4>2 DEF Finds
      <4> QED
        BY <3>3, <4>1, <4>2
    <3>8. CASE w = Peer(v)
      BY <1>7, <3>3, <3>4, <3>5, <3>6, <3>8 DEF Finds
    <3> QED
      BY <1>7, <3>7, <3>8
  <2> QED
    BY <1>1, <1>3, <1>6, <1>16, <2>1, <2>2, <2>3, FindsKept
<1>18. Found'
  <2>1. Common' = Common
    BY <1>3 DEF Common
  <2> QED
    BY <1>17, <2>1 DEF Found
<1> QED
  BY <1>13, <1>14, <1>18 DEF RInv

\* A queue that holds one command of a kind, at its head and at its end, holds
\* nothing else.
LEMMA LastOne ==
  ASSUME NEW S, NEW s \in Seq(S), s # <<>>, NEW c, Head(s).cmd = c, s[Len(s)].cmd = c,
         Count(s, c) = 1
  PROVE  Tail(s) = <<>>
<1>1. /\ Len(s) \in Nat \ {0} /\ DOMAIN s = 1..Len(s) /\ Head(s) = s[1]
      /\ Len(Tail(s)) = Len(s) - 1
  BY SeqTail, SeqBasics
<1>2. 1 \in Indices(s, c) /\ Len(s) \in Indices(s, c)
  BY <1>1 DEF Indices
<1>3. IsFiniteSet(Indices(s, c)) /\ Cardinality(Indices(s, c)) = 1
  BY CountType DEF Count
<1>4. PICK x : Indices(s, c) = {x}
  BY <1>3, FS_Singleton, Zenon
<1>5. Len(s) = 1
  BY <1>2, <1>4
<1>6. Tail(s) \in Seq(S) /\ Len(Tail(s)) = 0
  BY <1>1, <1>5, SeqTail
<1> QED
  BY <1>6, SeqBasics, Zenon

\* No command of a kind is counted where there is none, and conversely.
LEMMA CountZero ==
  ASSUME NEW v \in Voice, Channel(v), NEW c
  PROVE  (Count(net[v], c) = 0) <=> \A m \in Msgs(v) : m.cmd # c
<1>1. PICK S : net[v] \in Seq(S)
  BY DEF Channel
<1>2. IsFiniteSet(Indices(net[v], c))
  BY <1>1, CountType
<1>3. (Count(net[v], c) = 0) <=> Indices(net[v], c) = {}
  BY <1>2, FS_EmptySet DEF Count
<1> QED
  BY <1>3 DEF Indices, Msgs

\* A response loses no item: what it teaches is noted as it is processed.
LEMMA ResponseFound ==
  ASSUME IInv, RInv, NEW v \in Voice, process_refinement_response(v),
         NEW T, NEW out \in Seq(T), Exchange(v, out)
  PROVE  Found'
<1>1. PICK m : m = Head(net[v])
  OBVIOUS
<1>2. /\ net[v] # <<>> /\ m.cmd = "response" /\ CompareNodes(v, Node(v, m.pref), m.node)
      /\ UNCHANGED <<local_items, done, sent_initial_query>>
  BY <1>1 DEF process_refinement_response
<1>3. peer_items' = [peer_items EXCEPT ![v] = @ \cup note_item_in_peer(m.node)
                        \cup note_subtree_shared_with_peer(Node(v, m.pref), m.node)]
  BY <1>2 DEF CompareNodes
<1>4. /\ \A w \in Voice : peer_items[w] \subseteq peer_items'[w]
      /\ note_item_in_peer(m.node) \cup note_subtree_shared_with_peer(Node(v, m.pref), m.node)
           \subseteq peer_items'[v]
  BY <1>3 DEF IInv, TypeOK
<1>5. ASSUME sent_initial_query, NEW w \in Voice, NEW i \in Common PROVE Finds(w, i)'
  <2>1. Finds(w, i)
    BY <1>5 DEF RInv, Found
  <2>2. w = v /\ Teaches(v, m, i) => Finds(w, i)'
    BY <1>4 DEF Teaches, Finds
  <2>3. ~ Open(v, m, i)
    BY <1>2 DEF Open
  <2> QED
    BY <1>1, <1>2, <1>4, <2>1, <2>2, <2>3, FindsKept
<1>6. Common' = Common
  BY <1>2 DEF Common
<1> QED
  BY <1>2, <1>5, <1>6 DEF Found

\* The last response to the client leaves nothing to find for it.
LEMMA LastResponseRInv ==
  ASSUME IInv, RInv, \A w \in Voice : Balance(w),
         process_refinement_response("client"), LastResponse("client")
  PROVE  RInv'
<1>1. /\ net["client"] # <<>> /\ Head(net["client"]).cmd = "response"
      /\ queries_in_flight["client"] = 1
      /\ calculate_items_to_send("client") /\ Exchange("client", <<DoneCommand("client")>>)
      /\ UNCHANGED <<local_items, done, sent_initial_query>>
  BY DEF process_refinement_response, LastResponse
<1>2. PICK d : d = DoneCommand("client")
  OBVIOUS
<1>3. d.cmd = "done"
  BY <1>2 DEF DoneCommand
<1>4. /\ "client" \in Voice /\ "server" \in Voice
      /\ Peer("client") = "server" /\ Peer("server") = "client"
      /\ Channel("client") /\ Channel("server") /\ DOMAIN net = Voice
  BY DEF Voice, Peer, IInv
<1>5. PICK out \in Seq({d}) : out = <<d>>
  <2>1. <<d>> \in Seq({d})
    OBVIOUS
  <2> QED
    BY <2>1, Zenon
<1>5a. Exchange("client", out)
  BY <1>1, <1>2, <1>5
<1>6. /\ Head(net["client"]) \in Msgs("client")
      /\ Msgs("server")' = Msgs("server") \cup {out[k] : k \in DOMAIN out}
  <2>1. Channel(Peer("client"))
    BY <1>4
  <2>2. /\ Head(net["client"]) \in Msgs("client")
        /\ Msgs(Peer("client"))' = Msgs(Peer("client")) \cup {out[k] : k \in DOMAIN out}
    BY <1>1, <1>4, <1>5a, <2>1, ExchangeMsgs
  <2> QED
    BY <2>2 DEF Peer
<1>7. {out[k] : k \in DOMAIN out} = {d}
  BY <1>5
<1>8. ~ done["server"] /\ ~ calculated_items_to_send["client"]
  BY <1>1, <1>6 DEF RInv, Stages
<1>9. /\ ~ calculated_items_to_send["server"]
      /\ \A w \in Voice : ~ done[w] /\ \A x \in Msgs(w) : x.cmd # "done"
      /\ net["client"][Len(net["client"])].cmd = "response"
      /\ sent_initial_query
  BY <1>1, <1>4, <1>8 DEF RInv, Stages
<1>10. Count(net["client"], "response") = 1 /\ Count(net["server"], "query") = 0
  <2>1. PICK S : net["client"] \in Seq(S)
    BY <1>4 DEF Channel
  <2>2. PICK T : net["server"] \in Seq(T)
    BY <1>4 DEF Channel
  <2>3. Count(net["client"], "response") \in Nat /\ Count(net["server"], "query") \in Nat
    BY <2>1, <2>2, CountType
  <2>4. Count(net["client"], "response") # 0
    BY <1>1, <1>4, <1>6, CountZero
  <2>5. queries_in_flight["client"] = Count(net["server"], "query") + Count(net["client"], "response")
    BY <1>4 DEF Balance
  <2> QED
    BY <1>1, <2>3, <2>4, <2>5
<1>11. net'["client"] = <<>>
  <2>1. PICK S : net["client"] \in Seq(S)
    BY <1>4 DEF Channel
  <2>2. Tail(net["client"]) = <<>>
    BY <1>1, <1>9, <1>10, <2>1, LastOne, Zenon
  <2> QED
    BY <1>4, <1>5a, <2>2, Zenon DEF Exchange
<1>12. Msgs("client")' = {} /\ \A x \in Msgs("server")' : x.cmd # "query"
  <2>1. \A x \in Msgs("server") : x.cmd # "query"
    BY <1>4, <1>10, CountZero
  <2>2. Msgs("client")' = {}
    BY <1>11 DEF Msgs
  <2> QED
    BY <1>3, <1>6, <1>7, <2>1, <2>2
<1>13. Found'
  BY <1>4, <1>5a, ResponseFound
<1>14. \A i \in Common' : i \in peer_items'["client"]
  <2> TAKE i \in Common'
  <2>1. Finds("client", i)'
    BY <1>1, <1>4, <1>9, <1>13 DEF Found
  <2>2. \A w \in Voice : \A x \in Msgs(w)' : ~ (Open(w, x, i))'
    BY <1>12 DEF Open, Voice
  <2> QED
    BY <1>12, <2>1, <2>2 DEF Finds
<1>15. /\ items_to_send'["client"] = local_items["client"] \ peer_items'["client"]
       /\ calculated_items_to_send'["client"] /\ ~ calculated_items_to_send'["server"]
  BY <1>1, <1>4, <1>8, <1>9, Zenon DEF calculate_items_to_send, IInv, TypeOK
<1>16. NothingResent'
  <2>1. items_to_send'["client"] \cap local_items'["server"] = {}
    BY <1>1, <1>14, <1>15 DEF Common
  <2> QED
    BY <1>4, <1>15, <2>1 DEF NothingResent, Voice, Peer
<1>17. \A k \in DOMAIN net'["server"] :
         net'["server"][k].cmd = "done" => k = Len(net'["server"])
  <2>1. PICK S : net["server"] \in Seq(S)
    BY <1>4 DEF Channel
  <2>2. net'["server"] = net["server"] \o <<d>>
    BY <1>4, <1>5, <1>5a, Zenon DEF Exchange
  <2>3. net["server"] \in Seq(S \cup {d}) /\ <<d>> \in Seq(S \cup {d}) /\ Len(<<d>>) = 1
    BY <2>1, SeqWiden
  <2>4. /\ Len(net["server"]) \in Nat /\ DOMAIN net["server"] = 1..Len(net["server"])
        /\ Len(net'["server"]) = Len(net["server"]) + 1
        /\ DOMAIN net'["server"] = 1..(Len(net["server"]) + 1)
        /\ \A k \in 1..(Len(net["server"]) + 1) :
             k <= Len(net["server"]) => net'["server"][k] = net["server"][k]
    BY <2>2, <2>3, SeqConcat, SeqBasics
  <2>5. \A k \in DOMAIN net["server"] : net["server"][k].cmd # "done"
    BY <1>4, <1>9 DEF Msgs
  <2>6. ASSUME NEW k \in 1..(Len(net["server"]) + 1), net'["server"][k].cmd = "done"
        PROVE  k = Len(net["server"]) + 1
    <3>1. ~ (k <= Len(net["server"]))
      BY <2>4, <2>5, <2>6
    <3> QED
      BY <2>4, <3>1
  <2> QED
    BY <2>4, <2>6
<1>18. \A w \in Voice : \A x \in Msgs(w)' : x.cmd # "query"
  BY <1>12 DEF Voice
<1>19. Stages'
  BY <1>1, <1>4, <1>9, <1>11, <1>15, <1>17, <1>18 DEF Stages
<1> QED
  BY <1>13, <1>16, <1>19 DEF RInv

\* Any other response leaves the end of refinement where it was.
LEMMA ResponseRInv ==
  ASSUME IInv, RInv, \A w \in Voice : Balance(w), NEW v \in Voice,
         process_refinement_response(v)
  PROVE  RInv'
<1>1. CASE LastResponse(v)
  <2>1. v = "client"
    BY <1>1 DEF LastResponse
  <2> QED
    BY <1>1, <2>1, LastResponseRInv
<1>2. CASE ~ LastResponse(v)
  <2>1. /\ net[v] # <<>> /\ Head(net[v]).cmd = "response" /\ Exchange(v, <<>>)
        /\ UNCHANGED <<items_to_send, calculated_items_to_send, local_items, done,
                       sent_initial_query>>
    BY <1>2 DEF process_refinement_response
  <2>2. /\ Peer(v) \in Voice /\ Peer(v) # v /\ Channel(v) /\ Channel(Peer(v)) /\ DOMAIN net = Voice
        /\ \A w \in Voice : w = v \/ w = Peer(v)
    BY PeerFacts DEF IInv
  <2>3. PICK out \in Seq({}) : out = <<>>
    BY SeqEmpty, Zenon
  <2>4. Exchange(v, out)
    BY <2>1, <2>3
  <2>5. Found'
    BY <2>4, ResponseFound
  <2>6. NothingResent'
    BY <2>1 DEF NothingResent, RInv
  <2>7. /\ Head(net[v]) \in Msgs(v) /\ Msgs(v)' \subseteq Msgs(v)
        /\ Msgs(Peer(v))' = Msgs(Peer(v)) \cup {out[k] : k \in DOMAIN out}
    BY <2>1, <2>2, <2>4, ExchangeMsgs
  <2>8. {out[k] : k \in DOMAIN out} = {}
    BY <2>3
  <2>9. \A w \in Voice : Msgs(w)' \subseteq Msgs(w)
    BY <2>2, <2>7, <2>8
  <2>10. net'[v] = Tail(net[v]) /\ net'[Peer(v)] = net[Peer(v)]
    <3>1. PICK S : net[Peer(v)] \in Seq(S)
      BY <2>2 DEF Channel
    <3>2. net[Peer(v)] \o <<>> = net[Peer(v)]
      BY <3>1, SeqConcat
    <3> QED
      BY <2>1, <2>2, <3>2 DEF Exchange
  <2>11. ~ done["server"] /\ sent_initial_query
    BY <2>1, <2>7 DEF RInv, Stages, Voice
  <2>12. PICK S : net[v] \in Seq(S)
    BY <2>2 DEF Channel
  <2>13. CASE ~ calculated_items_to_send["client"]
    <3>1. net'["client"] # <<>> => net'["client"][Len(net'["client"])].cmd = "response"
      <4>1. net["client"] # <<>> => net["client"][Len(net["client"])].cmd = "response"
        BY <2>13 DEF RInv, Stages
      <4>2. net'[v] # <<>> => net'[v][Len(net'[v])] = net[v][Len(net[v])]
        BY <2>1, <2>3, <2>10, <2>12, LastKept
      <4>3. CASE v = "client"
        BY <2>1, <4>1, <4>2, <4>3
      <4>4. CASE v = "server"
        BY <2>10, <4>1, <4>4 DEF Peer
      <4> QED
        BY <4>3, <4>4 DEF Voice
    <3>2. /\ ~ calculated_items_to_send["server"]
          /\ \A w \in Voice : ~ done[w] /\ \A x \in Msgs(w)' : x.cmd # "done"
      BY <2>9, <2>13 DEF RInv, Stages
    <3>3. Stages'
      BY <2>1, <2>11, <2>13, <3>1, <3>2 DEF Stages
    <3> QED
      BY <2>5, <2>6, <3>3 DEF RInv
  <2>14. CASE calculated_items_to_send["client"]
    <3>1. /\ net["client"] = <<>> /\ ~ done["client"] /\ ~ calculated_items_to_send["server"]
          /\ \A k \in DOMAIN net["server"] :
               net["server"][k].cmd = "done" => k = Len(net["server"])
          /\ \A w \in Voice : \A x \in Msgs(w)' : x.cmd # "query"
      BY <2>9, <2>11, <2>14 DEF RInv, Stages
    <3>2. v = "server" /\ Peer(v) = "client"
      BY <2>1, <3>1 DEF Voice, Peer
    <3>3. PICK s \in Seq(S) : s = net[v]
      BY <2>12
    <3>4. /\ Len(s) \in Nat /\ DOMAIN s = 1..Len(s) /\ Len(Tail(s)) = Len(s) - 1
          /\ DOMAIN Tail(s) = 1..(Len(s) - 1) /\ \A k \in 1..(Len(s) - 1) : Tail(s)[k] = s[k + 1]
      BY <2>1, <3>3
    <3>5. \A k \in DOMAIN s : s[k].cmd = "done" => k = Len(s)
      BY <3>1, <3>2, <3>3
    <3>6. ASSUME NEW k \in DOMAIN Tail(s), Tail(s)[k].cmd = "done" PROVE k = Len(Tail(s))
      <4>1. k + 1 \in DOMAIN s /\ s[k + 1].cmd = "done"
        BY <3>4, <3>6
      <4>2. k + 1 = Len(s)
        BY <3>5, <4>1
      <4> QED
        BY <3>4, <4>2
    <3>7. net'["server"] = Tail(s) /\ net'["client"] = <<>>
      BY <2>10, <3>1, <3>2, <3>3
    <3>8. Stages'
      BY <2>1, <2>11, <2>14, <3>1, <3>6, <3>7 DEF Stages
    <3> QED
      BY <2>5, <2>6, <3>8 DEF RInv
  <2> QED
    BY <2>13, <2>14
<1> QED
  BY <1>1, <1>2

\* When no query and no response is under way, a side knows what it finds.
LEMMA FindsNow ==
  ASSUME NEW v \in Voice, NEW i, Finds(v, i),
         \A w \in Voice : \A m \in Msgs(w) : m.cmd # "query",
         \A m \in Msgs(v) : m.cmd # "response"
  PROVE  i \in peer_items[v]
BY DEF Finds, Teaches, Open

\* The done command reaches the server when nothing else is under way.
LEMMA ServerDoneRInv ==
  ASSUME IInv, RInv, process_done_command("server")
  PROVE  RInv'
<1>1. /\ net["server"] # <<>> /\ Head(net["server"]).cmd = "done"
      /\ UNCHANGED <<local_items, peer_items, sent_initial_query>>
      /\ calculate_items_to_send("server")
      /\ done' = [done EXCEPT !["server"] = TRUE]
      /\ Exchange("server", <<DoneCommand("server")>>)
  BY DEF process_done_command, DoneEcho
<1>2. PICK d : d = DoneCommand("server")
  OBVIOUS
<1>3. d.cmd = "done"
  BY <1>2 DEF DoneCommand
<1>4. /\ "client" \in Voice /\ "server" \in Voice
      /\ Peer("client") = "server" /\ Peer("server") = "client"
      /\ Channel("client") /\ Channel("server") /\ DOMAIN net = Voice
  BY DEF Voice, Peer, IInv
<1>5. PICK S : net["server"] \in Seq(S)
  BY <1>4 DEF Channel
<1>6. PICK s \in Seq(S) : s = net["server"]
  BY <1>5
<1>7. /\ Len(s) \in Nat \ {0} /\ DOMAIN s = 1..Len(s) /\ Head(s) = s[1]
      /\ Len(Tail(s)) = Len(s) - 1 /\ Tail(s) \in Seq(S) /\ 1 \in DOMAIN s
  BY <1>1, <1>6
<1>8. s[1] \in Msgs("server") /\ s[1].cmd = "done"
  BY <1>1, <1>6, <1>7 DEF Msgs
<1>9. sent_initial_query /\ ~ done["server"] /\ calculated_items_to_send["client"]
  BY <1>1, <1>4, <1>8 DEF RInv, Stages
<1>10. /\ net["client"] = <<>> /\ ~ done["client"] /\ ~ calculated_items_to_send["server"]
       /\ \A w \in Voice : \A x \in Msgs(w) : x.cmd # "query"
       /\ 1 = Len(s)
  BY <1>6, <1>7, <1>8, <1>9, Zenon DEF RInv, Stages
<1>11. \A w \in Voice : \A x \in Msgs(w) : x.cmd # "response"
  <2>1. Msgs("client") = {}
    BY <1>10 DEF Msgs
  <2>2. \A x \in Msgs("server") : x = s[1]
    BY <1>6, <1>7, <1>10 DEF Msgs
  <2> QED
    BY <1>8, <2>1, <2>2 DEF Voice
<1>12. \A w \in Voice, i \in Common : i \in peer_items[w]
  BY <1>9, <1>10, <1>11, FindsNow DEF RInv, Found
<1>13. Common' = Common
  BY <1>1 DEF Common
<1>14. Found'
  BY <1>1, <1>12, <1>13 DEF Found, Finds
<1>15. /\ items_to_send' = [items_to_send EXCEPT !["server"] =
                              local_items["server"] \ peer_items["server"]]
       /\ calculated_items_to_send' = [calculated_items_to_send EXCEPT !["server"] = TRUE]
  BY <1>1, <1>10 DEF calculate_items_to_send
<1>16. NothingResent'
  <2>1. items_to_send'["server"] \cap local_items'["client"] = {}
    BY <1>1, <1>4, <1>12, <1>15 DEF Common, IInv, TypeOK
  <2>2. items_to_send'["client"] \cap local_items'["server"] = {}
    BY <1>1, <1>4, <1>9, <1>15 DEF RInv, NothingResent
  <2> QED
    BY <2>1, <2>2 DEF NothingResent, Voice, Peer
<1>17. net'["server"] = <<>> /\ net'["client"] = <<d>>
  <2>1. PICK r \in Seq(S) : r = Tail(s) /\ Len(r) = 0
    <3>1. PICK r \in Seq(S) : r = Tail(s)
      BY <1>7, Zenon
    <3>2. Len(r) = 1 - 1
      BY <1>7, <1>10, <3>1
    <3> QED
      BY <3>1, <3>2
  <2>1a. Tail(s) = <<>>
    BY <2>1, SeqBasics
  <2>2. <<>> \o <<d>> = <<d>>
    OBVIOUS
  <2> QED
    BY <1>1, <1>2, <1>4, <1>6, <1>10, <2>1a, <2>2, Zenon DEF Exchange
<1>18. \A w \in Voice : \A x \in Msgs(w)' : x = d
  BY <1>17 DEF Msgs, Voice
<1>19. done'["server"] /\ calculated_items_to_send'["client"]
  BY <1>1, <1>4, <1>9, <1>15 DEF IInv, TypeOK
<1>20. Stages'
  BY <1>1, <1>3, <1>4, <1>9, <1>17, <1>18, <1>19 DEF Stages
<1> QED
  BY <1>14, <1>16, <1>20 DEF RInv

\* The client's done command is the end: it has calculated before.
LEMMA ClientDoneRInv ==
  ASSUME IInv, RInv, process_done_command("client")
  PROVE  RInv'
<1>1. /\ net["client"] # <<>> /\ Head(net["client"]).cmd = "done"
      /\ UNCHANGED <<local_items, peer_items, sent_initial_query>>
      /\ calculate_items_to_send("client")
      /\ done' = [done EXCEPT !["client"] = TRUE]
      /\ Exchange("client", <<>>)
  BY DEF process_done_command, DoneEcho
<1>2. /\ "client" \in Voice /\ "server" \in Voice
      /\ Peer("client") = "server" /\ Peer("server") = "client"
      /\ Channel("client") /\ Channel("server") /\ DOMAIN net = Voice
  BY DEF Voice, Peer, IInv
<1>3. PICK out \in Seq({}) : out = <<>>
  BY SeqEmpty, Zenon
<1>4. Exchange("client", out)
  BY <1>1, <1>3
<1>5. Head(net["client"]) \in Msgs("client") /\ Msgs("client")' \subseteq Msgs("client")
  <2>1. Channel(Peer("client"))
    BY <1>2
  <2> QED
    BY <1>1, <1>2, <1>4, <2>1, ExchangeMsgs
<1>6. calculated_items_to_send["client"] /\ done["server"] /\ sent_initial_query
  BY <1>1, <1>2, <1>5 DEF RInv, Stages
<1>7. /\ net["server"] = <<>> /\ \A m \in Msgs("client") : m.cmd # "response"
      /\ \A w \in Voice : \A x \in Msgs(w) : x.cmd # "query"
  BY <1>6 DEF RInv, Stages
<1>8. Msgs("server") = {}
  BY <1>7 DEF Msgs
<1>9. \A w \in Voice, i \in Common : i \in peer_items[w]
  BY <1>6, <1>7, <1>8, FindsNow DEF RInv, Found, Voice
<1>10. Common' = Common
  BY <1>1 DEF Common
<1>11. Found'
  BY <1>1, <1>9, <1>10 DEF Found, Finds
<1>12. UNCHANGED <<items_to_send, calculated_items_to_send>>
  BY <1>1, <1>6 DEF calculate_items_to_send
<1>13. NothingResent'
  BY <1>1, <1>12 DEF RInv, NothingResent
<1>14. net'["server"] = <<>>
  BY <1>1, <1>2, <1>7 DEF Exchange
<1>15. Msgs("server")' = {}
  BY <1>14 DEF Msgs
<1>16. done'["server"] = done["server"]
  BY <1>1, <1>2 DEF IInv, TypeOK
<1>17. Stages'
  BY <1>1, <1>5, <1>6, <1>7, <1>12, <1>14, <1>15, <1>16 DEF Stages, Voice
<1> QED
  BY <1>11, <1>13, <1>17 DEF RInv

\* The first query opens every item both sides have.
LEMMA BeginRInv ==
  ASSUME IInv, RInv, begin_refinement
  PROVE  RInv'
<1>1. PICK q : q = [cmd |-> "query", pref |-> <<>>, node |-> Node("client", <<>>)]
  BY Zenon
<1>2. /\ ~ sent_initial_query /\ sent_initial_query'
      /\ net' = [net EXCEPT !["server"] = Append(@, q)]
      /\ UNCHANGED <<local_items, peer_items, items_to_send, calculated_items_to_send, done>>
  BY <1>1 DEF begin_refinement
<1>3. /\ "client" \in Voice /\ "server" \in Voice /\ DOMAIN net = Voice
      /\ Peer("client") = "server" /\ Peer("server") = "client"
  BY DEF Voice, Peer, IInv
<1>4. /\ \A v \in Voice : net[v] = <<>> /\ ~ calculated_items_to_send[v]
      /\ \A v \in Voice : ~ done[v]
  BY <1>2, <1>3 DEF RInv, Stages
<1>5. net'["client"] = <<>> /\ net'["server"] = <<q>>
  <2>1. Append(<<>>, q) = <<q>>
    OBVIOUS
  <2>2. net'["client"] = net["client"] /\ net'["server"] = Append(net["server"], q)
    BY <1>2, <1>3
  <2> QED
    BY <1>3, <1>4, <2>1, <2>2, Zenon
<1>6. Msgs("client")' = {} /\ Msgs("server")' = {q}
  BY <1>5 DEF Msgs
<1>7. q.cmd = "query"
  BY <1>1
<1>8. Stages'
  BY <1>2, <1>3, <1>4, <1>5, <1>6, <1>7 DEF Stages, Voice
<1>9. NothingResent'
  BY <1>2, <1>4 DEF NothingResent
<1>10. ASSUME NEW i \in Common PROVE Open("server", q, i)'
  <2>1. i \in Item /\ i \in local_items["client"]
    BY <1>3 DEF Common, IInv, TypeOK
  <2>2. <<>> \in Seq(Slot) /\ Len(<<>>) = 0 /\ 0 < Depth
    BY SeqBasics, DepthAssumption
  <2>3. i \in [1..Depth -> Slot]
    BY <2>1, ItemAssumption
  <2>4. PICK s \in Slot : s = i[1]
    BY <2>2, <2>3, DepthAssumption
  <2>5. q.node[s] = Under(local_items["client"], Append(<<>>, s))
    BY <1>1, <1>3, <1>4 DEF Node, merkle_node_exists
  <2>6. i \in Under(local_items["client"], Append(<<>>, s))
    BY <2>1, <2>4 DEF Under
  <2>7. i \in Under(Item, <<>>)
    BY <2>1 DEF Under
  <2> QED
    BY <1>1, <1>2, <1>3, <1>4, <2>2, <2>4, <2>5, <2>6, <2>7 DEF Open, merkle_node_exists
<1>11. Found'
  <2>1. Common' = Common
    BY <1>2 DEF Common
  <2>2. ASSUME NEW v \in Voice, NEW i \in Common PROVE Finds(v, i)'
    BY <1>3, <1>6, <1>10 DEF Finds
  <2> QED
    BY <2>1, <2>2 DEF Found
<1> QED
  BY <1>8, <1>9, <1>11 DEF RInv

\* For tries of any shape and depth: when a side works out what to send, it
\* has learnt of every item it shares with the peer, although leaves face
\* subtrees and either side may be the one that asks. Nothing the peer has is
\* sent again.
THEOREM RefinementResendsNothing == Spec => []NothingResent
<1>1. Init => RInv
  <2> SUFFICES ASSUME Init PROVE RInv
    OBVIOUS
  <2>1. /\ "client" \in Voice /\ "server" \in Voice /\ ~ sent_initial_query
        /\ \A v \in Voice : net[v] = <<>> /\ ~ calculated_items_to_send[v] /\ ~ done[v]
    BY DEF Init, Voice
  <2>2. \A v \in Voice : Msgs(v) = {}
    BY <2>1 DEF Msgs
  <2> QED
    BY <2>1, <2>2 DEF RInv, Stages, Found, NothingResent
<1>2. IInv /\ QueriesBalanced /\ RInv /\ [Next]_vars => RInv'
  <2> SUFFICES ASSUME IInv, QueriesBalanced, RInv, [Next]_vars PROVE RInv'
    OBVIOUS
  <2>1. \A w \in Voice : Balance(w)
    BY BalancedByCounts
  <2>2. CASE begin_refinement
    BY <2>2, BeginRInv
  <2>3. ASSUME NEW v \in Voice, process_refinement_query(v) PROVE RInv'
    BY <2>3, QueryRInv
  <2>4. ASSUME NEW v \in Voice, process_refinement_response(v) PROVE RInv'
    BY <2>1, <2>4, ResponseRInv
  <2>5. ASSUME NEW v \in Voice, process_done_command(v) PROVE RInv'
    BY <2>5, ServerDoneRInv, ClientDoneRInv DEF Voice
  <2>6. CASE UNCHANGED vars
    <3>1. UNCHANGED <<local_items, peer_items, items_to_send, calculated_items_to_send, done,
                      sent_initial_query, net>>
      BY <2>6 DEF vars
    <3>2. Common' = Common /\ \A v \in Voice : Msgs(v)' = Msgs(v)
      BY <3>1 DEF Common, Msgs
    <3>3. Stages' /\ NothingResent'
      BY <3>1, <3>2 DEF RInv, Stages, NothingResent, Voice
    <3>4. ASSUME NEW v \in Voice, NEW i, Finds(v, i) PROVE Finds(v, i)'
      <4>1. \A w \in Voice : \A m : /\ (Teaches(w, m, i))' = Teaches(w, m, i)
                                    /\ (Open(w, m, i))' = Open(w, m, i)
        BY <3>1, SameMeaning
      <4> QED
        BY <3>1, <3>2, <3>4, <4>1 DEF Finds
    <3> QED
      BY <3>1, <3>2, <3>3, <3>4 DEF RInv, Found
  <2> QED
    BY <2>2, <2>3, <2>4, <2>5, <2>6 DEF Next
<1>3. RInv => NothingResent
  BY DEF RInv
<1> QED
  BY <1>1, <1>2, <1>3, SpecIInv, QueriesBracketed, PTL DEF Spec
=============================================================================
