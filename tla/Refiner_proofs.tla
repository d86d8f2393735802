--------------------------- MODULE Refiner_proofs ---------------------------
(***************************************************************************)
(* For any trie shape and any items: refinement never leaves out an item   *)
(* the peer lacks, the counts the two sides exchange are right, and        *)
(* queries and responses are bracketed.                                    *)
(***************************************************************************)
EXTENDS Refiner, TLAPS, FiniteSetTheorems

\* A command on its way to v tells the truth about its sender: the slots of a
\* node hold items of the sender, a done command the size of its final set.
Truthful(v, m) ==
  /\ m.cmd \in {"query", "response"} => m.node \in [Slot -> SUBSET local_items[Peer(v)]]
  /\ m.cmd = "done" => /\ calculated_items_to_send[Peer(v)]
                       /\ m.n = Cardinality(items_to_send[Peer(v)])

Channel(v) == \E S : net[v] \in Seq(S) /\ \A m \in S : Truthful(v, m)

PeerItemsSound == \A v \in Voice : peer_items[v] \subseteq local_items[Peer(v)]

DoneAfterCalculated ==
  \A v \in Voice : done[v] => calculated_items_to_send[Peer(v)]

IInv ==
  /\ TypeOK
  /\ DOMAIN net = Voice
  /\ \A v \in Voice : Channel(v)
  /\ PeerItemsSound
  /\ NothingMissed
  /\ CountsAgree
  /\ DoneAfterCalculated

---------------------------------------------------------------------------
(* Sequences *)

\* A sequence is a function on 1..Len.
LEMMA SeqBasics ==
  ASSUME NEW S, NEW s \in Seq(S)
  PROVE  /\ Len(s) \in Nat /\ DOMAIN s = 1..Len(s) /\ s \in [1..Len(s) -> S]
         /\ (s = <<>>) <=> (Len(s) = 0)
OBVIOUS

\* The empty sequence is one over any set.
LEMMA SeqEmpty ==
  ASSUME NEW S
  PROVE  <<>> \in Seq(S)
OBVIOUS

\* A sequence over a set is one over a larger set.
LEMMA SeqWiden ==
  ASSUME NEW S, NEW s \in Seq(S), NEW T
  PROVE  s \in Seq(S \cup T) /\ s \in Seq(T \cup S)
OBVIOUS

\* A function on 1..n is a sequence.
LEMMA SeqOfFunction ==
  ASSUME NEW S, NEW n \in Nat, NEW f \in [1..n -> S]
  PROVE  f \in Seq(S) /\ Len(f) = n
OBVIOUS

\* What a concatenation holds.
LEMMA SeqConcat ==
  ASSUME NEW S, NEW s \in Seq(S), NEW t \in Seq(S)
  PROVE  /\ s \o t \in Seq(S) /\ Len(s \o t) = Len(s) + Len(t)
         /\ \A i \in 1..(Len(s) + Len(t)) :
              (s \o t)[i] = IF i <= Len(s) THEN s[i] ELSE t[i - Len(s)]
         /\ s \o <<>> = s
OBVIOUS

\* Head and tail.
LEMMA SeqTail ==
  ASSUME NEW S, NEW s \in Seq(S), s # <<>>
  PROVE  /\ Head(s) \in S /\ Head(s) = s[1] /\ Tail(s) \in Seq(S) /\ Len(Tail(s)) = Len(s) - 1
         /\ \A i \in 1..Len(Tail(s)) : Tail(s)[i] = s[i + 1]
OBVIOUS

\* What an appended sequence holds.
LEMMA SeqAppend ==
  ASSUME NEW S, NEW s \in Seq(S), NEW m \in S
  PROVE  /\ Append(s, m) \in Seq(S) /\ Len(Append(s, m)) = Len(s) + 1
         /\ \A i \in 1..Len(s) : Append(s, m)[i] = s[i]
         /\ Append(s, m)[Len(s) + 1] = m
         /\ Append(s, m) = s \o <<m>>
OBVIOUS

\* What a subsequence holds.
LEMMA SeqSub ==
  ASSUME NEW S, NEW s \in Seq(S), NEW m \in 1..(Len(s) + 1), NEW n \in (m - 1)..Len(s)
  PROVE  /\ SubSeq(s, m, n) \in Seq(S) /\ Len(SubSeq(s, m, n)) = n - m + 1
         /\ \A i \in 1..(n - m + 1) : SubSeq(s, m, n)[i] = s[m + i - 1]
OBVIOUS

---------------------------------------------------------------------------

\* The two ends are each other's peers.
LEMMA PeerFacts ==
  ASSUME NEW v \in Voice
  PROVE  Peer(v) \in Voice /\ Peer(v) # v /\ Peer(Peer(v)) = v
         /\ \A w \in Voice : w = v \/ w = Peer(v)
BY DEF Peer, Voice

\* The nodes a side sends hold only its own items.
LEMMA NodeSound ==
  ASSUME TypeOK, NEW v \in Voice, NEW p
  PROVE  Node(v, p) \in [Slot -> SUBSET local_items[v]]
BY DEF Node, EmptyNode, Under, TypeOK

\* The subtree queries sent after comparing nodes are truthful.
LEMMA SubQuerySound ==
  ASSUME TypeOK, NEW v \in Voice, NEW p, NEW their, NEW s \in Slot
  PROVE  LET m == SubQuery(v, p, Node(v, p), their, s)
         IN m.cmd = "query" /\ m.node \in [Slot -> SUBSET local_items[v]]
<1> DEFINE our == Node(v, p)
           q == IF Leaf(their, s) THEN locate_item(v, CHOOSE i \in their[s] : TRUE)
                                  ELSE Append(p, s)
           j == CHOOSE i \in our[s] : TRUE
<1>1. our \in [Slot -> SUBSET local_items[v]]
  BY NodeSound
<1>2. Node(v, q) \in [Slot -> SUBSET local_items[v]]
  BY NodeSound
<1>3. CASE Leaf(our, s)
  <2>1. j \in our[s]
    BY <1>3 DEF Leaf
  <2>2. j \in local_items[v]
    BY <1>1, <2>1
  <2> HIDE DEF j, q
  <2>3. SyntheticNode(q, j) \in [Slot -> SUBSET local_items[v]]
    BY <2>2 DEF SyntheticNode
  <2> QED
    BY <1>3, <2>3, Zenon DEF SubQuery, q, j
<1>4. CASE ~ Leaf(our, s)
  BY <1>2, <1>4 DEF SubQuery
<1> QED
  BY <1>3, <1>4

\* Comparing nodes adds only items the peer has, whatever our node is.
LEMMA CompareSound ==
  ASSUME TypeOK, PeerItemsSound, NEW v \in Voice, NEW our, NEW their,
         their \in [Slot -> SUBSET local_items[Peer(v)]],
         CompareNodes(v, our, their), local_items' = local_items
  PROVE  /\ PeerItemsSound'
         /\ peer_items' \in [Voice -> SUBSET Item]
         /\ min_items_to_receive' \in [Voice -> Nat]
         /\ may_receive_more_than_min' \in [Voice -> BOOLEAN]
<1>1. note_item_in_peer(their) \subseteq local_items[Peer(v)]
  BY DEF note_item_in_peer
<1>2. note_subtree_shared_with_peer(our, their) \subseteq local_items[Peer(v)]
  BY DEF note_subtree_shared_with_peer
<1>3. peer_items' = [peer_items EXCEPT ![v] =
        @ \cup note_item_in_peer(their) \cup note_subtree_shared_with_peer(our, their)]
  BY DEF CompareNodes
<1>4. Peer(v) \in Voice /\ local_items[Peer(v)] \subseteq Item
  BY PeerFacts DEF TypeOK
<1>5. PeerItemsSound' /\ peer_items' \in [Voice -> SUBSET Item]
  BY <1>1, <1>2, <1>3, <1>4 DEF PeerItemsSound, TypeOK
<1>6. IsFiniteSet(Slot)
  BY FS_Interval, NumSlotsAssumption DEF Slot
<1>7. \A n : Cardinality(SlotsWith(our, their, n)) \in Nat
  <2> TAKE n
  <2>1. SlotsWith(our, their, n) \subseteq Slot
    BY DEF SlotsWith
  <2> QED
    BY <1>6, <2>1, FS_Subset, FS_CardinalityType
<1>8. min_items_to_receive' \in [Voice -> Nat]
  <2> DEFINE c1 == Cardinality(SlotsWith(our, their, 1))
             c2 == Cardinality(SlotsWith(our, their, 2))
  <2>1. c1 \in Nat /\ c2 \in Nat
    BY <1>7
  <2>2. min_items_to_receive' = [min_items_to_receive EXCEPT ![v] = @ + c1 + 2 * c2]
    BY DEF CompareNodes, EstimateItems
  <2> HIDE DEF c1, c2
  <2> QED
    BY <2>1, <2>2 DEF TypeOK
<1>9. may_receive_more_than_min' \in [Voice -> BOOLEAN]
  <2> DEFINE b == SlotsWith(our, their, 2) # {}
  <2>1. may_receive_more_than_min' = [may_receive_more_than_min EXCEPT ![v] = @ \/ b]
    BY DEF CompareNodes, EstimateItems
  <2> HIDE DEF b
  <2> QED
    BY <2>1 DEF TypeOK
<1> QED
  BY <1>5, <1>8, <1>9

\* Delivering the head of a queue and sending truthful commands keeps both
\* channels truthful, as long as no final set changes.
LEMMA ChannelsKept ==
  ASSUME NEW v \in Voice, Channel(v), Channel(Peer(v)), DOMAIN net = Voice,
         net[v] # <<>>,
         NEW T, NEW out \in Seq(T), Exchange(v, out),
         \A m \in T : Truthful(Peer(v), m)',
         local_items' = local_items,
         \A w \in Voice : calculated_items_to_send[w] =>
            calculated_items_to_send'[w] /\ items_to_send'[w] = items_to_send[w]
  PROVE  DOMAIN net' = Voice /\ \A w \in Voice : Channel(w)'
<1>1. Peer(v) \in Voice /\ Peer(v) # v /\ \A w \in Voice : w = v \/ w = Peer(v)
  BY PeerFacts
<1>2. \A w \in Voice : \A m : Truthful(w, m) => Truthful(w, m)'
  <2> SUFFICES ASSUME NEW w \in Voice, NEW m, Truthful(w, m) PROVE Truthful(w, m)'
    OBVIOUS
  <2>1. Peer(w) \in Voice
    BY PeerFacts
  <2> QED
    BY <2>1 DEF Truthful
<1>3. net'[v] = Tail(net[v]) /\ net'[Peer(v)] = net[Peer(v)] \o out /\ DOMAIN net' = Voice
  BY <1>1 DEF Exchange
<1>4. Channel(v)'
  <2>1. PICK S : net[v] \in Seq(S) /\ \A m \in S : Truthful(v, m)
    BY DEF Channel
  <2>2. Tail(net[v]) \in Seq(S)
    BY <2>1
  <2> QED
    BY <1>2, <1>3, <2>1, <2>2 DEF Channel
<1>5. Channel(Peer(v))'
  <2>1. PICK S : net[Peer(v)] \in Seq(S) /\ \A m \in S : Truthful(Peer(v), m)
    BY DEF Channel
  <2>2. net[Peer(v)] \in Seq(S \cup T) /\ out \in Seq(S \cup T)
    BY <2>1, SeqWiden
  <2>3. net[Peer(v)] \o out \in Seq(S \cup T)
    BY <2>2
  <2>4. \A m \in S \cup T : Truthful(Peer(v), m)'
    BY <1>1, <1>2, <2>1
  <2> QED
    BY <1>3, <2>3, <2>4 DEF Channel
<1> QED
  BY <1>1, <1>3, <1>4, <1>5

\* The head of a truthful channel is truthful.
LEMMA HeadTruthful ==
  ASSUME NEW v \in Voice, Channel(v), net[v] # <<>>
  PROVE  Truthful(v, Head(net[v]))
<1>1. PICK S : net[v] \in Seq(S) /\ \A m \in S : Truthful(v, m)
  BY DEF Channel
<1>2. Head(net[v]) \in S
  BY <1>1
<1> QED
  BY <1>1, <1>2

\* The final set is computed at most once and misses nothing.
LEMMA CalculateSound ==
  ASSUME TypeOK, NothingMissed, PeerItemsSound', NEW v \in Voice,
         calculate_items_to_send(v), local_items' = local_items
  PROVE  /\ calculated_items_to_send' = [calculated_items_to_send EXCEPT ![v] = TRUE]
         /\ items_to_send' \in [Voice -> SUBSET Item]
         /\ \A w \in Voice : calculated_items_to_send[w] => items_to_send'[w] = items_to_send[w]
         /\ NothingMissed'
<1>1. CASE calculated_items_to_send[v]
  BY <1>1 DEF calculate_items_to_send, TypeOK, NothingMissed
<1>2. CASE ~ calculated_items_to_send[v]
  <2>1. /\ items_to_send' = [items_to_send EXCEPT ![v] = local_items[v] \ peer_items'[v]]
        /\ calculated_items_to_send' = [calculated_items_to_send EXCEPT ![v] = TRUE]
    BY <1>2 DEF calculate_items_to_send
  <2>2. peer_items'[v] \subseteq local_items[Peer(v)]
    BY DEF PeerItemsSound
  <2>3. items_to_send' \in [Voice -> SUBSET Item]
    BY <2>1 DEF TypeOK
  <2>4. NothingMissed'
    BY <2>1, <2>2 DEF NothingMissed, TypeOK
  <2> QED
    BY <1>2, <2>1, <2>3, <2>4 DEF TypeOK
<1> QED
  BY <1>1, <1>2

\* A step that settles no final set and finishes no side keeps the last three
\* parts of the invariant.
LEMMA SettledKept ==
  ASSUME NothingMissed, CountsAgree, DoneAfterCalculated,
         UNCHANGED <<local_items, items_to_send, items_to_receive,
                     calculated_items_to_send, done>>
  PROVE  NothingMissed' /\ CountsAgree' /\ DoneAfterCalculated'
BY DEF NothingMissed, CountsAgree, DoneAfterCalculated

\* Before refinement the invariant holds.
LEMMA InitIInv == Init => IInv
<1> SUFFICES ASSUME Init PROVE IInv
  OBVIOUS
<1>1. TypeOK
  BY Zenon DEF Init, TypeOK
<1>2. \A v \in Voice : Channel(v)
  <2>1. \A v \in Voice : net[v] \in Seq({})
    BY DEF Init
  <2> QED
    BY <2>1 DEF Channel
<1> QED
  BY <1>1, <1>2 DEF Init, IInv, PeerItemsSound, NothingMissed, CountsAgree, DoneAfterCalculated

\* begin_refinement keeps the invariant.
LEMMA BeginIInv == IInv /\ begin_refinement => IInv'
<1> SUFFICES ASSUME IInv, begin_refinement PROVE IInv'
  OBVIOUS
<1> DEFINE m == [cmd |-> "query", pref |-> <<>>, node |-> Node("client", <<>>)]
<1>1. /\ sent_initial_query' = TRUE
      /\ queries_in_flight' = [queries_in_flight EXCEPT !["client"] = @ + 1]
      /\ net' = [net EXCEPT !["server"] = Append(@, m)]
      /\ UNCHANGED <<local_items, peer_items, items_to_send, items_to_receive,
                     calculated_items_to_send, done, min_items_to_receive,
                     may_receive_more_than_min>>
  BY DEF begin_refinement, estimates
<1>2. Peer("server") = "client" /\ Peer("client") = "server"
      /\ "client" \in Voice /\ "server" \in Voice
  BY DEF Peer, Voice
<1>3. TypeOK'
  BY <1>1, <1>2 DEF IInv, TypeOK
<1>4. Truthful("server", m)
  <2>1. m.node \in [Slot -> SUBSET local_items["client"]]
    BY <1>2, NodeSound DEF IInv
  <2> QED
    BY <1>2, <2>1 DEF Truthful
<1> HIDE DEF m
<1>5. \A v \in Voice : \A x : Truthful(v, x) => Truthful(v, x)'
  BY <1>1 DEF Truthful
<1>6. Channel("server")'
  <2>1. PICK S : net["server"] \in Seq(S) /\ \A x \in S : Truthful("server", x)
    BY <1>2 DEF IInv, Channel
  <2>2. net["server"] \in Seq(S \cup {m})
    BY <2>1, SeqWiden
  <2>3. net'["server"] \in Seq(S \cup {m})
    BY <1>1, <1>2, <2>2 DEF IInv
  <2> QED
    BY <1>2, <1>4, <1>5, <2>1, <2>3 DEF Channel
<1>7. Channel("client")'
  <2>1. net'["client"] = net["client"]
    BY <1>1, <1>2 DEF IInv
  <2> QED
    BY <1>2, <1>5, <2>1 DEF IInv, Channel
<1>8. DOMAIN net' = Voice /\ \A v \in Voice : Channel(v)'
  BY <1>1, <1>6, <1>7 DEF IInv, Voice
<1>9. PeerItemsSound'
  BY <1>1 DEF IInv, PeerItemsSound
<1> QED
  BY <1>1, <1>3, <1>8, <1>9, SettledKept DEF IInv

\* process_refinement_command keeps the invariant when it answers a query.
LEMMA QueryIInv ==
  ASSUME IInv, NEW v \in Voice, process_refinement_query(v)
  PROVE  IInv'
<1> DEFINE m == Head(net[v])
           our == Node(v, m.pref)
           slots == QuerySlots(v, our, m.node)
           resp == [cmd |-> "response", pref |-> m.pref, node |-> our]
           sub(s) == SubQuery(v, m.pref, our, m.node, s)
<1>1. /\ net[v] # <<>> /\ m.cmd = "query"
      /\ CompareNodes(v, our, m.node)
      /\ queries_in_flight' = [queries_in_flight EXCEPT ![v] = @ + QueriesSent(v, our, m.node)]
      /\ UNCHANGED <<local_items, items_to_send, items_to_receive,
                     calculated_items_to_send, done, sent_initial_query>>
  BY DEF process_refinement_query
<1>2. PICK order \in [1..Cardinality(slots) -> slots] :
        Exchange(v, Append([i \in DOMAIN order |-> sub(order[i])], resp))
  BY Zenon DEF process_refinement_query
<1>3. Peer(v) \in Voice /\ Peer(Peer(v)) = v
  BY PeerFacts
<1>4. IsFiniteSet(slots) /\ slots \subseteq Slot /\ Cardinality(slots) \in Nat
  <2>1. slots \subseteq Slot
    BY Zenon DEF QuerySlots
  <2>2. IsFiniteSet(Slot)
    BY FS_Interval, NumSlotsAssumption DEF Slot
  <2> QED
    BY <2>1, <2>2, FS_Subset, FS_CardinalityType
<1>5. m.node \in [Slot -> SUBSET local_items[Peer(v)]]
  BY <1>1, HeadTruthful DEF IInv, Truthful
<1>6. /\ PeerItemsSound' /\ peer_items' \in [Voice -> SUBSET Item]
      /\ min_items_to_receive' \in [Voice -> Nat]
      /\ may_receive_more_than_min' \in [Voice -> BOOLEAN]
  <2> HIDE DEF m, our
  <2> QED
    BY <1>1, <1>5, CompareSound DEF IInv
<1>7. queries_in_flight' \in [Voice -> Nat]
  <2>1. QueriesSent(v, our, m.node) \in Nat
    BY <1>4 DEF QueriesSent
  <2> HIDE DEF m, our
  <2> QED
    BY <1>1, <2>1 DEF IInv, TypeOK
<1>8. TypeOK'
  BY <1>1, <1>6, <1>7 DEF IInv, TypeOK
<1> DEFINE T == {sub(s) : s \in slots} \cup {resp}
           out == Append([i \in DOMAIN order |-> sub(order[i])], resp)
<1>9. \A x \in T : Truthful(Peer(v), x)'
  <2>1. \A s \in slots : sub(s).cmd = "query"
                         /\ sub(s).node \in [Slot -> SUBSET local_items[v]]
    BY <1>4, SubQuerySound DEF IInv
  <2>2. resp.cmd = "response" /\ resp.node \in [Slot -> SUBSET local_items[v]]
    BY NodeSound DEF IInv
  <2>3. \A x \in T : x.cmd \in {"query", "response"}
                     /\ x.node \in [Slot -> SUBSET local_items[v]]
    BY <2>1, <2>2
  <2> HIDE DEF T
  <2> QED
    BY <1>1, <1>3, <2>3 DEF Truthful
<1>10. out \in Seq(T)
  <2> HIDE DEF sub, slots, resp
  <2>1. [i \in DOMAIN order |-> sub(order[i])] \in Seq(T)
    BY <1>4
  <2>2. resp \in T
    OBVIOUS
  <2>3. \A subs \in Seq(T) : Append(subs, resp) \in Seq(T)
    <3> HIDE DEF T
    <3> QED
      BY <2>2
  <2> HIDE DEF T
  <2> QED
    BY <2>1, <2>3, Zenon
<1> HIDE DEF m, our, slots, resp, sub, T, out
<1>11. DOMAIN net' = Voice /\ \A w \in Voice : Channel(w)'
  <2>1. Exchange(v, out)
    BY <1>2 DEF out
  <2>2. \A w \in Voice : calculated_items_to_send[w] =>
          calculated_items_to_send'[w] /\ items_to_send'[w] = items_to_send[w]
    BY <1>1
  <2> QED
    BY <1>1, <1>3, <1>9, <1>10, <2>1, <2>2, ChannelsKept DEF IInv
<1> QED
  BY <1>1, <1>6, <1>8, <1>11, SettledKept DEF IInv

\* process_refinement_command keeps the invariant on a response.
LEMMA ResponseIInv ==
  ASSUME IInv, NEW v \in Voice, process_refinement_response(v)
  PROVE  IInv'
<1> DEFINE m == Head(net[v])
           our == Node(v, m.pref)
<1>1. /\ net[v] # <<>> /\ m.cmd = "response" /\ queries_in_flight[v] > 0
      /\ CompareNodes(v, our, m.node)
      /\ queries_in_flight' = [queries_in_flight EXCEPT ![v] = @ - 1]
      /\ UNCHANGED <<local_items, items_to_receive, done, sent_initial_query>>
  BY DEF process_refinement_response
<1>2. Peer(v) \in Voice /\ Peer(Peer(v)) = v /\ \A w \in Voice : w = v \/ w = Peer(v)
  BY PeerFacts
<1>3. m.node \in [Slot -> SUBSET local_items[Peer(v)]]
  BY <1>1, HeadTruthful DEF IInv, Truthful
<1> HIDE DEF m, our
<1>4. /\ PeerItemsSound' /\ peer_items' \in [Voice -> SUBSET Item]
      /\ min_items_to_receive' \in [Voice -> Nat]
      /\ may_receive_more_than_min' \in [Voice -> BOOLEAN]
  BY <1>1, <1>3, CompareSound DEF IInv
<1>5. queries_in_flight' \in [Voice -> Nat]
  BY <1>1 DEF IInv, TypeOK
<1>6. CASE calculate_items_to_send(v) /\ Exchange(v, <<DoneCommand(v)>>)
  <2>1. /\ calculated_items_to_send' = [calculated_items_to_send EXCEPT ![v] = TRUE]
        /\ items_to_send' \in [Voice -> SUBSET Item]
        /\ \A w \in Voice : calculated_items_to_send[w] => items_to_send'[w] = items_to_send[w]
        /\ NothingMissed'
    BY <1>1, <1>4, <1>6, CalculateSound DEF IInv
  <2>2. TypeOK'
    BY <1>1, <1>4, <1>5, <2>1 DEF IInv, TypeOK
  <2>3. \A w \in Voice : calculated_items_to_send[w] => calculated_items_to_send'[w]
    BY <2>1 DEF IInv, TypeOK
  <2>4. PICK c : c = Cardinality(items_to_send'[v])
    OBVIOUS
  <2> DEFINE d == [cmd |-> "done", n |-> c]
  <2>5. Truthful(Peer(v), d)'
    BY <1>2, <2>1, <2>4 DEF Truthful, IInv, TypeOK
  <2>6. Exchange(v, <<d>>)
    BY <1>6, <2>4 DEF DoneCommand
  <2> HIDE DEF d
  <2>7. DOMAIN net' = Voice /\ \A w \in Voice : Channel(w)'
    <3> DEFINE T == {d}
               out == <<d>>
    <3>1. out \in Seq(T) /\ Exchange(v, out)
      BY <2>6
    <3>2. \A x \in T : Truthful(Peer(v), x)'
      BY <2>5
    <3> HIDE DEF T, out
    <3> QED
      BY <1>1, <1>2, <2>1, <2>3, <3>1, <3>2, ChannelsKept DEF IInv
  <2>8. CountsAgree' /\ DoneAfterCalculated'
    <3>1. \A w \in Voice : Peer(w) \in Voice
      BY PeerFacts
    <3> QED
      BY <1>1, <2>1, <2>3, <3>1 DEF IInv, CountsAgree, DoneAfterCalculated
  <2> QED
    BY <1>4, <2>1, <2>2, <2>7, <2>8 DEF IInv
<1>7. CASE Exchange(v, <<>>) /\ UNCHANGED <<items_to_send, calculated_items_to_send>>
  <2>1. DOMAIN net' = Voice /\ \A w \in Voice : Channel(w)'
    <3> DEFINE T == {}
               out == <<>>
    <3>1. out \in Seq(T) /\ Exchange(v, out)
      BY <1>7
    <3>2. \A x \in T : Truthful(Peer(v), x)'
      OBVIOUS
    <3> HIDE DEF T, out
    <3>3. \A w \in Voice : calculated_items_to_send[w] =>
            calculated_items_to_send'[w] /\ items_to_send'[w] = items_to_send[w]
      BY <1>7
    <3> QED
      BY <1>1, <1>2, <3>1, <3>2, <3>3, ChannelsKept DEF IInv
  <2>2. TypeOK'
    BY <1>1, <1>4, <1>5, <1>7 DEF IInv, TypeOK
  <2> QED
    BY <1>1, <1>4, <1>7, <2>1, <2>2, SettledKept, Zenon DEF IInv
<1> QED
  BY <1>6, <1>7 DEF process_refinement_response

\* process_done_command keeps the invariant.
LEMMA DoneIInv ==
  ASSUME IInv, NEW v \in Voice, process_done_command(v)
  PROVE  IInv'
<1> DEFINE m == Head(net[v])
<1>1. /\ net[v] # <<>> /\ m.cmd = "done"
      /\ UNCHANGED <<local_items, peer_items, queries_in_flight, sent_initial_query,
                     min_items_to_receive, may_receive_more_than_min>>
      /\ calculate_items_to_send(v)
      /\ items_to_receive' = [items_to_receive EXCEPT ![v] = m.n]
      /\ done' = [done EXCEPT ![v] = TRUE]
      /\ Exchange(v, DoneEcho(v))
  BY DEF process_done_command, estimates
<1>2. \A w \in Voice : Peer(w) \in Voice /\ Peer(w) # w /\ Peer(Peer(w)) = w
  BY PeerFacts
<1>3. calculated_items_to_send[Peer(v)] /\ m.n = Cardinality(items_to_send[Peer(v)])
  BY <1>1, HeadTruthful DEF IInv, Truthful
<1> HIDE DEF m
<1>4. PeerItemsSound'
  BY <1>1 DEF IInv, PeerItemsSound
<1>5. /\ calculated_items_to_send' = [calculated_items_to_send EXCEPT ![v] = TRUE]
      /\ items_to_send' \in [Voice -> SUBSET Item]
      /\ \A w \in Voice : calculated_items_to_send[w] => items_to_send'[w] = items_to_send[w]
      /\ NothingMissed'
  BY <1>1, <1>4, CalculateSound DEF IInv
<1>6. \A w \in Voice : calculated_items_to_send[w] => calculated_items_to_send'[w]
  BY <1>5 DEF IInv, TypeOK
<1>7. m.n \in Nat
  <2>1. IsFiniteSet(items_to_send[Peer(v)])
    BY <1>2, ItemAssumption, FS_Subset DEF IInv, TypeOK
  <2> QED
    BY <1>3, <2>1, FS_CardinalityType
<1>8. TypeOK'
  BY <1>1, <1>5, <1>7 DEF IInv, TypeOK
<1>9. CountsAgree' /\ DoneAfterCalculated'
  <2> SUFFICES ASSUME NEW w \in Voice, done'[w]
               PROVE  /\ items_to_receive'[w] = Cardinality(items_to_send'[Peer(w)])
                      /\ calculated_items_to_send'[Peer(w)]
    BY DEF CountsAgree, DoneAfterCalculated
  <2>1. CASE w = v
    BY <1>1, <1>2, <1>3, <1>5, <1>6, <2>1 DEF IInv, TypeOK
  <2>2. CASE w # v
    <3>1. done[w] /\ items_to_receive'[w] = items_to_receive[w]
      BY <1>1, <2>2 DEF IInv, TypeOK
    <3> QED
      BY <1>2, <1>5, <1>6, <3>1 DEF IInv, CountsAgree, DoneAfterCalculated
  <2> QED
    BY <2>1, <2>2
<1>10. PICK c : c = Cardinality(items_to_send'[v])
  OBVIOUS
<1> DEFINE d == [cmd |-> "done", n |-> c]
           T == {d}
           out == IF v = "server" THEN <<d>> ELSE <<>>
<1>11. DOMAIN net' = Voice /\ \A w \in Voice : Channel(w)'
  <2>1. Exchange(v, out)
    BY <1>1, <1>10 DEF DoneEcho, DoneCommand
  <2>2. \A x \in T : Truthful(Peer(v), x)'
    BY <1>2, <1>5, <1>10 DEF Truthful, IInv, TypeOK
  <2> HIDE DEF d
  <2>3. <<d>> \in Seq(T) /\ <<>> \in Seq(T)
    OBVIOUS
  <2> HIDE DEF T
  <2>4. out \in Seq(T)
    BY <2>3
  <2> HIDE DEF out
  <2> QED
    BY <1>1, <1>2, <1>5, <1>6, <2>1, <2>2, <2>4, ChannelsKept DEF IInv
<1> QED
  BY <1>4, <1>5, <1>8, <1>9, <1>11 DEF IInv

\* Every step keeps the invariant.
LEMMA NextIInv == IInv /\ [Next]_vars => IInv'
<1> SUFFICES ASSUME IInv, [Next]_vars PROVE IInv'
  OBVIOUS
<1>1. CASE begin_refinement
  BY <1>1, BeginIInv
<1>2. ASSUME NEW v \in Voice, process_refinement_query(v) PROVE IInv'
  BY <1>2, QueryIInv
<1>3. ASSUME NEW v \in Voice, process_refinement_response(v) PROVE IInv'
  BY <1>3, ResponseIInv
<1>4. ASSUME NEW v \in Voice, process_done_command(v) PROVE IInv'
  BY <1>4, DoneIInv
<1>5. CASE UNCHANGED vars
  <2>1. UNCHANGED <<local_items, peer_items, items_to_send, items_to_receive,
                    queries_in_flight, calculated_items_to_send, done,
                    sent_initial_query, min_items_to_receive,
                    may_receive_more_than_min, net>>
    BY <1>5 DEF vars, estimates
  <2>2. \A v \in Voice : Channel(v)'
    BY <2>1 DEF IInv, Channel, Truthful
  <2> QED
    BY <2>1, <2>2, SettledKept DEF IInv, TypeOK, PeerItemsSound
<1> QED
  BY <1>1, <1>2, <1>3, <1>4, <1>5 DEF Next

\* The invariant holds in every reachable state.
LEMMA SpecIInv == Spec => []IInv
BY InitIInv, NextIInv, PTL DEF Spec

\* The counters and sets of both refiners stay well typed.
THEOREM RefinerTypeCorrect == Spec => []TypeOK
BY SpecIInv, PTL DEF IInv

\* For tries of any fanout and depth and any sets of items: the set that
\* calculate_items_to_send settles on contains every item the peer lacks, so
\* that a sink ends up with all the items of its source.
THEOREM RefinementMissesNothing == Spec => []NothingMissed
BY SpecIInv, PTL DEF IInv

\* The number of items each side is told to expect (process_done_command) is
\* the number of items the other side has decided to send.
THEOREM RefinementCountsAgree == Spec => []CountsAgree
BY SpecIInv, PTL DEF IInv

---------------------------------------------------------------------------
(* Queries and responses are bracketed *)

\* The commands of kind c in a queue.
Indices(s, c) == {i \in DOMAIN s : s[i].cmd = c}
Count(s, c) == Cardinality(Indices(s, c))

\* A one-to-one map onto a set gives it the size of its domain.
LEMMA SameSize ==
  ASSUME NEW S, IsFiniteSet(S), NEW T, NEW f \in [S -> T],
         \A i, j \in S : f[i] = f[j] => i = j, \A t \in T : \E i \in S : f[i] = t
  PROVE  IsFiniteSet(T) /\ Cardinality(T) = Cardinality(S)
<1>1. f \in Injection(S, T)
  BY DEF Injection, IsInjective
<1>2. f \in Surjection(S, T)
  BY DEF Surjection
<1>3. f \in Bijection(S, T)
  BY <1>1, <1>2 DEF Bijection
<1>4. ExistsBijection(S, T)
  BY <1>3 DEF ExistsBijection
<1> QED
  BY <1>4, FS_Bijection

\* A queue holds finitely many commands of a kind.
LEMMA CountType ==
  ASSUME NEW S, NEW s \in Seq(S), NEW c
  PROVE  IsFiniteSet(Indices(s, c)) /\ Count(s, c) \in Nat
<1>1. Indices(s, c) \subseteq 1..Len(s) /\ Len(s) \in Nat
  BY DEF Indices
<1>2. IsFiniteSet(1..Len(s))
  BY <1>1, FS_Interval
<1> QED
  BY <1>1, <1>2, FS_Subset, FS_CardinalityType DEF Count

\* Taking the head of a queue.
LEMMA CountTail ==
  ASSUME NEW S, NEW s \in Seq(S), s # <<>>, NEW c
  PROVE  Count(Tail(s), c) = Count(s, c) - (IF Head(s).cmd = c THEN 1 ELSE 0)
<1> DEFINE I == Indices(s, c) \ {1}
           J == Indices(Tail(s), c)
           f == [i \in I |-> i - 1]
<1>1. /\ Len(s) \in Nat \ {0} /\ DOMAIN s = 1..Len(s) /\ Head(s) = s[1]
      /\ DOMAIN Tail(s) = 1..(Len(s) - 1) /\ \A i \in 1..(Len(s) - 1) : Tail(s)[i] = s[i + 1]
  OBVIOUS
<1>2. f \in [I -> J]
  BY <1>1 DEF Indices
<1>3. \A i, j \in I : f[i] = f[j] => i = j
  BY <1>1 DEF Indices
<1>4. \A j \in J : \E i \in I : f[i] = j
  <2> TAKE j \in J
  <2>1. j + 1 \in I /\ f[j + 1] = j
    BY <1>1 DEF Indices
  <2> QED
    BY <2>1
<1>6. IsFiniteSet(Indices(s, c)) /\ Count(s, c) \in Nat
  BY CountType
<1>7. IsFiniteSet(I) /\ Cardinality(J) = Cardinality(I)
  <2>1. IsFiniteSet(I)
    BY <1>6, FS_Subset
  <2> HIDE DEF f, I, J
  <2> QED
    BY <1>2, <1>3, <1>4, <2>1, SameSize
<1>8. CASE Head(s).cmd = c
  <2>1. 1 \in Indices(s, c)
    BY <1>1, <1>8 DEF Indices
  <2>2. Cardinality(I) = Cardinality(Indices(s, c)) - 1
    BY <1>6, <2>1, FS_RemoveElement, Zenon
  <2> QED
    BY <1>7, <1>8, <2>2 DEF Count
<1>9. CASE Head(s).cmd # c
  <2>1. I = Indices(s, c)
    BY <1>1, <1>9 DEF Indices
  <2>2. Cardinality(Indices(Tail(s), c)) = Cardinality(Indices(s, c))
    BY <1>7, <2>1, Zenon
  <2>3. Count(Tail(s), c) = Count(s, c)
    BY <2>2 DEF Count
  <2> QED
    BY <1>6, <1>9, <2>3
<1> QED
  BY <1>8, <1>9

\* Sending commands.
LEMMA CountConcat ==
  ASSUME NEW S, NEW s \in Seq(S), NEW T, NEW t \in Seq(T), NEW c
  PROVE  Count(s \o t, c) = Count(s, c) + Count(t, c)
<1> DEFINE I == Indices(t, c)
           J == {i \in Indices(s \o t, c) : i > Len(s)}
           f == [i \in I |-> i + Len(s)]
<1>1. /\ Len(s) \in Nat /\ Len(t) \in Nat /\ DOMAIN s = 1..Len(s) /\ DOMAIN t = 1..Len(t)
      /\ DOMAIN (s \o t) = 1..(Len(s) + Len(t))
      /\ \A i \in 1..Len(s) : (s \o t)[i] = s[i]
      /\ \A i \in 1..Len(t) : (s \o t)[i + Len(s)] = t[i]
  <2>1. s \in Seq(S \cup T) /\ t \in Seq(S \cup T)
    BY SeqWiden
  <2> QED
    BY <2>1, SeqConcat
<1>2. f \in [I -> J]
  BY <1>1 DEF Indices
<1>3. \A i, j \in I : f[i] = f[j] => i = j
  BY <1>1 DEF Indices
<1>4. \A j \in J : \E i \in I : f[i] = j
  <2> TAKE j \in J
  <2>1. j \in 1..(Len(s) + Len(t)) /\ j > Len(s) /\ (s \o t)[j].cmd = c
    BY <1>1 DEF Indices
  <2>2. PICK i : i = j - Len(s)
    OBVIOUS
  <2>3. i \in 1..Len(t) /\ j = i + Len(s)
    BY <1>1, <2>1, <2>2
  <2>4. t[i].cmd = c
    BY <1>1, <2>1, <2>3
  <2> QED
    BY <1>1, <2>3, <2>4 DEF Indices
<1>6. IsFiniteSet(I) /\ IsFiniteSet(Indices(s, c))
  BY CountType
<1>7. IsFiniteSet(J) /\ Cardinality(J) = Cardinality(I)
  <2> HIDE DEF f, I, J
  <2> QED
    BY <1>2, <1>3, <1>4, <1>6, SameSize
<1>8. Indices(s \o t, c) = Indices(s, c) \cup J
  BY <1>1 DEF Indices
<1>9. Indices(s, c) \cap J = {}
  BY <1>1 DEF Indices
<1>10. Cardinality(Indices(s, c) \cup J) = Cardinality(Indices(s, c)) + Cardinality(J)
  <2> HIDE DEF J
  <2>1. Cardinality(Indices(s, c) \cap J) = 0
    BY <1>9, FS_EmptySet, Zenon
  <2>2. Cardinality(Indices(s, c)) \in Nat /\ Cardinality(J) \in Nat
    BY <1>6, <1>7, FS_CardinalityType
  <2>3. Cardinality(Indices(s, c) \cup J) =
          Cardinality(Indices(s, c)) + Cardinality(J) - Cardinality(Indices(s, c) \cap J)
    BY <1>6, <1>7, FS_Union
  <2> QED
    BY <2>1, <2>2, <2>3
<1> QED
  BY <1>7, <1>8, <1>10, Zenon DEF Count

\* What delivering the head of a queue and sending out does to the commands
\* of kind c under way.
LEMMA ExchangeCounts ==
  ASSUME NEW v \in Voice, Channel(v), Channel(Peer(v)), DOMAIN net = Voice, net[v] # <<>>,
         NEW T, NEW out \in Seq(T), Exchange(v, out), NEW c
  PROVE  /\ Count(net'[v], c) = Count(net[v], c) - (IF Head(net[v]).cmd = c THEN 1 ELSE 0)
         /\ Count(net'[Peer(v)], c) = Count(net[Peer(v)], c) + Count(out, c)
         /\ Count(net[v], c) \in Nat /\ Count(net[Peer(v)], c) \in Nat
<1>1. Peer(v) \in Voice /\ Peer(v) # v
  BY PeerFacts
<1>2. net'[v] = Tail(net[v]) /\ net'[Peer(v)] = net[Peer(v)] \o out
  BY <1>1 DEF Exchange
<1>3. PICK S : net[v] \in Seq(S)
  BY DEF Channel
<1>4. PICK S2 : net[Peer(v)] \in Seq(S2)
  BY DEF Channel
<1>5. Count(Tail(net[v]), c) = Count(net[v], c) - (IF Head(net[v]).cmd = c THEN 1 ELSE 0)
  BY <1>3, CountTail
<1>6. Count(net[Peer(v)] \o out, c) = Count(net[Peer(v)], c) + Count(out, c)
  BY <1>4, CountConcat
<1>7. Count(net[v], c) \in Nat /\ Count(net[Peer(v)], c) \in Nat
  BY <1>3, <1>4, CountType
<1> QED
  BY <1>2, <1>5, <1>6, <1>7

\* A queue with one command or none.
LEMMA CountOne ==
  ASSUME NEW m, NEW c
  PROVE  Count(<<m>>, c) = (IF m.cmd = c THEN 1 ELSE 0) /\ Count(<<>>, c) = 0
<1>1. Indices(<<m>>, c) = IF m.cmd = c THEN {1} ELSE {}
  BY DEF Indices
<1>2. Indices(<<>>, c) = {}
  BY DEF Indices
<1> QED
  BY <1>1, <1>2, FS_EmptySet, FS_Singleton, Zenon DEF Count

\* A queue with commands of one kind only.
LEMMA CountAll ==
  ASSUME NEW S, NEW s \in Seq(S), NEW c, NEW d, c # d, \A i \in DOMAIN s : s[i].cmd = c
  PROVE  Count(s, c) = Len(s) /\ Count(s, d) = 0
<1>1. Indices(s, c) = 1..Len(s) /\ Indices(s, d) = {} /\ Len(s) \in Nat
  BY DEF Indices
<1>2. Cardinality(1..Len(s)) = Len(s)
  BY <1>1, FS_Interval
<1> QED
  BY <1>1, <1>2, FS_EmptySet DEF Count

Balance(v) == queries_in_flight[v] = Count(net[Peer(v)], "query") + Count(net[v], "response")

\* The bracketing by counts of commands.
LEMMA BalancedByCounts == QueriesBalanced <=> \A v \in Voice : Balance(v)
BY DEF QueriesBalanced, Balance, InFlight, Count, Indices

\* A query is counted where it is sent, and answered by one response; a
\* response is counted off.
LEMMA StepBalanced ==
  ASSUME IInv, \A w \in Voice : Balance(w), NEW v \in Voice, net[v] # <<>>,
         NEW T, NEW out \in Seq(T), Exchange(v, out),
         LET m == Head(net[v])
         IN /\ m.cmd = "query" =>
                 /\ Count(out, "response") = 1 /\ Count(out, "query") \in Nat
                 /\ queries_in_flight' = [queries_in_flight EXCEPT ![v] = @ + Count(out, "query")]
            /\ m.cmd # "query" => Count(out, "query") = 0 /\ Count(out, "response") = 0
            /\ m.cmd = "response" => queries_in_flight' = [queries_in_flight EXCEPT ![v] = @ - 1]
            /\ m.cmd \notin {"query", "response"} => queries_in_flight' = queries_in_flight
  PROVE  \A w \in Voice : Balance(w)'
<1>1. Peer(v) \in Voice /\ Peer(v) # v /\ Peer(Peer(v)) = v /\ \A w \in Voice : w = v \/ w = Peer(v)
  BY PeerFacts
<1>2. Channel(v) /\ Channel(Peer(v)) /\ DOMAIN net = Voice
  BY <1>1 DEF IInv
<1> DEFINE w == Peer(v)
           m == Head(net[v])
<1>3. \A c : /\ Count(net'[v], c) = Count(net[v], c) - (IF m.cmd = c THEN 1 ELSE 0)
             /\ Count(net'[w], c) = Count(net[w], c) + Count(out, c)
             /\ Count(net[v], c) \in Nat /\ Count(net[w], c) \in Nat
  BY <1>2, ExchangeCounts
<1>4. /\ queries_in_flight \in [Voice -> Nat]
      /\ queries_in_flight[v] = Count(net[w], "query") + Count(net[v], "response")
      /\ queries_in_flight[w] = Count(net[v], "query") + Count(net[w], "response")
  BY <1>1 DEF IInv, TypeOK, Balance
<1>5. PICK vq, vr, wq, wr \in Nat :
        /\ vq = Count(net[v], "query") /\ vr = Count(net[v], "response")
        /\ wq = Count(net[w], "query") /\ wr = Count(net[w], "response")
  BY <1>3
<1>6. PICK q : q = Count(out, "query")
  OBVIOUS
<1>7. /\ queries_in_flight'[v] = Count(net'[w], "query") + Count(net'[v], "response")
      /\ queries_in_flight'[w] = Count(net'[v], "query") + Count(net'[w], "response")
  <2>1. CASE m.cmd = "query"
    <3>1. /\ Count(net'[v], "query") = vq - 1 /\ Count(net'[v], "response") = vr - 0
          /\ Count(net'[w], "query") = wq + q /\ Count(net'[w], "response") = wr + 1
      BY <1>3, <1>5, <1>6, <2>1
    <3>2. q \in Nat /\ queries_in_flight' = [queries_in_flight EXCEPT ![v] = @ + q]
      BY <1>6, <2>1
    <3>3. queries_in_flight'[v] = queries_in_flight[v] + q
          /\ queries_in_flight'[w] = queries_in_flight[w]
      BY <1>1, <1>4, <3>2
    <3>4. queries_in_flight[v] = wq + vr /\ queries_in_flight[w] = vq + wr
      BY <1>4, <1>5
    <3>5. queries_in_flight'[v] = (wq + vr) + q /\ queries_in_flight'[w] = vq + wr
      BY <3>3, <3>4
    <3>6. (wq + vr) + q = (wq + q) + (vr - 0) /\ vq + wr = (vq - 1) + (wr + 1)
      BY <3>2
    <3> QED
      BY <3>1, <3>5, <3>6
  <2>2. CASE m.cmd = "response"
    <3>1. /\ Count(net'[v], "query") = vq - 0 /\ Count(net'[v], "response") = vr - 1
          /\ Count(net'[w], "query") = wq + 0 /\ Count(net'[w], "response") = wr + 0
      BY <1>3, <1>5, <2>2
    <3>2. queries_in_flight'[v] = queries_in_flight[v] - 1
          /\ queries_in_flight'[w] = queries_in_flight[w]
      BY <1>1, <1>4, <2>2
    <3> QED
      BY <1>4, <1>5, <3>1, <3>2
  <2>3. CASE m.cmd \notin {"query", "response"}
    <3>1. /\ Count(net'[v], "query") = vq - 0 /\ Count(net'[v], "response") = vr - 0
          /\ Count(net'[w], "query") = wq + 0 /\ Count(net'[w], "response") = wr + 0
      BY <1>3, <1>5, <2>3
    <3> QED
      BY <1>4, <1>5, <2>3, <3>1
  <2> QED
    BY <2>1, <2>2, <2>3
<1> QED
  BY <1>1, <1>7 DEF Balance

\* Appending a command.
LEMMA CountAppend ==
  ASSUME NEW S, NEW s \in Seq(S), NEW m \in S, NEW c
  PROVE  Count(Append(s, m), c) = Count(s, c) + (IF m.cmd = c THEN 1 ELSE 0)
<1>1. Append(s, m) = s \o <<m>>
  BY SeqAppend
<1>2. <<m>> \in Seq(S)
  OBVIOUS
<1>3. Count(s \o <<m>>, c) = Count(s, c) + Count(<<m>>, c)
  BY <1>2, CountConcat, Zenon
<1> QED
  BY <1>1, <1>3, CountOne

\* A strictly increasing listing of as many slots as there are lists them all.
LEMMA ListsAll ==
  ASSUME NEW D \in SUBSET Slot, NEW order \in [1..Cardinality(D) -> D],
         \A i, j \in DOMAIN order : i < j => order[i] < order[j]
  PROVE  Cardinality(D) \in Nat /\ \A s \in D : \E k \in DOMAIN order : order[k] = s
<1> DEFINE n == Cardinality(D)
           R == {order[k] : k \in 1..n}
<1>1. IsFiniteSet(D) /\ n \in Nat
  <2>1. IsFiniteSet(Slot)
    BY FS_Interval, NumSlotsAssumption DEF Slot
  <2> QED
    BY <2>1, FS_Subset, FS_CardinalityType
<1> HIDE DEF n
<1>2. order \in [1..n -> D]
  BY DEF n
<1>3. \A i, j \in 1..n : order[i] = order[j] => i = j
  <2> SUFFICES ASSUME NEW i \in 1..n, NEW j \in 1..n, order[i] = order[j], i # j PROVE FALSE
    OBVIOUS
  <2>1. order[i] \in Slot /\ order[j] \in Slot
    BY <1>2, Zenon
  <2>2. Slot \subseteq Int
    BY NumSlotsAssumption DEF Slot
  <2>3. i < j \/ j < i
    BY <1>1
  <2>4. order[i] < order[j] \/ order[j] < order[i]
    BY <1>2, <2>3, Zenon
  <2>5. \A x \in Slot : ~ (x < x)
    BY <2>2
  <2> QED
    BY <2>1, <2>4, <2>5
<1>4. order \in [1..n -> R] /\ R \subseteq D
  BY <1>2, Zenon
<1>5. IsFiniteSet(1..n) /\ Cardinality(1..n) = n
  BY <1>1, FS_Interval
<1>6. IsFiniteSet(R) /\ Cardinality(R) = n
  <2>1. \A t \in R : \E i \in 1..n : order[i] = t
    OBVIOUS
  <2> HIDE DEF R
  <2> QED
    BY <1>3, <1>4, <1>5, <2>1, SameSize, Zenon
<1>7. R = D
  BY <1>1, <1>4, <1>6, FS_Subset DEF n
<1> QED
  BY <1>1, <1>2, <1>7 DEF n

\* What a query is answered with: one query for each slot left open, then the
\* response.
LEMMA QueryAnswered ==
  ASSUME IInv, NEW v \in Voice, process_refinement_query(v)
  PROVE  LET m == Head(net[v])
             our == Node(v, m.pref)
             slots == QuerySlots(v, our, m.node)
             resp == [cmd |-> "response", pref |-> m.pref, node |-> our]
         IN \E T : \E out \in Seq(T) :
              /\ Exchange(v, out)
              /\ \A s \in slots : \E k \in DOMAIN out : out[k] = SubQuery(v, m.pref, our, m.node, s)
              /\ out # <<>> /\ out[Len(out)] = resp
              /\ \A k \in DOMAIN out : out[k].cmd \in {"query", "response"}
              /\ Count(out, "query") = QueriesSent(v, our, m.node)
              /\ Count(out, "response") = 1
              /\ QueriesSent(v, our, m.node) \in Nat
<1> DEFINE m == Head(net[v])
           our == Node(v, m.pref)
           slots == QuerySlots(v, our, m.node)
           resp == [cmd |-> "response", pref |-> m.pref, node |-> our]
           sub(s) == SubQuery(v, m.pref, our, m.node, s)
           T == {sub(s) : s \in slots} \cup {resp}
<1>1. PICK order \in [1..Cardinality(slots) -> slots] :
        /\ \A i, j \in DOMAIN order : i < j => order[i] < order[j]
        /\ Exchange(v, Append([i \in DOMAIN order |-> sub(order[i])], resp))
  BY Zenon DEF process_refinement_query
<1>2. slots \subseteq Slot
  BY Zenon DEF QuerySlots
<1>3. Cardinality(slots) \in Nat /\ \A s \in slots : \E k \in DOMAIN order : order[k] = s
  <2> HIDE DEF slots
  <2> QED
    BY <1>1, <1>2, ListsAll, Zenon
<1>4. \A s \in slots : sub(s).cmd = "query"
  BY Zenon DEF SubQuery
<1>5. resp.cmd = "response" /\ resp \in T /\ \A s \in slots : sub(s) \in T
  OBVIOUS
<1>6. QueriesSent(v, our, m.node) = Cardinality(slots)
  BY DEF QueriesSent
<1>7. PICK n \in Nat : n = Cardinality(slots)
  BY <1>3
<1>8. order \in [1..n -> slots]
  BY <1>1, <1>7
<1> DEFINE subs == [i \in DOMAIN order |-> sub(order[i])]
<1> HIDE DEF m, our, slots, resp, sub, T
<1>9. subs \in Seq(T) /\ Len(subs) = n /\ DOMAIN subs = 1..n
      /\ \A k \in 1..n : subs[k] = sub(order[k])
  <2>1. subs \in [1..n -> T]
    BY <1>5, <1>8, Zenon
  <2>2. \A k \in 1..n : subs[k] = sub(order[k])
    BY <1>8, Zenon
  <2> HIDE DEF subs
  <2>3. subs \in Seq(T)
    BY <2>1, SeqOfFunction
  <2>4. DOMAIN subs = 1..n /\ DOMAIN subs = 1..Len(subs) /\ Len(subs) \in Nat
    BY <2>1, <2>3
  <2> QED
    BY <2>2, <2>3, <2>4
<1>10. \A k \in 1..n : subs[k].cmd = "query"
  BY <1>4, <1>8, <1>9, Zenon
<1>11. /\ Exchange(v, Append(subs, resp))
       /\ \A s \in slots : \E k \in 1..n : subs[k] = sub(s)
  <2>1. \A s \in slots : \E k \in 1..n : order[k] = s
    BY <1>3, <1>8
  <2> QED
    BY <1>1, <1>9, <2>1
<1> HIDE DEF subs
<1>12. Count(subs, "query") = n /\ Count(subs, "response") = 0
  BY <1>9, <1>10, CountAll
<1>13. /\ Count(Append(subs, resp), "query") = Count(subs, "query") + 0
       /\ Count(Append(subs, resp), "response") = Count(subs, "response") + 1
  BY <1>5, <1>9, CountAppend
<1> DEFINE out == Append(subs, resp)
<1>14. /\ out \in Seq(T) /\ out # <<>> /\ Len(out) = n + 1 /\ DOMAIN out = 1..(n + 1)
       /\ \A k \in 1..n : out[k] = subs[k]
       /\ out[n + 1] = resp
  BY <1>5, <1>9, SeqAppend, SeqBasics
<1>15. \A s \in slots : \E k \in DOMAIN out : out[k] = sub(s)
  BY <1>11, <1>14
<1>16. \A k \in DOMAIN out : out[k].cmd \in {"query", "response"}
  BY <1>5, <1>10, <1>14
<1>17. Count(out, "query") = n /\ Count(out, "response") = 1
  BY <1>12, <1>13
<1>18. Exchange(v, out) /\ out[Len(out)] = resp
  BY <1>11, <1>14
<1> HIDE DEF out
<1> QED
  BY <1>6, <1>7, <1>14, <1>15, <1>16, <1>17, <1>18, Zenon DEF m, our, slots, resp, sub

\* Every step keeps the bracketing.
LEMMA NextBalanced ==
  ASSUME IInv, \A v \in Voice : Balance(v), [Next]_vars
  PROVE  \A v \in Voice : Balance(v)'
<1>1. CASE begin_refinement
  <2> DEFINE q == [cmd |-> "query", pref |-> <<>>, node |-> Node("client", <<>>)]
  <2>1. Peer("server") = "client" /\ Peer("client") = "server"
        /\ "client" \in Voice /\ "server" \in Voice
    BY DEF Peer, Voice
  <2>2. /\ queries_in_flight'["client"] = queries_in_flight["client"] + 1
        /\ queries_in_flight'["server"] = queries_in_flight["server"]
        /\ net'["server"] = Append(net["server"], q) /\ net'["client"] = net["client"]
    BY <1>1, <2>1 DEF begin_refinement, IInv, TypeOK
  <2>3. PICK S : net["server"] \in Seq(S)
    BY <2>1 DEF IInv, Channel
  <2>4. net["server"] \in Seq(S \cup {q}) /\ q \in S \cup {q} /\ q.cmd = "query"
    BY <2>3, SeqWiden
  <2> HIDE DEF q
  <2>5. /\ Count(net'["server"], "query") = Count(net["server"], "query") + 1
        /\ Count(net'["server"], "response") = Count(net["server"], "response") + 0
    BY <2>2, <2>4, CountAppend
  <2>6. Count(net["server"], "query") \in Nat /\ Count(net["server"], "response") \in Nat
    BY <2>3, CountType
  <2>7. Count(net["client"], "query") \in Nat /\ Count(net["client"], "response") \in Nat
    BY <2>1, CountType DEF IInv, Channel
  <2>8. /\ queries_in_flight["client"] =
             Count(net["server"], "query") + Count(net["client"], "response")
        /\ queries_in_flight["server"] =
             Count(net["client"], "query") + Count(net["server"], "response")
    BY <2>1 DEF Balance
  <2>9. /\ queries_in_flight'["client"] =
             Count(net'["server"], "query") + Count(net'["client"], "response")
        /\ queries_in_flight'["server"] =
             Count(net'["client"], "query") + Count(net'["server"], "response")
    BY <2>2, <2>5, <2>6, <2>7, <2>8
  <2>10. Balance("client")' /\ Balance("server")'
    BY <2>1, <2>9 DEF Balance
  <2> QED
    BY <2>10 DEF Voice
<1>2. ASSUME NEW v \in Voice, process_refinement_query(v) PROVE \A w \in Voice : Balance(w)'
  <2>1. /\ net[v] # <<>> /\ Head(net[v]).cmd = "query"
        /\ queries_in_flight' = [queries_in_flight EXCEPT ![v] =
             @ + QueriesSent(v, Node(v, Head(net[v]).pref), Head(net[v]).node)]
    BY <1>2, Zenon DEF process_refinement_query
  <2>2. PICK T : \E out \in Seq(T) :
          /\ Exchange(v, out)
          /\ Count(out, "query") =
               QueriesSent(v, Node(v, Head(net[v]).pref), Head(net[v]).node)
          /\ Count(out, "response") = 1
          /\ QueriesSent(v, Node(v, Head(net[v]).pref), Head(net[v]).node) \in Nat
    BY <1>2, QueryAnswered, Zenon
  <2> QED
    BY <2>1, <2>2, StepBalanced, Zenon
<1>3. ASSUME NEW v \in Voice, process_refinement_response(v) PROVE \A w \in Voice : Balance(w)'
  <2>1. /\ net[v] # <<>> /\ Head(net[v]).cmd = "response"
        /\ queries_in_flight' = [queries_in_flight EXCEPT ![v] = @ - 1]
        /\ Exchange(v, <<DoneCommand(v)>>) \/ Exchange(v, <<>>)
    BY <1>3 DEF process_refinement_response
  <2>2. PICK d : d = DoneCommand(v)
    OBVIOUS
  <2>3. d.cmd = "done" /\ <<d>> \in Seq({d}) /\ <<>> \in Seq({d})
    BY <2>2 DEF DoneCommand
  <2>4. /\ Count(<<d>>, "query") = 0 /\ Count(<<d>>, "response") = 0
        /\ Count(<<>>, "query") = 0 /\ Count(<<>>, "response") = 0
    BY <2>3, CountOne
  <2>5. PICK out \in Seq({d}) :
          Exchange(v, out) /\ Count(out, "query") = 0 /\ Count(out, "response") = 0
    BY <2>1, <2>2, <2>3, <2>4, Zenon
  <2> QED
    BY <2>1, <2>5, StepBalanced, Zenon
<1>4. ASSUME NEW v \in Voice, process_done_command(v) PROVE \A w \in Voice : Balance(w)'
  <2>1. /\ net[v] # <<>> /\ Head(net[v]).cmd = "done"
        /\ queries_in_flight' = queries_in_flight
        /\ Exchange(v, <<DoneCommand(v)>>) \/ Exchange(v, <<>>)
    BY <1>4 DEF process_done_command, DoneEcho
  <2>2. PICK d : d = DoneCommand(v)
    OBVIOUS
  <2>3. d.cmd = "done" /\ <<d>> \in Seq({d}) /\ <<>> \in Seq({d})
    BY <2>2 DEF DoneCommand
  <2>4. /\ Count(<<d>>, "query") = 0 /\ Count(<<d>>, "response") = 0
        /\ Count(<<>>, "query") = 0 /\ Count(<<>>, "response") = 0
    BY <2>3, CountOne
  <2>5. PICK out \in Seq({d}) :
          Exchange(v, out) /\ Count(out, "query") = 0 /\ Count(out, "response") = 0
    BY <2>1, <2>2, <2>3, <2>4, Zenon
  <2> QED
    BY <2>1, <2>5, StepBalanced
<1>5. CASE UNCHANGED vars
  BY <1>5 DEF vars, Balance
<1> QED
  BY <1>1, <1>2, <1>3, <1>4, <1>5 DEF Next

\* For tries of any shape: queries_in_flight is the number of queries and
\* responses under way, so that the client's counter reaches zero, which ends
\* refinement, exactly when no answer to it is outstanding.
THEOREM QueriesBracketed == Spec => []QueriesBalanced
<1>1. Init => QueriesBalanced
  <2> SUFFICES ASSUME Init PROVE \A v \in Voice : Balance(v)
    BY BalancedByCounts
  <2>1. \A v \in Voice : net[v] = <<>> /\ net[Peer(v)] = <<>> /\ queries_in_flight[v] = 0
    BY PeerFacts DEF Init
  <2>2. \A c : Count(<<>>, c) = 0
    BY CountOne, Zenon
  <2>3. \A v \in Voice : Count(net[Peer(v)], "query") = 0 /\ Count(net[v], "response") = 0
    BY <2>1, <2>2
  <2> QED
    BY <2>1, <2>3 DEF Balance
<1>2. IInv /\ QueriesBalanced /\ [Next]_vars => QueriesBalanced'
  <2> SUFFICES ASSUME IInv, QueriesBalanced, [Next]_vars PROVE \A v \in Voice : Balance(v)'
    BY DEF QueriesBalanced, Balance, InFlight, Count, Indices
  <2> QED
    BY BalancedByCounts, NextBalanced
<1> QED
  BY <1>1, <1>2, SpecIInv, PTL DEF Spec
=============================================================================
