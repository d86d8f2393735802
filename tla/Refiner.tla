------------------------------ MODULE Refiner ------------------------------
(***************************************************************************)
(* Refinement of one kind of item between the two ends of a netsync        *)
(* session (src/src/refiner.cc): each side learns which of its items the   *)
(* peer lacks by comparing the nodes of two merkle tries.                  *)
(*                                                                         *)
(* An item is its sequence of fanout-sized digits.  The trie is a function *)
(* of the set of items (module MerkleTree shows this of the code that      *)
(* builds it), so a node is given by the set of items and a prefix, and    *)
(* each slot by the items below it: none (empty), one (leaf) or more       *)
(* (subtree, whose hash stands for exactly those items).  net[v] holds     *)
(* the commands on their way to v, in order.                               *)
(***************************************************************************)
EXTENDS Integers, Sequences, FiniteSets

CONSTANTS
  NumSlots,   \* constants::merkle_num_slots
  Depth,      \* digits in an item
  Item,       \* the items that may exist
  MaxItems    \* bound on the items a side starts with

Slot == 0..(NumSlots - 1)
Voice == {"client", "server"}

ASSUME NumSlotsAssumption == NumSlots \in Nat \ {0}
ASSUME DepthAssumption == Depth \in Nat \ {0}
ASSUME ItemAssumption == IsFiniteSet(Item) /\ Item \subseteq [1..Depth -> Slot]
ASSUME MaxItemsAssumption == MaxItems \in Nat

VARIABLES
  local_items, peer_items, items_to_send, items_to_receive,
  queries_in_flight, calculated_items_to_send, done, sent_initial_query,
  min_items_to_receive, may_receive_more_than_min,
  net

estimates == <<min_items_to_receive, may_receive_more_than_min>>
vars == <<local_items, peer_items, items_to_send, items_to_receive,
          queries_in_flight, calculated_items_to_send, done,
          sent_initial_query, estimates, net>>

Peer(v) == IF v = "client" THEN "server" ELSE "client"

---------------------------------------------------------------------------
(* The trie *)

Under(I, p) == {i \in I : \A k \in 1..Len(p) : i[k] = p[k]}

Several(S) == \E i, j \in S : i # j

merkle_node_exists(v, p) ==
  /\ ~ done[v]                    \* process_done_command clears the table
  /\ p = <<>> \/ Several(Under(local_items[v], p))

EmptyNode == [s \in Slot |-> {}]

\* Our node for a prefix; an empty one is synthesized if we have none.
Node(v, p) ==
  IF merkle_node_exists(v, p)
  THEN [s \in Slot |-> Under(local_items[v], Append(p, s))]
  ELSE EmptyNode

Leaf(n, s) == \E i \in n[s] : n[s] = {i}
Subtree(n, s) == Several(n[s])
Empty(n, s) == n[s] = {}

Prefix(i, k) == SubSeq(i, 1, k)

\* The prefix of the node in which locate_item finds item i as a leaf.
locate_item(v, i) ==
  CHOOSE p \in {Prefix(i, k) : k \in 0..(Depth - 1)} :
    merkle_node_exists(v, p) /\ Leaf(Node(v, p), i[Len(p) + 1])

\* A node of its own for the single item of a leaf, one level down.
SyntheticNode(p, i) == [s \in Slot |-> IF s = i[Len(p) + 1] THEN {i} ELSE {}]

---------------------------------------------------------------------------
(* What one comparison of nodes tells and asks *)

note_item_in_peer(their) == UNION {their[s] : s \in {t \in Slot : Leaf(their, t)}}

note_subtree_shared_Unchecked(our, their) ==
  UNION {our[s] : s \in {t \in Slot : Subtree(our, t) /\ Subtree(their, t)}}

\* The two subtrees have the same hash.
note_subtree_shared_with_peer(our, their) ==
  UNION {our[s] : s \in {t \in Slot : Subtree(our, t) /\ their[t] = our[t]}}

QuerySlots_NoSynthetic(v, our, their) ==
  {s \in Slot :
     \/ Leaf(their, s) /\ Subtree(our, s) /\ their[s] \subseteq local_items[v]
     \/ Subtree(their, s) /\ Subtree(our, s) /\ their[s] # our[s]}

\* The slots for which a query is sent while a query is being answered.
QuerySlots(v, our, their) ==
  {s \in Slot :
     \/ Leaf(their, s) /\ Subtree(our, s) /\ their[s] \subseteq local_items[v]
     \/ Subtree(their, s) /\ Leaf(our, s)
     \/ Subtree(their, s) /\ Subtree(our, s) /\ their[s] # our[s]}

\* The query sent for slot s: for the node that holds their leaf, for a
\* synthetic node with our leaf, or for our differing subtree.
SubQuery(v, p, our, their, s) ==
  LET q == IF Leaf(their, s) THEN locate_item(v, CHOOSE i \in their[s] : TRUE)
                             ELSE Append(p, s)
  IN [cmd |-> "query", pref |-> q,
      node |-> IF Leaf(our, s) THEN SyntheticNode(q, CHOOSE i \in our[s] : TRUE)
                               ELSE Node(v, q)]

\* Increment of min_items_to_receive for one slot.
SlotEstimate(our, their, s) ==
  CASE Empty(our, s) /\ Leaf(their, s)    -> 1
    [] Empty(our, s) /\ Subtree(their, s) -> 2
    [] Leaf(our, s) /\ Leaf(their, s) /\ our[s] # their[s] -> 1
    [] OTHER -> 0

SlotsWith(our, their, n) == {s \in Slot : SlotEstimate(our, their, s) = n}

\* The estimate of the items to receive, updated for every slot.
EstimateItems(v, our, their) ==
  /\ min_items_to_receive' = [min_items_to_receive EXCEPT ![v] =
       @ + Cardinality(SlotsWith(our, their, 1)) + 2 * Cardinality(SlotsWith(our, their, 2))]
  /\ may_receive_more_than_min' = [may_receive_more_than_min EXCEPT ![v] =
       @ \/ SlotsWith(our, their, 2) # {}]

---------------------------------------------------------------------------
(* Commands *)

Init ==
  /\ local_items \in [Voice -> {I \in SUBSET Item : Cardinality(I) <= MaxItems}]
  /\ peer_items = [v \in Voice |-> {}]
  /\ items_to_send = [v \in Voice |-> {}]
  /\ items_to_receive = [v \in Voice |-> 0]
  /\ queries_in_flight = [v \in Voice |-> 0]
  /\ calculated_items_to_send = [v \in Voice |-> FALSE]
  /\ done = [v \in Voice |-> FALSE]
  /\ sent_initial_query = FALSE
  /\ min_items_to_receive = [v \in Voice |-> 0]
  /\ may_receive_more_than_min = [v \in Voice |-> FALSE]
  /\ net = [v \in Voice |-> <<>>]

\* Deliver the head of v's queue and send the messages out to the peer.
Exchange(v, out) ==
  net' = [net EXCEPT ![v] = Tail(@), ![Peer(v)] = @ \o out]

calculate_items_to_send(v) ==
  IF calculated_items_to_send[v]
  THEN UNCHANGED <<items_to_send, calculated_items_to_send>>
  ELSE /\ items_to_send' = [items_to_send EXCEPT ![v] = local_items[v] \ peer_items'[v]]
       /\ calculated_items_to_send' = [calculated_items_to_send EXCEPT ![v] = TRUE]

DoneCommand_Early(v) == [cmd |-> "done", n |-> Cardinality(items_to_send[v])]

DoneCommand(v) == [cmd |-> "done", n |-> Cardinality(items_to_send'[v])]

\* The client starts with a query for the root node.
begin_refinement ==
  /\ ~ sent_initial_query
  /\ sent_initial_query' = TRUE
  /\ queries_in_flight' = [queries_in_flight EXCEPT !["client"] = @ + 1]
  /\ net' = [net EXCEPT !["server"] =
       Append(@, [cmd |-> "query", pref |-> <<>>, node |-> Node("client", <<>>)])]
  /\ UNCHANGED <<local_items, peer_items, items_to_send, items_to_receive,
                 calculated_items_to_send, done, estimates>>

\* What every refinement command teaches, query or response.
CompareNodes(v, our, their) ==
  /\ peer_items' = [peer_items EXCEPT ![v] =
       @ \cup note_item_in_peer(their) \cup note_subtree_shared_with_peer(our, their)]
  /\ EstimateItems(v, our, their)

QueriesSent_Uncounted(v, our, their) ==
  Cardinality({s \in QuerySlots(v, our, their) : Subtree(their, s)})

QueriesSent(v, our, their) == Cardinality(QuerySlots(v, our, their))

\* A query: ask for whatever this comparison left open, in slot order, then
\* respond with our node.
process_refinement_query(v) ==
  /\ net[v] # <<>> /\ Head(net[v]).cmd = "query"
  /\ LET m == Head(net[v])
         our == Node(v, m.pref)
         slots == QuerySlots(v, our, m.node)
     IN /\ CompareNodes(v, our, m.node)
        /\ queries_in_flight' = [queries_in_flight EXCEPT ![v] =
             @ + QueriesSent(v, our, m.node)]
        /\ \E order \in [1..Cardinality(slots) -> slots] :
             /\ \A i, j \in DOMAIN order : i < j => order[i] < order[j]
             /\ Exchange(v, Append([i \in DOMAIN order |->
                                      SubQuery(v, m.pref, our, m.node, order[i])],
                                   [cmd |-> "response", pref |-> m.pref, node |-> our]))
  /\ UNCHANGED <<local_items, items_to_send, items_to_receive,
                 calculated_items_to_send, done, sent_initial_query>>

\* The client's last outstanding query has been answered.
LastResponse(v) == v = "client" /\ queries_in_flight[v] = 1

\* A response: one query less in flight; the client's last one ends refinement.
process_refinement_response(v) ==
  /\ net[v] # <<>> /\ Head(net[v]).cmd = "response"
  /\ queries_in_flight[v] > 0
  /\ CompareNodes(v, Node(v, Head(net[v]).pref), Head(net[v]).node)
  /\ queries_in_flight' = [queries_in_flight EXCEPT ![v] = @ - 1]
  /\ IF LastResponse(v)
     THEN calculate_items_to_send(v) /\ Exchange(v, <<DoneCommand(v)>>)
     ELSE Exchange(v, <<>>) /\ UNCHANGED <<items_to_send, calculated_items_to_send>>
  /\ UNCHANGED <<local_items, items_to_receive, done, sent_initial_query>>

DoneEcho_Never(v) == <<>>

\* The server answers a done command with its own.
DoneEcho(v) == IF v = "server" THEN <<DoneCommand(v)>> ELSE <<>>

process_done_command(v) ==
  /\ net[v] # <<>> /\ Head(net[v]).cmd = "done"
  /\ UNCHANGED <<local_items, peer_items, queries_in_flight, sent_initial_query, estimates>>
  /\ calculate_items_to_send(v)
  /\ items_to_receive' = [items_to_receive EXCEPT ![v] = Head(net[v]).n]
  /\ done' = [done EXCEPT ![v] = TRUE]
  /\ Exchange(v, DoneEcho(v))

Next ==
  \/ begin_refinement
  \/ \E v \in Voice : process_refinement_query(v)
  \/ \E v \in Voice : process_refinement_response(v)
  \/ \E v \in Voice : process_done_command(v)

\* The client calls begin_refinement and the reactor keeps reading.
Spec == Init /\ [][Next]_vars /\ WF_vars(Next)
---------------------------------------------------------------------------
(* Properties *)

InFlight(v, cmd) == {i \in DOMAIN net[v] : net[v][i].cmd = cmd}

\* The bookkeeping of both refiners is well typed; in particular the query
\* and item counters, unsigned in the code, never go below zero.
TypeOK ==
  /\ local_items \in [Voice -> SUBSET Item]
  /\ peer_items \in [Voice -> SUBSET Item]
  /\ items_to_send \in [Voice -> SUBSET Item]
  /\ items_to_receive \in [Voice -> Nat]
  /\ queries_in_flight \in [Voice -> Nat]
  /\ calculated_items_to_send \in [Voice -> BOOLEAN]
  /\ done \in [Voice -> BOOLEAN]
  /\ sent_initial_query \in BOOLEAN
  /\ min_items_to_receive \in [Voice -> Nat]
  /\ may_receive_more_than_min \in [Voice -> BOOLEAN]

\* A side never decides against sending an item the peer lacks: what it has
\* noted of the peer (leaves seen, subtrees with equal hashes) is true, so
\* the set computed by calculate_items_to_send misses nothing.
NothingMissed ==
  \A v \in Voice : calculated_items_to_send[v] =>
    local_items[v] \ local_items[Peer(v)] \subseteq items_to_send[v]

\* Nor does it decide to send an item the peer has: when refinement ends,
\* every item both sides hold was noted, in spite of leaves facing subtrees.
NothingResent ==
  \A v \in Voice : calculated_items_to_send[v] =>
    items_to_send[v] \cap local_items[Peer(v)] = {}

\* Queries and responses are bracketed: the counter is the number of queries
\* under way plus the responses under way, so it cannot underflow ("underflow
\* on query-in-flight counter") nor reach zero early.
QueriesBalanced ==
  \A v \in Voice :
    queries_in_flight[v] = Cardinality(InFlight(Peer(v), "query"))
                           + Cardinality(InFlight(v, "response"))

\* The number announced by a done command is the number of items the peer
\* goes on to send.
CountsAgree ==
  \A v \in Voice : done[v] =>
    items_to_receive[v] = Cardinality(items_to_send[Peer(v)])

\* Both sides finish refinement.
RefinementEnds == <>(\A v \in Voice : done[v])
=============================================================================
