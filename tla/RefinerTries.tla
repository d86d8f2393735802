---------------------------- MODULE RefinerTries ----------------------------
(***************************************************************************)
(* Refiner over the tries that its code builds.  Module Refiner gives the  *)
(* node of a prefix by the items below it; module MerkleTree inserts the   *)
(* items one by one, in any order and some of them twice (revisions lead   *)
(* to the same parents), and then computes the codes.                      *)
(***************************************************************************)
EXTENDS Refiner

CONSTANT NoCode

T == INSTANCE MerkleTree

\* The tables that noting the items I can leave.
RECURSIVE Noted(_)
Noted(I) ==
  IF I = {} THEN {T!NewTable}
  ELSE LET once == UNION {{T!note_local_item(t, i) : t \in Noted(I \ {i})} : i \in I}
       IN once \cup {T!note_local_item(t, i) : t \in once, i \in I}

Tables ==
  [I \in {J \in SUBSET Item : Cardinality(J) <= MaxItems} |->
     {T!reindex_local_items(t) : t \in Noted(I)}]

SlotShows(cell, below) ==
  /\ cell.state = "empty" <=> below = {}
  /\ cell.state = "leaf" <=> Cardinality(below) = 1
  /\ cell.state = "leaf" => below = {cell.val}

\* Whatever the order in which items were noted, the table has the nodes
\* that Refiner takes it to have, and their slots tell the same; locate_item
\* and collect_items_in_subtree find what is there; and two subtrees, one of
\* each side, have the same code just when they have the same items.
TriesExact ==
  ~ sent_initial_query =>
    \A v \in Voice : \A tab \in Tables[local_items[v]] :
      LET items == local_items[v]
          below(p) == Under(items, p)
      IN /\ DOMAIN tab = {p \in {Prefix(i, k) : i \in Item, k \in 0..(Depth - 1)} :
                             merkle_node_exists(v, p)}
         /\ \A p \in DOMAIN tab :
              /\ T!collect_items_in_subtree(tab, p) = below(p)
              /\ \A s \in Slot : SlotShows(tab[p].slots[s], Node(v, p)[s])
         /\ \A i \in Item :
              IF i \in items THEN Prefix(i, T!locate_item(tab, i)) = locate_item(v, i)
                            ELSE T!locate_item(tab, i) = Depth
         /\ \A other \in Tables[local_items[Peer(v)]] :
              \A p \in DOMAIN tab \cap DOMAIN other, s \in Slot :
                LET ours == tab[p].slots[s]
                    theirs == other[p].slots[s]
                IN ours.state = "subtree" /\ theirs.state = "subtree" =>
                     (ours.val = theirs.val
                        <=> below(Append(p, s)) = Under(local_items[Peer(v)], Append(p, s)))
=============================================================================
