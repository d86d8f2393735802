----------------------------- MODULE MerkleTree -----------------------------
(***************************************************************************)
(* The merkle trie a refiner builds of its items before refinement starts  *)
(* (src/src/merkle_tree.cc, note_local_item and reindex_local_items of     *)
(* refiner.cc).  A table maps prefixes to nodes; an item is its sequence   *)
(* of digits.  SHA1 is taken to be injective: the code of a node is the    *)
(* node's own contents, and NoCode the empty id of a slot not yet coded.   *)
(***************************************************************************)
EXTENDS Integers, Sequences, TLC

CONSTANTS NumSlots, Depth, NoCode

Slot == 0..(NumSlots - 1)

Empty == [state |-> "empty"]
Leaf(i) == [state |-> "leaf", val |-> i]
Subtree(code) == [state |-> "subtree", val |-> code]

\* A node without leaves.
merkle_node == [total_num_leaves |-> 0, slots |-> [s \in Slot |-> Empty]]

SetSlot(node, s, val) == [node EXCEPT !.slots[s] = val]

\* The slot and the prefix of value val on level l.
pick_slot(val, l) == val[l + 1]
pick_prefix(val, l) == SubSeq(val, 1, l)

AddLeaf(node, s, i) ==
  [SetSlot(node, s, Leaf(i)) EXCEPT !.total_num_leaves = @ + 1]

PushedDown_Counted(node, s) ==
  [SetSlot(node, s, Subtree(NoCode)) EXCEPT !.total_num_leaves = @ + 1]

\* A slot that became, or is, the root of a subtree: its code is forgotten.
PushedDown(node, s) == SetSlot(node, s, Subtree(NoCode))

\* When a slot is taken by another leaf both move one level down.
RECURSIVE insert_into_merkle_tree(_, _, _)
insert_into_merkle_tree(tab, leaf, level) ==
  LET s == pick_slot(leaf, level)
      pref == pick_prefix(leaf, level)
      node == tab[pref]
      cell == node.slots[s]
      Store(t, n) == (pref :> n) @@ t
  IN IF pref \notin DOMAIN tab
     THEN Store(tab, AddLeaf(merkle_node, s, leaf))
     ELSE CASE cell.state = "empty" -> Store(tab, AddLeaf(node, s, leaf))
            [] cell.state = "leaf" ->
                 IF cell.val = leaf THEN tab
                 ELSE Store(insert_into_merkle_tree(
                              insert_into_merkle_tree(tab, cell.val, level + 1),
                              leaf, level + 1),
                            PushedDown(node, s))
            [] cell.state = "subtree" ->
                 Store(insert_into_merkle_tree(tab, leaf, level + 1),
                       PushedDown(node, s))

hash_merkle_node(pref, node) == <<pref, node>>

NeedsCode(cell) == cell.state = "subtree" /\ cell.val = NoCode

\* The node at pref once every missing code below it has been computed.
RECURSIVE Coded(_, _)
Coded(tab, pref) ==
  [tab[pref] EXCEPT !.slots = [s \in Slot |->
     IF NeedsCode(@[s])
     THEN Subtree(hash_merkle_node(Append(pref, s), Coded(tab, Append(pref, s))))
     ELSE @[s]]]

recalculate_merkle_codes(tab) == [p \in DOMAIN tab |-> Coded(tab, p)]

\* The items below a prefix.
RECURSIVE collect_items_in_subtree(_, _)
collect_items_in_subtree(tab, pref) ==
  IF pref \notin DOMAIN tab THEN {}
  ELSE UNION {LET cell == tab[pref].slots[s]
              IN CASE cell.state = "empty" -> {}
                   [] cell.state = "leaf" -> {cell.val}
                   [] cell.state = "subtree" ->
                        collect_items_in_subtree(tab, Append(pref, s)) : s \in Slot}

\* Level l of the search holds val as a leaf.
LocateStops(tab, val, l) ==
  tab[pick_prefix(val, l)].slots[pick_slot(val, l)] = Leaf(val)

\* The level of the node that holds val as a leaf; Depth if there is none.
RECURSIVE LocateFrom(_, _, _)
LocateFrom(tab, val, l) ==
  IF l = Depth \/ pick_prefix(val, l) \notin DOMAIN tab THEN Depth
  ELSE IF tab[pick_prefix(val, l)].slots[pick_slot(val, l)].state = "subtree"
       THEN LocateFrom(tab, val, l + 1)
       ELSE IF LocateStops(tab, val, l) THEN l ELSE Depth

locate_item(tab, val) == LocateFrom(tab, val, 0)

\* The refiner's constructor makes the root.
NewTable == <<>> :> merkle_node

note_local_item(tab, i) == insert_into_merkle_tree(tab, i, 0)

reindex_local_items(tab) == recalculate_merkle_codes(tab)
=============================================================================
