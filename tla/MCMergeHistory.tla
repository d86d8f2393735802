--------------------------- MODULE MCMergeHistory ---------------------------
(* A root directory 1 with the directories 2 and 5 and the files 3 and 4.  *)
EXTENDS MergeHistory

Dir(parent, name) ==
  [type |-> "dir", parent |-> parent, name |-> name, content |-> "none", attr |-> "unknown"]
File(parent, name) ==
  [type |-> "file", parent |-> parent, name |-> name, content |-> "c0", attr |-> "unknown"]

MCRoot ==
  [nodes |-> 1 :> Dir(Null, "") @@ 2 :> Dir(1, "d") @@ 3 :> File(2, "x")
             @@ 4 :> File(1, "y") @@ 5 :> Dir(1, "e"),
   root |-> 1, old_locations |-> <<>>, ok |-> TRUE]

E(op, node, parent, name, val) ==
  [op |-> op, node |-> node, parent |-> parent, name |-> name, val |-> val]

Scalars ==
  {E("patch", 3, 0, "", "c1"), E("patch", 3, 0, "", "c0"), E("attr", 3, 0, "", "v"),
   E("attr", 3, 0, "", "dead"), E("drop", 3, 0, "", "")}

Moves ==
  {E("move", 2, 5, "d", ""), E("move", 5, 2, "e", ""), E("move", 4, 2, "y", ""),
   E("move", 3, 1, "d", ""), E("move", 3, 5, "x", ""), E("drop", 4, 0, "", ""),
   E("drop", 2, 0, "", ""), E("add", 1, 2, "y", "c2"), E("add", 1, 2, "_MTN", "c2"),
   E("pivot", 2, 0, "old", ""), E("patch", 4, 0, "", "c1")}

\* All edits in short histories, contents and a drop in criss-cross ones.
MCPlan ==
  {[edits |-> Scalars \cup Moves, revs |-> 4],
   [edits |-> {E("patch", 3, 0, "", "c1"), E("patch", 3, 0, "", "c0"), E("drop", 3, 0, "", "")},
    revs |-> 6]}

\* A file changed on one side and dropped on the other.
MCDroppedPlan ==
  {[edits |-> {E("patch", 3, 0, "", "c1"), E("drop", 3, 0, "", ""), E("move", 4, 2, "x", ""),
               E("drop", 4, 0, "", "")},
    revs |-> 5]}
=============================================================================
