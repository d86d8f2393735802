---------------------------- MODULE MCWorkspace ----------------------------
(* A root directory 1 with a directory 2 and the files 3 in it and 4.      *)
EXTENDS Workspace

Dir(parent, name) ==
  [type |-> "dir", parent |-> parent, name |-> name, content |-> "none", attr |-> "unknown"]
File(parent, name, content) ==
  [type |-> "file", parent |-> parent, name |-> name, content |-> content, attr |-> "unknown"]

Roster(nodes) == [nodes |-> nodes, root |-> 1, old_locations |-> <<>>, ok |-> TRUE]

MCBase == Roster(1 :> Dir(0, "") @@ 2 :> Dir(1, "d") @@ 3 :> File(2, "x", "c") @@ 4 :> File(1, "y", "c"))

\* Two files renamed, one to where the other was; and a directory renamed,
\* a file in it changed, a file dropped and a file added.
MCTips ==
  {Roster(1 :> Dir(0, "") @@ 2 :> Dir(1, "d") @@ 3 :> File(1, "z", "v") @@ 4 :> File(2, "x", "c")),
   Roster(1 :> Dir(0, "") @@ 2 :> Dir(1, "e") @@ 3 :> File(2, "x", "v") @@ 5 :> File(1, "z", "n"))}

MCEditsIn ==
  [c |-> {}, u |-> {"u"}, v |-> {"v"}, uv |-> {"u", "v"}, n |-> {"n"}, nu |-> {"n", "u"}]

MCNames == {<<"z">>, <<"d">>}
MCSpares == {<<"s">>}
=============================================================================
