----------------------------- MODULE MCRefiner -----------------------------
(* Two slots per node and items of three digits: tries up to three levels  *)
(* deep, so that leaves face subtrees at two levels.  Six items, four of   *)
(* them below one slot of the root.                                        *)
EXTENDS RefinerTries

MCItem == {i \in [1..Depth -> Slot] : i[1] = 0 \/ i[2] = 0}
=============================================================================
