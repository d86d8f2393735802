---------------------------- MODULE MCEnumerator ----------------------------
(* Ancestry graphs of four revisions with merges, two file contents.  The  *)
(* first content and the first edge are fixed: other graphs are the same   *)
(* up to renaming, or smaller.                                             *)
EXTENDS Enumerator

CONSTANT f

MCInit == Init /\ content[1] = f /\ parents[2] = {1}

MCSpec == MCInit /\ [][Next]_vars /\ WF_vars(VisitRevision \/ ExtractItem)
=============================================================================
