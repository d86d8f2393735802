---------------------------- MODULE MCFileStore ----------------------------
(* Three versions, one delayed text, guards nested twice. *)
EXTENDS FileStore, TLC

FileSymmetry == Permutations(File)
=============================================================================
