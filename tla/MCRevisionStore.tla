-------------------------- MODULE MCRevisionStore --------------------------
(* A small history: a fork r1 -> r2, r3, a merge r4 of both.               *)
EXTENDS RevisionStore, TLC

CONSTANTS r1, r2, r3, r4

MCParents == (r1 :> {NullRev}) @@ (r2 :> {r1}) @@ (r3 :> {r1}) @@ (r4 :> {r2, r3})
=============================================================================
