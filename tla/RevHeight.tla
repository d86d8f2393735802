----------------------------- MODULE RevHeight -----------------------------
(***************************************************************************)
(* Revision heights (src/src/rev_height.hh, rev_height.cc).  A height is a *)
(* string of big-endian u32 components compared with memcmp, that is, a    *)
(* sequence of naturals in lexicographic order in which a proper prefix    *)
(* comes first.                                                            *)
(***************************************************************************)
EXTENDS Integers, Sequences

CONSTANT MaxU32    \* the largest value of one component

ASSUME MaxU32Assumption == MaxU32 \in Nat

Height == {h \in Seq(0..MaxU32) : Len(h) > 0}

root_height == <<0>>

\* operator< : the first place where g and h differ decides; running out of
\* components there counts as lower.
Below(g, h) ==
  \E i \in 1..Len(h) :
    /\ i <= Len(g) + 1
    /\ \A j \in 1..(i - 1) : g[j] = h[j]
    /\ i <= Len(g) => g[i] < h[i]

\* The invariant child_height asserts before it increments a component.
ChildFits(h) == h[Len(h)] < MaxU32

\* The first child extends the line of its parent; child number nr > 0 opens
\* a line of its own.
child_height(h, nr) ==
  IF nr = 0 THEN [h EXCEPT ![Len(h)] = @ + 1]
            ELSE h \o <<nr - 1, 0>>
=============================================================================
