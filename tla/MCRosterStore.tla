--------------------------- MODULE MCRosterStore ---------------------------
(* A fork and its merge.  One node, in the root or born on one side, keeps *)
(* its content, changes or goes in each later revision.                    *)
EXTENDS RosterStore

MCEdges == [r \in 1..4 |-> CASE r = 1 -> <<>> [] r = 2 -> <<1>> [] r = 3 -> <<1>> [] r = 4 -> <<2, 3>>]

History(a, b, c, d) == [r \in 1..4 |-> [n \in Node |-> <<a, b, c, d>>[r]]]

MCHistories ==
  LET C == {"x", "y", Absent}
  IN {History("x", b, c, d) : b \in C, c \in C, d \in C} \cup {History(Absent, "x", Absent, d) : d \in C}
=============================================================================
