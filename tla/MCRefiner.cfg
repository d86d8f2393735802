SPECIFICATION Spec
CONSTANTS
  NumSlots = 2
  Depth = 3
  Item <- MCItem
  MaxItems = 4
  NoCode = nocode
INVARIANTS NothingMissed NothingResent QueriesBalanced CountsAgree TriesExact
PROPERTIES RefinementEnds
CHECK_DEADLOCK FALSE
