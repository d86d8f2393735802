SPECIFICATION Spec
CONSTANTS
  r1 = r1
  r2 = r2
  r3 = r3
  r4 = r4
  Rev = {r1, r2, r3, r4}
  NullRev = null
  Parents <- MCParents
  Branch = {b}
  Key = {k}
  OtherName = {}
  MaxU32 = 5
  MaxChildNr = 5
INVARIANTS HeightsSound LeavesExact AncestorSearchExact
PROPERTIES HeightsStable
CHECK_DEADLOCK FALSE
