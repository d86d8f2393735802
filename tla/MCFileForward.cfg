SPECIFICATION PullSpec
CONSTANTS
  File = {A, B, C}
  Direction = {"forward"}
  MaxDelayed = 1
  MaxLevel = 1
SYMMETRY FileSymmetry
INVARIANTS AllReadable
