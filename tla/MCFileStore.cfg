SPECIFICATION Spec
CONSTANTS
  File = {A, B, C}
  Direction = {"reverse", "both"}
  MaxDelayed = 1
  MaxLevel = 2
SYMMETRY FileSymmetry
INVARIANTS AllReadable NothingPending
PROPERTIES KeepsPromise
