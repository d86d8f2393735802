SPECIFICATION MCSpec
CONSTANTS
  Rev = {1, 2, 3, 4}
  File = {f, g}
  NoFile = NoFile
  f = f
  MaxParents = 2
PROPERTIES EveryItemAccepted WalkEnds
