SPECIFICATION Spec
CONSTANTS
  EditsIn <- MCEditsIn
  Base <- MCBase
  Tips <- MCTips
  Names <- MCNames
  Spares <- MCSpares
  MaxCommands = 3
INVARIANTS BaseExists EditKept NothingUndone UpdateComplete Recommittable
CHECK_DEADLOCK FALSE
