SPECIFICATION Spec
CONSTANTS
  Order = "fifo"
  Ids <- MCIds
  Keys <- MCKeys
  TransLimit = 1
  KeyLimit = 2
INVARIANT MainloopRunsUntilSignal
CHECK_DEADLOCK FALSE
