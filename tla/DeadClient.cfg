SPECIFICATION Spec
CONSTANTS
  Order = "fifo"
  Clients = {c1, c2}
  Leavers = {c1}
  Inputs = {{"StrafeLeft"}}
  LoadLimit = 1
  InputLimit = 1
  BaddieLimit = 0
  BlockerLimit = 0
  RepeatLimit = 0
  TickPeriod = 1
INVARIANTS NoDeadClientCalled
CHECK_DEADLOCK FALSE
