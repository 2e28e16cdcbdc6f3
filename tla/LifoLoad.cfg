SPECIFICATION Spec
CONSTANTS
  Order = "lifo"
  Clients = {c1, c2}
  Leavers = {}
  Inputs = {{"StrafeLeft"}}
  LoadLimit = 1
  InputLimit = 1
  BaddieLimit = 0
  BlockerLimit = 0
  RepeatLimit = 0
  TickPeriod = 1
INVARIANTS LoadGivesCharacter
CHECK_DEADLOCK FALSE
