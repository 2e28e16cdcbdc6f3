SPECIFICATION RepeatSpec
CONSTANTS
  Order = "fifo"
  Clients = {c1, c2}
  Leavers = {c1}
  Inputs = {{"StrafeRight"}, {"WalkReverse"}}
  LoadLimit = 1
  InputLimit = 2
  BaddieLimit = 1
  BlockerLimit = 0
  RepeatLimit = 3
  TickPeriod = 1
INVARIANTS NoNullCharacter LoadGivesCharacter InputTakesEffect NoOrphanCharacters
PROPERTIES ShutdownCompletes
CHECK_DEADLOCK FALSE
