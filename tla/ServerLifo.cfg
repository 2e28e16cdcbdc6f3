SPECIFICATION Spec
CONSTANTS
  Order = "lifo"
  Clients = {c1, c2}
  Leavers = {c1}
  Inputs = {{"StrafeRight"}}
  LoadLimit = 2
  InputLimit = 1
  BaddieLimit = 1
  BlockerLimit = 1
  RepeatLimit = 0
  TickPeriod = 1
INVARIANTS TypeOK NoGhosts PlayersSeeNewcomers IdsAreUnique
PROPERTIES KeepsRegistry KeepsItsCharacter
CHECK_DEADLOCK FALSE
