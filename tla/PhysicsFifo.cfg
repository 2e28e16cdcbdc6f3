SPECIFICATION CallerFairSpec
CONSTANTS
  Order = "fifo"
  CharIds = {1, 2}
  ObjIds = {3}
  States = {{"StrafeLeft"}, {"StrafeLeft", "StrafeRight", "Jump"}}
  CallLimit = 5
INVARIANTS CallsTakeEffect DeletionsFindTheirObject
PROPERTIES FinishEndsTheThread
CHECK_DEADLOCK FALSE
