SPECIFICATION FairSpec
CONSTANTS
  Producers = {p1, p2}
  Msgs = {m1, m2, m3}
  Nodes = {n1, n2, n3}
  NULL = NULL
INVARIANTS NoUseAfterFree NoLeak Inv
PROPERTIES LifoSpec EveryPushDelivered
CHECK_DEADLOCK TRUE
