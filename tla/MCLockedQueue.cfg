SPECIFICATION FairSpec
CONSTANTS
  Producers = {p1, p2}
  Msgs = {m1, m2, m3, m4}
  NULL = NULL
INVARIANT NoLostWakeup
PROPERTIES FifoSpec EveryPushDelivered
CHECK_DEADLOCK TRUE
