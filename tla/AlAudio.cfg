SPECIFICATION AudioFairSpec
CONSTANTS
  Waiters = {w1, w2}
  Streams = {s1, s2}
  BufferLen = 2
  Lengths <- MCLengths
  Headers <- MCHeaders
INVARIANTS CleanedUpBeforeReturn NoMissedNotify HeardInOrder PlayedToTheEnd
PROPERTIES EverybodyReturns StreamEnds
CHECK_DEADLOCK FALSE
