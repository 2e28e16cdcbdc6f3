SPECIFICATION FairSpec
CONSTANTS
  Order = "fifo"
  Ids <- MCIds
  Keys <- MCKeys
  TransLimit = 1
  KeyLimit = 2
INVARIANT PlatformOutlivesLoader
INVARIANT DrawsWhatIsAsked
INVARIANT ServerKnowsKeys
INVARIANT NoCallsAfterWait
PROPERTY KeysReachPeer
PROPERTY EndsWhenAsked
CHECK_DEADLOCK FALSE
