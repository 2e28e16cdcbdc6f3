SPECIFICATION FairSpec
CONSTANTS
  c1 = c1
  c2 = c2
  Clients <- MCClients
  PushLimit = 1
INVARIANT TypeOK
INVARIANT DeletedOnce
INVARIANT WritesPrecedeDelete
PROPERTY KeepsRegistry
PROPERTY PeerLossIsNoticed
PROPERTY ShutdownEndsMain
CHECK_DEADLOCK FALSE
