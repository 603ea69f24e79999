SPECIFICATION FairSpec
CONSTANTS
  Observers = {o1, o2}
  MaxPackets = 3
  MaxOpus = 2
INVARIANTS
  TypeOK
  InStep
  CacheIsGop
PROPERTIES
  FeedRefined
  StopReturns
  NewObserverServed
CHECK_DEADLOCK FALSE
