\* Two handlers of one document: what closing the pool does while they run.
SPECIFICATION FairSpec
CONSTANTS
  PoolSize = 2
  CacheSize = 1
  Keys = {k1}
  Clients = {c1, c2}
  MaxCheckouts = 3
  NoKey = NoKey
INVARIANTS
  ClosedHoldsNothing
PROPERTIES
  ClosedPoolOnlyShrinks
  CloseReturns
CHECK_DEADLOCK FALSE
