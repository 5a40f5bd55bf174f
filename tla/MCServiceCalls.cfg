\* Two handlers, three documents, a cache of two and a pool of two.
SPECIFICATION Spec
CONSTANTS
  PoolSize = 2
  CacheSize = 2
  Keys = {k1, k2, k3}
  Clients = {c1, c2}
  MaxCheckouts = 4
  NoKey = NoKey
SYMMETRY Interchangeable
INVARIANTS
  TypeOK
  OneBuildAtATime
  RefillUnderWay
  KeepsTheLastUsed
  IndexHasOneOwner
  EveryIndexAccountedFor
CHECK_DEADLOCK FALSE
