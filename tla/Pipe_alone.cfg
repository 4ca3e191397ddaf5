SPECIFICATION FairSpec
CONSTANTS
  h1 = h1
  w1 = w1
  c1 = c1
  r1 = r1
  None = None
  TraceIds <- OneOfEach
  Kind <- OneOfEachKind
  Readers = {}
  EvictThreshold = 1
  MaxCompletedAge = 0
  MaxPendingAge = 1
  MaxLog = 1
  MaxChunk = 3
  MaxMsg = 1
  MaxTime = 1
  Capacity = 3
  MaxExchanges = 1
INVARIANTS BodiesFaithful OverIsEvictable
PROPERTIES StoreSpec HttpSettles TunnelSettles
CHECK_DEADLOCK FALSE
