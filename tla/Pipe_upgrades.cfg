SPECIFICATION Spec
CONSTANTS
  h1 = h1
  w1 = w1
  c1 = c1
  r1 = r1
  None = None
  TraceIds <- UpgradesOnly
  Kind <- UpgradesOnlyKind
  Readers = {r1}
  EvictThreshold = 1
  MaxCompletedAge = 0
  MaxPendingAge = 1
  MaxLog = 1
  MaxChunk = 0
  MaxMsg = 1
  MaxTime = 0
  Capacity = 2
  MaxExchanges = 2
INVARIANTS TypeOK FinishedMeansOver
CHECK_DEADLOCK FALSE
