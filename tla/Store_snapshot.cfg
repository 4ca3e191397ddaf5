SPECIFICATION Spec
CONSTANTS
  h1 = h1
  w1 = w1
  c1 = c1
  r1 = r1
  r2 = r2
  None = None
  TraceIds <- PairIds
  Kind <- PairKind
  Readers = {r1, r2}
  EvictThreshold = 2
  MaxCompletedAge = 0
  MaxPendingAge = 1
  MaxLog = 1
  MaxChunk = 0
  MaxMsg = 1
  MaxTime = 1
INVARIANT ReportedAtMostOnce
PROPERTY SnapshotRemovesReported
PROPERTY ExpiredLeave
PROPERTY LifecycleSpec
CHECK_DEADLOCK FALSE
