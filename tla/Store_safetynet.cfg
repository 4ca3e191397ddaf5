SPECIFICATION Spec
CONSTANTS
  h1 = h1
  w1 = w1
  c1 = c1
  r1 = r1
  r2 = r2
  None = None
  TraceIds <- MixedIds
  Kind <- MixedKind
  Readers = {}
  EvictThreshold = 2
  MaxCompletedAge = 1
  MaxPendingAge = 1
  MaxLog = 1
  MaxChunk = 0
  MaxMsg = 0
  MaxTime = 2
INVARIANT SafetyNet
CHECK_DEADLOCK FALSE
