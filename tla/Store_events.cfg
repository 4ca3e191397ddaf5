SPECIFICATION Spec
CONSTANTS
  h1 = h1
  w1 = w1
  c1 = c1
  r1 = r1
  r2 = r2
  None = None
  TraceIds <- MixedIds
  Kind <- MixedKind
  Readers = {}
  EvictThreshold = 1
  MaxCompletedAge = 1
  MaxPendingAge = 1
  MaxLog = 1
  MaxChunk = 1
  MaxMsg = 2
  MaxTime = 1
INVARIANT TypeOK
INVARIANT CompletionTimed
PROPERTY TerminalForever
PROPERTY EvictionSparesActive
PROPERTY EvictionTakesOldest
PROPERTY GrowthIsForced
CHECK_DEADLOCK FALSE
