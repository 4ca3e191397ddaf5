SPECIFICATION Spec
CONSTANTS
  h1 = h1
  w1 = w1
  c1 = c1
  r1 = r1
  None = None
  TraceIds <- HttpAndWebSocket
  Kind <- HttpAndWebSocketKind
  Readers = {}
  EvictThreshold = 1
  MaxCompletedAge = 0
  MaxPendingAge = 1
  MaxLog = 1
  MaxChunk = 0
  MaxMsg = 1
  MaxTime = 1
  Capacity = 2
  MaxExchanges = 2
PROPERTY WebSocketsExpire
CHECK_DEADLOCK FALSE
