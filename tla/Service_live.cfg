SPECIFICATION MCFairSpec
CONSTANTS
  Parts = {"projects", "daemon", "ui", "proxy"}
  a = a
  b = b
  Actors = {a, b}
  Pids = {p1, p2, p3}
  NodeIds = {n1}
  Ports = {o1}
  h1 = h1
  h2 = h1
  Null = Null
  Bad = Bad
  Torn = Torn
  ProjectIds = {"default", "p1"}
  DefaultId = "default"
  Names = {"name"}
  DefaultName = "name"
  Values = {"v0", "v1"}
  DefaultValue = "v0"
  RuleIds = {1}
  Exprs = {"e1", "e2"}
  CaptureIds = {0, 1}
  HistoryLimit = 2
  Serials = {"device"}
  UserProxies = {"corporate"}
  LocalOnly = FALSE
  MaxDeviceCalls = 3
  MaxDeviceFaults = 2
  MaxLogSize = 1
  MaxRequests = 2
  MaxCommands = 2
  MaxStrangers = 0
  MaxCalls = 0
  MaxNodeFaults = 0
  EntryIds = {1, 2, 3}
  HistoryMax = 2
  MaxHistoryOps = 4
  Streams = {a}
  Chunks = 1
  Capacity = 2
  WireCapacity = 1
  MaxToggles = 3
  MaxBreaks = 1
  Addrs = {"address"}
  Conns = {"connection"}
  SystemProxy = FALSE
  Ttl = 2
  MaxBytes = 5
  MaxProxyChanges = 1
  MaxTime = 0
PROPERTIES  CommandsEnd   BytesArrive
CHECK_DEADLOCK FALSE
