SPECIFICATION MCSpec
CONSTANTS
  Parts = {"settings", "projects", "capture rules", "filter history", "daemon", "collection", "studio history", "project config", "adb", "ui", "match", "processing", "proxy"}
  a = a
  b = b
  Actors = {a, b}
  Pids = {p1, p2, p3}
  NodeIds = {n1, n2, n3, n4}
  Ports = {o1, o2}
  h1 = h1
  h2 = h2
  Null = Null
  Bad = Bad
  Torn = Torn
  ProjectIds = {"default", "p1"}
  DefaultId = "default"
  Names = {"name"}
  DefaultName = "name"
  Values = {"v0", "v1"}
  DefaultValue = "v0"
  RuleIds = {1}
  Exprs = {"e1", "e2"}
  CaptureIds = {0, 1}
  HistoryLimit = 2
  Serials = {"device"}
  UserProxies = {"corporate"}
  LocalOnly = FALSE
  MaxDeviceCalls = 3
  MaxDeviceFaults = 2
  MaxLogSize = 1
  MaxRequests = 3
  MaxCommands = 2
  MaxStrangers = 1
  MaxCalls = 5
  MaxNodeFaults = 1
  EntryIds = {1, 2, 3}
  HistoryMax = 2
  MaxHistoryOps = 4
  Streams = {a, b}
  Chunks = 0
  Capacity = 2
  WireCapacity = 1
  MaxToggles = 2
  MaxBreaks = 0
  Addrs = {"address"}
  Conns = {"connection"}
  SystemProxy = FALSE
  Ttl = 2
  MaxBytes = 5
  MaxProxyChanges = 1
  MaxTime = 2
SYMMETRY Symmetry
INVARIANTS TypeOK DocsWellFormed WritesAreWhole CollectionsSound CommandsAgree ListIsShown  RulesDecide  DeliveredInTime ConnectionsKept
PROPERTIES  DaemonIsKnown HistoryTrimmed  
CHECK_DEADLOCK FALSE
