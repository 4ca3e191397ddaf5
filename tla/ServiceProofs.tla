---------------------------- MODULE ServiceProofs ----------------------------
(***************************************************************************)
(* Theorems about the service: each component keeps its properties beside  *)
(* the others. What a component guarantees is proved in the module of its  *)
(* proofs, instantiated here once more with the values it has in Service.  *)
(***************************************************************************)
EXTENDS Service, TLAPS

ApiProofs == INSTANCE ControlApiProofs WITH
  Tasks <- Actors, None <- Null, Empty <- Bad, rules <- apiRules

ServerProofs == INSTANCE ServerProofs WITH
  Shells <- Actors, NoOne <- Null, Garbage <- Bad, given <- commands,
  Hosts <- {h1, h2}, Requests <- ProxyRequests, Nobody <- Null, MaxChanges <- MaxProxyChanges,
  changes <- proxyChanges,
  TraceIds <- Streams, Nothing <- Null, handed <- given,
  Frames <- <<1, 300>>, Absent <- Null

StudioProofs == INSTANCE StudioProofs WITH
  Callers <- Actors, Nothing <- Null, Clients <- Actors, job <- work

ToolProofs == INSTANCE ToolProofs WITH
  Sessions <- Actors, Unset <- Null, Gone <- Bad,
  MaxCalls <- MaxDeviceCalls, MaxFaults <- MaxDeviceFaults, saved <- stateFile,
  RuleIds <- {1, 2}, Projects <- {"A", "B"}, Texts <- {"x", "y"}, Invalid <- "bad",
  Shells <- Actors, Nothing <- Null, MaxChanges <- 3, store <- saved

-----------------------------------------------------------------------------
(***************************************************************************)
(* The two instances of a component have the same definitions.             *)
(***************************************************************************)

\* The websocket API and the settings files under it.
LEMMA SameApi ==
  /\ Api!Init <=> ApiProofs!Init
  /\ Api!Lives <=> ApiProofs!Lives
  /\ Api!Faults <=> ApiProofs!Faults
  /\ \A s \in Actors : Api!SettingsOps(s) <=> ApiProofs!SettingsOps(s)
  /\ \A s \in Actors : Api!ProjectOps(s) <=> ApiProofs!ProjectOps(s)
  /\ \A s \in Actors : Api!CaptureOps(s) <=> ApiProofs!CaptureOps(s)
  /\ \A s \in Actors : Api!HistoryOps(s) <=> ApiProofs!HistoryOps(s)
  /\ Api!DocsWellFormed <=> ApiProofs!DocsWellFormed
  /\ Api!WritesAreWhole <=> ApiProofs!WritesAreWhole
<1>1. Api!Init <=> ApiProofs!Init
  BY DEF
    Api!Init, ApiProofs!Init, Api!FilesInit, ApiProofs!FilesInit, Api!Sessions, ApiProofs!Sessions,
    Api!Files, ApiProofs!Files, Api!Default, ApiProofs!Default, Api!NoCall, ApiProofs!NoCall,
    Api!WholeFiles, ApiProofs!WholeFiles, Api!DefaultProjects, ApiProofs!DefaultProjects
<1>2. Api!Lives <=> ApiProofs!Lives
  BY DEF
    Api!Lives, ApiProofs!Lives, Api!Sessions, ApiProofs!Sessions, Api!Work, ApiProofs!Work,
    Api!Connect, ApiProofs!Connect, Api!Close, ApiProofs!Close, Api!FileWork, ApiProofs!FileWork,
    Api!ListRulesByProject, ApiProofs!ListRulesByProject, Api!OutsideAnswers,
    ApiProofs!OutsideAnswers, Api!Reread, ApiProofs!Reread, Api!Answer, ApiProofs!Answer, Api!Done,
    ApiProofs!Done, Api!fileVars, ApiProofs!fileVars, Api!IsIdle, ApiProofs!IsIdle, Api!FileStep,
    ApiProofs!FileStep, Api!apiVars, ApiProofs!apiVars, Api!RulesOf, ApiProofs!RulesOf,
    Api!Answered, ApiProofs!Answered, Api!ReadAgain, ApiProofs!ReadAgain, Api!Error,
    ApiProofs!Error, Api!Response, ApiProofs!Response, Api!Event, ApiProofs!Event, Api!NoCall,
    ApiProofs!NoCall, Api!ReadFile, ApiProofs!ReadFile, Api!ComputeBlind, ApiProofs!ComputeBlind,
    Api!WriteJsonAtomic, ApiProofs!WriteJsonAtomic, Api!Compute, ApiProofs!Compute, Api!Default,
    ApiProofs!Default, Api!OpenTmp, ApiProofs!OpenTmp, Api!WriteTmp, ApiProofs!WriteTmp,
    Api!RenameTmp, ApiProofs!RenameTmp, Api!Result, ApiProofs!Result, Api!DefaultProjects,
    ApiProofs!DefaultProjects, Api!Written, ApiProofs!Written, Api!Stored, ApiProofs!Stored,
    Api!SetActiveProject, ApiProofs!SetActiveProject, Api!EnsureDefault, ApiProofs!EnsureDefault,
    Api!CreateProject, ApiProofs!CreateProject, Api!RenameProject, ApiProofs!RenameProject,
    Api!DeleteProject, ApiProofs!DeleteProject, Api!Upsert, ApiProofs!Upsert,
    Api!DeleteCaptureRule, ApiProofs!DeleteCaptureRule, Api!SetEnabled, ApiProofs!SetEnabled,
    Api!AppendEntry, ApiProofs!AppendEntry, Api!HasProject, ApiProofs!HasProject, Api!Refused,
    ApiProofs!Refused, Api!NextId, ApiProofs!NextId, Api!Without, ApiProofs!Without,
    Api!Cardinality, ApiProofs!Cardinality
<1>3. Api!Faults <=> ApiProofs!Faults
  BY DEF
    Api!Faults, ApiProofs!Faults, Api!Sessions, ApiProofs!Sessions, Api!WriteFails,
    ApiProofs!WriteFails, Api!apiVars, ApiProofs!apiVars, Api!ApiCrash, ApiProofs!ApiCrash,
    Api!Crash, ApiProofs!Crash, Api!NoCall, ApiProofs!NoCall
<1>4. \A s \in Actors : Api!SettingsOps(s) <=> ApiProofs!SettingsOps(s)
  BY DEF
    Api!SettingsOps, ApiProofs!SettingsOps, Api!UnsupportedVersion, ApiProofs!UnsupportedVersion,
    Api!PingFrame, ApiProofs!PingFrame, Api!InvalidFrame, ApiProofs!InvalidFrame, Api!SYSTEM_PING,
    ApiProofs!SYSTEM_PING, Api!COMPOSE_REQUEST_SEND, ApiProofs!COMPOSE_REQUEST_SEND,
    Api!CAPTURE_STATUS_GET, ApiProofs!CAPTURE_STATUS_GET, Api!CAPTURE_CONTROL_SET,
    ApiProofs!CAPTURE_CONTROL_SET, Api!SETTINGS_GENERAL_GET, ApiProofs!SETTINGS_GENERAL_GET,
    Api!SETTINGS_GENERAL_SET, ApiProofs!SETTINGS_GENERAL_SET, Api!SETTINGS_CAPTURE_FILTER_GET,
    ApiProofs!SETTINGS_CAPTURE_FILTER_GET, Api!SETTINGS_CAPTURE_FILTER_SET,
    ApiProofs!SETTINGS_CAPTURE_FILTER_SET, Api!SETTINGS_CERTIFICATE_PATH_GET,
    ApiProofs!SETTINGS_CERTIFICATE_PATH_GET, Api!DEVICE_ADB_STATUS_GET,
    ApiProofs!DEVICE_ADB_STATUS_GET, Api!DEVICE_ADB_INSTALL, ApiProofs!DEVICE_ADB_INSTALL,
    Api!DEVICE_ADB_INSTALL_PROGRESS_GET, ApiProofs!DEVICE_ADB_INSTALL_PROGRESS_GET,
    Api!DEVICE_ADB_DEVICES_LIST, ApiProofs!DEVICE_ADB_DEVICES_LIST, Api!DEVICE_ADB_PROXY_STATE_GET,
    ApiProofs!DEVICE_ADB_PROXY_STATE_GET, Api!DEVICE_ADB_PROXY_ENABLE,
    ApiProofs!DEVICE_ADB_PROXY_ENABLE, Api!DEVICE_ADB_PROXY_DISABLE,
    ApiProofs!DEVICE_ADB_PROXY_DISABLE, Api!Take, ApiProofs!Take, Api!Send, ApiProofs!Send,
    Api!Error, ApiProofs!Error, Api!Pong, ApiProofs!Pong, Api!InvalidPayload,
    ApiProofs!InvalidPayload, Api!Outside, ApiProofs!Outside, Api!Dao, ApiProofs!Dao, Api!Response,
    ApiProofs!Response, Api!IsIdle, ApiProofs!IsIdle, Api!fileVars, ApiProofs!fileVars, Api!Call,
    ApiProofs!Call, Api!Begin, ApiProofs!Begin, Api!Blind, ApiProofs!Blind, Api!OthersWriting,
    ApiProofs!OthersWriting, Api!NoCall, ApiProofs!NoCall, Api!Writes, ApiProofs!Writes
<1>5. \A s \in Actors : Api!ProjectOps(s) <=> ApiProofs!ProjectOps(s)
  BY DEF
    Api!ProjectOps, ApiProofs!ProjectOps, Api!RULES_LIST_GET, ApiProofs!RULES_LIST_GET,
    Api!RULES_GET, ApiProofs!RULES_GET, Api!RULES_TEMPLATES_GET, ApiProofs!RULES_TEMPLATES_GET,
    Api!RULES_SAVE_SET, ApiProofs!RULES_SAVE_SET, Api!RULES_DELETE, ApiProofs!RULES_DELETE,
    Api!RULES_ENABLED_SET, ApiProofs!RULES_ENABLED_SET, Api!PROJECTS_LIST_GET,
    ApiProofs!PROJECTS_LIST_GET, Api!PROJECTS_ACTIVE_SET, ApiProofs!PROJECTS_ACTIVE_SET,
    Api!PROJECTS_CREATE, ApiProofs!PROJECTS_CREATE, Api!PROJECTS_RENAME, ApiProofs!PROJECTS_RENAME,
    Api!PROJECTS_DELETE, ApiProofs!PROJECTS_DELETE, Api!Take, ApiProofs!Take, Api!RulesRead,
    ApiProofs!RulesRead, Api!InvalidPayload, ApiProofs!InvalidPayload, Api!RulesChange,
    ApiProofs!RulesChange, Api!Response, ApiProofs!Response, Api!Send, ApiProofs!Send, Api!Error,
    ApiProofs!Error, Api!Dao, ApiProofs!Dao, Api!Begin, ApiProofs!Begin, Api!IsIdle,
    ApiProofs!IsIdle, Api!Sessions, ApiProofs!Sessions, Api!fileVars, ApiProofs!fileVars, Api!Call,
    ApiProofs!Call, Api!OthersWriting, ApiProofs!OthersWriting, Api!NoCall, ApiProofs!NoCall,
    Api!Blind, ApiProofs!Blind, Api!Writes, ApiProofs!Writes
<1>6. \A s \in Actors : Api!CaptureOps(s) <=> ApiProofs!CaptureOps(s)
  BY DEF
    Api!CaptureOps, ApiProofs!CaptureOps, Api!CAPTURE_RULES_LIST_GET,
    ApiProofs!CAPTURE_RULES_LIST_GET, Api!CAPTURE_RULES_UPSERT, ApiProofs!CAPTURE_RULES_UPSERT,
    Api!CAPTURE_RULES_DELETE, ApiProofs!CAPTURE_RULES_DELETE, Api!CAPTURE_RULES_ENABLED_SET,
    ApiProofs!CAPTURE_RULES_ENABLED_SET, Api!Take, ApiProofs!Take, Api!Dao, ApiProofs!Dao,
    Api!InvalidPayload, ApiProofs!InvalidPayload, Api!Kinds, ApiProofs!Kinds, Api!IsIdle,
    ApiProofs!IsIdle, Api!Call, ApiProofs!Call, Api!Send, ApiProofs!Send, Api!Error,
    ApiProofs!Error, Api!Begin, ApiProofs!Begin, Api!Blind, ApiProofs!Blind, Api!fileVars,
    ApiProofs!fileVars, Api!OthersWriting, ApiProofs!OthersWriting, Api!NoCall, ApiProofs!NoCall,
    Api!Writes, ApiProofs!Writes
<1>7. \A s \in Actors : Api!HistoryOps(s) <=> ApiProofs!HistoryOps(s)
  BY DEF
    Api!HistoryOps, ApiProofs!HistoryOps, Api!HISTORY_GET, ApiProofs!HISTORY_GET,
    Api!HISTORY_APPEND, ApiProofs!HISTORY_APPEND, Api!HISTORY_CLEAR, ApiProofs!HISTORY_CLEAR,
    Api!Take, ApiProofs!Take, Api!Dao, ApiProofs!Dao, Api!InvalidPayload, ApiProofs!InvalidPayload,
    Api!IsIdle, ApiProofs!IsIdle, Api!Call, ApiProofs!Call, Api!Send, ApiProofs!Send, Api!Error,
    ApiProofs!Error, Api!Begin, ApiProofs!Begin, Api!Blind, ApiProofs!Blind, Api!fileVars,
    ApiProofs!fileVars, Api!OthersWriting, ApiProofs!OthersWriting, Api!NoCall, ApiProofs!NoCall,
    Api!Writes, ApiProofs!Writes
<1>8. Api!DocsWellFormed <=> ApiProofs!DocsWellFormed
  BY DEF
    Api!DocsWellFormed, ApiProofs!DocsWellFormed, Api!ProjectsWellFormed,
    ApiProofs!ProjectsWellFormed, Api!CaptureRulesWellFormed, ApiProofs!CaptureRulesWellFormed,
    Api!HistoryWellFormed, ApiProofs!HistoryWellFormed, Api!ProjectsFine, ApiProofs!ProjectsFine,
    Api!CaptureRulesFine, ApiProofs!CaptureRulesFine, Api!HistoryFine, ApiProofs!HistoryFine,
    Api!HasProject, ApiProofs!HasProject
<1>9. Api!WritesAreWhole <=> ApiProofs!WritesAreWhole
  BY DEF
    Api!WritesAreWhole, ApiProofs!WritesAreWhole, Api!ReadableUnlessCrossed,
    ApiProofs!ReadableUnlessCrossed, Api!AnswerTrue, ApiProofs!AnswerTrue, Api!Files,
    ApiProofs!Files, Api!Unreadable, ApiProofs!Unreadable, Api!Writes, ApiProofs!Writes,
    Api!WholeFiles, ApiProofs!WholeFiles
<1> QED BY <1>1, <1>2, <1>3, <1>4, <1>5, <1>6, <1>7, <1>8, <1>9

\* The background service.
LEMMA SameDaemon ==
  /\ Daemon!Init <=> ServerProofs!Init
  /\ Daemon!Next <=> ServerProofs!Next
BY DEF
  Daemon!Init, ServerProofs!Init, Daemon!Next, ServerProofs!Next, Daemon!Free, ServerProofs!Free,
  Daemon!NoCommand, ServerProofs!NoCommand, Daemon!Start, ServerProofs!Start, Daemon!Stop,
  ServerProofs!Stop, Daemon!Restart, ServerProofs!Restart, Daemon!CommandStep,
  ServerProofs!CommandStep, Daemon!Interrupt, ServerProofs!Interrupt, Daemon!StartServer,
  ServerProofs!StartServer, Daemon!Exit, ServerProofs!Exit, Daemon!Stranger, ServerProofs!Stranger,
  Daemon!Give, ServerProofs!Give, Daemon!GetStatus, ServerProofs!GetStatus, Daemon!CheckRunning,
  ServerProofs!CheckRunning, Daemon!SpawnDaemonProcess, ServerProofs!SpawnDaemonProcess,
  Daemon!WaitForConnectionInfo, ServerProofs!WaitForConnectionInfo, Daemon!SaveStatus,
  ServerProofs!SaveStatus, Daemon!WritePidFile, ServerProofs!WritePidFile, Daemon!StopReads,
  ServerProofs!StopReads, Daemon!KillProcess, ServerProofs!KillProcess, Daemon!RemovePidFile,
  ServerProofs!RemovePidFile, Daemon!ResolveRestartParams, ServerProofs!ResolveRestartParams,
  Daemon!End, ServerProofs!End, Daemon!Daemons, ServerProofs!Daemons, Daemon!Listening,
  ServerProofs!Listening, Daemon!Readable, ServerProofs!Readable, Daemon!IsProcessRunning,
  ServerProofs!IsProcessRunning, Daemon!Goto, ServerProofs!Goto, Daemon!Running,
  ServerProofs!Running, Daemon!StopEnds, ServerProofs!StopEnds, Daemon!DaemonStatus,
  ServerProofs!DaemonStatus

\* The collections.
LEMMA SameCollection ==
  /\ Collection!Init <=> StudioProofs!Init
  /\ Collection!Next <=> StudioProofs!Next
  /\ Collection!CollectionsSound <=> StudioProofs!CollectionsSound
BY DEF
  Collection!Init, StudioProofs!Init, Collection!Next, StudioProofs!Next,
  Collection!CollectionsSound, StudioProofs!CollectionsSound, Collection!NoRequest,
  StudioProofs!NoRequest, Collection!create, StudioProofs!create, Collection!rename,
  StudioProofs!rename, Collection!move, StudioProofs!move, Collection!delete,
  StudioProofs!delete, Collection!save_draft, StudioProofs!save_draft, Collection!Refused,
  StudioProofs!Refused, Collection!DraftStep, StudioProofs!DraftStep, Collection!Save,
  StudioProofs!Save, Collection!Fails, StudioProofs!Fails, Collection!StudioCrash,
  StudioProofs!StudioCrash, Collection!TreeWellFormed, StudioProofs!TreeWellFormed,
  Collection!SiblingOrdersDistinct, StudioProofs!SiblingOrdersDistinct,
  Collection!RequestsHaveDrafts, StudioProofs!RequestsHaveDrafts, Collection!CollectionKind,
  StudioProofs!CollectionKind, Collection!Load, StudioProofs!Load, Collection!ValidParent,
  StudioProofs!ValidParent, Collection!Plan, StudioProofs!Plan, Collection!Created,
  StudioProofs!Created, Collection!MoveAllowed, StudioProofs!MoveAllowed, Collection!Moved,
  StudioProofs!Moved, Collection!Forwards, StudioProofs!Forwards, Collection!Subtree,
  StudioProofs!Subtree, Collection!Upwards, StudioProofs!Upwards, Collection!MaxOrder,
  StudioProofs!MaxOrder, Collection!WouldCreateCycle, StudioProofs!WouldCreateCycle,
  Collection!ShiftSiblingOrders, StudioProofs!ShiftSiblingOrders, Collection!FollowsParents,
  StudioProofs!FollowsParents, Collection!Max, StudioProofs!Max, Collection!Children,
  StudioProofs!Children

\* The request history of the API studio.
LEMMA SameHistory ==
  /\ History!Init <=> StudioProofs!History!Init
  /\ History!Next <=> StudioProofs!History!Next
BY DEF
  History!Init, StudioProofs!History!Init, History!Next, StudioProofs!History!Next, History!vars,
  StudioProofs!History!vars, History!NoJob, StudioProofs!History!NoJob, History!FilesThere,
  StudioProofs!History!FilesThere, History!Arrive, StudioProofs!History!Arrive, History!Set,
  StudioProofs!History!Set, History!Ends, StudioProofs!History!Ends, History!LoadAll,
  StudioProofs!History!LoadAll, History!list, StudioProofs!History!list, History!append,
  StudioProofs!History!append, History!delete, StudioProofs!History!delete, History!clear_all,
  StudioProofs!History!clear_all, History!OpenEntry, StudioProofs!History!OpenEntry,
  History!WriteEntry, StudioProofs!History!WriteEntry, History!RenameEntry,
  StudioProofs!History!RenameEntry, History!TrimBegin, StudioProofs!History!TrimBegin,
  History!Excess, StudioProofs!History!Excess, History!ReadEntry, StudioProofs!History!ReadEntry,
  History!Loaded, StudioProofs!History!Loaded, History!RemoveFile, StudioProofs!History!RemoveFile,
  History!Removed, StudioProofs!History!Removed, History!Reply, StudioProofs!History!Reply,
  History!HistoryCrash, StudioProofs!History!HistoryCrash, History!Cardinality,
  StudioProofs!History!Cardinality

\* The devices.
LEMMA SameAdb ==
  /\ AdbDevice!Init <=> ToolProofs!Init
  /\ AdbDevice!Next <=> ToolProofs!Next
BY DEF
  AdbDevice!Init, ToolProofs!Init, AdbDevice!Next, ToolProofs!Next, AdbDevice!Idle, ToolProofs!Idle,
  AdbDevice!EnableProxy, ToolProofs!EnableProxy, AdbDevice!DisableProxy, ToolProofs!DisableProxy,
  AdbDevice!GetHttpProxy, ToolProofs!GetHttpProxy, AdbDevice!SetupReverse, ToolProofs!SetupReverse,
  AdbDevice!SetHttpProxy, ToolProofs!SetHttpProxy, AdbDevice!Truncate, ToolProofs!Truncate,
  AdbDevice!SavePersisted, ToolProofs!SavePersisted, AdbDevice!RemoveReverse,
  ToolProofs!RemoveReverse, AdbDevice!RemovePersisted, ToolProofs!RemovePersisted,
  AdbDevice!CommandFails, ToolProofs!CommandFails, AdbDevice!InstallPlatformTools,
  ToolProofs!InstallPlatformTools, AdbDevice!CreateZip, ToolProofs!CreateZip, AdbDevice!ReceiveZip,
  ToolProofs!ReceiveZip, AdbDevice!ExtractZip, ToolProofs!ExtractZip, AdbDevice!CheckInstalled,
  ToolProofs!CheckInstalled, AdbDevice!InstallFails, ToolProofs!InstallFails, AdbDevice!LateEffect,
  ToolProofs!LateEffect, AdbDevice!Crash, ToolProofs!Crash, AdbDevice!ProxyMode, ToolProofs!ProxyMode,
  AdbDevice!Arrive, ToolProofs!Arrive, AdbDevice!NoProxy, ToolProofs!NoProxy, AdbDevice!deviceVars,
  ToolProofs!deviceVars, AdbDevice!Go, ToolProofs!Go, AdbDevice!ProxyHostPort,
  ToolProofs!ProxyHostPort, AdbDevice!Answer, ToolProofs!Answer, AdbDevice!Failed, ToolProofs!Failed,
  AdbDevice!Called, ToolProofs!Called, AdbDevice!Apart, ToolProofs!Apart, AdbDevice!Installing,
  ToolProofs!Installing, AdbDevice!InstallSteps, ToolProofs!InstallSteps, AdbDevice!Unsettled,
  ToolProofs!Unsettled, AdbDevice!Others, ToolProofs!Others

\* The connections of the proxy.
LEMMA SameProxy ==
  /\ Proxy!Init <=> ServerProofs!Proxy!Init
  /\ Proxy!Next <=> ServerProofs!Proxy!Next
  /\ Proxy!ConnectionsKept <=> ServerProofs!Proxy!ConnectionsKept
BY DEF
  Proxy!Init, ServerProofs!Proxy!Init, Proxy!Unused, ServerProofs!Proxy!Unused, Proxy!Next,
  ServerProofs!Proxy!Next, Proxy!ChangeSettings, ServerProofs!Proxy!ChangeSettings, Proxy!Tick,
  ServerProofs!Proxy!Tick, Proxy!settings, ServerProofs!Proxy!settings, Proxy!Accept,
  ServerProofs!Proxy!Accept, Proxy!AcceptFails, ServerProofs!Proxy!AcceptFails, Proxy!BuildClient,
  ServerProofs!Proxy!BuildClient, Proxy!Build, ServerProofs!Proxy!Build, Proxy!FromProxyConfig,
  ServerProofs!Proxy!FromProxyConfig, Proxy!Ask, ServerProofs!Proxy!Ask, Proxy!Serving,
  ServerProofs!Proxy!Serving, Proxy!Route, ServerProofs!Proxy!Route, Proxy!ServeSelf,
  ServerProofs!Proxy!ServeSelf, Proxy!Routed, ServerProofs!Proxy!Routed, Proxy!UpstreamAnswers,
  ServerProofs!Proxy!UpstreamAnswers, Proxy!HeadersTimeout, ServerProofs!Proxy!HeadersTimeout,
  Proxy!ServeWebSocket, ServerProofs!Proxy!ServeWebSocket, Proxy!Panicked,
  ServerProofs!Proxy!Panicked, Proxy!ServeTunnel, ServerProofs!Proxy!ServeTunnel,
  Proxy!ServeConnect, ServerProofs!Proxy!ServeConnect, Proxy!ClientSends,
  ServerProofs!Proxy!ClientSends, Proxy!Upgraded, ServerProofs!Proxy!Upgraded, Proxy!Sniff,
  ServerProofs!Proxy!Sniff, Proxy!SniffLength, ServerProofs!Proxy!SniffLength, Proxy!Decide,
  ServerProofs!Proxy!Decide, Proxy!ShouldCapture, ServerProofs!Proxy!ShouldCapture,
  Proxy!Handshake, ServerProofs!Proxy!Handshake, Proxy!Certificate,
  ServerProofs!Proxy!Certificate, Proxy!Cached, ServerProofs!Proxy!Cached, Proxy!Generated,
  ServerProofs!Proxy!Generated, Proxy!CacheTtl, ServerProofs!Proxy!CacheTtl, Proxy!Dial,
  ServerProofs!Proxy!Dial, Proxy!PollRead, ServerProofs!Proxy!PollRead, Proxy!FromPrefix,
  ServerProofs!Proxy!FromPrefix, Proxy!FromClient, ServerProofs!Proxy!FromClient, Proxy!Hangup,
  ServerProofs!Proxy!Hangup, Proxy!ConnectionsKept, ServerProofs!Proxy!ConnectionsKept,
  Proxy!TunnelKeepsBytes, ServerProofs!Proxy!TunnelKeepsBytes, Proxy!SettingIsCurrent,
  ServerProofs!Proxy!SettingIsCurrent, Proxy!CertificateValid, ServerProofs!Proxy!CertificateValid

\* The commands lynx rules push, pull and apply.
LEMMA SameConfig ==
  /\ ProjectConfig!Init <=> ToolProofs!Config!Init
  /\ ProjectConfig!Next <=> ToolProofs!Config!Next
  /\ ProjectConfig!CommandsAgree <=> ToolProofs!Config!CommandsAgree
<1>1. ProjectConfig!Init <=> ToolProofs!Config!Init
  BY DEF
    ProjectConfig!Init, ToolProofs!Config!Init, ProjectConfig!Command, ToolProofs!Config!Command
<1>2. ProjectConfig!Next <=> ToolProofs!Config!Next
  BY DEF
    ProjectConfig!Next, ToolProofs!Config!Next, ProjectConfig!UiWrites,
    ToolProofs!Config!UiWrites, ProjectConfig!Count, ToolProofs!Config!Count,
    ProjectConfig!Noticed, ToolProofs!Config!Noticed, ProjectConfig!UserEdits,
    ToolProofs!Config!UserEdits, ProjectConfig!Push, ToolProofs!Config!Push, ProjectConfig!Begin,
    ToolProofs!Config!Begin, ProjectConfig!Command, ToolProofs!Config!Command,
    ProjectConfig!LoadOrCreate, ToolProofs!Config!LoadOrCreate, ProjectConfig!NewEmpty,
    ToolProofs!Config!NewEmpty, ProjectConfig!PushLists, ToolProofs!Config!PushLists,
    ProjectConfig!Goes, ToolProofs!Config!Goes, ProjectConfig!PushWrites,
    ToolProofs!Config!PushWrites, ProjectConfig!Merged, ToolProofs!Config!Merged,
    ProjectConfig!IdsIn, ToolProofs!Config!IdsIn, ProjectConfig!OfProject,
    ToolProofs!Config!OfProject, ProjectConfig!Stored, ToolProofs!Config!Stored,
    ProjectConfig!FromRequestRule, ToolProofs!Config!FromRequestRule, ProjectConfig!InConfig,
    ToolProofs!Config!InConfig, ProjectConfig!InOrder, ToolProofs!Config!InOrder,
    ProjectConfig!Pull, ToolProofs!Config!Pull, ProjectConfig!PullBacksUp,
    ToolProofs!Config!PullBacksUp, ProjectConfig!PullLists, ToolProofs!Config!PullLists,
    ProjectConfig!PullWrites, ToolProofs!Config!PullWrites, ProjectConfig!ToRequestRule,
    ToolProofs!Config!ToRequestRule, ProjectConfig!Apply, ToolProofs!Config!Apply,
    ProjectConfig!ApplyLists, ToolProofs!Config!ApplyLists, ProjectConfig!ToSwitch,
    ToolProofs!Config!ToSwitch, ProjectConfig!Switched, ToolProofs!Config!Switched,
    ProjectConfig!ApplyWrites, ToolProofs!Config!ApplyWrites, ProjectConfig!Finished,
    ToolProofs!Config!Finished, ProjectConfig!Exits, ToolProofs!Config!Exits,
    ProjectConfig!Cardinality, ToolProofs!Config!Cardinality
<1>3. ProjectConfig!CommandsAgree <=> ToolProofs!Config!CommandsAgree
  BY DEF
    ProjectConfig!CommandsAgree, ToolProofs!Config!CommandsAgree, ProjectConfig!PushedIsStored,
    ToolProofs!Config!PushedIsStored, ProjectConfig!IdsIn, ToolProofs!Config!IdsIn,
    ProjectConfig!OfProject, ToolProofs!Config!OfProject, ProjectConfig!Stored,
    ToolProofs!Config!Stored, ProjectConfig!ToRequestRule, ToolProofs!Config!ToRequestRule,
    ProjectConfig!InConfig, ToolProofs!Config!InConfig, ProjectConfig!PulledIsConfig,
    ToolProofs!Config!PulledIsConfig, ProjectConfig!AppliedIsSwitched,
    ToolProofs!Config!AppliedIsSwitched, ProjectConfig!SwitchedOn, ToolProofs!Config!SwitchedOn
<1> QED BY <1>1, <1>2, <1>3

\* The stream of events to the browser.
LEMMA SameUi ==
  /\ UiStream!Init <=> ServerProofs!Ui!Init
  /\ UiStream!Next <=> ServerProofs!Ui!Next
  /\ UiStream!ListIsShown <=> ServerProofs!Ui!ListIsShown
<1>1. UiStream!Init <=> ServerProofs!Ui!Init
  BY DEF
    UiStream!Init, ServerProofs!Ui!Init, UiStream!Closed, ServerProofs!Ui!Closed
<1>2. UiStream!Next <=> ServerProofs!Ui!Next
  <2>1. \A l, id : UiStream!PromoteToList(l, id) = ServerProofs!Ui!PromoteToList(l, id)
    BY DEF
    UiStream!PromoteToList, ServerProofs!Ui!PromoteToList, UiStream!Trim, ServerProofs!Ui!Trim,
    UiStream!Excess, ServerProofs!Ui!Excess, UiStream!Range, ServerProofs!Ui!Range
  <2>2. \A r, n : UiStream!Patched(r, n) = ServerProofs!Ui!Patched(r, n)
    BY DEF
    UiStream!Patched, ServerProofs!Ui!Patched, UiStream!RecordOf, ServerProofs!Ui!RecordOf,
    UiStream!Blank, ServerProofs!Ui!Blank, UiStream!EventOf, ServerProofs!Ui!EventOf,
    UiStream!LastEvent, ServerProofs!Ui!LastEvent
  <2>8. /\ \A n : UiStream!EventOf(n) = ServerProofs!Ui!EventOf(n)
        /\ \A s, e : UiStream!RemoveFirst(s, e) = ServerProofs!Ui!RemoveFirst(s, e)
    BY DEF
    UiStream!EventOf, ServerProofs!Ui!EventOf, UiStream!LastEvent, ServerProofs!Ui!LastEvent,
    UiStream!RemoveFirst, ServerProofs!Ui!RemoveFirst, UiStream!RemoveAt,
    ServerProofs!Ui!RemoveAt, UiStream!SelectInSeq, ServerProofs!Ui!SelectInSeq, UiStream!Min,
    ServerProofs!Ui!Min
  <2>3. ASSUME NEW l, NEW id, NEW n
        PROVE  UiStream!ApplyEvent(l, id, n) = ServerProofs!Ui!ApplyEvent(l, id, n)
    <3>1. PICK p : p = UiStream!Patched(l.records[id], n) /\ p = ServerProofs!Ui!Patched(l.records[id], n)
      BY <2>2
    <3>2. PICK e : e = UiStream!EventOf(n) /\ e = ServerProofs!Ui!EventOf(n)
      BY <2>8
    <3>3. PICK with : with = [l EXCEPT !.records[id] = p]
      OBVIOUS
    <3>4. UiStream!ApplyEvent(l, id, n) =
            CASE e = "request/start" -> UiStream!PromoteToList(with, id)
              [] e = "response/end" /\ ~with.records[id].url ->
                   [with EXCEPT !.records[id] = Null, !.order = UiStream!RemoveFirst(@, id)]
              [] OTHER -> with
      BY <3>1, <3>2, <3>3 DEF UiStream!ApplyEvent
    <3>5. ServerProofs!Ui!ApplyEvent(l, id, n) =
            CASE e = "request/start" -> ServerProofs!Ui!PromoteToList(with, id)
              [] e = "response/end" /\ ~with.records[id].url ->
                   [with EXCEPT !.records[id] = Null, !.order = ServerProofs!Ui!RemoveFirst(@, id)]
              [] OTHER -> with
      BY <3>1, <3>2, <3>3 DEF ServerProofs!Ui!ApplyEvent
    <3> QED BY <2>1, <2>8, <3>4, <3>5
  <2>4. ASSUME NEW l, NEW ids, NEW seen
        PROVE  UiStream!ApplyCached(l, ids, seen) = ServerProofs!Ui!ApplyCached(l, ids, seen)
    BY Zenon DEF
    UiStream!ApplyCached, ServerProofs!Ui!ApplyCached, UiStream!PromoteToList,
    ServerProofs!Ui!PromoteToList, UiStream!Trim, ServerProofs!Ui!Trim, UiStream!Excess,
    ServerProofs!Ui!Excess, UiStream!Range, ServerProofs!Ui!Range, UiStream!Cached,
    ServerProofs!Ui!Cached, UiStream!RecordOf, ServerProofs!Ui!RecordOf, UiStream!Blank,
    ServerProofs!Ui!Blank, UiStream!CachedChunks, ServerProofs!Ui!CachedChunks,
    UiStream!LastEvent, ServerProofs!Ui!LastEvent
  <2>5. \A l : UiStream!Trim(l) = ServerProofs!Ui!Trim(l)
    BY DEF
    UiStream!Trim, ServerProofs!Ui!Trim, UiStream!Excess, ServerProofs!Ui!Excess, UiStream!Range,
    ServerProofs!Ui!Range
  <2>6. UiStream!TakeEvent <=> ServerProofs!Ui!TakeEvent
    BY <2>3 DEF
    UiStream!TakeEvent, ServerProofs!Ui!TakeEvent, UiStream!Shows, ServerProofs!Ui!Shows,
    UiStream!List, ServerProofs!Ui!List
  <2>7. UiStream!TakeSnapshot <=> ServerProofs!Ui!TakeSnapshot
    BY <2>4, <2>5 DEF
    UiStream!TakeSnapshot, ServerProofs!Ui!TakeSnapshot, UiStream!List, ServerProofs!Ui!List,
    UiStream!SetToSeqs, ServerProofs!Ui!SetToSeqs, UiStream!Cardinality,
    ServerProofs!Ui!Cardinality, UiStream!Shows, ServerProofs!Ui!Shows
  <2> QED BY <2>6, <2>7 DEF
    UiStream!Next, ServerProofs!Ui!Next, UiStream!Publish, ServerProofs!Ui!Publish,
    UiStream!Happened, ServerProofs!Ui!Happened, UiStream!Cardinality,
    ServerProofs!Ui!Cardinality, UiStream!LastEvent, ServerProofs!Ui!LastEvent, UiStream!browser,
    ServerProofs!Ui!browser, UiStream!Server, ServerProofs!Ui!Server, UiStream!StoreEvent,
    ServerProofs!Ui!StoreEvent, UiStream!Connect, ServerProofs!Ui!Connect, UiStream!SessionStep,
    ServerProofs!Ui!SessionStep, UiStream!Subscribe, ServerProofs!Ui!Subscribe, UiStream!Snapshot,
    ServerProofs!Ui!Snapshot, UiStream!Between, ServerProofs!Ui!Between, UiStream!Unsubscribe,
    ServerProofs!Ui!Unsubscribe, UiStream!Lagged, ServerProofs!Ui!Lagged, UiStream!Ready,
    ServerProofs!Ui!Ready, UiStream!Oldest, ServerProofs!Ui!Oldest, UiStream!Forward,
    ServerProofs!Ui!Forward, UiStream!Browser, ServerProofs!Ui!Browser, UiStream!DropEvent,
    ServerProofs!Ui!DropEvent, UiStream!User, ServerProofs!Ui!User, UiStream!StartStream,
    ServerProofs!Ui!StartStream, UiStream!Toggle, ServerProofs!Ui!Toggle, UiStream!StopStream,
    ServerProofs!Ui!StopStream, UiStream!Clear, ServerProofs!Ui!Clear, UiStream!Break,
    ServerProofs!Ui!Break, UiStream!Closed, ServerProofs!Ui!Closed
<1>3. UiStream!ListIsShown <=> ServerProofs!Ui!ListIsShown
  BY DEF
    UiStream!ListIsShown, ServerProofs!Ui!ListIsShown, UiStream!Cardinality,
    ServerProofs!Ui!Cardinality, UiStream!Range, ServerProofs!Ui!Range
<1> QED BY <1>1, <1>2, <1>3

\* A request under the rules.
LEMMA SameProcessing ==
  /\ Processing!Init <=> ServerProofs!Req!Init
  /\ Processing!Next <=> ServerProofs!Req!Next
  /\ Processing!RulesDecide <=> ServerProofs!Req!RulesDecide
  /\ Processing!HeadersDescribeBody <=> ServerProofs!Req!HeadersDescribeBody
  /\ Processing!DeliveredInTime <=> ServerProofs!Req!DeliveredInTime
<1>1. Processing!Init <=> ServerProofs!Req!Init
  BY DEF
    Processing!Init, ServerProofs!Req!Init, Processing!NoResponse, ServerProofs!Req!NoResponse,
    Processing!NoBody, ServerProofs!Req!NoBody, Processing!Body, ServerProofs!Req!Body
<1>2. \A rs : Processing!SortedHandlers(rs) = ServerProofs!Req!SortedHandlers(rs)
  BY Zenon DEF
    Processing!SortedHandlers, ServerProofs!Req!SortedHandlers, Processing!AllHandlers,
    ServerProofs!Req!AllHandlers, Processing!MatchingRules, ServerProofs!Req!MatchingRules,
    Processing!HandlerAt, ServerProofs!Req!HandlerAt, Processing!RunsBefore,
    ServerProofs!Req!RunsBefore, Processing!CollectedBefore, ServerProofs!Req!CollectedBefore,
    Processing!Precedes, ServerProofs!Req!Precedes, Processing!Cardinality,
    ServerProofs!Req!Cardinality
<1>3. \A by, body : Processing!Answered(by, body) = ServerProofs!Req!Answered(by, body)
  BY DEF
    Processing!Answered, ServerProofs!Req!Answered, Processing!NoResponse,
    ServerProofs!Req!NoResponse, Processing!NoBody, ServerProofs!Req!NoBody, Processing!Body,
    ServerProofs!Req!Body
<1>4. \A text : Processing!Body(text) = ServerProofs!Req!Body(text)
  BY DEF
    Processing!Body, ServerProofs!Req!Body
<1>5. \A h : Processing!LocalFile(h) = ServerProofs!Req!LocalFile(h)
  BY <1>3, <1>4 DEF
    Processing!LocalFile, ServerProofs!Req!LocalFile
<1>6. \A uri, h : Processing!ProxyForward(uri, h) = ServerProofs!Req!ProxyForward(uri, h)
  BY DEF
    Processing!ProxyForward, ServerProofs!Req!ProxyForward, Processing!ForwardPath,
    ServerProofs!Req!ForwardPath, Processing!Or, ServerProofs!Req!Or
<1>7. \A h : Processing!ForwardInvalid(h) <=> ServerProofs!Req!ForwardInvalid(h)
  BY DEF
    Processing!ForwardInvalid, ServerProofs!Req!ForwardInvalid
<1>8. \A r, h : Processing!ModifyRequest(r, h) = ServerProofs!Req!ModifyRequest(r, h)
  <2>1. \A uri, url : Processing!ModifyUrl(uri, url) = ServerProofs!Req!ModifyUrl(uri, url)
    BY DEF
    Processing!ModifyUrl, ServerProofs!Req!ModifyUrl, Processing!Or, ServerProofs!Req!Or
  <2>2. ASSUME NEW r, NEW h
        PROVE  Processing!ModifyRequest(r, h) = ServerProofs!Req!ModifyRequest(r, h)
    <3>1. PICK uri : /\ uri = Processing!ModifyUrl(r.uri, h.url)
                     /\ uri = ServerProofs!Req!ModifyUrl(r.uri, h.url)
      BY <2>1
    <3>2. PICK body : body = Processing!Body(h.body) /\ body = ServerProofs!Req!Body(h.body)
      BY <1>4
    <3> QED BY <3>1, <3>2 DEF
    Processing!ModifyRequest, ServerProofs!Req!ModifyRequest
  <2> QED BY <2>2
<1>9. \A r, h : Processing!ModifyResponse(r, h) = ServerProofs!Req!ModifyResponse(r, h)
  BY <1>4 DEF
    Processing!ModifyResponse, ServerProofs!Req!ModifyResponse
<1>10. \A r, h : Processing!HtmlScriptInjector(r, h) = ServerProofs!Req!HtmlScriptInjector(r, h)
  BY DEF
    Processing!HtmlScriptInjector, ServerProofs!Req!HtmlScriptInjector, Processing!Decompressed,
    ServerProofs!Req!Decompressed, Processing!Decoders, ServerProofs!Req!Decoders,
    Processing!Utf8, ServerProofs!Req!Utf8, Processing!Taken, ServerProofs!Req!Taken,
    Processing!NoBody, ServerProofs!Req!NoBody, Processing!Body, ServerProofs!Req!Body
<1>11. \A r, kbps : Processing!Throttled(r, kbps) = ServerProofs!Req!Throttled(r, kbps)
  BY DEF
    Processing!Throttled, ServerProofs!Req!Throttled, Processing!BytesPerSec,
    ServerProofs!Req!BytesPerSec
<1>12. \A h : Processing!DelayRange(h) = ServerProofs!Req!DelayRange(h)
  BY DEF
    Processing!DelayRange, ServerProofs!Req!DelayRange, Processing!Max2, ServerProofs!Req!Max2
<1>13. Processing!FindMatchingRules <=> ServerProofs!Req!FindMatchingRules
  BY <1>2 DEF
    Processing!FindMatchingRules, ServerProofs!Req!FindMatchingRules, Processing!streamVars,
    ServerProofs!Req!streamVars
<1>14. Processing!Fail <=> ServerProofs!Req!Fail
  BY <1>3, <1>4 DEF
    Processing!Fail, ServerProofs!Req!Fail, Processing!Respond, ServerProofs!Req!Respond
<1>15. Processing!HandleRequest <=> ServerProofs!Req!HandleRequest
  BY <1>3, <1>4, <1>5, <1>6, <1>7, <1>8, <1>12, <1>14 DEF
    Processing!HandleRequest, ServerProofs!Req!HandleRequest, Processing!Respond,
    ServerProofs!Req!Respond, Processing!Proceed, ServerProofs!Req!Proceed, Processing!Wait,
    ServerProofs!Req!Wait, Processing!restVars, ServerProofs!Req!restVars,
    Processing!streamVars, ServerProofs!Req!streamVars
<1>16. Processing!Upstream <=> ServerProofs!Req!Upstream
  BY <1>2, <1>14 DEF
    Processing!Upstream, ServerProofs!Req!Upstream, Processing!restVars,
    ServerProofs!Req!restVars, Processing!streamVars, ServerProofs!Req!streamVars
<1>17. Processing!HandleResponse <=> ServerProofs!Req!HandleResponse
  BY <1>9, <1>10, <1>11, <1>12 DEF
    Processing!HandleResponse, ServerProofs!Req!HandleResponse, Processing!Wait,
    ServerProofs!Req!Wait, Processing!restVars, ServerProofs!Req!restVars,
    Processing!streamVars, ServerProofs!Req!streamVars
<1>18. Processing!Next <=> ServerProofs!Req!Next
  BY <1>13, <1>15, <1>16, <1>17 DEF
    Processing!Next, ServerProofs!Req!Next, Processing!Step, ServerProofs!Req!Step,
    Processing!Over, ServerProofs!Req!Over, Processing!Deliver, ServerProofs!Req!Deliver,
    Processing!PollFrame, ServerProofs!Req!PollFrame, Processing!SleepForChunk,
    ServerProofs!Req!SleepForChunk, Processing!TakeFrame, ServerProofs!Req!TakeFrame,
    Processing!Finish, ServerProofs!Req!Finish, Processing!IsEndStream,
    ServerProofs!Req!IsEndStream, Processing!Pulled, ServerProofs!Req!Pulled, Processing!Left,
    ServerProofs!Req!Left, Processing!Coming, ServerProofs!Req!Coming, Processing!NoBody,
    ServerProofs!Req!NoBody, Processing!Body, ServerProofs!Req!Body, Processing!DelayForChunk,
    ServerProofs!Req!DelayForChunk, Processing!handled, ServerProofs!Req!handled,
    Processing!restVars, ServerProofs!Req!restVars, Processing!streamVars,
    ServerProofs!Req!streamVars, Processing!vars, ServerProofs!Req!vars
<1>19. Processing!Run = ServerProofs!Req!Run
  BY <1>2 DEF
    Processing!Run, ServerProofs!Req!Run
<1>20. Processing!RulesDecide <=> ServerProofs!Req!RulesDecide
  <2>1. Processing!AnsweredByFirst <=> ServerProofs!Req!AnsweredByFirst
    BY <1>19 DEF
    Processing!AnsweredByFirst, ServerProofs!Req!AnsweredByFirst, Processing!Answering,
    ServerProofs!Req!Answering, Processing!ForwardInvalid, ServerProofs!Req!ForwardInvalid
  <2>2. Processing!AskedWhereTold <=> ServerProofs!Req!AskedWhereTold
    BY <1>19 DEF
    Processing!AskedWhereTold, ServerProofs!Req!AskedWhereTold, Processing!Naming,
    ServerProofs!Req!Naming, Processing!Named, ServerProofs!Req!Named, Processing!Max,
    ServerProofs!Req!Max, Processing!IsSuffix, ServerProofs!Req!IsSuffix, Processing!IsPrefix,
    ServerProofs!Req!IsPrefix, Processing!Reverse, ServerProofs!Req!Reverse
  <2> QED BY <2>1, <2>2 DEF
    Processing!RulesDecide, ServerProofs!Req!RulesDecide
<1>21. Processing!HeadersDescribeBody <=> ServerProofs!Req!HeadersDescribeBody
  BY <1>19 DEF
    Processing!HeadersDescribeBody, ServerProofs!Req!HeadersDescribeBody,
    Processing!InjectorGap, ServerProofs!Req!InjectorGap, Processing!Of, ServerProofs!Req!Of,
    Processing!Decoders, ServerProofs!Req!Decoders, Processing!NoBody, ServerProofs!Req!NoBody,
    Processing!Body, ServerProofs!Req!Body
<1>22. Processing!DeliveredInTime <=> ServerProofs!Req!DeliveredInTime
  <2>1. \A s : Processing!Sum(s) = ServerProofs!Req!Sum(s)
    BY DEF
    Processing!Sum, ServerProofs!Req!Sum
  <2>2. /\ \A h : Processing!Most(h) = ServerProofs!Req!Most(h)
        /\ \A h : Processing!Least(h) = ServerProofs!Req!Least(h)
    BY DEF
    Processing!Most, ServerProofs!Req!Most, Processing!Least, ServerProofs!Req!Least,
    Processing!Max2, ServerProofs!Req!Max2
  <2>3. Processing!WaitsAsConfigured <=> ServerProofs!Req!WaitsAsConfigured
    <3>1. PICK run : run = Processing!Run /\ run = ServerProofs!Req!Run
      BY <1>19
    <3>2. PICK most : /\ most = [i \in DOMAIN run |-> Processing!Most(run[i])]
                      /\ most = [i \in DOMAIN run |-> ServerProofs!Req!Most(run[i])]
      BY <2>2
    <3>3. PICK least : /\ least = [i \in DOMAIN run |-> Processing!Least(run[i])]
                       /\ least = [i \in DOMAIN run |-> ServerProofs!Req!Least(run[i])]
      BY <2>2
    <3> QED BY <2>1, <3>1, <3>2, <3>3 DEF
    Processing!WaitsAsConfigured, ServerProofs!Req!WaitsAsConfigured
  <2>4. Processing!Paced <=> ServerProofs!Req!Paced
    BY <2>1 DEF
    Processing!Paced, ServerProofs!Req!Paced, Processing!PacedAt, ServerProofs!Req!PacedAt
  <2>5. Processing!WholeBody <=> ServerProofs!Req!WholeBody
    BY DEF
    Processing!WholeBody, ServerProofs!Req!WholeBody, Processing!Coming,
    ServerProofs!Req!Coming, Processing!NoBody, ServerProofs!Req!NoBody, Processing!Body,
    ServerProofs!Req!Body
  <2> QED BY <2>3, <2>4, <2>5 DEF
    Processing!DeliveredInTime, ServerProofs!Req!DeliveredInTime
<1> QED BY <1>1, <1>18, <1>20, <1>21, <1>22

-----------------------------------------------------------------------------
(***************************************************************************)
(* A behaviour of the service is one of each component: a component that   *)
(* is not the one chosen stays in its initial state.                       *)
(***************************************************************************)

\* The websocket API takes its steps, whatever topic it is asked about.
LEMMA ServiceIsApi == Spec => ApiProofs!Spec
<1>1. Init => ApiProofs!Init
  BY SameApi DEF Init
<1>2. [Next]_vars => [ApiProofs!Next]_(ApiProofs!vars)
  <2> SUFFICES ASSUME [Next]_vars PROVE [ApiProofs!Next]_(ApiProofs!vars)
    OBVIOUS
  <2> USE DEF ApiProofs!vars, ApiProofs!fileVars, ApiProofs!apiVars, apiVars
  <2>1. ASSUME SettingsNext \/ ProjectsNext \/ CaptureNext \/ FilterNext PROVE ApiProofs!Next
    <3>1. \/ Api!Lives \/ Api!Faults
          \/ \E s \in Actors : \/ Api!SettingsOps(s) \/ Api!ProjectOps(s)
                               \/ Api!CaptureOps(s) \/ Api!HistoryOps(s)
      BY <2>1 DEF SettingsNext, ProjectsNext, CaptureNext, FilterNext, ApiNext
    <3> QED BY <3>1, SameApi DEF ApiProofs!Next, ApiProofs!Requests, ApiProofs!Sessions
  <2>2. ASSUME \/ DaemonNext \/ CollectionNext \/ StudioHistoryNext \/ ConfigNext
               \/ AdbNext \/ UiNext \/ ProcessingNext \/ ProxyNext
        PROVE  UNCHANGED apiVars
    BY <2>2 DEF DaemonNext, CollectionNext, StudioHistoryNext, ConfigNext, AdbNext, UiNext,
      ProcessingNext, ProxyNext, Others, ApiParts
  <2>3. UNCHANGED vars => UNCHANGED apiVars
    BY DEF vars
  <2> QED BY <2>1, <2>2, <2>3 DEF Next
<1> QED BY <1>1, <1>2, PTL DEF Spec, ApiProofs!Spec

\* So do the commands of the background service.
LEMMA ServiceIsDaemon == Spec => ServerProofs!Spec
<1>1. Init => ServerProofs!Init
  BY SameDaemon DEF Init
<1>2. [Next]_vars => [ServerProofs!Next]_(ServerProofs!vars)
  <2> SUFFICES ASSUME [Next]_vars PROVE [ServerProofs!Next]_(ServerProofs!vars)
    OBVIOUS
  <2> USE DEF ServerProofs!vars, daemonVars
  <2>1. DaemonNext => ServerProofs!Next
    BY SameDaemon DEF DaemonNext
  <2>2. ASSUME \/ SettingsNext \/ ProjectsNext \/ CaptureNext \/ FilterNext \/ CollectionNext
               \/ StudioHistoryNext \/ ConfigNext \/ AdbNext \/ UiNext \/ ProcessingNext \/ ProxyNext
        PROVE  UNCHANGED daemonVars
    BY <2>2 DEF SettingsNext, ProjectsNext, CaptureNext, FilterNext, ApiNext, CollectionNext,
      StudioHistoryNext, ConfigNext, AdbNext, UiNext, ProcessingNext, ProxyNext, Others
  <2>3. UNCHANGED vars => UNCHANGED daemonVars
    BY DEF vars
  <2> QED BY <2>1, <2>2, <2>3 DEF Next
<1> QED BY <1>1, <1>2, PTL DEF Spec, ServerProofs!Spec

\* So do the calls of the API studio.
LEMMA ServiceIsCollection == Spec => StudioProofs!Spec
<1>1. Init => StudioProofs!Init
  BY SameCollection DEF Init
<1>2. [Next]_vars => [StudioProofs!Next]_(StudioProofs!vars)
  <2> SUFFICES ASSUME [Next]_vars PROVE [StudioProofs!Next]_(StudioProofs!vars)
    OBVIOUS
  <2> USE DEF StudioProofs!vars, collectionVars
  <2>1. CollectionNext => StudioProofs!Next
    BY SameCollection DEF CollectionNext
  <2>2. ASSUME \/ SettingsNext \/ ProjectsNext \/ CaptureNext \/ FilterNext \/ DaemonNext
               \/ StudioHistoryNext \/ ConfigNext \/ AdbNext \/ UiNext \/ ProcessingNext \/ ProxyNext
        PROVE  UNCHANGED collectionVars
    BY <2>2 DEF SettingsNext, ProjectsNext, CaptureNext, FilterNext, ApiNext, DaemonNext,
      StudioHistoryNext, ConfigNext, AdbNext, UiNext, ProcessingNext, ProxyNext, Others
  <2>3. UNCHANGED vars => UNCHANGED collectionVars
    BY DEF vars
  <2> QED BY <2>1, <2>2, <2>3 DEF Next
<1> QED BY <1>1, <1>2, PTL DEF Spec, StudioProofs!Spec

\* The steps of the history are those of the service that are its own.
LEMMA ServiceIsHistory == Spec => StudioProofs!History!Spec
<1>1. Init => StudioProofs!History!Init
  BY SameHistory DEF Init
<1>2. [Next]_vars => [StudioProofs!History!Next]_(StudioProofs!History!vars)
  <2> SUFFICES ASSUME [Next]_vars PROVE [StudioProofs!History!Next]_(StudioProofs!History!vars)
    OBVIOUS
  <2> USE DEF StudioProofs!History!vars, historyVars
  <2>1. StudioHistoryNext => StudioProofs!History!Next
    BY SameHistory DEF StudioHistoryNext
  <2>2. ASSUME \/ SettingsNext \/ ProjectsNext \/ CaptureNext \/ FilterNext \/ DaemonNext
               \/ CollectionNext \/ ConfigNext \/ AdbNext \/ UiNext \/ ProcessingNext \/ ProxyNext
        PROVE  UNCHANGED historyVars
    BY <2>2 DEF SettingsNext, ProjectsNext, CaptureNext, FilterNext, ApiNext, DaemonNext,
      CollectionNext, ConfigNext, AdbNext, UiNext, ProcessingNext, ProxyNext, Others
  <2>3. UNCHANGED vars => UNCHANGED historyVars
    BY DEF vars
  <2> QED BY <2>1, <2>2, <2>3 DEF Next
<1> QED BY <1>1, <1>2, PTL DEF Spec, StudioProofs!History!Spec

\* So do the sessions at the devices.
LEMMA ServiceIsAdb == Spec => ToolProofs!Spec
<1>1. Init => ToolProofs!Init
  BY SameAdb DEF Init
<1>2. [Next]_vars => [ToolProofs!Next]_(ToolProofs!vars)
  <2> SUFFICES ASSUME [Next]_vars PROVE [ToolProofs!Next]_(ToolProofs!vars)
    OBVIOUS
  <2> USE DEF ToolProofs!vars, adbVars
  <2>1. AdbNext => ToolProofs!Next
    BY SameAdb DEF AdbNext
  <2>2. ASSUME \/ SettingsNext \/ ProjectsNext \/ CaptureNext \/ FilterNext \/ DaemonNext
               \/ CollectionNext \/ StudioHistoryNext \/ ConfigNext \/ UiNext \/ ProcessingNext \/ ProxyNext
        PROVE  UNCHANGED adbVars
    BY <2>2 DEF SettingsNext, ProjectsNext, CaptureNext, FilterNext, ApiNext, DaemonNext,
      CollectionNext, StudioHistoryNext, ConfigNext, UiNext, ProcessingNext, ProxyNext, Others
  <2>3. UNCHANGED vars => UNCHANGED adbVars
    BY DEF vars
  <2> QED BY <2>1, <2>2, <2>3 DEF Next
<1> QED BY <1>1, <1>2, PTL DEF Spec, ToolProofs!Spec

\* So do the accept loops and the connections of the proxy.
LEMMA ServiceIsProxy == Spec => ServerProofs!Proxy!Spec
<1>1. Init => ServerProofs!Proxy!Init
  BY SameProxy DEF Init
<1>2. [Next]_vars => [ServerProofs!Proxy!Next]_(ServerProofs!Proxy!vars)
  <2> SUFFICES ASSUME [Next]_vars PROVE [ServerProofs!Proxy!Next]_(ServerProofs!Proxy!vars)
    OBVIOUS
  <2> USE DEF ServerProofs!Proxy!vars, proxyVars
  <2>1. ProxyNext => ServerProofs!Proxy!Next
    BY SameProxy DEF ProxyNext
  <2>2. ASSUME \/ SettingsNext \/ ProjectsNext \/ CaptureNext \/ FilterNext \/ DaemonNext
               \/ CollectionNext \/ StudioHistoryNext \/ ConfigNext \/ UiNext \/ ProcessingNext \/ AdbNext
        PROVE  UNCHANGED proxyVars
    BY <2>2 DEF SettingsNext, ProjectsNext, CaptureNext, FilterNext, ApiNext, DaemonNext,
      CollectionNext, StudioHistoryNext, ConfigNext, UiNext, ProcessingNext, AdbNext, Others
  <2>3. UNCHANGED vars => UNCHANGED proxyVars
    BY DEF vars
  <2> QED BY <2>1, <2>2, <2>3 DEF Next
<1> QED BY <1>1, <1>2, PTL DEF Spec, ServerProofs!Proxy!Spec

\* So do the commands that take rules from a project and to it.
LEMMA ServiceIsConfig == Spec => ToolProofs!Config!Spec
<1>1. Init => ToolProofs!Config!Init
  BY SameConfig DEF Init
<1>2. [Next]_vars => [ToolProofs!Config!Next]_(ToolProofs!Config!vars)
  <2> SUFFICES ASSUME [Next]_vars PROVE [ToolProofs!Config!Next]_(ToolProofs!Config!vars)
    OBVIOUS
  <2> USE DEF ToolProofs!Config!vars, configVars
  <2>1. ConfigNext => ToolProofs!Config!Next
    BY SameConfig DEF ConfigNext
  <2>2. ASSUME \/ SettingsNext \/ ProjectsNext \/ CaptureNext \/ FilterNext \/ DaemonNext
               \/ CollectionNext \/ StudioHistoryNext \/ ProxyNext \/ UiNext \/ ProcessingNext \/ AdbNext
        PROVE  UNCHANGED configVars
    BY <2>2 DEF SettingsNext, ProjectsNext, CaptureNext, FilterNext, ApiNext, DaemonNext,
      CollectionNext, StudioHistoryNext, ProxyNext, UiNext, ProcessingNext, AdbNext, Others
  <2>3. UNCHANGED vars => UNCHANGED configVars
    BY DEF vars
  <2> QED BY <2>1, <2>2, <2>3 DEF Next
<1> QED BY <1>1, <1>2, PTL DEF Spec, ToolProofs!Config!Spec

\* So do the session and the browser at its other end.
LEMMA ServiceIsUi == Spec => ServerProofs!Ui!Spec
<1>1. Init => ServerProofs!Ui!Init
  BY SameUi DEF Init
<1>2. [Next]_vars => [ServerProofs!Ui!Next]_(ServerProofs!Ui!vars)
  <2> SUFFICES ASSUME [Next]_vars PROVE [ServerProofs!Ui!Next]_(ServerProofs!Ui!vars)
    OBVIOUS
  <2> USE DEF ServerProofs!Ui!vars, ServerProofs!Ui!browser, uiVars
  <2>1. UiNext => ServerProofs!Ui!Next
    BY SameUi DEF UiNext
  <2>2. ASSUME \/ SettingsNext \/ ProjectsNext \/ CaptureNext \/ FilterNext \/ DaemonNext
               \/ CollectionNext \/ StudioHistoryNext \/ ConfigNext \/ ProxyNext \/ ProcessingNext \/ AdbNext
        PROVE  UNCHANGED uiVars
    BY <2>2 DEF SettingsNext, ProjectsNext, CaptureNext, FilterNext, ApiNext, DaemonNext,
      CollectionNext, StudioHistoryNext, ConfigNext, ProxyNext, ProcessingNext, AdbNext, Others
  <2>3. UNCHANGED vars => UNCHANGED uiVars
    BY DEF vars
  <2> QED BY <2>1, <2>2, <2>3 DEF Next
<1> QED BY <1>1, <1>2, PTL DEF Spec, ServerProofs!Ui!Spec

\* So does the request under the rules.
LEMMA ServiceIsProcessing == Spec => ServerProofs!Req!Spec
<1>1. Init => ServerProofs!Req!Init
  BY SameProcessing DEF Init
<1>2. [Next]_vars => [ServerProofs!Req!Next]_(ServerProofs!Req!vars)
  <2> SUFFICES ASSUME [Next]_vars PROVE [ServerProofs!Req!Next]_(ServerProofs!Req!vars)
    OBVIOUS
  <2> USE DEF ServerProofs!Req!vars, processingVars
  <2>1. ProcessingNext => ServerProofs!Req!Next
    BY SameProcessing DEF ProcessingNext
  <2>2. ASSUME \/ SettingsNext \/ ProjectsNext \/ CaptureNext \/ FilterNext \/ DaemonNext
               \/ CollectionNext \/ StudioHistoryNext \/ ConfigNext \/ ProxyNext \/ UiNext \/ AdbNext
        PROVE  UNCHANGED processingVars
    BY <2>2 DEF SettingsNext, ProjectsNext, CaptureNext, FilterNext, ApiNext, DaemonNext,
      CollectionNext, StudioHistoryNext, ConfigNext, ProxyNext, UiNext, AdbNext, Others
  <2>3. UNCHANGED vars => UNCHANGED processingVars
    BY DEF vars
  <2> QED BY <2>1, <2>2, <2>3 DEF Next
<1> QED BY <1>1, <1>2, PTL DEF Spec, ServerProofs!Req!Spec

-----------------------------------------------------------------------------
(***************************************************************************)
(* The properties of the components hold in the service.                   *)
(***************************************************************************)

\* A settings file that can be read is whole and consistent, however calls, failed writes and
\* crashes interleave, for any projects, names, values, rules and expressions
\* (write_json_atomic and the operations of the DAOs).
THEOREM ServiceDocs == ASSUME ApiProofs!Constants PROVE Spec => []DocsWellFormed
<1>1. ApiProofs!DocsWellFormed => DocsWellFormed
  BY SameApi DEF DocsWellFormed
<1> QED BY <1>1, ServiceIsApi, ApiProofs!DocsAreWellFormed, PTL

\* A settings file two writers have not crossed on can be read, and what a call without
\* company answers is true (write_json_atomic).
THEOREM ServiceWrites == ASSUME ApiProofs!Constants PROVE Spec => []WritesAreWhole
<1>1. ApiProofs!WritesAreWhole => WritesAreWhole
  BY SameApi DEF WritesAreWhole
<1> QED BY <1>1, ServiceIsApi, ApiProofs!WritesStayWhole, PTL

\* The collections of the API studio stay a tree, with distinct orders and with the drafts of
\* their requests, for any nodes and callers (create, move_node, delete).
THEOREM ServiceCollections == Spec => []CollectionsSound
<1>1. StudioProofs!CollectionsSound => CollectionsSound
  BY SameCollection DEF CollectionsSound
<1> QED BY <1>1, ServiceIsCollection, StudioProofs!CollectionsAreSound, PTL

\* Unless a rule came late or two writers crossed, a project with rules does not leave the
\* list of projects (delete_project).
THEOREM ServiceProjects == ASSUME ApiProofs!Constants PROVE Spec => ProjectsWithRulesStay
<1>1. [\A p \in ApiProofs!Listed \ ApiProofs!Listed' :
         \/ "projects" \in crossed'
         \/ ApiProofs!RulesOf(p) = {}
         \/ \E s \in ApiProofs!Sessions : task[s].phase = "rename" /\ p \in lateRules[s]]_(ApiProofs!vars)
      => [\A p \in Api!Listed \ Api!Listed' :
            \/ "projects" \in crossed'
            \/ Api!RulesOf(p) = {}
            \/ \E s \in Api!Sessions : task[s].phase = "rename" /\ p \in lateRules[s]]_(Api!vars)
  BY DEF
    Api!Listed, ApiProofs!Listed, Api!RulesOf, ApiProofs!RulesOf, Api!Sessions, ApiProofs!Sessions,
    Api!vars, ApiProofs!vars, Api!fileVars, ApiProofs!fileVars, Api!apiVars, ApiProofs!apiVars
<1> QED BY <1>1, ServiceIsApi, ApiProofs!RuledProjectsStay, PTL
  DEF ProjectsWithRulesStay, Api!ProjectsWithRulesStay, ApiProofs!ProjectsWithRulesStay

\* A daemon that runs is the only one and the status file names it, and start takes only its
\* answer for it, unless a command lost track of it in one of the ways lostTrack names, for any
\* shells, processes and ports (start_daemon, stop_daemon, restart_daemon).
THEOREM ServiceDaemon == Spec => DaemonIsKnown
<1>1. [ServerProofs!RunningDaemonIsKnown' /\ ServerProofs!OneDaemon'
         /\ ServerProofs!StartedIsServing]_(ServerProofs!vars)
      => [Daemon!RunningDaemonIsKnown' /\ Daemon!OneDaemon' /\ Daemon!StartedIsServing]_(Daemon!vars)
  BY DEF
    Daemon!RunningDaemonIsKnown, ServerProofs!RunningDaemonIsKnown, Daemon!OneDaemon,
    ServerProofs!OneDaemon, Daemon!StartedIsServing, ServerProofs!StartedIsServing, Daemon!vars,
    ServerProofs!vars, Daemon!Daemons, ServerProofs!Daemons, Daemon!Readable,
    ServerProofs!Readable, Daemon!Cardinality, ServerProofs!Cardinality, Daemon!Listening,
    ServerProofs!Listening, Daemon!DaemonStatus, ServerProofs!DaemonStatus
<1> QED BY <1>1, ServiceIsDaemon, ServerProofs!DaemonStaysKnown, PTL
  DEF DaemonIsKnown, Daemon!DaemonIsKnown, ServerProofs!DaemonIsKnown

\* A device no fault or second session has put at risk keeps or gets back the proxy the user
\* had set, with its tunnel removed, and an install no other overlaps leaves an adb that runs,
\* for any devices, sessions and settings (enable_proxy, disable_proxy, install).
THEOREM ServiceDevices == ASSUME ToolProofs!Constants PROVE Spec => DevicesRestored
<1>1. [ToolProofs!SettingKept' /\ ToolProofs!TunnelWithSetting /\ ToolProofs!InstalledRuns]_(ToolProofs!vars)
      => [AdbDevice!SettingKept' /\ AdbDevice!TunnelWithSetting /\ AdbDevice!InstalledRuns]_(AdbDevice!vars)
  BY DEF
    AdbDevice!SettingKept, ToolProofs!SettingKept, AdbDevice!TunnelWithSetting,
    ToolProofs!TunnelWithSetting, AdbDevice!InstalledRuns, ToolProofs!InstalledRuns, AdbDevice!vars,
    ToolProofs!vars, AdbDevice!Lynx, ToolProofs!Lynx, AdbDevice!CheckInstalled,
    ToolProofs!CheckInstalled, AdbDevice!ProxyHostPort, ToolProofs!ProxyHostPort,
    AdbDevice!ProxyMode, ToolProofs!ProxyMode, AdbDevice!Answer, ToolProofs!Answer,
    AdbDevice!deviceVars, ToolProofs!deviceVars, AdbDevice!Idle, ToolProofs!Idle
<1> QED BY <1>1, ServiceIsAdb, ToolProofs!DevicesAreRestored, PTL
  DEF DevicesRestored, AdbDevice!DevicesRestored, ToolProofs!DevicesRestored

\* Requests that come one at a time leave the history within its limit and all succeed, and a
\* trimming removes the oldest, whatever else is at work (append, trim_to_limit), for any
\* clients, entries and limit.
THEOREM ServiceHistory == ASSUME StudioProofs!HistoryConstants PROVE Spec => HistoryTrimmed
<1>1. [StudioProofs!History!HistoryBounded' /\ StudioProofs!History!TrimSparesNewest]_(StudioProofs!History!vars)
      => [History!HistoryBounded' /\ History!TrimSparesNewest]_(History!vars)
  BY DEF
    History!HistoryBounded, StudioProofs!History!HistoryBounded, History!TrimSparesNewest,
    StudioProofs!History!TrimSparesNewest, History!vars, StudioProofs!History!vars,
    History!Cardinality, StudioProofs!History!Cardinality
<1> QED BY <1>1, ServiceIsHistory, StudioProofs!HistoryIsTrimmed, PTL
  DEF HistoryTrimmed, History!HistoryTrimmed, StudioProofs!History!HistoryTrimmed

\* The bytes sniffed after a CONNECT are relayed first and in order, whatever reads them; a
\* connection forwards with no setting older than itself, and shows no certificate after its
\* end (ConnectUpgraded, bind_hyper, ServerCaManager), for any addresses, connections and
\* validity of certificates.
THEOREM ServiceConnections == ASSUME ServerProofs!ProxyConstants PROVE Spec => []ConnectionsKept
<1>1. ServerProofs!Proxy!ConnectionsKept => ConnectionsKept
  BY SameProxy DEF ConnectionsKept
<1> QED BY <1>1, ServiceIsProxy, ServerProofs!ConnectionsAreKept, PTL

\* What a pull replaces in the store is in its backup, unless someone else wrote it after the
\* backup or the file has the rule twice (pull_rules), for any shells.
THEOREM ServiceBackups == ASSUME ToolProofs!ConfigConstants PROVE Spec => PullIsBackedUp
<1>1. [\A s \in Actors, id \in {1, 2} :
         ToolProofs!Config!PullWrites(s) /\ id = Head(lynx[s].todo).id /\ saved[id] # saved'[id] =>
           \/ backups[s][id] = saved[id]
           \/ id \in lynx[s].foreign
           \/ \E i, j \in DOMAIN lynx[s].config.rules :
                i # j /\ lynx[s].config.rules[i].id = id
                /\ lynx[s].config.rules[j].id = id]_(ToolProofs!Config!vars)
      => [\A s \in Actors, id \in {1, 2} :
            ProjectConfig!PullWrites(s) /\ id = Head(lynx[s].todo).id /\ saved[id] # saved'[id] =>
              \/ backups[s][id] = saved[id]
              \/ id \in lynx[s].foreign
              \/ \E i, j \in DOMAIN lynx[s].config.rules :
                   i # j /\ lynx[s].config.rules[i].id = id
                   /\ lynx[s].config.rules[j].id = id]_(ProjectConfig!vars)
  BY DEF
    ProjectConfig!PullWrites, ToolProofs!Config!PullWrites, ProjectConfig!ToRequestRule,
    ToolProofs!Config!ToRequestRule, ProjectConfig!Goes, ToolProofs!Config!Goes,
    ProjectConfig!Noticed, ToolProofs!Config!Noticed, ProjectConfig!vars, ToolProofs!Config!vars
<1> QED BY <1>1, ServiceIsConfig, ToolProofs!PullsAreBackedUp, PTL
  DEF PullIsBackedUp, ProjectConfig!PullIsBackedUp, ToolProofs!Config!PullIsBackedUp

\* A push, a pull and an apply that nobody disturbs leave file and store as each of them says
\* (push_rules, pull_rules, apply_config), for any shells.
THEOREM ServiceCommands == ASSUME ToolProofs!ConfigConstants PROVE Spec => []CommandsAgree
<1>1. ToolProofs!Config!CommandsAgree => CommandsAgree
  BY SameConfig DEF CommandsAgree
<1> QED BY <1>1, ServiceIsConfig, ToolProofs!CommandsDoAsTheySay, PTL

\* The request list holds each exchange once, at most as many as the user set, and each with a
\* record that has its URL (promoteToList, trimToMaxLogSize), whatever the connection loses.
THEOREM ServiceList == ASSUME ServerProofs!UiConstants PROVE Spec => []ListIsShown
<1>1. ServerProofs!Ui!ListIsShown => ListIsShown
  BY SameUi DEF ListIsShown
<1> QED BY <1>1, ServiceIsUi, ServerProofs!UiList, PTL

\* Of an exchange the browser has not missed or repeated part of, it shows a beginning of the
\* body, and an answer it shows stays shown (applyEvent, applyCachedSnapshot), for any exchanges,
\* sizes of buffers, toggles and lost connections.
THEOREM ServiceShown == ASSUME ServerProofs!UiConstants PROVE Spec => ShownFaithfully
<1>1. [ServerProofs!Ui!BodyIsAStart' /\ ServerProofs!Ui!NoStepBack]_(ServerProofs!Ui!vars)
      => [UiStream!BodyIsAStart' /\ UiStream!NoStepBack]_(UiStream!vars)
  BY DEF
    UiStream!BodyIsAStart, ServerProofs!Ui!BodyIsAStart, UiStream!NoStepBack,
    ServerProofs!Ui!NoStepBack, UiStream!vars, ServerProofs!Ui!vars, UiStream!browser,
    ServerProofs!Ui!browser
<1> QED BY <1>1, ServiceIsUi, ServerProofs!UiFaithful, PTL
  DEF ShownFaithfully, UiStream!ShownFaithfully, ServerProofs!Ui!ShownFaithfully

\* The first handler that answers does, in execution order, and then the upstream is not asked; else
\* it is asked where the handlers say (handle_request of the handlers, RequestProcessingService), for
\* rules, requests and answers of the form ProcessingConstants gives them.
THEOREM ServiceRules == ASSUME ServerProofs!ProcessingConstants PROVE Spec => []RulesDecide
<1>1. ServerProofs!Req!RulesDecide => RulesDecide
  BY SameProcessing DEF RulesDecide
<1> QED BY <1>1, ServiceIsProcessing, ServerProofs!ProcessingRules, PTL

\* Content-Encoding and Content-Length of what is delivered are those of its body, but for what an
\* HTML injector leaves undescribed (handle_response of the handlers).
THEOREM ServiceHeaders == ASSUME ServerProofs!ProcessingConstants PROVE Spec => []HeadersDescribeBody
<1>1. ServerProofs!Req!HeadersDescribeBody => HeadersDescribeBody
  BY SameProcessing DEF HeadersDescribeBody
<1> QED BY <1>1, ServiceIsProcessing, ServerProofs!ProcessingHeaders, PTL

\* The handlers wait for what they are configured for, the throttled bodies pace what they let
\* through, and it is all read (delay_handler_trait.rs, throttled_body.rs).
THEOREM ServiceDelivery == ASSUME ServerProofs!ProcessingConstants PROVE Spec => []DeliveredInTime
<1>1. ServerProofs!Req!DeliveredInTime => DeliveredInTime
  BY SameProcessing DEF DeliveredInTime
<1> QED BY <1>1, ServiceIsProcessing, ServerProofs!ProcessingDelivery, PTL

-----------------------------------------------------------------------------
(***************************************************************************)
(* The types of all the components.                                        *)
(***************************************************************************)

\* The two instances of a component give its state the same types.
LEMMA SameTypes ==
  /\ Api!TypeOK <=> ApiProofs!TypeOK
  /\ Daemon!TypeOK <=> ServerProofs!TypeOK
  /\ Collection!TypeOK <=> StudioProofs!TypeOK
  /\ History!TypeOK <=> StudioProofs!History!TypeOK
  /\ ProjectConfig!TypeOK <=> ToolProofs!Config!TypeOK
  /\ AdbDevice!TypeOK <=> ToolProofs!TypeOK
  /\ UiStream!TypeOK <=> ServerProofs!Ui!TypeOK
  /\ Processing!TypeOK <=> ServerProofs!Req!TypeOK
  /\ Proxy!TypeOK <=> ServerProofs!Proxy!TypeOK
<1>1. Api!TypeOK <=> ApiProofs!TypeOK
  BY DEF
    Api!TypeOK, ApiProofs!TypeOK, Api!Files, ApiProofs!Files, Api!WholeFiles,
    ApiProofs!WholeFiles, Api!Sessions, ApiProofs!Sessions, Api!Phases, ApiProofs!Phases,
    Api!Response, ApiProofs!Response, Api!Event, ApiProofs!Event, Api!Error, ApiProofs!Error,
    Api!Pong, ApiProofs!Pong
<1>2. Daemon!TypeOK <=> ServerProofs!TypeOK
  BY DEF
    Daemon!TypeOK, ServerProofs!TypeOK, Daemon!DaemonStatus, ServerProofs!DaemonStatus
<1>3. Collection!TypeOK <=> StudioProofs!TypeOK
  BY DEF
    Collection!TypeOK, StudioProofs!TypeOK, Collection!CollectionKind,
    StudioProofs!CollectionKind
<1>4. History!TypeOK <=> StudioProofs!History!TypeOK
  BY DEF
    History!TypeOK, StudioProofs!History!TypeOK
<1>5. ProjectConfig!TypeOK <=> ToolProofs!Config!TypeOK
  BY DEF
    ProjectConfig!TypeOK, ToolProofs!Config!TypeOK, ProjectConfig!RequestRule,
    ToolProofs!Config!RequestRule, ProjectConfig!ConfigRule, ToolProofs!Config!ConfigRule
<1>6. AdbDevice!TypeOK <=> ToolProofs!TypeOK
  BY DEF
    AdbDevice!TypeOK, ToolProofs!TypeOK, AdbDevice!NoProxy, ToolProofs!NoProxy,
    AdbDevice!Lynx, ToolProofs!Lynx, AdbDevice!ProxyHostPort, ToolProofs!ProxyHostPort,
    AdbDevice!ProxyMode, ToolProofs!ProxyMode
<1>7. UiStream!TypeOK <=> ServerProofs!Ui!TypeOK
  BY DEF
    UiStream!TypeOK, ServerProofs!Ui!TypeOK, UiStream!Blank, ServerProofs!Ui!Blank
<1>8. Processing!TypeOK <=> ServerProofs!Req!TypeOK
  BY DEF
    Processing!TypeOK, ServerProofs!Req!TypeOK, Processing!NoResponse,
    ServerProofs!Req!NoResponse, Processing!NoBody, ServerProofs!Req!NoBody, Processing!Body,
    ServerProofs!Req!Body, Processing!Cardinality, ServerProofs!Req!Cardinality,
    Processing!Range, ServerProofs!Req!Range, Processing!IsPrefix, ServerProofs!Req!IsPrefix
<1>9. Proxy!TypeOK <=> ServerProofs!Proxy!TypeOK
  BY DEF
    Proxy!TypeOK, ServerProofs!Proxy!TypeOK, Proxy!Serving, ServerProofs!Proxy!Serving,
    Proxy!Upgraded, ServerProofs!Proxy!Upgraded
<1> QED BY <1>1, <1>2, <1>3, <1>4, <1>5, <1>6, <1>7, <1>8, <1>9

\* Whatever part of the service is at work, its state keeps its types: files and their temporary
\* copies, processes, trees, histories, devices, records, responses and connections, for any
\* values of the constants of the form the components' assumptions give them.
THEOREM ServiceTypeCorrect ==
  ASSUME ApiProofs!Constants, ToolProofs!Constants, ToolProofs!ConfigConstants,
         StudioProofs!HistoryConstants, ServerProofs!ProxyConstants, ServerProofs!UiConstants,
         ServerProofs!ProcessingConstants
  PROVE  Spec => []TypeOK
<1>1. Spec => []ApiProofs!TypeOK
  BY ServiceIsApi, ApiProofs!TypeCorrect, PTL
<1>2. Spec => []ServerProofs!TypeOK
  BY ServiceIsDaemon, ServerProofs!TypeCorrect, PTL
<1>3. Spec => []StudioProofs!TypeOK
  BY ServiceIsCollection, StudioProofs!TypeCorrect, PTL
<1>4. Spec => []StudioProofs!History!TypeOK
  BY ServiceIsHistory, StudioProofs!HistoryTypeCorrect, PTL
<1>5. Spec => []ToolProofs!Config!TypeOK
  BY ServiceIsConfig, ToolProofs!ConfigTypeCorrect, PTL
<1>6. Spec => []ToolProofs!TypeOK
  BY ServiceIsAdb, ToolProofs!TypeCorrect, PTL
<1>7. Spec => []ServerProofs!Ui!TypeOK
  BY ServiceIsUi, ServerProofs!UiTypeCorrect, PTL
<1>8. Spec => []ServerProofs!Req!TypeOK
  BY ServiceIsProcessing, ServerProofs!ProcessingTypeCorrect, PTL
<1>9. Spec => []ServerProofs!Proxy!TypeOK
  BY ServiceIsProxy, ServerProofs!ProxyTypeCorrect, PTL
<1>10. /\ ApiProofs!TypeOK /\ ServerProofs!TypeOK /\ StudioProofs!TypeOK
       /\ StudioProofs!History!TypeOK /\ ToolProofs!Config!TypeOK /\ ToolProofs!TypeOK
       /\ ServerProofs!Ui!TypeOK /\ ServerProofs!Req!TypeOK /\ ServerProofs!Proxy!TypeOK
       => TypeOK
  <2> SUFFICES ASSUME Api!TypeOK, Daemon!TypeOK, Collection!TypeOK, History!TypeOK,
                      ProjectConfig!TypeOK, AdbDevice!TypeOK, UiStream!TypeOK, Processing!TypeOK,
                      Proxy!TypeOK
               PROVE  TypeOK
    BY SameTypes
  <2> QED BY DEF TypeOK
<1> QED BY <1>1, <1>2, <1>3, <1>4, <1>5, <1>6, <1>7, <1>8, <1>9, <1>10, PTL

=============================================================================
