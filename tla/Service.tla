------------------------------- MODULE Service -------------------------------
(***************************************************************************)
(* The components of the service that keep a state, side by side: a        *)
(* behaviour is one of a single component, chosen in the initial state     *)
(* (part), while the others stay as they begin. They share no state, so    *)
(* interleaving them would add no state of any of them. ControlApi is      *)
(* asked about one topic of its operations at a time.                      *)
(***************************************************************************)
EXTENDS Integers, Sequences, FiniteSets, TLC

CONSTANTS
  Parts,         \* the parts a behaviour may be of
  Actors,        \* tasks, shells, callers, sessions: whoever acts at the same time
  Null, Bad, Torn,
  ProjectIds, DefaultId, Names, DefaultName, Values, DefaultValue, RuleIds, Exprs, CaptureIds,
  HistoryLimit, MaxRequests,
  Pids, Ports, MaxCommands, MaxStrangers,
  NodeIds, MaxCalls, MaxNodeFaults,
  EntryIds, HistoryMax, MaxHistoryOps,
  Serials, UserProxies, LocalOnly, MaxDeviceCalls, MaxDeviceFaults,
  Streams, Chunks, Capacity, WireCapacity, MaxLogSize, MaxToggles, MaxBreaks,
  Addrs, Conns, h1, h2, SystemProxy, Ttl, MaxBytes, MaxProxyChanges, MaxTime

VARIABLES
  part,
  file, tmp, task, crossed, open, op, outbox, apiRules, lateRules, received,
  procs, dstatus, pidFile, cmd, commands, strangers, lostTrack,
  tree, drafts, fresh, request, calls, faults, forward, disturbed,
  kept, blank, staged, work, jobs, removed, untidy,
  stage, rules, todo, req, resp, waited, asked, flight, sent, clock, original,
  saved, config, backups, lynx, changes,
  setting, reversed, stateFile, tools, zip, job, late, spent, chosen, atRisk,
  log, stored, given, session, requests, wire, listening, records, order, uses, doubtful,
  clientProxy, filter, proxyChanges, acceptor, conns, certs, time

apiVars == <<file, tmp, task, crossed, open, op, outbox, apiRules, lateRules, received>>
daemonVars == <<procs, dstatus, pidFile, cmd, commands, strangers, lostTrack>>
collectionVars == <<tree, drafts, fresh, request, calls, faults, forward, disturbed>>
historyVars == <<kept, blank, staged, work, jobs, removed, untidy>>
processingVars == <<stage, rules, todo, req, resp, waited, asked, flight, sent, clock, original>>
configVars == <<saved, config, backups, lynx, changes>>
adbVars == <<setting, reversed, stateFile, tools, zip, job, late, spent, chosen, atRisk>>
uiVars == <<log, stored, given, session, requests, wire, listening, records, order, uses, doubtful>>
proxyVars == <<clientProxy, filter, proxyChanges, acceptor, conns, certs, time>>
vars == <<part, apiVars, daemonVars, collectionVars, historyVars, processingVars, configVars, adbVars,
          uiVars, proxyVars>>

-----------------------------------------------------------------------------
Api == INSTANCE ControlApi WITH
  Tasks <- Actors, None <- Null, Empty <- Bad, rules <- apiRules

Daemon == INSTANCE Daemon WITH Shells <- Actors, NoOne <- Null, Garbage <- Bad, given <- commands

Collection == INSTANCE Collection WITH Callers <- Actors, Nothing <- Null

History == INSTANCE StudioHistory WITH Clients <- Actors, job <- work

AdbDevice == INSTANCE AdbDevice WITH
  Sessions <- Actors, Unset <- Null, Gone <- Bad,
  MaxCalls <- MaxDeviceCalls, MaxFaults <- MaxDeviceFaults, saved <- stateFile

UiStream == INSTANCE UiStream WITH TraceIds <- Streams, Nothing <- Null

-----------------------------------------------------------------------------
(* Configs a user may write: other switches, a rule twice, one that is invalid. *)
ConfigEntry(i, t, e) == [id |-> i, text |-> t, enabled |-> e]
Edited ==
  {[project |-> "A", rules |-> <<ConfigEntry(1, "y", FALSE), ConfigEntry(2, "x", TRUE)>>],
   [project |-> "A", rules |-> <<ConfigEntry(2, "y", FALSE), ConfigEntry(2, "x", TRUE)>>],
   [project |-> "B", rules |-> <<ConfigEntry(1, "bad", TRUE), ConfigEntry(1, "y", TRUE)>>]}
StoredRule(p, e) == [project |-> p, text |-> "x", enabled |-> e]
Stores ==
  {<<StoredRule("A", TRUE), StoredRule("B", TRUE)>>, <<StoredRule("A", TRUE), Null>>,
   <<StoredRule("B", FALSE), StoredRule("B", TRUE)>>}

ProjectConfig == INSTANCE ProjectConfig WITH
  RuleIds <- {1, 2}, Projects <- {"A", "B"}, Texts <- {"x", "y"}, Invalid <- "bad",
  Shells <- Actors, Nothing <- Null, MaxChanges <- 3

-----------------------------------------------------------------------------
(* Rules for RequestProcessing: one handler of each kind and outcome, alone,   *)
(* in pairs, in two rules, and triples of those that touch the body.           *)
Kind(k) == [kind |-> k, order |-> 0, enabled |-> TRUE]
Delay(ms, v, t) == Kind("delay") @@ [ms |-> ms, variance |-> v, type |-> t]
Throttle(off, lat, down) == Kind("throttle") @@ [offline |-> off, latency |-> lat, download |-> down]
ForwardTo(s, h, p) == Kind("proxyForward") @@ [scheme |-> s, authority |-> h, path |-> p]
Url(s, h, p, q) == [scheme |-> s, authority |-> h, path |-> p, query |-> q]
ModifyRequest(t, u) == Kind("modifyRequest") @@ [body |-> t, url |-> u]
Handlers ==
  {Kind("block") @@ [invalid |-> i] : i \in BOOLEAN}
  \cup {Kind("localFile") @@ [file |-> f] : f \in {"missing", "page"}}
  \cup {ModifyRequest("edit", Null), ModifyRequest(Null, Url("https", "other", <<"x">>, Null)),
        ModifyRequest(Null, Url(Null, "other", Null, Null))}
  \cup {Kind("modifyResponse") @@ [body |-> t] : t \in {Null, "edit"}}
  \cup {Kind("htmlScriptInjector") @@ [blank |-> e] : e \in BOOLEAN}
  \cup {ForwardTo(Null, "api", Null), ForwardTo("https", Null, "v1"), ForwardTo(Null, "api", "/"),
        ForwardTo(Null, "invalid", Null)}
  \cup {Delay(2, 1, "before"), Delay(3, 0, "both"), Delay(1, 2, "after")}
  \cup {Throttle(TRUE, 0, 0), Throttle(FALSE, 1, 1), Throttle(FALSE, 0, 16)}
OfKinds(ks) == {h \in Handlers : h.kind \in ks}
BodyHandlers == OfKinds({"htmlScriptInjector", "modifyResponse"}) \cup {Throttle(FALSE, 1, 1)}
At(h, o) == [h EXCEPT !.order = o]
RuleOf(id, p, hs) == [id |-> id, priority |-> p, enabled |-> TRUE, matches |-> TRUE, handlers |-> hs]
RuleLists ==
  {<<RuleOf(1, 0, <<At(g, 2), At(h, 1)>>)>> : g, h \in Handlers}
  \cup {<<RuleOf(1, 0, <<At(g, 1)>>), RuleOf(2, 1, <<At(h, 1)>>)>> :
          g, h \in OfKinds({"block", "proxyForward", "htmlScriptInjector"})}
  \cup {<<RuleOf(1, 0, <<At(g, 3), At(h, 2)>>), RuleOf(2, 1, <<At(i, 1)>>)>> : g, h, i \in BodyHandlers}
  \cup {<<[RuleOf(1, 0, <<At(g, 1)>>) EXCEPT !.enabled = e, !.matches = ~e],
          RuleOf(2, 0, <<[At(h, 1) EXCEPT !.enabled = FALSE]>>)>> : e \in BOOLEAN, g, h \in OfKinds({"block"})}
Text(t, e) == [text |-> t, tags |-> 0, enc |-> e]
ClientRequests ==
  {[uri |-> Url("http", "site", <<"a">>, q), length |-> Text("form", Null), body |-> Text("form", Null)] :
     q \in {Null, "q"}}
AnswerOf(html, t, chunked, ends) ==
  [by |-> "upstream", html |-> html, encoding |-> t.enc, chunked |-> chunked,
   length |-> IF chunked THEN Null ELSE t, body |-> t, ends |-> ends, rates |-> << >>]
Answers ==
  {AnswerOf(TRUE, Text("page", e), FALSE, TRUE) : e \in {Null, "gzip", "zstd"}}
  \cup {AnswerOf(TRUE, Text("page", "gzip"), TRUE, TRUE), AnswerOf(TRUE, Text("page", Null), TRUE, FALSE),
        AnswerOf(TRUE, Text("binary", Null), FALSE, TRUE), AnswerOf(FALSE, Text("page", "gzip"), FALSE, TRUE)}

Processing == INSTANCE RequestProcessing WITH
  Requests <- ClientRequests, Frames <- <<1, 300>>, Absent <- Null

-----------------------------------------------------------------------------
Filters ==
  {[enabled |-> TRUE, include |-> {}, exclude |-> {h2}],
   [enabled |-> TRUE, include |-> {h1}, exclude |-> {h1}]}
ProxyRequests ==
  [own : {FALSE}, method : {"GET"}, upgrade : {"none", "websocket", "other"}]
  \cup [own : BOOLEAN, method : {"CONNECT"}, upgrade : {"none"}]
ClientSettings == {"system", "custom", "badUrl"}

Proxy == INSTANCE ProxyServer WITH
  Hosts <- {h1, h2}, Requests <- ProxyRequests, Nobody <- Null, MaxChanges <- MaxProxyChanges,
  changes <- proxyChanges

-----------------------------------------------------------------------------
ApiParts == {"settings", "projects", "capture rules", "filter history"}
AllParts == ApiParts \cup {"daemon", "collection", "studio history", "project config", "adb", "ui",
                           "processing", "proxy"}

OneOf(S) == CHOOSE x \in S : TRUE
StartsAt(p, there) == IF part = p THEN TRUE ELSE there

Init ==
  /\ part \in Parts
  /\ Api!Init /\ Daemon!Init /\ Collection!Init /\ History!Init /\ UiStream!Init
  /\ ProjectConfig!Init /\ StartsAt("project config", saved = OneOf(Stores))
  /\ AdbDevice!Init /\ StartsAt("adb", setting = [s \in Serials |-> Null] /\ tools = "none")
  /\ Proxy!Init /\ clientProxy.setting = "system" /\ StartsAt("proxy", filter = OneOf(Filters))
  /\ IF part = "processing" THEN Processing!Init
     ELSE Processing!Init /\ rules = OneOf(RuleLists) /\ req = OneOf(ClientRequests)

Others(p) ==
  /\ IF p \in ApiParts THEN TRUE ELSE UNCHANGED apiVars
  /\ IF p = "daemon" THEN TRUE ELSE UNCHANGED daemonVars
  /\ IF p = "collection" THEN TRUE ELSE UNCHANGED collectionVars
  /\ IF p = "studio history" THEN TRUE ELSE UNCHANGED historyVars
  /\ IF p = "project config" THEN TRUE ELSE UNCHANGED configVars
  /\ IF p = "adb" THEN TRUE ELSE UNCHANGED adbVars
  /\ IF p = "ui" THEN TRUE ELSE UNCHANGED uiVars
  /\ IF p = "processing" THEN TRUE ELSE UNCHANGED processingVars
  /\ IF p = "proxy" THEN TRUE ELSE UNCHANGED proxyVars
  /\ UNCHANGED part

\* Settings are put as a whole, and rules of one kind do not meet: less is asked of them.
Quota == IF part \in {"projects", "filter history"} THEN MaxRequests ELSE MaxRequests - 1
ApiNext(Ops(_)) ==
  /\ Api!Lives \/ Api!Faults \/ (received < Quota /\ \E s \in Actors : Ops(s))
  /\ Others(part)

SettingsNext == part = "settings" /\ ApiNext(Api!SettingsOps)
ProjectsNext == part = "projects" /\ ApiNext(Api!ProjectOps)
CaptureNext == part = "capture rules" /\ ApiNext(Api!CaptureOps)
FilterNext == part = "filter history" /\ ApiNext(Api!HistoryOps)
DaemonNext == part = "daemon" /\ Daemon!Next /\ Others(part)
CollectionNext == part = "collection" /\ Collection!Next /\ Others(part)
StudioHistoryNext == part = "studio history" /\ History!Next /\ Others(part)
ConfigNext == part = "project config" /\ ProjectConfig!Next /\ Others(part)
AdbNext == part = "adb" /\ AdbDevice!Next /\ Others(part)
UiNext == part = "ui" /\ UiStream!Next /\ Others(part)
ProcessingNext == part = "processing" /\ Processing!Next /\ Others(part)
ProxyNext == part = "proxy" /\ Proxy!Next /\ Others(part)

Next ==
  \/ SettingsNext \/ ProjectsNext \/ CaptureNext \/ FilterNext \/ DaemonNext \/ CollectionNext
  \/ StudioHistoryNext \/ ConfigNext \/ AdbNext \/ UiNext \/ ProcessingNext \/ ProxyNext

Spec == Init /\ [][Next]_vars

\* The fairness of each component, for the one that runs.
Fairness ==
  /\ \A s \in Actors : WF_apiVars(part \in ApiParts /\ Api!Work(s))
  /\ \A c \in Actors : WF_daemonVars(part = "daemon" /\ Daemon!CommandStep(c))
  /\ \A p \in Pids : WF_daemonVars(part = "daemon" /\ Daemon!ExitOfDying(p))
  /\ WF_uiVars(part = "ui" /\ UiStream!StoreEvent)
  /\ WF_uiVars(part = "ui" /\ UiStream!SessionStep)
  /\ WF_uiVars(part = "ui" /\ UiStream!Browser)
  /\ \A c \in Conns : WF_proxyVars(part = "proxy" /\ Proxy!ConnectionStep(c))
FairSpec == Spec /\ Fairness

-----------------------------------------------------------------------------
(* The properties of the components, each stated and explained there.      *)

\* Every component keeps to the types of its state.
TypeOK ==
  CASE part \in ApiParts -> Api!TypeOK
    [] part = "daemon" -> Daemon!TypeOK
    [] part = "collection" -> Collection!TypeOK
    [] part = "studio history" -> History!TypeOK
    [] part = "project config" -> ProjectConfig!TypeOK
    [] part = "adb" -> AdbDevice!TypeOK
    [] part = "ui" -> UiStream!TypeOK
    [] part = "processing" -> Processing!TypeOK
    [] part = "proxy" -> Proxy!TypeOK
    [] OTHER -> TRUE

\* Settings files and the websocket API.

\* A settings file that can be read is consistent, however calls, failures and crashes
\* interleave (projects_dao.rs, capture_rules_dao.rs, traffic_filter_history_dao.rs).
DocsWellFormed == Api!DocsWellFormed

\* write_json_atomic leaves an unreadable file only where two writers of it overlapped, and
\* a call without company answers what it has done to its file.
WritesAreWhole == Api!WritesAreWhole

\* delete_project spares projects that have rules, but for the two races it names.
ProjectsWithRulesStay == Api!ProjectsWithRulesStay

\* A session answers each request it has taken.
EveryRequestAnswered == Api!EveryRequestAnswered

\* The background service.

\* start_daemon and restart_daemon leave one daemon at most, the status file names it, and
\* the answer start_daemon waits for is its own, unless a command lost track of a daemon.
DaemonIsKnown == Daemon!DaemonIsKnown

\* start, stop and restart end.
CommandsEnd == Daemon!CommandsEnd

\* The API studio.

\* create, move and delete keep the collections a forest, in an order, with the drafts of
\* its requests.
CollectionsSound == Collection!CollectionsSound

\* The history stays within its limit, and trim_to_limit removes the oldest entries.
HistoryTrimmed == History!HistoryTrimmed

\* Project configuration.

\* A push, a pull and an apply leave file and store as each of them says.
CommandsAgree == ProjectConfig!CommandsAgree

\* What a pull replaces is in its backup.
PullIsBackedUp == ProjectConfig!PullIsBackedUp

\* Devices.

\* enable_proxy and disable_proxy do not lose the proxy the user had set on the device, nor
\* forget its tunnel, and an install that succeeds leaves an adb that runs.
DevicesRestored == AdbDevice!DevicesRestored

\* The request stream of the browser.

\* The list of the browser has no request twice, none it cannot show, and is bounded.
ListIsShown == UiStream!ListIsShown

\* The merge of snapshot and events has each chunk of a body once, in order, and does not
\* take an answered request back to pending.
ShownFaithfully == UiStream!ShownFaithfully

\* An exchange that has ended is shown answered and whole.
EndedIsShown == UiStream!EndedIsShown

\* Requests under the rules.

\* The first handler that answers does, and the upstream is asked where the rules say.
RulesDecide == part = "processing" => Processing!RulesDecide

\* Content-Encoding and Content-Length of a delivered answer are those of its body.
HeadersDescribeBody == part = "processing" => Processing!HeadersDescribeBody

\* Delays take the time they are configured for, throttled bodies the time of their bytes,
\* and the client reads them to their end.
DeliveredInTime == part = "processing" => Processing!DeliveredInTime

\* Connections.

\* The bytes read to tell a tunnel's protocol reach the other end, first and in order; no
\* upstream proxy setting is older than the connection, no certificate shown after its end.
ConnectionsKept == Proxy!ConnectionsKept

\* What a client sends into a tunnel arrives, though it sends no more.
BytesArrive == Proxy!BytesArrive

\* The assertions of proxy_tunnel_request.rs and proxy_ws_request.rs.
AssertionsHold == Proxy!AssertionsHold

=============================================================================
