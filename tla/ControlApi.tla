----------------------------- MODULE ControlApi -----------------------------
(***************************************************************************)
(* The websocket API of the UI (self_service/api/net_request_ws.rs): one   *)
(* session per connection, which handles one request frame at a time and   *)
(* answers it before it looks at the next, with the services it calls and  *)
(* the settings files of SettingsFiles under them.                         *)
(*                                                                         *)
(* Rules are what they are for the projects, the project of each rule: a   *)
(* rule is written in one step here (RuleStore has the detail), as is      *)
(* everything that leaves the process, a device or a composed request,     *)
(* whose outcome is open. The request stream is UiStream.                  *)
(***************************************************************************)
EXTENDS SettingsFiles

CONSTANTS
  RuleIds,      \* ids of rules
  Exprs,        \* filter expressions, without the blank one
  CaptureIds,   \* ids of capture rules a client sends; 0 asks for a new one
  MaxRequests   \* bound: request frames of all sessions

VARIABLES
  open,      \* whether each session is connected
  op,        \* the operation each session is answering
  outbox,    \* the frames sent for it, in order
  rules,     \* the project of each rule, None when there is no such rule
  lateRules, \* history: projects given a rule since each session began its request
  received   \* request frames so far

apiVars == <<open, op, outbox, rules, lateRules, received>>
vars == <<fileVars, apiVars>>

Sessions == Tasks

-----------------------------------------------------------------------------
(* Frames. *)
Response == "response"
Event == "event"
Error == "error"
Pong == "pong"

IsIdle(s) == open[s] /\ task[s].phase = "idle" /\ op[s] = "none"

Take(s, o) ==
  /\ IsIdle(s)
  /\ received < MaxRequests
  /\ received' = received + 1
  /\ op' = [op EXCEPT ![s] = o]
  /\ UNCHANGED open

\* Answer at once, without any call.
Send(s, kind) ==
  /\ outbox' = [outbox EXCEPT ![s] = <<kind>>]
  /\ UNCHANGED <<fileVars, rules, lateRules>>

\* A payload that is missing, or not what the operation needs.
InvalidPayload(s) == Send(s, Error)

\* A call that uses a settings file.
Dao(s, f, edit, arg) ==
  /\ Call(s, f, edit, arg)
  /\ outbox' = [outbox EXCEPT ![s] = << >>]
  /\ lateRules' = [lateRules EXCEPT ![s] = {}]
  /\ UNCHANGED rules

\* A call whose outcome is decided elsewhere.
Outside(s) ==
  /\ task' = [task EXCEPT ![s].phase = "outside"]
  /\ outbox' = [outbox EXCEPT ![s] = << >>]
  /\ UNCHANGED <<file, tmp, crossed, rules, lateRules>>

-----------------------------------------------------------------------------
(* The checks before the operation, and the operations. *)
UnsupportedVersion(s) == Take(s, "unknown") /\ Send(s, Error)
PingFrame(s) == Take(s, "ping") /\ Send(s, Pong)
InvalidFrame(s) == Take(s, "unknown") /\ Send(s, Error)

SYSTEM_PING(s) == Take(s, "ping") /\ Send(s, Pong)

COMPOSE_REQUEST_SEND(s) == Take(s, "compose") /\ (InvalidPayload(s) \/ Outside(s))

CAPTURE_STATUS_GET(s) == Take(s, "get") /\ Dao(s, "capture_switch", "get", None)

CAPTURE_CONTROL_SET(s) ==
  /\ Take(s, "capture.control.set")
  /\ \/ InvalidPayload(s)
     \/ \E v \in Values : Dao(s, "capture_switch", "put", v)

SETTINGS_GENERAL_GET(s) == Take(s, "get") /\ Dao(s, "general", "get", None)

SETTINGS_GENERAL_SET(s) ==
  /\ Take(s, "set")
  /\ \/ InvalidPayload(s)
     \/ \E v \in Values : Dao(s, "general", "put", v)

SETTINGS_CAPTURE_FILTER_GET(s) == Take(s, "get") /\ Dao(s, "https_capture", "get", None)

SETTINGS_CAPTURE_FILTER_SET(s) ==
  /\ Take(s, "set")
  /\ \/ InvalidPayload(s)
     \/ \E v \in Values : Dao(s, "https_capture", "put", v)

SETTINGS_CERTIFICATE_PATH_GET(s) == Take(s, "get") /\ Send(s, Response)

\* Rules: what reads them answers, what changes them does so in one step.
RulesChange(s, kind, new) ==
  /\ rules' = new
  /\ lateRules' = [u \in Sessions |-> lateRules[u] \cup {new[id] : id \in {i \in RuleIds : new[i] # rules[i]}}]
  /\ outbox' = [outbox EXCEPT ![s] = <<kind>>]
  /\ UNCHANGED fileVars

\* A rule file may be unreadable, or go while it is read.
RulesRead(s) == \E kind \in {Response, Error} : Send(s, kind)

RULES_LIST_GET(s) == Take(s, "get") /\ RulesRead(s)
RULES_GET(s) == Take(s, "get") /\ (InvalidPayload(s) \/ RulesRead(s))
RULES_TEMPLATES_GET(s) == Take(s, "get") /\ RulesRead(s)

\* A rule with an id replaces one that exists, one without is new. Whether its
\* project exists is not asked.
RULES_SAVE_SET(s) ==
  /\ Take(s, "set")
  /\ \/ InvalidPayload(s)
     \/ \E id \in RuleIds, p \in ProjectIds :
          \/ rules[id] # None /\ RulesChange(s, Response, [rules EXCEPT ![id] = p])
          \/ rules[id] = None /\ Send(s, Error)
     \/ \E id \in RuleIds, p \in ProjectIds :
          rules[id] = None /\ RulesChange(s, Response, [rules EXCEPT ![id] = p])

RULES_DELETE(s) ==
  /\ Take(s, "set")
  /\ \/ InvalidPayload(s)
     \/ \E id \in RuleIds :
          \/ rules[id] # None /\ RulesChange(s, Response, [rules EXCEPT ![id] = None])
          \/ rules[id] = None /\ Send(s, Error)

RULES_ENABLED_SET(s) ==
  /\ Take(s, "set")
  /\ \/ InvalidPayload(s)
     \/ \E id \in RuleIds : Send(s, IF rules[id] = None THEN Error ELSE Response)

PROJECTS_LIST_GET(s) == Take(s, "get") /\ Dao(s, "projects", "get", None)

PROJECTS_ACTIVE_SET(s) ==
  /\ Take(s, "projects.active.set")
  /\ \/ InvalidPayload(s)
     \/ \E id \in ProjectIds : Dao(s, "projects", "active", [id |-> id])

PROJECTS_CREATE(s) ==
  /\ Take(s, "set")
  /\ \/ InvalidPayload(s)
     \/ \E id \in ProjectIds, n \in Names : Dao(s, "projects", "create", [id |-> id, name |-> n])

PROJECTS_RENAME(s) ==
  /\ Take(s, "set")
  /\ \/ InvalidPayload(s)
     \/ \E id \in ProjectIds, n \in Names : Dao(s, "projects", "rename", [id |-> id, name |-> n])

\* delete_project lists the rules of the project before it calls the DAO.
PROJECTS_DELETE(s) ==
  /\ Take(s, "projects.delete")
  /\ \/ InvalidPayload(s)
     \/ \E id \in ProjectIds :
          /\ Begin(s, "projects", "remove", [id |-> id], "rules")
          /\ outbox' = [outbox EXCEPT ![s] = << >>]
          /\ lateRules' = [lateRules EXCEPT ![s] = {}]
          /\ UNCHANGED rules

RulesOf(p) == {id \in RuleIds : rules[id] = p}

ListRulesByProject_unasked(s) ==
  /\ task[s].phase = "rules"
  /\ task' = [task EXCEPT ![s].phase = "read"]
  /\ lateRules' = [lateRules EXCEPT ![s] = {}]
  /\ UNCHANGED <<file, tmp, crossed, open, op, outbox, rules, received>>
ListRulesByProject(s) ==
  /\ task[s].phase = "rules"
  /\ IF RulesOf(task[s].arg.id) # {}
     THEN Answered(s, FALSE)
     ELSE task' = [task EXCEPT ![s].phase = "read"]
  /\ lateRules' = [lateRules EXCEPT ![s] = {}]
  /\ UNCHANGED <<file, tmp, crossed, open, op, outbox, rules, received>>

Kinds == {"focus", "ignore"}

CAPTURE_RULES_LIST_GET(s) == Take(s, "get") /\ Dao(s, "capture_rules", "get", None)

CAPTURE_RULES_UPSERT(s) ==
  /\ Take(s, "set")
  /\ \/ InvalidPayload(s)
     \/ \E k \in Kinds, id \in CaptureIds, e \in BOOLEAN :
          Dao(s, "capture_rules", "upsert", [kind |-> k, id |-> id, enabled |-> e])

CAPTURE_RULES_DELETE(s) ==
  /\ Take(s, "set")
  /\ \/ InvalidPayload(s)
     \/ \E k \in Kinds, id \in CaptureIds :
          Dao(s, "capture_rules", "delete", [kind |-> k, id |-> id])

CAPTURE_RULES_ENABLED_SET(s) ==
  /\ Take(s, "set")
  /\ \/ InvalidPayload(s)
     \/ \E k \in Kinds, id \in CaptureIds, e \in BOOLEAN :
          Dao(s, "capture_rules", "enable", [kind |-> k, id |-> id, enabled |-> e])

DEVICE_ADB_STATUS_GET(s) == Take(s, "get") /\ Send(s, Response)
DEVICE_ADB_INSTALL(s) == Take(s, "install") /\ Outside(s)
DEVICE_ADB_INSTALL_PROGRESS_GET(s) == Take(s, "get") /\ Send(s, Response)
DEVICE_ADB_DEVICES_LIST(s) == Take(s, "devices") /\ Outside(s)
DEVICE_ADB_PROXY_STATE_GET(s) == Take(s, "adb") /\ (InvalidPayload(s) \/ Outside(s))
DEVICE_ADB_PROXY_ENABLE(s) == Take(s, "adb") /\ (InvalidPayload(s) \/ Outside(s))
DEVICE_ADB_PROXY_DISABLE(s) == Take(s, "adb") /\ (InvalidPayload(s) \/ Outside(s))

HISTORY_GET(s) == Take(s, "get") /\ Dao(s, "traffic_filter_history", "get", None)

\* A blank expression is not stored: the history is read.
HISTORY_APPEND(s) ==
  /\ Take(s, "set")
  /\ \/ InvalidPayload(s)
     \/ Dao(s, "traffic_filter_history", "get", None)
     \/ \E e \in Exprs : Dao(s, "traffic_filter_history", "append", e)

HISTORY_CLEAR(s) == Take(s, "set") /\ Dao(s, "traffic_filter_history", "put", << >>)

-----------------------------------------------------------------------------
(* The answer, and the life of a session. *)
OutsideAnswers(s) ==
  /\ task[s].phase = "outside"
  /\ \E ok \in BOOLEAN : Answered(s, ok)
  /\ UNCHANGED <<file, tmp, crossed, apiVars>>

\* set_active_project reads the file once more for its answer.
ReadAgain(s) == op[s] = "projects.active.set" /\ task[s].ok /\ task[s].edit = "active"

Reread(s) ==
  /\ task[s].phase = "done" /\ ReadAgain(s)
  /\ task' = [task EXCEPT ![s].phase = "read", ![s].edit = "get"]
  /\ UNCHANGED <<file, tmp, crossed, apiVars>>

\* The switch is announced to the session that changed it and to no other.
Answer(s) ==
  /\ task[s].phase = "done" /\ ~ReadAgain(s)
  /\ outbox' = [outbox EXCEPT ![s] =
       IF ~task[s].ok THEN <<Error>>
       ELSE IF op[s] = "capture.control.set" THEN <<Response, Event>>
       ELSE <<Response>>]
  /\ task' = [task EXCEPT ![s] = NoCall]
  /\ UNCHANGED <<file, tmp, crossed, open, op, rules, lateRules, received>>

Done(s) ==
  /\ open[s] /\ op[s] # "none" /\ outbox[s] # << >>
  /\ op' = [op EXCEPT ![s] = "none"]
  /\ outbox' = [outbox EXCEPT ![s] = << >>]
  /\ UNCHANGED <<fileVars, open, rules, lateRules, received>>

\* authorize_ws has let the client in.
Connect(s) ==
  /\ ~open[s]
  /\ open' = [open EXCEPT ![s] = TRUE]
  /\ UNCHANGED <<fileVars, op, outbox, rules, lateRules, received>>

\* A session looks at its socket between two requests only.
Close(s) ==
  /\ IsIdle(s)
  /\ open' = [open EXCEPT ![s] = FALSE]
  /\ UNCHANGED <<fileVars, op, outbox, rules, lateRules, received>>

ApiCrash ==
  /\ Crash
  /\ open' = [s \in Sessions |-> FALSE]
  /\ op' = [s \in Sessions |-> "none"]
  /\ outbox' = [s \in Sessions |-> << >>]
  /\ UNCHANGED <<rules, lateRules, received>>

-----------------------------------------------------------------------------
SettingsOps(s) ==
  \/ UnsupportedVersion(s) \/ PingFrame(s) \/ InvalidFrame(s) \/ SYSTEM_PING(s)
  \/ COMPOSE_REQUEST_SEND(s) \/ CAPTURE_STATUS_GET(s) \/ CAPTURE_CONTROL_SET(s)
  \/ SETTINGS_GENERAL_GET(s) \/ SETTINGS_GENERAL_SET(s)
  \/ SETTINGS_CAPTURE_FILTER_GET(s) \/ SETTINGS_CAPTURE_FILTER_SET(s)
  \/ SETTINGS_CERTIFICATE_PATH_GET(s)
  \/ DEVICE_ADB_STATUS_GET(s) \/ DEVICE_ADB_INSTALL(s) \/ DEVICE_ADB_INSTALL_PROGRESS_GET(s)
  \/ DEVICE_ADB_DEVICES_LIST(s) \/ DEVICE_ADB_PROXY_STATE_GET(s)
  \/ DEVICE_ADB_PROXY_ENABLE(s) \/ DEVICE_ADB_PROXY_DISABLE(s)

ProjectOps(s) ==
  \/ RULES_LIST_GET(s) \/ RULES_GET(s) \/ RULES_TEMPLATES_GET(s)
  \/ RULES_SAVE_SET(s) \/ RULES_DELETE(s) \/ RULES_ENABLED_SET(s)
  \/ PROJECTS_LIST_GET(s) \/ PROJECTS_ACTIVE_SET(s) \/ PROJECTS_CREATE(s)
  \/ PROJECTS_RENAME(s) \/ PROJECTS_DELETE(s)

CaptureOps(s) ==
  \/ CAPTURE_RULES_LIST_GET(s) \/ CAPTURE_RULES_UPSERT(s) \/ CAPTURE_RULES_DELETE(s)
  \/ CAPTURE_RULES_ENABLED_SET(s)

HistoryOps(s) == HISTORY_GET(s) \/ HISTORY_APPEND(s) \/ HISTORY_CLEAR(s)

FileWork(s) == FileStep(s) /\ UNCHANGED apiVars

\* What the task of a session does without anyone asking.
Work(s) ==
  \/ FileWork(s) \/ ListRulesByProject(s) \/ OutsideAnswers(s)
  \/ Reread(s) \/ Answer(s) \/ Done(s)

Faults ==
  \/ \E s \in Sessions : WriteFails(s) /\ UNCHANGED apiVars
  \/ ApiCrash

Lives == \E s \in Sessions : Work(s) \/ Connect(s) \/ Close(s)

Requests(s) == SettingsOps(s) \/ ProjectOps(s) \/ CaptureOps(s) \/ HistoryOps(s)

Next == (\E s \in Sessions : Requests(s)) \/ Lives \/ Faults

Init ==
  /\ FilesInit
  /\ open = [s \in Sessions |-> FALSE]
  /\ op = [s \in Sessions |-> "none"]
  /\ outbox = [s \in Sessions |-> << >>]
  /\ rules = [id \in RuleIds |-> None]
  /\ lateRules = [s \in Sessions |-> {}]
  /\ received = 0

Spec == Init /\ [][Next]_vars

\* The runtime polls every task that can go on, and a device or a server
\* that is asked answers or times out.
Fairness == \A s \in Sessions : WF_vars(Work(s))

-----------------------------------------------------------------------------
Phases == {"idle", "rules", "compute", "read", "open", "write", "rename", "outside", "done"}

TypeOK ==
  /\ DOMAIN file = Files /\ DOMAIN tmp = Files
  /\ \A s \in Sessions : task[s].phase \in Phases /\ task[s].at \in {"none", "tmp", "path", "gone"}
  /\ open \in [Sessions -> BOOLEAN]
  /\ outbox \in [Sessions -> Seq({Response, Event, Error, Pong})]
  /\ rules \in [RuleIds -> ProjectIds \cup {None}]
  /\ lateRules \in [Sessions -> SUBSET (ProjectIds \cup {None})]
  /\ received \in 0 .. MaxRequests

(***************************************************************************)
(* A project that has rules does not disappear: delete_project refuses it. *)
(* Two things can defeat the refusal, and only these: a rule saved after   *)
(* the rules were listed, and a stale list of projects stored by another   *)
(* call that writes the file at the same time.                             *)
(***************************************************************************)
Listed == IF file["projects"] \in {None, Empty, Torn} THEN {} ELSE {p.id : p \in file["projects"].projects}

ProjectsWithRulesStay ==
  [][\A p \in Listed \ Listed' :
       \/ "projects" \in crossed'
       \/ RulesOf(p) = {}
       \/ \E s \in Sessions : task[s].phase = "rename" /\ p \in lateRules[s]]_vars

(***************************************************************************)
(* A session that has taken a request answers it, whatever its file is     *)
(* like and whatever the other sessions do, unless the proxy stops.        *)
(***************************************************************************)
EveryRequestAnswered == \A s \in Sessions : op[s] # "none" ~> op[s] = "none"
=============================================================================
