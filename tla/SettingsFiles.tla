---------------------------- MODULE SettingsFiles ----------------------------
(***************************************************************************)
(* The settings of the proxy: one JSON file each, read by                  *)
(* read_json_or_default and replaced by write_json_atomic                  *)
(* (storage/json_file.rs), and what the DAOs do to them.                   *)
(*                                                                         *)
(* A change reads the file, computes the new document, truncates the       *)
(* temporary file, writes it and renames it. Nothing is locked and all     *)
(* writers of a file share its temporary file: one may truncate what       *)
(* another has written, rename what another is still writing, or write     *)
(* into the file that another has renamed, the descriptor being the same.  *)
(*                                                                         *)
(* Lists whose order is presentation are sets of records; times and names  *)
(* of rules are left out.                                                  *)
(***************************************************************************)
EXTENDS Integers, Sequences, FiniteSets

CONSTANTS
  Tasks,           \* the tasks that use the files, one call at a time
  ProjectIds,      \* ids of projects
  DefaultId,       \* DEFAULT_PROJECT_ID
  Names,           \* names of projects
  DefaultName,
  Values,          \* documents of the settings replaced as a whole
  DefaultValue,
  HistoryLimit,    \* DEFAULT_TRAFFIC_FILTER_HISTORY_LIMIT
  None,            \* Rust's None; no file
  Empty,           \* what a truncated file holds
  Torn             \* what two writers at once may leave: no JSON

VARIABLES
  file,    \* what is at the path of each file
  tmp,     \* what is at the path of its temporary file
  task,    \* the call of each task
  crossed  \* history: files on which two calls that write have overlapped

fileVars == <<file, tmp, task, crossed>>

WholeFiles == {"general", "https_capture", "capture_switch"}
Files == WholeFiles \cup {"projects", "capture_rules", "traffic_filter_history"}

DefaultProjects ==
  [active |-> DefaultId, projects |-> {[id |-> DefaultId, name |-> DefaultName]}]

Default(f) ==
  CASE f = "projects" -> DefaultProjects
    [] f = "capture_rules" -> [focus |-> {}, ignore |-> {}]
    [] f = "traffic_filter_history" -> << >>
    [] OTHER -> DefaultValue

-----------------------------------------------------------------------------
(***************************************************************************)
(* The operations of the DAOs, as functions of the document: what they     *)
(* answer and the document they store. One that is refused stores nothing. *)
(***************************************************************************)
Stored(doc) == [ok |-> TRUE, doc |-> doc]
Refused(doc) == [ok |-> FALSE, doc |-> doc]

EnsureDefault(doc) == IF doc.projects = {} THEN DefaultProjects ELSE doc
HasProject(doc, id) == \E p \in doc.projects : p.id = id

SetActiveProject(doc, id) ==
  IF HasProject(doc, id) THEN Stored([doc EXCEPT !.active = id]) ELSE Refused(doc)

CreateProject(doc, id, name) ==
  IF HasProject(doc, id)
  THEN Refused(doc)
  ELSE Stored([doc EXCEPT !.projects = @ \cup {[id |-> id, name |-> name]}])

RenameProject(doc, id, name) ==
  IF HasProject(doc, id)
  THEN Stored([doc EXCEPT !.projects = {IF p.id = id THEN [p EXCEPT !.name = name] ELSE p : p \in @}])
  ELSE Refused(doc)

DeleteProject_keepsActive(doc, id) ==
  IF id = DefaultId \/ ~HasProject(doc, id)
  THEN Refused(doc)
  ELSE Stored([doc EXCEPT !.projects = {p \in @ : p.id # id}])
DeleteProject(doc, id) ==
  IF id = DefaultId \/ ~HasProject(doc, id)
  THEN Refused(doc)
  ELSE Stored([active   |-> IF doc.active = id THEN DefaultId ELSE doc.active,
               projects |-> {p \in doc.projects : p.id # id}])

\* Ids are given over both lists, but one that is sent is looked up in one.
NextId(doc) ==
  LET ids == {r.id : r \in doc.focus \cup doc.ignore} \cup {0}
  IN  1 + CHOOSE n \in ids : \A k \in ids : k <= n

Upsert(doc, kind, id, enabled) ==
  LET given == IF id <= 0 THEN NextId(doc) ELSE id
  IN  Stored([doc EXCEPT ![kind] = {r \in @ : r.id # given} \cup {[id |-> given, enabled |-> enabled]}])

DeleteCaptureRule(doc, kind, id) ==
  IF \E r \in doc[kind] : r.id = id
  THEN Stored([doc EXCEPT ![kind] = {r \in @ : r.id # id}])
  ELSE Refused(doc)

SetEnabled(doc, kind, id, enabled) ==
  IF \E r \in doc[kind] : r.id = id
  THEN Stored([doc EXCEPT ![kind] = {IF r.id = id THEN [r EXCEPT !.enabled = enabled] ELSE r : r \in @}])
  ELSE Refused(doc)

\* Vec::retain: the entries other than expr, in their order.
Without(doc, expr) ==
  LET stay   == {i \in DOMAIN doc : doc[i] # expr}
      nth(k) == CHOOSE i \in stay : Cardinality({j \in stay : j <= i}) = k
  IN  [k \in 1 .. Cardinality(stay) |-> doc[nth(k)]]

\* The newest first, each once, at most HistoryLimit.
AppendEntry(doc, expr) ==
  LET all == <<expr>> \o Without(doc, expr)
  IN  Stored(SubSeq(all, 1, IF Len(all) < HistoryLimit THEN Len(all) ELSE HistoryLimit))

\* The operation `edit` of the call `c` on the document it has read.
Result(c, doc) ==
  CASE c.edit = "get"     -> Stored(doc)
    [] c.edit = "put"     -> Stored(c.arg)
    [] c.edit = "active"  -> SetActiveProject(EnsureDefault(doc), c.arg.id)
    [] c.edit = "create"  -> CreateProject(EnsureDefault(doc), c.arg.id, c.arg.name)
    [] c.edit = "rename"  -> RenameProject(EnsureDefault(doc), c.arg.id, c.arg.name)
    [] c.edit = "remove"  -> DeleteProject(EnsureDefault(doc), c.arg.id)
    [] c.edit = "upsert"  -> Upsert(doc, c.arg.kind, c.arg.id, c.arg.enabled)
    [] c.edit = "delete"  -> DeleteCaptureRule(doc, c.arg.kind, c.arg.id)
    [] c.edit = "enable"  -> SetEnabled(doc, c.arg.kind, c.arg.id, c.arg.enabled)
    [] c.edit = "append"  -> AppendEntry(doc, c.arg)

-----------------------------------------------------------------------------
(***************************************************************************)
(* The calls. `doc` is the document read, then the one to store; `at` is   *)
(* where the file is that the call has open: tmp, path, or gone when it    *)
(* has been replaced. `before` and `alone` are history: the file when the  *)
(* call began, and whether no other call that writes it has overlapped.    *)
(***************************************************************************)
NoCall == [phase |-> "idle", file |-> None, edit |-> "get", arg |-> None, doc |-> None,
           ok |-> FALSE, at |-> "none", before |-> None, alone |-> TRUE]

Blind == {"put"}                           \* stored without reading the file
Writes(c) == c.phase # "idle" /\ c.edit # "get"
OthersWriting(t, f) == {u \in Tasks \ {t} : Writes(task[u]) /\ task[u].file = f}

Begin(t, f, edit, arg, phase) ==
  LET others == IF edit = "get" THEN {} ELSE OthersWriting(t, f)
      call   == [NoCall EXCEPT !.phase = phase, !.file = f, !.edit = edit, !.arg = arg,
                               !.before = file[f], !.alone = others = {}]
  IN  /\ task' = [u \in Tasks |-> IF u = t THEN call
                                  ELSE IF u \in others THEN [task[u] EXCEPT !.alone = FALSE]
                                  ELSE task[u]]
      /\ crossed' = IF others = {} THEN crossed ELSE crossed \cup {f}
      /\ UNCHANGED <<file, tmp>>

\* The call a DAO makes: one that replaces the file does not read it.
Call(t, f, edit, arg) == Begin(t, f, edit, arg, IF edit \in Blind THEN "compute" ELSE "read")

Answered(t, ok) == task' = [task EXCEPT ![t].phase = "done", ![t].ok = ok]

Compute(t, doc) ==
  LET r == Result(task[t], doc)
  IN  IF r.ok /\ task[t].edit # "get"
      THEN task' = [task EXCEPT ![t].phase = "open", ![t].doc = r.doc]
      ELSE Answered(t, r.ok)

\* A file that is no JSON cannot be read; one that is not there is the default.
ReadFile(t) ==
  LET f == task[t].file
  IN  /\ task[t].phase = "read"
      /\ IF file[f] \in {Empty, Torn} THEN Answered(t, FALSE)
         ELSE Compute(t, IF file[f] = None THEN Default(f) ELSE file[f])
      /\ UNCHANGED <<file, tmp, crossed>>

ComputeBlind(t) ==
  /\ task[t].phase = "compute"
  /\ Compute(t, None)
  /\ UNCHANGED <<file, tmp, crossed>>

OpenTmp_inPlace(t) ==
  /\ task[t].phase = "open"
  /\ file' = [file EXCEPT ![task[t].file] = Empty]
  /\ task' = [task EXCEPT ![t].phase = "write", ![t].at = "path"]
  /\ UNCHANGED <<tmp, crossed>>
OpenTmp(t) ==
  /\ task[t].phase = "open"
  /\ tmp' = [tmp EXCEPT ![task[t].file] = Empty]
  /\ task' = [task EXCEPT ![t].phase = "write", ![t].at = "tmp"]
  /\ UNCHANGED <<file, crossed>>

\* Writing from the start over what is there: a longer document shows its end.
Written(old, doc) == IF old = Empty \/ old = doc THEN {doc} ELSE {doc, Torn}

WriteTmp(t) ==
  LET c == task[t]
  IN  /\ c.phase = "write"
      /\ \E new \in Written(IF c.at = "tmp" THEN tmp[c.file] ELSE file[c.file], c.doc) :
           /\ tmp' = IF c.at = "tmp" THEN [tmp EXCEPT ![c.file] = new] ELSE tmp
           /\ file' = IF c.at = "path" THEN [file EXCEPT ![c.file] = new] ELSE file
      /\ task' = [task EXCEPT ![t].phase = "rename", ![t].at = "none"]
      /\ UNCHANGED crossed

\* The disk is full: part of the document, and no rename.
WriteFails(t) ==
  LET c == task[t]
  IN  /\ c.phase = "write"
      /\ tmp' = IF c.at = "tmp" THEN [tmp EXCEPT ![c.file] = Torn] ELSE tmp
      /\ file' = IF c.at = "path" THEN [file EXCEPT ![c.file] = Torn] ELSE file
      /\ task' = [task EXCEPT ![t].phase = "done", ![t].ok = FALSE, ![t].at = "none"]
      /\ UNCHANGED crossed

RenameTmp_waits(t) ==
  LET f == task[t].file
  IN  /\ task[t].phase = "rename" /\ tmp[f] # None
      /\ file' = [file EXCEPT ![f] = tmp[f]]
      /\ tmp' = [tmp EXCEPT ![f] = None]
      /\ Answered(t, TRUE)
      /\ UNCHANGED crossed
RenameTmp(t) ==
  LET f == task[t].file
      moved(u) == IF task[u].phase = "write" /\ task[u].file = f
                  THEN IF task[u].at = "tmp" THEN "path" ELSE "gone"
                  ELSE task[u].at
  IN  /\ task[t].phase = "rename"
      /\ IF tmp[f] = None
         THEN Answered(t, FALSE) /\ UNCHANGED <<file, tmp>>
         ELSE /\ file' = [file EXCEPT ![f] = tmp[f]]
              /\ tmp' = [tmp EXCEPT ![f] = None]
              /\ task' = [u \in Tasks |->
                            IF u = t THEN [task[t] EXCEPT !.phase = "done", !.ok = TRUE]
                            ELSE [task[u] EXCEPT !.at = moved(u)]]
      /\ UNCHANGED crossed

WriteJsonAtomic(t) == OpenTmp(t) \/ WriteTmp(t) \/ RenameTmp(t)
FileStep(t) == ReadFile(t) \/ ComputeBlind(t) \/ WriteJsonAtomic(t)

\* The process dies: what is on disk stays as it is.
Crash ==
  /\ task' = [t \in Tasks |-> NoCall]
  /\ UNCHANGED <<file, tmp, crossed>>

\* ensure_setting_defaults has written every file but the projects, which begin unwritten.
FilesInit ==
  /\ file = [f \in Files |-> IF f = "projects" THEN None ELSE Default(f)]
  /\ tmp = [f \in Files |-> None]
  /\ task = [t \in Tasks |-> NoCall]
  /\ crossed = {}

-----------------------------------------------------------------------------
Unreadable == {Empty, Torn}

ProjectsFine(doc) ==
  /\ HasProject(doc, doc.active) /\ HasProject(doc, DefaultId)
  /\ \A p, q \in doc.projects : p.id = q.id => p = q

CaptureRulesFine(doc) ==
  \A kind \in {"focus", "ignore"} :
    /\ \A r \in doc[kind] : r.id > 0
    /\ \A r, s \in doc[kind] : r.id = s.id => r = s

HistoryFine(doc) ==
  /\ Len(doc) <= HistoryLimit
  /\ \A i, j \in DOMAIN doc : doc[i] = doc[j] => i = j

(***************************************************************************)
(* A settings file that can be read is whole and consistent, however the   *)
(* reads and writes of several connections, failed writes and crashes      *)
(* interleave (set_active_project, create, rename and delete_project,      *)
(* upsert, delete and set_enabled of capture rules, append): the active    *)
(* project exists, the default one is never lost, ids are unique, no       *)
(* filter expression is kept twice.                                        *)
(***************************************************************************)
ProjectsWellFormed ==
  file["projects"] \in {None, Empty, Torn} \/ ProjectsFine(file["projects"])
CaptureRulesWellFormed ==
  file["capture_rules"] \in {None, Empty, Torn} \/ CaptureRulesFine(file["capture_rules"])
HistoryWellFormed ==
  file["traffic_filter_history"] \in {None, Empty, Torn} \/ HistoryFine(file["traffic_filter_history"])
DocsWellFormed == ProjectsWellFormed /\ CaptureRulesWellFormed /\ HistoryWellFormed

(***************************************************************************)
(* write_json_atomic leaves a file that cannot be read only when two calls *)
(* that write it have overlapped: neither a crash between its steps nor a  *)
(* write that fails is enough.                                             *)
(***************************************************************************)
ReadableUnlessCrossed == \A f \in Files \ crossed : file[f] \notin Unreadable

(***************************************************************************)
(* What a call without company answers is true: success means that its     *)
(* document is the file, failure that the file is as it was before.        *)
(***************************************************************************)
AnswerTrue ==
  \A t \in Tasks :
    LET c == task[t]
    IN  Writes(c) /\ c.phase = "done" /\ c.alone
          => file[c.file] = IF c.ok THEN c.doc ELSE c.before

\* Both: whatever becomes of a write, what it leaves is a whole document, and is answered.
WritesAreWhole == ReadableUnlessCrossed /\ AnswerTrue

=============================================================================
