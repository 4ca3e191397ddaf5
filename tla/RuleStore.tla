------------------------------ MODULE RuleStore ------------------------------
(***************************************************************************)
(* The rule files and the proxy's cache of them: DataStore (storage/mod.rs) *)
(* with the operations of RequestProcessingDao that write rules.           *)
(*                                                                         *)
(* A rule is a file named by its id. Every proxied request asks for all    *)
(* the rules (get_rules_cache_entry); the answer is cached together with a *)
(* fingerprint of the directory, the number of rule files and the newest   *)
(* modification time, and the cache is used as long as the fingerprint     *)
(* matches. Rules are written by UI connections, tasks of the proxy, which *)
(* also empty the cache, and by the command line (lynx rules pull/apply),  *)
(* another process, which cannot.                                          *)
(*                                                                         *)
(* What a rule says does not matter here: a file holds the number of the   *)
(* write that made it. The content of a temporary file is taken to be      *)
(* written in one step.                                                    *)
(***************************************************************************)
EXTENDS Integers, FiniteSets, FiniteSetsExt

CONSTANTS
  MaxId,      \* bound: the largest rule id
  Readers,    \* concurrent calls of get_rules_cache_entry
  Writers,    \* UI connections and command line processes
  External,   \* those of the writers that are other processes
  Ops,        \* what each writer does: operations of WriterOps, with the ids of the rules
  None,       \* Rust's None
  FineClock,  \* whether no two writes get the same modification time
  MaxWrites   \* bound: operations of all writers together

WriterOps == {"create", "createWithId", "update", "delete"}

ASSUME RuleStoreAssumption ==
  /\ MaxId \in Nat
  /\ External \subseteq Writers
  /\ Ops \in [Writers -> SUBSET (WriterOps \X (0 .. MaxId))]
  /\ FineClock \in BOOLEAN
  /\ MaxWrites \in Nat

VARIABLES
  files,   \* the rule files: content and modification time, None when there is none
  tmp,     \* the temporary file beside each
  clock,   \* the last modification time given
  begun,   \* operations the writers have begun
  cache,   \* rules_cache
  reader,  \* the call of each reader
  writer   \* the operation of each writer

vars == <<files, tmp, clock, begun, cache, reader, writer>>

Ids == 1 .. MaxId
Content == 0 .. MaxWrites + 1              \* 0: no rule; the last: there from the start
RulesDirFingerprint == [file_count : Nat, max_mtime : Nat]
RulesCacheState == [rules : [Ids -> Content], fingerprint : RulesDirFingerprint]

Exists(id) == files[id] # None
Present == {id \in Ids : Exists(id)}
OnDisk(id) == IF Exists(id) THEN files[id].content ELSE 0

-----------------------------------------------------------------------------
(***************************************************************************)
(* get_rules_cache_entry. A scan of the directory visits the files one by  *)
(* one: all that are there throughout, perhaps those that come or go.      *)
(* `past` and `calm` are history: what each rule has been since the call   *)
(* began, and whether no writer was at work when it did.                   *)
(***************************************************************************)
EmptyPrint == [file_count |-> 0, max_mtime |-> 0]
NoRules == [id \in Ids |-> 0]

Idle == [phase |-> "idle", due |-> {}, seen |-> {}, fingerprint |-> EmptyPrint,
         rules |-> NoRules, past |-> [id \in Ids |-> {}], calm |-> FALSE]

\* Begin a scan of the directory in the given phase.
Scan(call, phase) == [call EXCEPT !.phase = phase, !.due = Present, !.seen = {}]

Counted(fp, id) ==
  [file_count |-> fp.file_count + 1,
   max_mtime  |-> IF files[id].mtime > fp.max_mtime THEN files[id].mtime ELSE fp.max_mtime]

Matches(fp, state) == fp = state.fingerprint

\* The cache is read; its read lock is held while the fingerprint is compared.
ReadBegin(r) ==
  /\ reader[r].phase = "idle"
  /\ reader' = [reader EXCEPT ![r] =
                  [Scan(Idle, IF cache = None THEN "print" ELSE "check") EXCEPT
                     !.past = [id \in Ids |-> {OnDisk(id)}],
                     !.calm = \A w \in Writers : writer[w].pc = "idle"]]
  /\ UNCHANGED <<files, tmp, clock, begun, cache, writer>>

Scanning(r, phases) == reader[r].phase \in phases
ScanOver(r) == reader[r].due \cap Present \subseteq reader[r].seen

\* rules_dir_fingerprint, one file.
PrintFile(r, id) ==
  /\ Scanning(r, {"check", "print"})
  /\ id \in Present \ reader[r].seen
  /\ reader' = [reader EXCEPT ![r].seen = @ \cup {id},
                              ![r].fingerprint = Counted(@, id)]
  /\ UNCHANGED <<files, tmp, clock, begun, cache, writer>>

\* is_rules_cache_stale: serve the cached rules or start again from the disk.
CheckEnd(r) ==
  /\ Scanning(r, {"check"})
  /\ ScanOver(r)
  /\ reader' = [reader EXCEPT ![r] =
                  IF Matches(@.fingerprint, cache)
                  THEN [@ EXCEPT !.phase = "done", !.rules = cache.rules]
                  ELSE Scan([@ EXCEPT !.fingerprint = EmptyPrint], "print")]
  /\ UNCHANGED <<files, tmp, clock, begun, cache, writer>>

PrintEnd(r) ==
  /\ Scanning(r, {"print"})
  /\ ScanOver(r)
  /\ reader' = [reader EXCEPT ![r] = Scan(@, "load")]
  /\ UNCHANGED <<files, tmp, clock, begun, cache, writer>>

\* load_all_rules, one file.
LoadFile(r, id) ==
  /\ Scanning(r, {"load"})
  /\ id \in Present \ reader[r].seen
  /\ reader' = [reader EXCEPT ![r].seen = @ \cup {id},
                              ![r].rules[id] = OnDisk(id)]
  /\ UNCHANGED <<files, tmp, clock, begun, cache, writer>>

LoadEnd(r) ==
  /\ Scanning(r, {"load"})
  /\ ScanOver(r)
  /\ reader' = [reader EXCEPT ![r].phase = "store"]
  /\ UNCHANGED <<files, tmp, clock, begun, cache, writer>>

\* A file that goes away while it is visited fails the call.
ReadFails(r) ==
  /\ Scanning(r, {"check", "print", "load"})
  /\ \E id \in reader[r].due \ reader[r].seen : ~Exists(id)
  /\ reader' = [reader EXCEPT ![r] = Idle]
  /\ UNCHANGED <<files, tmp, clock, begun, cache, writer>>

Unlocked == \A r \in Readers : reader[r].phase # "check"

DiskPrint ==
  [file_count |-> Cardinality(Present),
   max_mtime  |-> Max({0} \cup {files[id].mtime : id \in Present})]
Store_printsLate(r) ==
  /\ reader[r].phase = "store"
  /\ Unlocked
  /\ cache' = [rules |-> reader[r].rules, fingerprint |-> DiskPrint]
  /\ reader' = [reader EXCEPT ![r].phase = "done"]
  /\ UNCHANGED <<files, tmp, clock, begun, writer>>
Store(r) ==
  /\ reader[r].phase = "store"
  /\ Unlocked
  /\ cache' = [rules |-> reader[r].rules, fingerprint |-> reader[r].fingerprint]
  /\ reader' = [reader EXCEPT ![r].phase = "done"]
  /\ UNCHANGED <<files, tmp, clock, begun, writer>>

ReadReturn(r) ==
  /\ reader[r].phase = "done"
  /\ reader' = [reader EXCEPT ![r] = Idle]
  /\ UNCHANGED <<files, tmp, clock, begun, cache, writer>>

-----------------------------------------------------------------------------
(***************************************************************************)
(* The writers. `id` is 0 when the writer is idle.                         *)
(***************************************************************************)
Resting == [pc |-> "idle", op |-> "update", id |-> 0, num |-> 0]

Begin(w, op, id, pc) ==
  /\ <<op, id>> \in Ops[w]
  /\ writer[w].pc = "idle"
  /\ begun < MaxWrites
  /\ begun' = begun + 1
  /\ writer' = [writer EXCEPT ![w] = [pc |-> pc, op |-> op, id |-> id, num |-> begun']]
  /\ UNCHANGED <<files, tmp, clock, cache, reader>>

NextId_lastUsed == Max({0} \cup Present)

\* next_id_in_dir
NextId == Max({0} \cup Present) + 1

\* create_rule: the id is chosen now, the file appears later.
CreateBegin(w) == w \notin External /\ NextId <= MaxId /\ Begin(w, "create", NextId, "write")

\* create_rule_with_id, which only the command line uses, with an id the
\* configuration file gives.
CreateWithIdBegin(w, id) ==
  w \in External /\ ~Exists(id) /\ Begin(w, "createWithId", id, "write")

\* update_rule, which toggle_rule and batch_toggle_rules end with.
UpdateBegin(w, id) == Exists(id) /\ Begin(w, "update", id, "write")

\* delete_rule
DeleteBegin(w, id) ==
  w \notin External /\ Begin(w, "delete", id, IF Exists(id) THEN "remove" ELSE "invalidate")

Finished(w) == [writer EXCEPT ![w] = Resting]
Written(w) ==
  IF w \in External THEN Finished(w) ELSE [writer EXCEPT ![w].pc = "invalidate"]

\* What the calls in progress may serve from now on.
Witnessed(id, content) ==
  [r \in Readers |->
     IF reader[r].phase \in {"idle", "done"} THEN reader[r]
     ELSE [reader[r] EXCEPT !.past[id] = @ \cup {content}]]

\* write_json_atomic: write the temporary file, whose modification time is now ...
WriteTmp(w) ==
  /\ writer[w].pc = "write"
  /\ clock' \in IF FineClock \/ clock = 0 THEN {clock + 1} ELSE {clock, clock + 1}
  /\ tmp' = [tmp EXCEPT ![writer[w].id] = [content |-> writer[w].num, mtime |-> clock']]
  /\ writer' = [writer EXCEPT ![w].pc = "rename"]
  /\ UNCHANGED <<files, begun, cache, reader>>

\* ... and rename it, which keeps that time.
Rename(w) ==
  LET id == writer[w].id
  IN  /\ writer[w].pc = "rename"
      /\ tmp[id] # None
      /\ files' = [files EXCEPT ![id] = tmp[id]]
      /\ tmp' = [tmp EXCEPT ![id] = None]
      /\ reader' = Witnessed(id, tmp[id].content)
      /\ writer' = Written(w)
      /\ UNCHANGED <<clock, begun, cache>>

Remove(w) ==
  LET id == writer[w].id
  IN  /\ writer[w].pc = "remove"
      /\ Exists(id)
      /\ files' = [files EXCEPT ![id] = None]
      /\ reader' = Witnessed(id, 0)
      /\ writer' = [writer EXCEPT ![w].pc = "invalidate"]
      /\ UNCHANGED <<tmp, clock, begun, cache>>

\* A step on the files fails: another writer has renamed the temporary file or removed
\* the rule, the disk is full, or the command line process is killed. The operation ends.
Fails(w) ==
  /\ writer[w].pc \in {"write", "rename", "remove"}
  /\ writer' = Finished(w)
  /\ UNCHANGED <<files, tmp, clock, begun, cache, reader>>

\* invalidate_rules_cache
Invalidate(w) ==
  /\ writer[w].pc = "invalidate"
  /\ Unlocked
  /\ cache' = None
  /\ writer' = Finished(w)
  /\ UNCHANGED <<files, tmp, clock, begun, reader>>

\* The proxy stops and starts again, without a cache. Temporary files may stay.
Restart ==
  /\ cache' = None
  /\ reader' = [r \in Readers |-> Idle]
  /\ writer' = [w \in Writers |-> IF w \in External THEN writer[w] ELSE Resting]
  /\ UNCHANGED <<files, tmp, clock, begun>>

-----------------------------------------------------------------------------
\* The rules of an earlier run of the proxy are there.
Init ==
  /\ \E kept \in SUBSET Ids :
       files = [id \in Ids |->
                  IF id \in kept THEN [content |-> MaxWrites + 1, mtime |-> 0] ELSE None]
  /\ tmp = [id \in Ids |-> None]
  /\ clock = 0
  /\ begun = 0
  /\ cache = None
  /\ reader = [r \in Readers |-> Idle]
  /\ writer = [w \in Writers |-> Resting]

Read(r) ==
  \/ ReadBegin(r) \/ CheckEnd(r) \/ PrintEnd(r) \/ LoadEnd(r)
  \/ ReadFails(r) \/ Store(r) \/ ReadReturn(r)
  \/ \E id \in Ids : PrintFile(r, id) \/ LoadFile(r, id)

Write(w) ==
  \/ CreateBegin(w)
  \/ \E id \in Ids : CreateWithIdBegin(w, id) \/ UpdateBegin(w, id) \/ DeleteBegin(w, id)
  \/ WriteTmp(w) \/ Rename(w) \/ Remove(w) \/ Fails(w) \/ Invalidate(w)

Next == (\E r \in Readers : Read(r)) \/ (\E w \in Writers : Write(w)) \/ Restart

Spec == Init /\ [][Next]_vars

-----------------------------------------------------------------------------
(***************************************************************************)
(* Properties.                                                             *)
(***************************************************************************)
File == [content : Content, mtime : Nat]

\* Types. A writer at work has a rule id, and ids are positive.
TypeOK ==
  /\ files \in [Ids -> File \cup {None}]
  /\ tmp \in [Ids -> File \cup {None}]
  /\ clock \in Nat
  /\ begun \in 0 .. MaxWrites
  /\ cache \in RulesCacheState \cup {None}
  /\ reader \in [Readers -> [phase : {"idle", "check", "print", "load", "store", "done"},
                             due : SUBSET Ids, seen : SUBSET Ids,
                             fingerprint : RulesDirFingerprint,
                             rules : [Ids -> Content],
                             past : [Ids -> SUBSET Content], calm : BOOLEAN]]
  /\ writer \in [Writers -> [pc : {"idle", "write", "rename", "remove", "invalidate"},
                             op : WriterOps, id : Ids \cup {0},
                             num : 0 .. MaxWrites]]
  /\ \A w \in Writers : writer[w].pc # "idle" => writer[w].id \in Ids

\* A request is served each rule as it was on disk at some time while the rules were
\* asked for, whether they come from the files or from the cache.
AsOnDisk(call) == \A id \in Ids : call.rules[id] \in call.past[id]

ServedAsOnDisk == \A r \in Readers : reader[r].phase = "done" => AsOnDisk(reader[r])

\* "The running proxy reloads rules from disk automatically on the next request": the
\* same, of requests that come when no change of a rule is in progress. (The code
\* does not provide it for every sequence of changes: see the README.)
NextRequestReloads ==
  \A r \in Readers : reader[r].phase = "done" /\ reader[r].calm => AsOnDisk(reader[r])

\* Creating a rule never replaces another: an id is allocated to one rule.
CreateReplacesNothing ==
  [][\A w \in Writers :
       /\ writer[w].op \in {"create", "createWithId"}
       /\ writer[w].pc = "rename"
       /\ writer'[w] # writer[w]
       => \A id \in Present : files'[id] = files[id]]_vars
=============================================================================
