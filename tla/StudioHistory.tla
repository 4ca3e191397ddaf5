---------------------------- MODULE StudioHistory ----------------------------
(***************************************************************************)
(* The request history of the API studio (dao/api_studio/history.rs): a    *)
(* file per entry. Listing reads every file of the directory, the          *)
(* temporary ones of entries being written too; appending writes the entry *)
(* and then removes the oldest above the limit.                            *)
(*                                                                         *)
(* An entry is the number that orders it by sent_at; a file holds an entry *)
(* or, just truncated, nothing.                                            *)
(***************************************************************************)
EXTENDS Naturals, FiniteSets

CONSTANTS
  EntryIds,      \* entries, the later sent the greater
  Clients,       \* HTTP requests at work at the same time
  HistoryMax,    \* MAX_HISTORY_LIMIT
  MaxHistoryOps  \* bound: requests

VARIABLES
  kept,     \* entries whose file is there
  blank,    \* temporary files that are truncated
  staged,   \* temporary files that are written
  job,      \* what each client's request is doing
  jobs,     \* requests so far
  removed,  \* history: entries removed by the trimming of another append, or on request
  untidy    \* history: requests have overlapped, or the proxy has stopped

vars == <<kept, blank, staged, job, jobs, removed, untidy>>

NoJob == [phase |-> "idle", entry |-> 0, due |-> {}, seen |-> {}, ok |-> TRUE]

\* Files by name: an entry's own, and its temporary one.
FilesThere == {<<e, "json">> : e \in kept} \cup {<<e, "tmp">> : e \in blank \cup staged}

Arrive(c) ==
  /\ job[c].phase = "idle" /\ jobs < MaxHistoryOps
  /\ jobs' = jobs + 1
  /\ untidy' = (untidy \/ \E d \in Clients : job[d].phase # "idle")
  /\ UNCHANGED <<kept, blank, staged>>

Set(c, j) == job' = [job EXCEPT ![c] = j]
Ends(c) == Set(c, NoJob)

\* load_all: for the answer of list, or for trimming.
LoadAll(j, phase) == [j EXCEPT !.phase = phase, !.due = FilesThere, !.seen = {}]

list(c) == Arrive(c) /\ Set(c, LoadAll(NoJob, "list")) /\ UNCHANGED removed

append(c) ==
  \E e \in EntryIds \ (kept \cup blank \cup staged \cup removed) :
    /\ Arrive(c) /\ UNCHANGED removed
    /\ \A d \in Clients : job[d].entry # e
    /\ Set(c, [NoJob EXCEPT !.phase = "open", !.entry = e])

delete(c) ==
  /\ job[c].phase = "idle" /\ jobs < MaxHistoryOps
  /\ \E e \in kept : kept' = kept \ {e} /\ removed' = removed \cup {e}
  /\ jobs' = jobs + 1
  /\ untidy' = (untidy \/ \E d \in Clients : job[d].phase # "idle")
  /\ UNCHANGED <<blank, staged, job>>

clear_all(c) == Arrive(c) /\ Set(c, [NoJob EXCEPT !.phase = "clear", !.due = FilesThere]) /\ UNCHANGED removed

\* write_json_atomic of the entry.
OpenEntry(c) ==
  /\ job[c].phase = "open"
  /\ blank' = blank \cup {job[c].entry}
  /\ Set(c, [job[c] EXCEPT !.phase = "write"])
  /\ UNCHANGED <<kept, staged, jobs, removed, untidy>>

WriteEntry(c) ==
  /\ job[c].phase = "write"
  /\ blank' = blank \ {job[c].entry}
  /\ staged' = IF job[c].entry \in blank THEN staged \cup {job[c].entry} ELSE staged
  /\ Set(c, [job[c] EXCEPT !.phase = "rename"])
  /\ UNCHANGED <<kept, jobs, removed, untidy>>

RenameEntry(c) ==
  LET e == job[c].entry
  IN  /\ job[c].phase = "rename"
      /\ IF e \in staged
         THEN /\ staged' = staged \ {e} /\ kept' = kept \cup {e}
              /\ Set(c, [job[c] EXCEPT !.phase = "trim"])
         ELSE Ends(c) /\ UNCHANGED <<kept, staged>>
      /\ UNCHANGED <<blank, jobs, removed, untidy>>

TrimBegin(c) ==
  /\ job[c].phase = "trim"
  /\ Set(c, LoadAll(job[c], "trim scan"))
  /\ UNCHANGED <<kept, blank, staged, jobs, removed, untidy>>

Excess_newest(seen) == {f \in seen : Cardinality({g \in seen : g[1] <= f[1]}) > HistoryMax}

\* The newest HistoryMax of those seen stay.
Excess(seen) == {f \in seen : Cardinality({g \in seen : g[1] >= f[1]}) > HistoryMax}

\* One file of load_all. A truncated one is no JSON and ends the call with an
\* error; one that has gone may do the same.
ReadEntry(c) ==
  /\ job[c].phase \in {"list", "trim scan"}
  /\ \E f \in job[c].due :
       IF f \in FilesThere /\ ~(f[2] = "tmp" /\ f[1] \in blank)
       THEN Set(c, [job[c] EXCEPT !.due = @ \ {f}, !.seen = @ \cup {f}])
       ELSE \/ Set(c, [job[c] EXCEPT !.phase = "done", !.due = {}, !.ok = FALSE])
            \/ f \notin FilesThere /\ Set(c, [job[c] EXCEPT !.due = @ \ {f}])
  /\ UNCHANGED <<kept, blank, staged, jobs, removed, untidy>>

Loaded(c) ==
  /\ job[c].phase \in {"list", "trim scan"} /\ job[c].due = {}
  /\ IF job[c].phase = "list"
     THEN Set(c, [job[c] EXCEPT !.phase = "done"])
     ELSE Set(c, [job[c] EXCEPT !.phase = "remove", !.due = Excess(job[c].seen)])
  /\ UNCHANGED <<kept, blank, staged, jobs, removed, untidy>>

\* trim_to_limit removes the file of an entry by its id, clear_all any file.
RemoveFile(c) ==
  /\ job[c].phase \in {"remove", "clear"}
  /\ \E f \in job[c].due :
       /\ removed' = IF f[2] = "json" \/ job[c].phase = "remove" THEN removed \cup {f[1]} ELSE removed
       /\ IF job[c].phase = "remove" \/ f[2] = "json"
          THEN kept' = kept \ {f[1]} /\ UNCHANGED <<blank, staged>>
          ELSE blank' = blank \ {f[1]} /\ staged' = staged \ {f[1]} /\ UNCHANGED kept
       /\ IF f \in FilesThere \/ job[c].phase = "remove"
          THEN Set(c, [job[c] EXCEPT !.due = @ \ {f}])
          ELSE Set(c, [job[c] EXCEPT !.phase = "done", !.due = {}, !.ok = FALSE])
  /\ UNCHANGED <<jobs, untidy>>

Removed(c) ==
  /\ job[c].phase \in {"remove", "clear"} /\ job[c].due = {}
  /\ Set(c, [job[c] EXCEPT !.phase = "done"])
  /\ UNCHANGED <<kept, blank, staged, jobs, removed, untidy>>

Reply(c) ==
  /\ job[c].phase = "done"
  /\ Ends(c)
  /\ UNCHANGED <<kept, blank, staged, jobs, removed, untidy>>

\* The proxy stops; its temporary files stay.
HistoryCrash ==
  /\ \E c \in Clients : job[c].phase # "idle"
  /\ job' = [c \in Clients |-> NoJob]
  /\ untidy' = TRUE
  /\ UNCHANGED <<kept, blank, staged, jobs, removed>>

Init ==
  /\ kept = {} /\ blank = {} /\ staged = {} /\ removed = {}
  /\ job = [c \in Clients |-> NoJob]
  /\ jobs = 0 /\ untidy = FALSE

Next ==
  \/ \E c \in Clients :
       \/ list(c) \/ append(c) \/ delete(c) \/ clear_all(c)
       \/ OpenEntry(c) \/ WriteEntry(c) \/ RenameEntry(c) \/ TrimBegin(c)
       \/ ReadEntry(c) \/ Loaded(c) \/ RemoveFile(c) \/ Removed(c) \/ Reply(c)
  \/ HistoryCrash

Spec == Init /\ [][Next]_vars

-----------------------------------------------------------------------------
TypeOK ==
  /\ kept \subseteq EntryIds /\ blank \cup staged \subseteq EntryIds /\ removed \subseteq EntryIds
  /\ \A c \in Clients : job[c].seen \subseteq EntryIds \X {"json", "tmp"}

(***************************************************************************)
(* The history is bounded, and every request succeeds, as long as requests *)
(* come one at a time and the proxy does not stop in one: a temporary file *)
(* left behind would be listed, would make every listing and trimming fail *)
(* if it is blank, and is removed by clear_all only.                       *)
(***************************************************************************)
HistoryBounded ==
  ~untidy => /\ Cardinality(kept) <= HistoryMax + Cardinality({c \in Clients : job[c].phase # "idle"})
             /\ \A c \in Clients : job[c].ok
             /\ (\A c \in Clients : job[c].phase = "idle") => blank \cup staged = {}

(***************************************************************************)
(* Trimming removes the oldest: when an append has removed an entry, as    *)
(* many as the limit were newer when it looked, those it saw in temporary  *)
(* files included, whatever other requests do at the same time.            *)
(***************************************************************************)
TrimSparesNewest ==
  \A c \in Clients, e \in kept \ kept' :
    job[c].phase = "remove" /\ job'[c] # job[c]
      => Cardinality({f \in job[c].seen : f[1] > e}) >= HistoryMax

\* The history is bounded, and what leaves it is the oldest.
HistoryTrimmed == [][HistoryBounded' /\ TrimSparesNewest]_vars

=============================================================================
