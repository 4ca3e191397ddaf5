-------------------------- MODULE MessageEventStore --------------------------
(***************************************************************************)
(* The capture cache: MessageEventCache and MessageEventStoreValue         *)
(* (message_event_store.rs) together with the one function that writes     *)
(* them, handle_message_event_single (event_handler.rs).                   *)
(*                                                                         *)
(* One trace id is one intercepted exchange. Its entry is created by       *)
(* OnRequestStart, changed by the other events and removed by the eviction *)
(* that every insertion ends with, or by a UI snapshot (get_new_requests). *)
(*                                                                         *)
(* This module puts no order on the events: the channel in front of the    *)
(* handler may lose the oldest ones and the senders race with one another, *)
(* so a handler must cope with any event at any time. CapturePipeline adds *)
(* the senders and the channel.                                            *)
(***************************************************************************)
EXTENDS Integers, Sequences, FiniteSets

CONSTANTS
  TraceIds,         \* the exchanges; nanoid ids, so no id is used twice
  Kind,             \* what each exchange is: "http", "ws" or "connect"
  Readers,          \* concurrent callers of get_new_requests
  None,             \* Rust's None
  EvictThreshold,   \* EVICT_THRESHOLD: 10 in the code
  MaxCompletedAge,  \* MAX_COMPLETED_AGE_MS, in clock ticks
  MaxPendingAge,    \* MAX_PENDING_AGE_MS, in clock ticks
  MaxLog,           \* MAX_WEBSOCKET_LOG_MESSAGES: 1000 in the code
  MaxChunk,         \* bound: body chunks an exchange may have
  MaxMsg,           \* bound: websocket messages an exchange may have
  MaxTime           \* bound: clock ticks

ASSUME StoreAssumption ==
  /\ Kind \in [TraceIds -> {"http", "ws", "connect"}]
  /\ EvictThreshold \in Nat
  /\ MaxCompletedAge \in Nat
  /\ MaxPendingAge \in Nat
  /\ MaxLog \in Nat \ {0}
  /\ MaxChunk \in Nat
  /\ MaxMsg \in Nat
  /\ MaxTime \in Nat

VARIABLES
  cache,    \* MessageEventCache.map: the entry of each id, None when there is none
  now,      \* SystemTime::now()
  started,  \* history: the ids whose OnRequestStart has been handled
  snap      \* the running get_new_requests call of each reader

vars == <<cache, now, started, snap>>

(***************************************************************************)
(* Entries. A body is the sequence of the numbers of the chunks appended   *)
(* to it, the websocket log the sequence of the numbers of the messages    *)
(* pushed. Of the twelve timings only request_start is kept.               *)
(***************************************************************************)
Status == {"Initial", "RequestStarted", "Completed", "Error", "Cancelled"}
Terminal == {"Completed", "Error", "Cancelled"}
WebSocketStatus == {"Start", "Connected", "Disconnected", "Error"}
TunnelStatus == {"Connected", "Disconnected"}
WebSocketMessage == [num : 1 .. MaxMsg, close : BOOLEAN]

WebSocket == [status : WebSocketStatus, log : Seq(Nat)]

Entry == [status        : Status,
          is_new        : BOOLEAN,
          request       : Seq(Nat),
          response      : Seq(Nat) \cup {None},
          messages      : WebSocket \cup {None},
          tunnel        : TunnelStatus \cup {None},
          request_start : Nat,
          completed_at  : Nat \cup {None}]

ASSUME NoneAssumption ==
  None \notin Nat \cup Seq(Nat) \cup TunnelStatus \cup WebSocket \cup Entry

\* What OnRequestStart inserts: MessageEventStoreValue::new with the request,
\* the start time and the status set.
NewEntry(t) ==
  [status |-> "RequestStarted", is_new |-> TRUE, request |-> << >>,
   response |-> None, messages |-> None, tunnel |-> None,
   request_start |-> t, completed_at |-> None]

Completed_resets(e, s, t) == [e EXCEPT !.status = s, !.completed_at = t]
Completed_unmarked(e, s, t) == [e EXCEPT !.status = s]

\* mark_completed_at: the first terminal event fixes the time.
Completed(e, s, t) ==
  [e EXCEPT !.status = s,
            !.completed_at = IF @ = None THEN t ELSE @]

TunnelActive(e) == e.tunnel = "Connected"
WebSocketActive(e) ==
  e.messages # None /\ e.messages.status \in {"Start", "Connected"}
HasActiveLongConnection_anyTunnel(e) == e.tunnel # None \/ WebSocketActive(e)
HasActiveLongConnection(e) == TunnelActive(e) \/ WebSocketActive(e)

OlderThan(e, age, t) == e.completed_at # None /\ t - e.completed_at > age

IsNeedDeleted_ignoresConnections(e, t) ==
  e.status \in Terminal \/ OlderThan(e, MaxPendingAge, t)
IsNeedDeleted(e, t) ==
  /\ ~HasActiveLongConnection(e)
  /\ e.status \in Terminal \/ OlderThan(e, MaxPendingAge, t)

-----------------------------------------------------------------------------
(***************************************************************************)
(* insert, which ends with remove_oldest_completed.                        *)
(***************************************************************************)
Present(c) == {id \in TraceIds : c[id] # None}
Deletable(c, t) == {id \in Present(c) : IsNeedDeleted(c[id], t)}
Expired(c, t) == {id \in Deletable(c, t) : OlderThan(c[id], MaxCompletedAge, t)}

\* completed_at.unwrap_or(u64::MAX): an entry without a time is the youngest.
Older(e, f) ==
  /\ e.completed_at # None
  /\ f.completed_at = None \/ e.completed_at < f.completed_at

Oldest_newest(c, ids) == {id \in ids : \A other \in ids : ~Older(c[id], c[other])}
Oldest(c, ids) == {id \in ids : \A other \in ids : ~Older(c[other], c[id])}

Without(c, ids) == [id \in TraceIds |-> IF id \in ids THEN None ELSE c[id]]

Evicted_ttlOnly(c, t) == {Without(c, Expired(c, t))}
Evicted_thresholdOnly(c, t) ==
  LET over == Cardinality(Present(c)) > EvictThreshold
      victims == Oldest(c, Deletable(c, t))
  IN  IF over /\ victims # {} THEN {Without(c, {id}) : id \in victims} ELSE {c}

\* The caches remove_oldest_completed may leave. min_by_key keeps one of the
\* oldest entries; which one depends on the map's iteration order.
Evicted(c, t) ==
  LET kept == Without(c, Expired(c, t))
      over == Cardinality(Present(kept)) > EvictThreshold
      victims == Oldest(kept, Deletable(kept, t))
  IN  IF over /\ victims # {} THEN {Without(kept, {id}) : id \in victims} ELSE {kept}

OnRequestStart(id) ==
  /\ cache' \in Evicted([cache EXCEPT ![id] = NewEntry(now)], now)
  /\ started' = started \cup {id}
  /\ UNCHANGED <<now, snap>>

-----------------------------------------------------------------------------
(***************************************************************************)
(* The other events: each changes the entry of its id, and does nothing    *)
(* when the id has none. OnProxyStart, OnProxyEnd and the ends of the two  *)
(* bodies only stamp timings, which the entries leave out.                 *)
(***************************************************************************)
Become(id, entry) ==
  /\ cache' = IF cache[id] = None THEN cache ELSE [cache EXCEPT ![id] = entry]
  /\ UNCHANGED <<now, started, snap>>

OnRequestBody(id, n) == Become(id, [cache[id] EXCEPT !.request = Append(@, n)])

OnRequestEnd(id) == Become(id, Completed(cache[id], "Completed", now))

OnError(id) == Become(id, Completed(cache[id], "Error", now))

OnResponseStart(id) == Become(id, [cache[id] EXCEPT !.response = << >>])

OnResponseBody(id, n) ==
  Become(id, [cache[id] EXCEPT !.response = IF @ = None THEN None ELSE Append(@, n)])

OnWebSocketStart(id) ==
  Become(id, [cache[id] EXCEPT !.messages = [status |-> "Start", log |-> << >>]])

Logged(ws) == IF ws = None THEN << >> ELSE ws.log

OnWebSocketError(id) ==
  Become(id, [Completed(cache[id], "Completed", now) EXCEPT
                !.messages = [status |-> "Error", log |-> Logged(@)]])

OnWebSocketEnd(id) ==
  Become(id, [Completed(cache[id], "Completed", now) EXCEPT
                !.messages = IF @ = None THEN None
                             ELSE [status |-> "Disconnected", log |-> @.log]])

Pushed_unbounded(log, n) == Append(log, n)

\* push, then drain what exceeds MaxLog from the front.
Pushed(log, n) == IF Len(log) < MaxLog THEN Append(log, n) ELSE Append(Tail(log), n)

OnWebSocketMessage(id, m) ==
  Become(id, [cache[id] EXCEPT
                !.messages = [status |-> IF m.close THEN "Disconnected" ELSE "Connected",
                              log    |-> Pushed(Logged(@), m.num)]])

OnTunnelStart(id) == Become(id, [cache[id] EXCEPT !.tunnel = "Connected"])

OnTunnelEnd(id) ==
  Become(id, [Completed(cache[id], "Completed", now) EXCEPT
                !.tunnel = IF @ = None THEN None ELSE "Disconnected"])

-----------------------------------------------------------------------------
(***************************************************************************)
(* get_new_requests: iter_mut locks one shard at a time, so the scan takes *)
(* the entries one by one; the keys found deletable are removed after it,  *)
(* one by one and without looking at them again.                           *)
(***************************************************************************)
ScanBegin(r) ==
  /\ snap[r].phase = "idle"
  /\ snap' = [snap EXCEPT ![r].phase = "scan", ![r].due = Present(cache)]
  /\ UNCHANGED <<cache, now, started>>

Scanned_sweeps(r, id) ==
  [snap EXCEPT ![r].result = @ \cup {id}, ![r].doomed = @ \cup Deletable(cache, now)]
Scanned(r, id) ==
  [snap EXCEPT ![r].result = @ \cup {id},
               ![r].doomed = IF IsNeedDeleted(cache[id], now) THEN @ \cup {id} ELSE @]

ScanNewEntry_keepsNew(r, id) ==
  /\ snap[r].phase = "scan"
  /\ cache[id] # None
  /\ cache[id].is_new
  /\ snap' = Scanned(r, id)
  /\ UNCHANGED <<cache, now, started>>
ScanNewEntry(r, id) ==
  /\ snap[r].phase = "scan"
  /\ cache[id] # None
  /\ cache[id].is_new
  /\ snap' = Scanned(r, id)
  /\ cache' = [cache EXCEPT ![id].is_new = FALSE]
  /\ UNCHANGED <<now, started>>

\* Entries inserted during the scan may be missed by it; those that were there
\* when it began may not.
ScanEnd(r) ==
  /\ snap[r].phase = "scan"
  /\ {id \in snap[r].due \cap Present(cache) : cache[id].is_new} = {}
  /\ snap' = [snap EXCEPT ![r].phase = "drop", ![r].due = {}]
  /\ UNCHANGED <<cache, now, started>>

DropEntry_dropsReported(r, id) ==
  /\ snap[r].phase = "drop"
  /\ id \in snap[r].result
  /\ snap' = [snap EXCEPT ![r].doomed = @ \ {id}]
  /\ cache' = [cache EXCEPT ![id] = None]
  /\ UNCHANGED <<now, started>>
DropEntry(r, id) ==
  /\ snap[r].phase = "drop"
  /\ id \in snap[r].doomed
  /\ snap' = [snap EXCEPT ![r].doomed = @ \ {id}]
  /\ cache' = [cache EXCEPT ![id] = None]
  /\ UNCHANGED <<now, started>>

Tick ==
  /\ now < MaxTime
  /\ now' = now + 1
  /\ UNCHANGED <<cache, started, snap>>

-----------------------------------------------------------------------------
(***************************************************************************)
(* The environment: which events a kind of exchange can cause. The chunks  *)
(* of a body come from one task over a FIFO channel, hence in order; the   *)
(* messages of a websocket come from one task each, hence in any order.    *)
(***************************************************************************)
FreshChunks(body) == {n \in 1 .. MaxChunk : \A i \in 1 .. Len(body) : body[i] < n}
FreshMessages(ws) ==
  {m \in WebSocketMessage : ws = None \/ \A i \in 1 .. Len(ws.log) : ws.log[i] # m.num}

RequestBodyEvent(id) ==
  /\ cache[id] # None
  /\ \E n \in FreshChunks(cache[id].request) : OnRequestBody(id, n)

HttpEvent(id) ==
  /\ Kind[id] = "http"
  /\ \/ OnRequestEnd(id)
     \/ OnResponseStart(id)
     \/ /\ cache[id] # None
        /\ cache[id].response # None
        /\ \E n \in FreshChunks(cache[id].response) : OnResponseBody(id, n)

WebSocketEvent(id) ==
  /\ Kind[id] = "ws"
  /\ \/ OnWebSocketStart(id)
     \/ OnWebSocketError(id)
     \/ OnWebSocketEnd(id)
     \/ /\ cache[id] # None
        /\ \E m \in FreshMessages(cache[id].messages) : OnWebSocketMessage(id, m)

TunnelEvent(id) ==
  /\ Kind[id] = "connect"
  /\ OnTunnelStart(id) \/ OnTunnelEnd(id)

Read(r) ==
  \/ ScanBegin(r)
  \/ ScanEnd(r)
  \/ \E id \in TraceIds : ScanNewEntry(r, id) \/ DropEntry(r, id)

Init ==
  /\ cache = [id \in TraceIds |-> None]
  /\ now = 0
  /\ started = {}
  /\ snap = [r \in Readers |->
               [phase |-> "idle", due |-> {}, doomed |-> {}, result |-> {}]]

Next ==
  \/ \E id \in TraceIds :
       \/ id \notin started /\ OnRequestStart(id)
       \/ RequestBodyEvent(id)
       \/ OnError(id)
       \/ HttpEvent(id)
       \/ WebSocketEvent(id)
       \/ TunnelEvent(id)
  \/ \E r \in Readers : Read(r)
  \/ Tick

Spec == Init /\ [][Next]_vars

-----------------------------------------------------------------------------
(***************************************************************************)
(* Properties.                                                             *)
(***************************************************************************)

\* The cache maps ids to well-formed entries, no websocket log exceeds
\* MAX_WEBSOCKET_LOG_MESSAGES, and the readers are in known phases.
TypeOK ==
  /\ cache \in [TraceIds -> Entry \cup {None}]
  /\ \A id \in Present(cache) :
       cache[id].messages # None => Len(cache[id].messages.log) <= MaxLog
  /\ now \in Nat
  /\ started \in SUBSET TraceIds
  /\ snap \in [Readers -> [phase  : {"idle", "scan", "drop"},
                          due    : SUBSET TraceIds,
                          doomed : SUBSET TraceIds,
                          result : SUBSET TraceIds]]

\* An entry has a completion time exactly when its status is terminal, and the
\* time lies between its start and the present: every handler that sets a
\* terminal status also calls mark_completed_at, whatever order the events
\* come in, so that eviction can always put the terminal entries in order.
CompletionTimed ==
  \A id \in Present(cache) :
    LET e == cache[id]
    IN  /\ e.status \in Terminal <=> e.completed_at # None
        /\ e.completed_at # None => e.completed_at \in e.request_start .. now

\* Terminal entries stay terminal and keep the time of their first terminal
\* event, whatever late or repeated events follow (mark_completed_at).
TerminalForever ==
  [][\A id \in TraceIds :
       cache[id] # None /\ cache[id].status \in Terminal /\ cache'[id] # None =>
         /\ cache'[id].status \in Terminal
         /\ cache'[id].completed_at = cache[id].completed_at]_vars

\* "Never delete while a long connection is still active": an entry with a live
\* tunnel or websocket is removed by no insertion, neither for its age nor for
\* the threshold. Only a snapshot can remove it, one that found it finished
\* before a late event made it active again.
EvictionSparesActive ==
  [][\A id \in TraceIds :
       /\ cache[id] # None
       /\ HasActiveLongConnection(cache[id])
       /\ cache'[id] = None
       => \E r \in Readers : snap[r].phase = "drop" /\ id \in snap[r].doomed]_vars

\* An insertion that removes an entry before its time removes the one that has
\* been finished longest: no entry that stays could have gone before it.
EvictionTakesOldest ==
  [][started' # started =>
       \A id \in Present(cache) \ Present(cache') :
         \/ OlderThan(cache[id], MaxCompletedAge, now)
         \/ \A other \in Deletable(cache', now) : ~Older(cache'[other], cache[id])]_vars

\* "Always evict completed entries that have exceeded the TTL": after an insertion no
\* entry is finished, too old and without a live connection, whatever the threshold.
ExpiredLeave ==
  [][started' # started =>
       \A id \in Present(cache') :
         cache'[id].status \in Terminal /\ OlderThan(cache'[id], MaxCompletedAge, now')
           => HasActiveLongConnection(cache'[id])]_vars

\* The cache outgrows EVICT_THRESHOLD only when nothing in it may be removed:
\* with a finished entry at hand, an insertion above the threshold frees a slot.
GrowthIsForced ==
  [][Cardinality(Present(cache')) > Cardinality(Present(cache))
     /\ Cardinality(Present(cache')) > EvictThreshold
       => Deletable(cache', now') = {}]_vars

\* Two UI connections that take their snapshots at the same time never both get
\* the same new request: cloning an entry and clearing is_new is one locked step.
ReportedAtMostOnce ==
  \A r1, r2 \in Readers : r1 # r2 => snap[r1].result \cap snap[r2].result = {}

\* An entry that a snapshot, not an insertion, removes has been reported in a
\* snapshot: get_new_requests deletes nothing that no UI has been given.
SnapshotRemovesReported ==
  [][\A id \in TraceIds :
       cache[id] # None /\ cache'[id] = None /\ started' = started
         => \E r \in Readers : id \in snap[r].result]_vars

\* "Safety net: evict entries that have been in a non-terminal state for more than
\* 10 minutes": an entry without an active connection whose start is older than
\* that may be removed. (The code does not provide it: see the README.)
SafetyNet ==
  \A id \in Present(cache) :
    /\ ~HasActiveLongConnection(cache[id])
    /\ now - cache[id].request_start > MaxPendingAge
    => IsNeedDeleted(cache[id], now)

-----------------------------------------------------------------------------
(***************************************************************************)
(* What the cache promises of one exchange, abstractly.                    *)
(***************************************************************************)
life ==
  [id \in TraceIds |->
     CASE id \notin started -> "absent"
       [] id \in started /\ cache[id] = None -> "gone"
       [] id \in started /\ cache[id] # None ->
            IF cache[id].status \in Terminal THEN "terminal" ELSE "pending"]

Lifecycle == INSTANCE EntryLifecycle WITH Ids <- TraceIds

\* The cache implements the life cycle: an entry is created once, becomes
\* terminal, and only then can be removed, for good.
LifecycleSpec == Lifecycle!Spec
=============================================================================
