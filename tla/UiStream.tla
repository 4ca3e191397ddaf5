------------------------------ MODULE UiStream ------------------------------
(***************************************************************************)
(* How a browser learns of exchanges: the websocket session                *)
(* (net_request_ws.rs: message_events_ws_handler) and the browser's store  *)
(* (stores/modules/request-stream.store.ts).                               *)
(*                                                                         *)
(* The events of the proxy go to the cache and to a receiver of each       *)
(* session, from its connection on, which the session empties only while   *)
(* it is subscribed and which loses its oldest events when full. To        *)
(* subscribe is also to be given the requests of the cache no one has been *)
(* given yet. What the browser shows is the merge of the two.              *)
(*                                                                         *)
(* An exchange is a request start, a response start, Chunks chunks of the  *)
(* response and an end. The channel is a log; the cache and the receiver   *)
(* are positions in it. The cache is MessageEventStore with nothing        *)
(* evicted and its answers taken in one step.                              *)
(***************************************************************************)
EXTENDS Integers, Sequences, SequencesExt, FiniteSets

CONSTANTS
  TraceIds,    \* exchanges
  Chunks,      \* chunks of a response
  Capacity,    \* of the session's receiver
  MaxLogSize,  \* records the browser lists
  Nothing,     \* no record
  WireCapacity,\* frames on their way to the browser, beyond which the session waits
  MaxToggles,  \* bound: times the user turns the stream on or off
  MaxBreaks    \* bound: times the connection is lost

VARIABLES
  log,       \* the events published
  stored,    \* how many of them the cache has
  given,     \* exchanges of the cache that are no longer new
  session,   \* the websocket session: subscribed, next event of its receiver
  requests,  \* calls on their way to the session
  wire,      \* frames on their way to the browser
  listening, \* whether the browser takes events
  records,   \* the browser's records
  order,     \* traceOrder
  uses,      \* toggles and breaks so far
  doubtful   \* history: exchanges the browser has seen too much or too little of

vars == <<log, stored, given, session, requests, wire, listening, records, order, uses, doubtful>>
browser == <<listening, records, order>>

LastEvent == Chunks + 3
EventOf(n) == CASE n = 1 -> "request/start" [] n = 2 -> "response/start" [] n = LastEvent -> "response/end"
                [] OTHER -> "response/body"

\* The events of an exchange in a part of the log are numbered in order.
Happened(id, upTo) == Cardinality({i \in 1 .. upTo : log[i].id = id})
Between(from, to) == {log[i].id : i \in from .. to}

Closed == [open |-> FALSE, subscribed |-> FALSE, next |-> 1]

Init ==
  /\ log = << >> /\ stored = 0 /\ given = {}
  /\ session = Closed
  /\ requests = << >> /\ wire = << >>
  /\ listening = FALSE
  /\ records = [id \in TraceIds |-> Nothing]
  /\ order = << >>
  /\ uses = [toggles |-> 0, breaks |-> 0]
  /\ doubtful = {}

-----------------------------------------------------------------------------
(***************************************************************************)
(* The proxy.                                                              *)
(***************************************************************************)
Publish ==
  \E id \in TraceIds :
    /\ Happened(id, Len(log)) < LastEvent
    /\ log' = Append(log, [id |-> id, n |-> Happened(id, Len(log)) + 1])
    /\ UNCHANGED <<stored, given, session, requests, wire, browser, uses, doubtful>>

StoreEvent ==
  /\ stored < Len(log)
  /\ stored' = stored + 1
  /\ UNCHANGED <<log, given, session, requests, wire, browser, uses, doubtful>>

\* The receiver begins at the end of the log.
Connect ==
  /\ ~session.open
  /\ session' = [open |-> TRUE, subscribed |-> FALSE, next |-> Len(log) + 1]
  /\ UNCHANGED <<log, stored, given, requests, wire, browser, uses, doubtful>>

Snapshot == {id \in TraceIds \ given : Happened(id, stored) > 0}

Subscribe_ifAnyNew ==
  /\ session.open /\ requests # << >> /\ Head(requests) = "subscribe" /\ Len(wire) < WireCapacity
  /\ requests' = Tail(requests)
  /\ session' = [session EXCEPT !.subscribed = Snapshot # {}]
  /\ wire' = Append(wire, [kind |-> "snapshot", seen |-> [id \in Snapshot |-> Happened(id, stored)]])
  /\ given' = given \cup Snapshot
  /\ doubtful' = doubtful
       \cup (Snapshot \cap Between(session.next, stored))
       \cup Between(stored + 1, session.next - 1)
  /\ UNCHANGED <<log, stored, browser, uses>>

\* REQUEST_STREAM_SUBSCRIBE. Where the cache and the receiver are not at the same event,
\* the browser will see the events between them twice, or not at all.
Subscribe ==
  /\ session.open /\ requests # << >> /\ Head(requests) = "subscribe" /\ Len(wire) < WireCapacity
  /\ requests' = Tail(requests)
  /\ session' = [session EXCEPT !.subscribed = TRUE]
  /\ wire' = Append(wire, [kind |-> "snapshot", seen |-> [id \in Snapshot |-> Happened(id, stored)]])
  /\ given' = given \cup Snapshot
  /\ doubtful' = doubtful
       \cup (Snapshot \cap Between(session.next, stored))
       \cup Between(stored + 1, session.next - 1)
  /\ UNCHANGED <<log, stored, browser, uses>>

Unsubscribe ==
  /\ session.open /\ requests # << >> /\ Head(requests) = "unsubscribe"
  /\ requests' = Tail(requests)
  /\ session' = [session EXCEPT !.subscribed = FALSE]
  /\ UNCHANGED <<log, stored, given, wire, browser, uses, doubtful>>

Ready == session.open /\ session.subscribed /\ session.next <= Len(log)
Oldest == Len(log) - Capacity + 1

\* RecvError::Lagged: the events skipped are gone, and only the log of the proxy says so.
Lagged ==
  /\ Ready /\ session.next < Oldest
  /\ session' = [session EXCEPT !.next = Oldest]
  /\ doubtful' = doubtful \cup Between(session.next, Oldest - 1)
  /\ UNCHANGED <<log, stored, given, requests, wire, browser, uses>>

Forward ==
  /\ Ready /\ session.next >= Oldest /\ Len(wire) < WireCapacity
  /\ wire' = Append(wire, [kind |-> "event", id |-> log[session.next].id, n |-> log[session.next].n])
  /\ session' = [session EXCEPT !.next = @ + 1]
  /\ UNCHANGED <<log, stored, given, requests, browser, uses, doubtful>>

-----------------------------------------------------------------------------
(***************************************************************************)
(* The browser.                                                            *)
(***************************************************************************)
Blank == [url |-> FALSE, status |-> "pending", coded |-> FALSE, chunks |-> << >>]
RecordOf(r) == IF r = Nothing THEN Blank ELSE r

\* What an event makes of a record.
Patched(r, n) ==
  LET old == RecordOf(r) IN
    CASE EventOf(n) = "request/start" -> [old EXCEPT !.url = TRUE, !.status = "pending"]
      [] EventOf(n) = "response/start" -> [old EXCEPT !.status = "success", !.coded = TRUE]
      [] EventOf(n) = "response/body" -> [old EXCEPT !.chunks = Append(@, n)]
      [] OTHER -> [old EXCEPT !.status = IF old.coded THEN "success" ELSE @]

\* The chunks of the cache when it has n events of a request.
CachedChunks(n) == [i \in 1 .. (IF n < 3 THEN 0 ELSE IF n = LastEvent THEN Chunks ELSE n - 2) |-> i + 2]

Cached_appends(r, n) ==
  [url    |-> TRUE,
   status |-> IF n >= 2 THEN "success" ELSE "pending",
   coded  |-> n >= 2 \/ RecordOf(r).coded,
   chunks |-> RecordOf(r).chunks \o CachedChunks(n)]
\* What the browser makes of a request the cache has n events of: bodies are replaced, when
\* there are any.
Cached(r, n) ==
  [url    |-> TRUE,
   status |-> IF n >= 2 THEN "success" ELSE "pending",
   coded  |-> n >= 2 \/ RecordOf(r).coded,
   chunks |-> IF CachedChunks(n) = << >> THEN RecordOf(r).chunks ELSE CachedChunks(n)]

\* A list is the order, the records, and the exchanges that were removed from it.
List == [order |-> order, records |-> records, gone |-> {}]

Shows(l) == order' = l.order /\ records' = l.records /\ doubtful' = doubtful \cup l.gone

Excess_oneMore(o) == IF Len(o) > MaxLogSize + 1 THEN Len(o) - MaxLogSize - 1 ELSE 0
Excess(o) == IF Len(o) > MaxLogSize THEN Len(o) - MaxLogSize ELSE 0

\* trimToMaxLogSize: the records that leave the list are deleted.
Trim(l) ==
  LET kept    == SubSeq(l.order, Excess(l.order) + 1, Len(l.order))
      dropped == Range(l.order) \ Range(kept)
  IN  [order   |-> kept,
       records |-> [id \in TraceIds |-> IF id \in dropped THEN Nothing ELSE l.records[id]],
       gone    |-> l.gone \cup dropped]

PromoteToList(l, id) ==
  Trim(IF id \in Range(l.order) THEN l ELSE [l EXCEPT !.order = Append(@, id)])

\* pruneIfIncomplete: what has no URL when it ends is dropped. The list has it once at most.
ApplyEvent(l, id, n) ==
  LET with == [l EXCEPT !.records[id] = Patched(@, n)] IN
    CASE EventOf(n) = "request/start" -> PromoteToList(with, id)
      [] EventOf(n) = "response/end" /\ ~with.records[id].url ->
           [with EXCEPT !.records[id] = Nothing, !.order = RemoveFirst(@, id)]
      [] OTHER -> with

\* applyCachedSnapshot for one request after the other, each before the list is trimmed.
ApplyCached(l, ids, seen) ==
  LET list[k \in 0 .. Len(ids)] ==
        IF k = 0 THEN l
        ELSE PromoteToList([list[k - 1] EXCEPT !.records[ids[k]] = Cached(@, seen[ids[k]])], ids[k])
  IN  list[Len(ids)]

TakeEvent ==
  /\ wire # << >> /\ Head(wire).kind = "event" /\ listening
  /\ wire' = Tail(wire)
  /\ Shows(ApplyEvent(List, Head(wire).id, Head(wire).n))
  /\ UNCHANGED <<log, stored, given, session, requests, listening, uses>>

\* Nobody listens: the frame is read and dropped.
DropEvent ==
  /\ wire # << >> /\ Head(wire).kind = "event" /\ ~listening
  /\ wire' = Tail(wire)
  /\ doubtful' = doubtful \cup {Head(wire).id}
  /\ UNCHANGED <<log, stored, given, session, requests, browser, uses>>

\* The cache lists its requests in no particular order.
TakeSnapshot ==
  /\ wire # << >> /\ Head(wire).kind = "snapshot"
  /\ wire' = Tail(wire)
  /\ LET seen == Head(wire).seen IN
       \E l \in {ApplyCached(List, ids, seen) : ids \in SetToSeqs(DOMAIN seen)} : Shows(Trim(l))
  /\ UNCHANGED <<log, stored, given, session, requests, listening, uses>>

Toggle == uses.toggles < MaxToggles /\ uses' = [uses EXCEPT !.toggles = @ + 1]

\* start() and subscribe(); also what the view does when a connection is back.
StartStream ==
  /\ session.open /\ ~listening /\ Toggle
  /\ listening' = TRUE
  /\ requests' = Append(requests, "subscribe")
  /\ UNCHANGED <<log, stored, given, session, wire, records, order, doubtful>>

\* stop(): the listener goes first.
StopStream ==
  /\ session.open /\ listening /\ Toggle
  /\ listening' = FALSE
  /\ requests' = Append(requests, "unsubscribe")
  /\ UNCHANGED <<log, stored, given, session, wire, records, order, doubtful>>

\* clear(): the records go, the cache keeps its own.
Clear ==
  /\ Toggle /\ order # << >>
  /\ order' = << >>
  /\ records' = [id \in TraceIds |-> Nothing]
  /\ doubtful' = doubtful \cup {id \in TraceIds : records[id] # Nothing}
  /\ UNCHANGED <<log, stored, given, session, requests, wire, listening>>

\* The connection is lost with all that is on it. Exchanges under way, and those the
\* cache has given to it, will not be given again.
Break ==
  /\ session.open /\ uses.breaks < MaxBreaks
  /\ uses' = [uses EXCEPT !.breaks = @ + 1]
  /\ session' = Closed
  /\ requests' = << >> /\ wire' = << >>
  /\ listening' = FALSE
  /\ doubtful' = doubtful \cup {id \in TraceIds : Happened(id, Len(log)) > 0}
  /\ UNCHANGED <<log, stored, given, records, order>>

SessionStep == Subscribe \/ Unsubscribe \/ Lagged \/ Forward
Server == StoreEvent \/ Connect \/ SessionStep
Browser == TakeEvent \/ DropEvent \/ TakeSnapshot
User == StartStream \/ StopStream \/ Clear

Next == Publish \/ Server \/ Browser \/ User \/ Break

Spec == Init /\ [][Next]_vars

\* The tasks of the proxy and of the browser run; exchanges, users and networks need not.
Fairness == WF_vars(StoreEvent) /\ WF_vars(SessionStep) /\ WF_vars(Browser)
FairSpec == Spec /\ Fairness

-----------------------------------------------------------------------------
TypeOK ==
  /\ stored \in 0 .. Len(log)
  /\ given \subseteq TraceIds
  /\ session.next \in 1 .. Len(log) + 1
  /\ listening \in BOOLEAN
  /\ \A id \in TraceIds : records[id] # Nothing => DOMAIN records[id] = DOMAIN Blank
  /\ doubtful \subseteq TraceIds

\* The list has no request twice, none without a record to show, and no more than the
\* user set.
ListIsShown ==
  /\ Len(order) = Cardinality(Range(order)) /\ Len(order) <= MaxLogSize
  /\ \A id \in Range(order) : records[id] # Nothing /\ records[id].url

\* Of an exchange it has not seen too much or too little of, the browser has a start of
\* the body: every chunk once, in order, none missing.
BodyIsAStart ==
  \A id \in TraceIds \ doubtful :
    records[id] # Nothing => records[id].chunks = [i \in 1 .. Len(records[id].chunks) |-> i + 2]

\* ... and does not show it as pending again once it has been answered.
NoStepBack ==
  \A id \in TraceIds \ doubtful' :
    records[id] # Nothing /\ records[id].status = "success" =>
      records'[id] # Nothing /\ records'[id].status = "success"

\* An exchange that has ended is shown answered and whole, if the stream stays on and
\* the browser has not missed or repeated part of it.
Complete(id) == records[id] # Nothing /\ records[id].status = "success" /\ Len(records[id].chunks) = Chunks

EndedIsShown ==
  \A id \in TraceIds :
    Happened(id, Len(log)) = LastEvent /\ listening ~> Complete(id) \/ id \in doubtful \/ ~listening

\* Both: what is shown of an exchange only grows, and is right.
ShownFaithfully == [][BodyIsAStart' /\ NoStepBack]_vars

=============================================================================
