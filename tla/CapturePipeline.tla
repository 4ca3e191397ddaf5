---------------------------- MODULE CapturePipeline ----------------------------
(***************************************************************************)
(* The capture pipeline: the services that intercept an exchange publish   *)
(* events on a broadcast channel (channel.rs) of bounded capacity; one task *)
(* consumes them and updates the cache (MessageEventStore).                *)
(*                                                                         *)
(* An exchange is several tasks. Its main task runs the layered services   *)
(* (RequestMessageEventService around the gateway, ProxyMessageEventService *)
(* around the upstream call). Beside it run a task per captured body, the  *)
(* task that owns an upgraded connection, and a task per captured          *)
(* websocket message. Each publishes when it is scheduled, so events reach *)
(* the channel in orders no single task decides.                           *)
(***************************************************************************)
EXTENDS Integers, Sequences, FiniteSets

CONSTANTS
  TraceIds, Kind, Readers, None, EvictThreshold, MaxCompletedAge, MaxPendingAge,
  MaxLog, MaxChunk, MaxMsg, MaxTime,   \* see MessageEventStore
  Capacity,                            \* of the broadcast channel: 4096 in the code
  MaxExchanges                         \* bound: exchanges of a behaviour

\* Of the channel, and of the store (StoreAssumption).
ASSUME PipelineAssumption ==
  /\ Capacity \in Nat \ {0}
  /\ Kind \in [TraceIds -> {"http", "ws", "connect"}]
  /\ EvictThreshold \in Nat /\ MaxCompletedAge \in Nat /\ MaxPendingAge \in Nat
  /\ MaxLog \in Nat \ {0} /\ MaxChunk \in Nat /\ MaxMsg \in Nat /\ MaxTime \in Nat

VARIABLES
  cache, now, started, snap,   \* see MessageEventStore
  queue,     \* what the broadcast channel holds for the consumer task
  overrun,   \* history: the consumer has lagged and lost events
  task       \* the tasks of each exchange

Store == INSTANCE MessageEventStore

ASSUME PipelineNone ==
  None \notin Nat \cup Seq(Nat) \cup Store!TunnelStatus \cup Store!WebSocket \cup Store!Entry

storeVars == <<cache, now, started, snap>>
vars == <<cache, now, started, snap, queue, overrun, task>>

(***************************************************************************)
(* The task record of an exchange:                                         *)
(*   main      where its main task is;                                     *)
(*   captured  what CaptureGate::decide answered to the outer service;     *)
(*   req, res  the two body tasks: idle, run or done;                      *)
(*   reqSent, resSent  how many chunks they have published;                *)
(*   conn      the task that owns the upgraded connection;                 *)
(*   relayed   how many websocket messages it has forwarded;               *)
(*   capturing the messages whose capture task has not run yet.            *)
(***************************************************************************)
NewTask ==
  [main |-> "idle", captured |-> FALSE, req |-> "idle", reqSent |-> 0,
   res |-> "idle", resSent |-> 0, conn |-> "none", relayed |-> 0, capturing |-> {}]

MainStates == {"idle", "starting", "routing", "proxying", "answered", "failed",
               "responding", "ending", "aborting", "handshake", "done"}
ConnStates == {"none", "connecting", "intercepting", "upgrading", "failing", "open",
               "closed"}

-----------------------------------------------------------------------------
(***************************************************************************)
(* The channel. A send never waits: when the buffer is full it drops the   *)
(* oldest event, and the receiver, told so by RecvError::Lagged, goes on   *)
(* with the oldest one left.                                               *)
(***************************************************************************)
Event(type, t, num, close) == [type |-> type, id |-> t, num |-> num, close |-> close]

Publish_unbounded(e) ==
  /\ queue' = Append(queue, e)
  /\ overrun' = overrun
  /\ UNCHANGED storeVars
Publish(e) ==
  /\ queue' = Append(IF Len(queue) < Capacity THEN queue ELSE Tail(queue), e)
  /\ overrun' = (overrun \/ Len(queue) = Capacity)
  /\ UNCHANGED storeVars

Emit(t, type) == Publish(Event(type, t, 0, FALSE))
Silent == UNCHANGED <<cache, now, started, snap, queue, overrun>>

\* What the consumer task does with one event.
Handle(e) ==
  \/ e.type = "OnRequestStart" /\ Store!OnRequestStart(e.id)
  \/ e.type = "OnRequestBody" /\ Store!OnRequestBody(e.id, e.num)
  \/ e.type = "OnRequestEnd" /\ Store!OnRequestEnd(e.id)
  \/ e.type = "OnError" /\ Store!OnError(e.id)
  \/ e.type = "OnResponseStart" /\ Store!OnResponseStart(e.id)
  \/ e.type = "OnResponseBody" /\ Store!OnResponseBody(e.id, e.num)
  \/ e.type = "OnWebSocketStart" /\ Store!OnWebSocketStart(e.id)
  \/ e.type = "OnWebSocketError" /\ Store!OnWebSocketError(e.id)
  \/ e.type = "OnWebSocketEnd" /\ Store!OnWebSocketEnd(e.id)
  \/ /\ e.type = "OnWebSocketMessage"
     /\ Store!OnWebSocketMessage(e.id, [num |-> e.num, close |-> e.close])
  \/ e.type = "OnTunnelStart" /\ Store!OnTunnelStart(e.id)
  \/ e.type = "OnTunnelEnd" /\ Store!OnTunnelEnd(e.id)
  \/ /\ e.type \in {"OnRequestBodyEnd", "OnResponseBodyEnd", "OnProxyStart", "OnProxyEnd"}
     /\ UNCHANGED storeVars

Consume ==
  /\ queue # << >>
  /\ Handle(Head(queue))
  /\ queue' = Tail(queue)
  /\ UNCHANGED <<overrun, task>>

-----------------------------------------------------------------------------
(***************************************************************************)
(* The main task, common part. Go moves it; what it publishes is beside.   *)
(***************************************************************************)
Go(t, from, to) == task[t].main = from /\ task' = [task EXCEPT ![t].main = to]

Arrive(t, to) ==
  /\ task[t].main = "idle"
  /\ Cardinality({u \in TraceIds : task[u].main # "idle"}) < MaxExchanges
  /\ task' = [task EXCEPT ![t] = to]
  /\ Silent

\* The gate lets the exchange be captured: dispatch_on_request_start first spawns
\* the task of the request body ...
ReqCaptured(t) ==
  Arrive(t, [NewTask EXCEPT !.main = "starting", !.captured = TRUE, !.req = "run"])

\* ... and then publishes the start.
RequestStart(t) == Go(t, "starting", "routing") /\ Emit(t, "OnRequestStart")

\* The gate bypasses it: the inner service runs without a guard or a start event.
ReqBypassed(t) == Arrive(t, [NewTask EXCEPT !.main = "routing"])

RequestEnd_skippedOnError(t) ==
  /\ Go(t, "ending", "done")
  /\ IF task[t].captured /\ task[t].res # "idle" THEN Emit(t, "OnRequestEnd") ELSE Silent

\* dispatch_on_request_end, unless the request is a CONNECT or a websocket upgrade.
RequestEnd(t) ==
  /\ Go(t, "ending", "done")
  /\ IF task[t].captured THEN Emit(t, "OnRequestEnd") ELSE Silent

\* The future is dropped while it waits: the guards publish OnError, the inner one
\* (ProxyMessageEventService's) before the outer one.
Cancel(t) ==
  \/ /\ Kind[t] # "connect"
     /\ task[t].main \in {"routing", "handshake"}
     /\ Go(t, task[t].main, "done")
     /\ IF task[t].captured THEN Emit(t, "OnError") ELSE Silent
  \/ /\ Go(t, "proxying", IF task[t].captured THEN "aborting" ELSE "done")
     /\ Emit(t, "OnError")
  \/ Go(t, "aborting", "done") /\ Emit(t, "OnError")

RequestBodyChunk_lossy(t) ==
  /\ Kind[t] = "http"
  /\ task[t].req = "run"
  /\ task[t].reqSent < MaxChunk
  /\ task' = [task EXCEPT ![t].reqSent = @ + 1]
  /\ Publish(Event("OnRequestBody", t, task[t].reqSent + 1, FALSE)) \/ Silent
RequestBodyChunk_repeats(t) ==
  /\ Kind[t] = "http"
  /\ task[t].req = "run"
  /\ task[t].reqSent < MaxChunk
  /\ \E n \in {task[t].reqSent, task[t].reqSent + 1} :
       task' = [task EXCEPT ![t].reqSent = n]
  /\ Publish(Event("OnRequestBody", t, task[t].reqSent + 1, FALSE))

\* The body tasks. Chunks go through an mpsc channel, in order, and none is skipped.
\* An upgrade or a CONNECT has no body.
RequestBodyChunk(t) ==
  /\ Kind[t] = "http"
  /\ task[t].req = "run"
  /\ task[t].reqSent < MaxChunk
  /\ task' = [task EXCEPT ![t].reqSent = @ + 1]
  /\ Publish(Event("OnRequestBody", t, task[t].reqSent + 1, FALSE))

RequestBodyEnd(t) ==
  /\ task[t].req = "run"
  /\ task' = [task EXCEPT ![t].req = "done"]
  /\ Emit(t, "OnRequestBodyEnd")

ResponseBodyChunk(t) ==
  /\ task[t].res = "run"
  /\ task[t].resSent < MaxChunk
  /\ task' = [task EXCEPT ![t].resSent = @ + 1]
  /\ Publish(Event("OnResponseBody", t, task[t].resSent + 1, FALSE))

ResponseBodyEnd(t) ==
  /\ task[t].res = "run"
  /\ task' = [task EXCEPT ![t].res = "done"]
  /\ Emit(t, "OnResponseBodyEnd")

-----------------------------------------------------------------------------
(***************************************************************************)
(* A plain request: ProxyMessageEventService asks the gate again, so it may *)
(* publish for a bypassed exchange and be silent for a captured one.       *)
(***************************************************************************)
\* The upstream request could not be built, or the second decision is to bypass.
SkipProxyEvents(t) ==
  Kind[t] = "http" /\ Go(t, "routing", "ending") /\ Silent

ProxyStart(t) ==
  Kind[t] = "http" /\ Go(t, "routing", "proxying") /\ Emit(t, "OnProxyStart")

ProxyEnd(t) ==
  \E outcome \in {"answered", "failed"} :
    Go(t, "proxying", outcome) /\ Emit(t, "OnProxyEnd")

ProxyError(t) == Go(t, "failed", "ending") /\ Emit(t, "OnError")

\* dispatch_on_response_start: the body's task is spawned before the event is sent.
SpawnResponseBody(t) ==
  /\ task[t].main = "answered"
  /\ task' = [task EXCEPT ![t].main = "responding", ![t].res = "run"]
  /\ Silent

ResponseStart(t) == Go(t, "responding", "ending") /\ Emit(t, "OnResponseStart")

-----------------------------------------------------------------------------
(***************************************************************************)
(* A websocket upgrade (proxy_ws_inner). No OnRequestEnd follows it.       *)
(***************************************************************************)
\* A rule answers in its place, or it fails before OnWebSocketStart.
WebSocketRefused(t) ==
  Kind[t] = "ws" /\ Go(t, "routing", "done") /\ Silent

WebSocketStart(t) ==
  Kind[t] = "ws" /\ Go(t, "routing", "handshake") /\ Emit(t, "OnWebSocketStart")

\* The upstream request cannot be prepared: the error is returned, no event sent.
PrepareFails(t) == Go(t, "handshake", "done") /\ Silent

Handshake_endsRequest(t) ==
  \E conn \in {"failing", "upgrading"} :
    /\ task[t].main = "handshake"
    /\ task' = [task EXCEPT ![t].main = "ending", ![t].conn = conn]
    /\ Silent

\* The upstream handshake fails (a task is spawned to say so) or succeeds (the
\* relay is spawned). The main task is done either way.
Handshake(t) ==
  \E conn \in {"failing", "upgrading"} :
    /\ task[t].main = "handshake"
    /\ task' = [task EXCEPT ![t].main = "done", ![t].conn = conn]
    /\ Silent

\* The client side of the upgrade completes or fails.
Upgraded(t) ==
  /\ task[t].conn = "upgrading"
  /\ task' = [task EXCEPT ![t].conn = "open"]
  /\ Silent

WebSocketError(t) ==
  /\ task[t].conn \in {"failing", "upgrading"}
  /\ task' = [task EXCEPT ![t].conn = "closed"]
  /\ Emit(t, "OnWebSocketError")

\* The relay forwards a message and spawns a task to capture it.
Relay(t) ==
  /\ Kind[t] = "ws"
  /\ task[t].conn = "open"
  /\ task[t].relayed < MaxMsg
  /\ \E close \in BOOLEAN :
       task' = [task EXCEPT
                  ![t].relayed = @ + 1,
                  ![t].capturing = @ \cup {[num |-> task[t].relayed + 1, close |-> close]}]
  /\ Silent

CaptureMessage(t) ==
  \E m \in task[t].capturing :
    /\ task' = [task EXCEPT ![t].capturing = @ \ {m}]
    /\ Publish(Event("OnWebSocketMessage", t, m.num, m.close))

\* Both directions have ended; captures may still be waiting to run.
WebSocketEnd(t) ==
  /\ Kind[t] = "ws"
  /\ task[t].conn = "open"
  /\ task' = [task EXCEPT ![t].conn = "closed"]
  /\ Emit(t, "OnWebSocketEnd")

-----------------------------------------------------------------------------
(***************************************************************************)
(* A CONNECT (proxy_connect_request): a task is spawned that owns the      *)
(* upgraded connection. No OnRequestEnd follows it.                        *)
(***************************************************************************)
Handoff(t) ==
  /\ Kind[t] = "connect"
  /\ task[t].main = "routing"
  /\ task' = [task EXCEPT ![t].main = "done", ![t].conn = "connecting"]
  /\ Silent

\* HTTPS to be captured, or a websocket: the connection is served here, its
\* requests under trace ids of their own. It ends without an event ...
Intercept(t) ==
  /\ task[t].conn = "connecting"
  /\ task' = [task EXCEPT ![t].conn = "intercepting"]
  /\ Silent

InterceptEnds(t) ==
  /\ task[t].conn = "intercepting"
  /\ task' = [task EXCEPT ![t].conn = "closed"]
  /\ Silent

\* ... unless serving it fails; likewise the upgrade, the TLS handshake or the
\* connection to the target.
ConnectFails(t) ==
  /\ task[t].conn \in {"connecting", "intercepting"}
  /\ task' = [task EXCEPT ![t].conn = "closed"]
  /\ Emit(t, "OnError")

TunnelStart(t) ==
  /\ task[t].conn = "connecting"
  /\ task' = [task EXCEPT ![t].conn = "open"]
  /\ Emit(t, "OnTunnelStart")

TunnelEnd_onSuccessOnly(t) ==
  /\ Kind[t] = "connect"
  /\ task[t].conn = "open"
  /\ task' = [task EXCEPT ![t].conn = "closed"]
  /\ Emit(t, "OnTunnelEnd") \/ Silent

\* copy_bidirectional returned, with an error or without.
TunnelEnd(t) ==
  /\ Kind[t] = "connect"
  /\ task[t].conn = "open"
  /\ task' = [task EXCEPT ![t].conn = "closed"]
  /\ Emit(t, "OnTunnelEnd")

-----------------------------------------------------------------------------
Init ==
  /\ Store!Init
  /\ queue = << >>
  /\ overrun = FALSE
  /\ task = [t \in TraceIds |-> NewTask]

\* What an exchange begun does by itself: tasks that are ready to run, calls that
\* answer or fail.
Progress(t) ==
  \/ RequestStart(t) \/ RequestEnd(t) \/ Cancel(t)
  \/ RequestBodyChunk(t) \/ RequestBodyEnd(t)
  \/ ResponseBodyChunk(t) \/ ResponseBodyEnd(t)
  \/ SkipProxyEvents(t) \/ ProxyStart(t) \/ ProxyEnd(t) \/ ProxyError(t)
  \/ SpawnResponseBody(t) \/ ResponseStart(t)
  \/ WebSocketRefused(t) \/ WebSocketStart(t) \/ PrepareFails(t) \/ Handshake(t)
  \/ Upgraded(t) \/ WebSocketError(t) \/ CaptureMessage(t)
  \/ Handoff(t) \/ Intercept(t) \/ TunnelStart(t)

\* What only its peers decide.
Peer(t) ==
  \/ ReqCaptured(t) \/ ReqBypassed(t)
  \/ Relay(t) \/ WebSocketEnd(t)
  \/ InterceptEnds(t) \/ ConnectFails(t) \/ TunnelEnd(t)

Next ==
  \/ \E t \in TraceIds : Progress(t) \/ Peer(t)
  \/ Consume
  \/ \E r \in Readers : Store!Read(r) /\ UNCHANGED <<queue, overrun, task>>
  \/ Store!Tick /\ UNCHANGED <<queue, overrun, task>>

Spec == Init /\ [][Next]_vars

\* tokio runs every ready task, the consumer included.
Fairness == WF_vars(Consume) /\ \A t \in TraceIds : WF_vars(Progress(t))
FairSpec == Spec /\ Fairness

-----------------------------------------------------------------------------
(***************************************************************************)
(* Properties.                                                             *)
(***************************************************************************)
EventTypes ==
  {"OnRequestStart", "OnRequestBody", "OnRequestBodyEnd", "OnRequestEnd", "OnError",
   "OnProxyStart", "OnProxyEnd", "OnResponseStart", "OnResponseBody", "OnResponseBodyEnd",
   "OnWebSocketStart", "OnWebSocketError", "OnWebSocketEnd", "OnWebSocketMessage",
   "OnTunnelStart", "OnTunnelEnd"}

\* Types of the channel and of the tasks; the channel never exceeds its capacity.
TypeOK ==
  /\ queue \in Seq([type : EventTypes, id : TraceIds, num : Nat, close : BOOLEAN])
  /\ Len(queue) <= Capacity
  /\ overrun \in BOOLEAN
  /\ task \in [TraceIds ->
       [main : MainStates, captured : BOOLEAN,
        req : {"idle", "run", "done"}, reqSent : 0 .. MaxChunk,
        res : {"idle", "run", "done"}, resSent : 0 .. MaxChunk,
        conn : ConnStates, relayed : 0 .. MaxMsg,
        capturing : SUBSET [num : 1 .. MaxMsg, close : BOOLEAN]]]

\* An exchange is over for the cache when nothing of it is still running but tasks
\* that copy what has already passed.
Over(t) ==
  /\ task[t].main \in {"ending", "aborting", "done"}
  /\ task[t].conn \in {"none", "closed"}

IsTerminal(t) == cache[t] # None /\ cache[t].status \in Store!Terminal

\* The cache never takes a running exchange for a finished one, and never forgets
\* it: a recorded exchange whose entry is terminal or removed is over, even when
\* the channel has lost events, whatever snapshots the UI takes. This is why the
\* end event is deferred for CONNECT and websocket requests (defer_request_end),
\* whose connection outlives the request.
FinishedMeansOver ==
  \A t \in TraceIds :
    t \in started /\ (cache[t] = None \/ IsTerminal(t)) => Over(t)

\* A captured body is what was transferred: chunks in order, none twice and, while
\* the channel has not overrun, none skipped between two that are there. (The first
\* ones are missing when the body's task runs before the start event is sent.)
Faithful(body) ==
  \A i \in 1 .. Len(body) - 1 :
    /\ body[i] < body[i + 1]
    /\ overrun \/ body[i + 1] = body[i] + 1
BodiesFaithful ==
  \A t \in Store!Present(cache) :
    /\ Faithful(cache[t].request)
    /\ cache[t].response # None => Faithful(cache[t].response)

\* Eviction may remove a plain request or a tunnel that is over and has a terminal
\* status, from that moment: no event that says so comes too late, or before the one
\* that opens the tunnel.
OverIsEvictable ==
  \A t \in Store!Present(cache) :
    Kind[t] # "ws" /\ Over(t) /\ IsTerminal(t) => Store!IsNeedDeleted(cache[t], now)

\* "Always evict completed entries that have exceeded the TTL", of websocket exchanges
\* whose connection is closed: after an insertion no such entry is left. (The code does
\* not provide it: see the README.)
Overdue(c, t) ==
  /\ c[t].status \in Store!Terminal
  /\ Store!OlderThan(c[t], MaxCompletedAge, now)
WebSocketsExpire ==
  [][started' # started =>
       \A t \in Store!Present(cache') :
         Kind[t] = "ws" /\ Over(t) /\ cache'[t].status = "Completed"
           => ~Overdue(cache', t)]_vars

\* Every plain request that is recorded reaches a terminal status, so it can be
\* evicted: an answer, an upstream error, a bypassed proxy and a dropped future
\* all publish an end. An overrun may lose it.
HttpSettles ==
  \A t \in TraceIds :
    Kind[t] = "http" /\ t \in started ~> cache[t] = None \/ IsTerminal(t) \/ overrun

\* A tunnel shown as connected is shown as disconnected, and may be evicted, once
\* the connection is closed.
TunnelSettles ==
  \A t \in TraceIds :
    cache[t] # None /\ cache[t].tunnel = "Connected" /\ task[t].conn = "closed"
      ~> cache[t] = None \/ cache[t].tunnel = "Disconnected" \/ overrun

\* The consumer applies the handlers of the cache and nothing else: whatever the
\* store guarantees for events in any order, it guarantees behind this channel.
StoreSpec == Store!Spec
===============================================================================
