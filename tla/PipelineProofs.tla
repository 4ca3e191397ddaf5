---------------------------- MODULE PipelineProofs ----------------------------
(***************************************************************************)
(* Proofs about CapturePipeline: for any exchanges, any capacity of the    *)
(* channel and any interleaving of the tasks, the pipeline implements the  *)
(* store and an exchange taken for finished is over.                       *)
(*                                                                         *)
(* What the store guarantees is taken from MessageEventStoreProofs, whose  *)
(* operators are those of Store, instantiated once more as Cache.          *)
(***************************************************************************)
EXTENDS CapturePipeline, TLAPS

Cache == INSTANCE MessageEventStoreProofs

Ends == {"OnRequestEnd", "OnError", "OnWebSocketError", "OnWebSocketEnd", "OnTunnelEnd"}
BodyEvents == {"OnRequestBody", "OnResponseBody"}
OfHttp == {"OnRequestEnd", "OnRequestBody", "OnResponseStart", "OnResponseBody"}
OfWebSocket == {"OnWebSocketStart", "OnWebSocketError", "OnWebSocketEnd", "OnWebSocketMessage"}
OfConnect == {"OnTunnelStart", "OnTunnelEnd"}

EventRecord == [type : EventTypes, id : TraceIds, num : Nat, close : BOOLEAN]
Message == [num : 1 .. MaxMsg, close : BOOLEAN]
Task == [main : MainStates, captured : BOOLEAN,
         req : {"idle", "run", "done"}, reqSent : 0 .. MaxChunk,
         res : {"idle", "run", "done"}, resSent : 0 .. MaxChunk,
         conn : ConnStates, relayed : 0 .. MaxMsg, capturing : SUBSET Message]

-----------------------------------------------------------------------------
(* The tasks of an exchange. *)

Recording(t) == task[t].main \notin {"idle", "starting"}
Tunnelled(t) == task[t].conn \in {"open", "closed"}

(***************************************************************************)
(* Which tasks an exchange of each kind has: the connection is handed over *)
(* when the main task is done, and a CONNECT that is done has handed it    *)
(* over.                                                                   *)
(***************************************************************************)
TaskFits(t) ==
  LET k == task[t]
  IN  /\ k.main = "idle" => k = NewTask
      /\ k.main \in {"proxying", "answered", "failed", "responding", "ending", "aborting"} => Kind[t] = "http"
      /\ k.res # "idle" => Kind[t] = "http"
      /\ k.main = "handshake" => Kind[t] = "ws"
      /\ k.conn # "none" => k.main = "done" /\ Kind[t] # "http"
      /\ k.conn \in {"failing", "upgrading"} => Kind[t] = "ws"
      /\ k.conn \in {"connecting", "intercepting"} => Kind[t] = "connect"
      /\ Kind[t] = "connect" /\ k.main = "done" => k.conn # "none"
      /\ Kind[t] # "ws" => k.capturing = {}
      /\ \A m \in k.capturing : m.num <= k.relayed
      /\ \A m, n \in k.capturing : m.num = n.num => m = n

(***************************************************************************)
(* What an entry of the cache has to do with the tasks.                    *)
(***************************************************************************)
Within(body, sent) == \A i \in DOMAIN body : body[i] \in 1 .. sent
Increasing(body) == \A i \in 1 .. Len(body) - 1 : body[i] < body[i + 1]

EntryFits(t) ==
  LET e == cache[t]
  IN  /\ Within(e.request, task[t].reqSent) /\ Increasing(e.request)
      /\ e.response # None => Within(e.response, task[t].resSent) /\ Increasing(e.response)
      /\ e.messages # None =>
           /\ Kind[t] = "ws"
           /\ Within(e.messages.log, task[t].relayed)
           /\ \A m \in task[t].capturing : \A i \in DOMAIN e.messages.log : e.messages.log[i] # m.num
      /\ e.tunnel # None => Kind[t] = "connect" /\ Tunnelled(t)
      /\ e.status \in Store!Terminal => Over(t) /\ e.tunnel # "Connected"

RecordFits(t) ==
  /\ t \in started => Recording(t)
  /\ IF cache[t] # None THEN t \in started /\ EntryFits(t) ELSE t \in started => Over(t)

(***************************************************************************)
(* What an event in the channel has to do with the tasks and the entry.    *)
(***************************************************************************)
Above(n, body) == \A i \in DOMAIN body : body[i] < n

EventFits(e) ==
  LET k == task[e.id]
      c == cache[e.id]
  IN  /\ e.type \in OfHttp => Kind[e.id] = "http"
      /\ e.type \in OfWebSocket => Kind[e.id] = "ws"
      /\ e.type \in OfConnect => Kind[e.id] = "connect"
      /\ e.type = "OnRequestStart" => e.id \notin started /\ Recording(e.id)
      /\ e.type \in Ends => Over(e.id)
      /\ e.type = "OnRequestBody" => e.num \in 1 .. k.reqSent /\ (c # None => Above(e.num, c.request))
      /\ e.type = "OnResponseBody" =>
           e.num \in 1 .. k.resSent /\ (c # None /\ c.response # None => Above(e.num, c.response))
      /\ e.type = "OnWebSocketMessage" =>
           /\ e.num \in 1 .. k.relayed
           /\ \A m \in k.capturing : m.num # e.num
           /\ c # None /\ c.messages # None =>
                \A i \in DOMAIN c.messages.log : c.messages.log[i] # e.num
      /\ e.type = "OnTunnelStart" => Tunnelled(e.id) /\ (c # None => c.status \notin Store!Terminal)
      /\ e.type = "OnError" /\ Kind[e.id] = "connect" /\ c # None => c.tunnel = None

(***************************************************************************)
(* The order of two events of an exchange: e is in the channel before f.   *)
(***************************************************************************)
InOrder(e, f) ==
  e.id = f.id =>
    /\ e.type = "OnRequestStart" => f.type # "OnRequestStart"
    /\ e.type = f.type /\ e.type \in BodyEvents => e.num < f.num
    /\ e.type = f.type /\ e.type = "OnWebSocketMessage" => e.num # f.num
    /\ e.type = "OnTunnelEnd" => f.type # "OnTunnelStart"
    /\ Kind[e.id] = "connect" => <<e.type, f.type>> \notin {<<"OnError", "OnTunnelStart">>, <<"OnTunnelStart", "OnError">>}

Orderly ==
  /\ \A t \in TraceIds : TaskFits(t) /\ RecordFits(t)
  /\ \A i \in 1 .. Len(queue) : EventFits(queue[i])
  /\ \A i, j \in 1 .. Len(queue) : i < j => InOrder(queue[i], queue[j])

Inv == TypeOK /\ Cache!Inv /\ Orderly

(***************************************************************************)
(* Without an overrun no chunk is missing after one that is there, in the  *)
(* entry or in the channel.                                                *)
(***************************************************************************)
Sent(type, k) == IF type = "OnRequestBody" THEN k.reqSent ELSE k.resSent
Body(type, c) == IF type = "OnRequestBody" THEN c.request ELSE c.response

InChannel(type, t, n) == \E i \in 1 .. Len(queue) : queue[i].type = type /\ queue[i].id = t /\ queue[i].num = n

FollowedUp(e) ==
  e.type \in BodyEvents => \A n \in e.num .. Sent(e.type, task[e.id]) : InChannel(e.type, e.id, n)

Gapless(type, t) ==
  LET body == Body(type, cache[t])
  IN  cache[t] # None /\ body # None =>
        /\ \A i \in 1 .. Len(body) - 1 : body[i + 1] = body[i] + 1
        /\ body # << >> => \A n \in body[Len(body)] + 1 .. Sent(type, task[t]) : InChannel(type, t, n)

Complete ==
  ~overrun =>
    /\ \A i \in 1 .. Len(queue) : FollowedUp(queue[i])
    /\ \A type \in BodyEvents, t \in TraceIds : Gapless(type, t)

-----------------------------------------------------------------------------
(***************************************************************************)
(* The steps of the tasks. Effect says what the rest of the proof needs of *)
(* them: the events they send and when, and what they never take back.     *)
(***************************************************************************)
Sends(t, e) ==
  LET k == task[t]
  IN  /\ Publish(e) /\ e.id = t
      /\ e.type # "OnRequestBody" => task'[t].reqSent = k.reqSent
      /\ e.type # "OnResponseBody" => task'[t].resSent = k.resSent
      /\ e.type = "OnRequestBody" => e.num = k.reqSent + 1 /\ task'[t].reqSent = e.num
      /\ e.type = "OnResponseBody" => e.num = k.resSent + 1 /\ task'[t].resSent = e.num
      /\ e.type \in OfHttp => Kind[t] = "http"
      /\ e.type \in OfWebSocket => Kind[t] = "ws"
      /\ e.type \in OfConnect => Kind[t] = "connect"
      /\ e.type = "OnRequestStart" => ~Recording(t) /\ Recording(t)'
      /\ e.type \in Ends => Over(t)'
      /\ e.type = "OnWebSocketMessage" =>
           \E m \in k.capturing : m.num = e.num /\ m.close = e.close /\ task'[t].capturing = k.capturing \ {m}
      /\ e.type = "OnTunnelStart" => k.conn = "connecting" /\ Tunnelled(t)'
      /\ e.type = "OnError" /\ Kind[t] = "connect" => ~Tunnelled(t)

Effect(t) ==
  LET k == task[t]
      l == task'[t]
  IN  /\ UNCHANGED storeVars
      /\ task' \in [TraceIds -> Task] /\ \A u \in TraceIds \ {t} : task'[u] = task[u]
      /\ TaskFits(t)'
      /\ Over(t) => Over(t)'
      /\ Recording(t) => Recording(t)'
      /\ Tunnelled(t) => Tunnelled(t)'
      /\ k.reqSent <= l.reqSent /\ k.resSent <= l.resSent /\ k.relayed <= l.relayed
      /\ \A m \in l.capturing : m \in k.capturing \/ m.num > k.relayed
      /\ \/ UNCHANGED <<queue, overrun>> /\ l.reqSent = k.reqSent /\ l.resSent = k.resSent
         \/ \E e \in EventRecord : Sends(t, e)

TasksTyped == task \in [TraceIds -> Task] /\ \A t \in TraceIds : TaskFits(t)

\* A step of the main task: everything but where it is stays.
LEMMA GoEffect ==
  ASSUME TasksTyped, NEW t \in TraceIds, NEW from, NEW to \in MainStates, Go(t, from, to)
  PROVE  /\ task' \in [TraceIds -> Task] /\ \A u \in TraceIds \ {t} : task'[u] = task[u]
         /\ task[t].main = from /\ task'[t].main = to
         /\ task'[t].captured = task[t].captured
         /\ task'[t].req = task[t].req /\ task'[t].reqSent = task[t].reqSent
         /\ task'[t].res = task[t].res /\ task'[t].resSent = task[t].resSent
         /\ task'[t].conn = task[t].conn /\ task'[t].relayed = task[t].relayed
         /\ task'[t].capturing = task[t].capturing
<1>1. task[t] \in Task
  BY DEF TasksTyped
<1>2. task' = [task EXCEPT ![t] = [task[t] EXCEPT !.main = to]] /\ task[t].main = from
  BY DEF Go, TasksTyped
<1>3. [task[t] EXCEPT !.main = to] \in Task
  BY <1>1 DEF Task
<1> QED
  BY <1>1, <1>2, <1>3 DEF TasksTyped, Task

\* The task record of an exchange, and the types of its counters.
LEMMA TaskBounds ==
  ASSUME TasksTyped, NEW t \in TraceIds
  PROVE  /\ task[t] \in Task /\ TaskFits(t)
         /\ task[t].reqSent \in Nat /\ task[t].resSent \in Nat /\ task[t].relayed \in Nat
         /\ \A m \in task[t].capturing : m \in Message /\ m.num \in Nat
BY PipelineAssumption DEF TasksTyped, Task, Message

(***************************************************************************)
(* The main task moves on without a word, or says what it does.            *)
(***************************************************************************)
LEMMA MainEffect ==
  ASSUME TasksTyped, NEW t \in TraceIds, NEW from, NEW to \in MainStates \ {"idle", "starting"}, Go(t, from, to),
         from \notin {"idle", "done"},
         to \in {"proxying", "answered", "failed", "responding", "ending", "aborting"} => Kind[t] = "http",
         to = "handshake" => Kind[t] = "ws",
         to = "done" => Kind[t] # "connect",
         from \in {"ending", "aborting"} => to \in {"aborting", "done"},
         \/ Silent
         \/ \E type \in EventTypes :
              /\ Emit(t, type)
              /\ type \notin {"OnRequestBody", "OnResponseBody", "OnWebSocketMessage", "OnTunnelStart", "OnTunnelEnd",
                              "OnWebSocketError", "OnWebSocketEnd"}
              /\ type \in OfHttp => Kind[t] = "http"
              /\ type = "OnWebSocketStart" => Kind[t] = "ws"
              /\ type = "OnRequestStart" => from = "starting"
              /\ type \in Ends => to \in {"ending", "aborting", "done"}
  PROVE  Effect(t)
<1>1. /\ task' \in [TraceIds -> Task] /\ \A u \in TraceIds \ {t} : task'[u] = task[u]
      /\ task[t].main = from /\ task'[t].main = to
      /\ task'[t].captured = task[t].captured
      /\ task'[t].req = task[t].req /\ task'[t].reqSent = task[t].reqSent
      /\ task'[t].res = task[t].res /\ task'[t].resSent = task[t].resSent
      /\ task'[t].conn = task[t].conn /\ task'[t].relayed = task[t].relayed
      /\ task'[t].capturing = task[t].capturing
  BY GoEffect
<1>2. TaskFits(t)' /\ task[t].conn = "none"
  BY <1>1, TaskBounds DEF TaskFits
<1>3. /\ Over(t) => Over(t)'
      /\ Recording(t)'
      /\ Tunnelled(t) => Tunnelled(t)'
      /\ to \in {"ending", "aborting", "done"} => Over(t)'
      /\ from = "starting" => ~Recording(t)
      /\ ~Tunnelled(t)
  BY <1>1, <1>2 DEF Over, Recording, Tunnelled
<1>4. UNCHANGED storeVars
  BY DEF Silent, Emit, Publish, storeVars
<1>5. \/ UNCHANGED <<queue, overrun>>
      \/ \E e \in EventRecord : Sends(t, e)
  <2>1. CASE Silent
    BY <2>1 DEF Silent
  <2>2. ASSUME NEW type \in EventTypes,
               Emit(t, type),
               type \notin {"OnRequestBody", "OnResponseBody", "OnWebSocketMessage", "OnTunnelStart", "OnTunnelEnd",
                              "OnWebSocketError", "OnWebSocketEnd"},
               type \in OfHttp => Kind[t] = "http",
               type = "OnWebSocketStart" => Kind[t] = "ws",
               type = "OnRequestStart" => from = "starting",
               type \in Ends => to \in {"ending", "aborting", "done"}
        PROVE  \E e \in EventRecord : Sends(t, e)
    <3> DEFINE e == Event(type, t, 0, FALSE)
    <3>1. e \in EventRecord /\ e.id = t /\ e.type = type
      BY DEF Event, EventRecord
    <3>2. Publish(e)
      BY <2>2 DEF Emit
    <3> HIDE DEF e
    <3>3. Sends(t, e)
      BY <1>1, <1>3, <2>2, <3>1, <3>2 DEF Sends, OfWebSocket, OfConnect
    <3> QED
      BY <3>1, <3>3
  <2> QED
    BY <2>1, <2>2
<1> QED
  BY <1>1, <1>2, <1>3, <1>4, <1>5, TaskBounds DEF Effect

\* Every action of the main task is one of these moves.
LEMMA MainSteps ==
  ASSUME TasksTyped, NEW t \in TraceIds,
         \/ RequestStart(t) \/ RequestEnd(t) \/ Cancel(t) \/ SkipProxyEvents(t) \/ ProxyStart(t) \/ ProxyEnd(t)
         \/ ProxyError(t) \/ ResponseStart(t) \/ WebSocketRefused(t) \/ WebSocketStart(t) \/ PrepareFails(t)
  PROVE  Effect(t)
<1> USE DEF MainStates, EventTypes, OfHttp, Ends
<1>0. TaskFits(t)
  BY TaskBounds
<1>1. CASE RequestStart(t)
  BY <1>1, MainEffect DEF RequestStart
<1>2. CASE RequestEnd(t)
  <2>1. Kind[t] = "http" /\ Go(t, "ending", "done") /\ (Silent \/ Emit(t, "OnRequestEnd"))
    BY <1>0, <1>2 DEF RequestEnd, Go, TaskFits
  <2> QED
    BY <2>1, MainEffect
<1>3. CASE Cancel(t)
  <2>1. CASE /\ Kind[t] # "connect" /\ task[t].main \in {"routing", "handshake"} /\ Go(t, task[t].main, "done")
             /\ Silent \/ Emit(t, "OnError")
    BY <2>1, MainEffect
  <2>2. CASE task[t].main = "proxying" /\ Emit(t, "OnError") /\ \E to \in {"aborting", "done"} : Go(t, "proxying", to)
    BY <1>0, <2>2, MainEffect DEF TaskFits
  <2>3. CASE Go(t, "aborting", "done") /\ Emit(t, "OnError")
    <3>1. Kind[t] = "http"
      BY <1>0, <2>3 DEF TaskFits, Go
    <3> QED
      BY <2>3, <3>1, MainEffect
  <2> QED
    BY <1>3, <2>1, <2>2, <2>3 DEF Cancel, Go
<1>4. CASE SkipProxyEvents(t)
  BY <1>4, MainEffect DEF SkipProxyEvents
<1>5. CASE ProxyStart(t)
  BY <1>5, MainEffect DEF ProxyStart
<1>6. CASE ProxyEnd(t)
  <2>1. PICK outcome \in {"answered", "failed"} : Go(t, "proxying", outcome) /\ Emit(t, "OnProxyEnd")
    BY <1>6 DEF ProxyEnd
  <2>2. Kind[t] = "http"
    BY <1>0, <2>1 DEF TaskFits, Go
  <2> QED
    BY <2>1, <2>2, MainEffect
<1>7. CASE ProxyError(t)
  <2>1. Kind[t] = "http"
    BY <1>0, <1>7 DEF ProxyError, TaskFits, Go
  <2> QED
    BY <1>7, <2>1, MainEffect DEF ProxyError
<1>8. CASE ResponseStart(t)
  <2>1. Kind[t] = "http"
    BY <1>0, <1>8 DEF ResponseStart, TaskFits, Go
  <2> QED
    BY <1>8, <2>1, MainEffect DEF ResponseStart
<1>9. CASE WebSocketRefused(t)
  BY <1>9, MainEffect DEF WebSocketRefused
<1>10. CASE WebSocketStart(t)
  BY <1>10, MainEffect DEF WebSocketStart
<1>11. CASE PrepareFails(t)
  <2>1. Kind[t] = "ws"
    BY <1>0, <1>11 DEF PrepareFails, TaskFits, Go
  <2> QED
    BY <1>11, <2>1, MainEffect DEF PrepareFails
<1> QED
  BY <1>1, <1>2, <1>3, <1>4, <1>5, <1>6, <1>7, <1>8, <1>9, <1>10, <1>11

\* An exchange arrives: nothing of it is known yet.
LEMMA ArriveEffect ==
  ASSUME TasksTyped, NEW t \in TraceIds, ReqCaptured(t) \/ ReqBypassed(t)
  PROVE  Effect(t)
<1>1. /\ task[t].main = "idle" /\ Silent
      /\ \E k \in Task :
           /\ task' = [task EXCEPT ![t] = k]
           /\ k.main \in {"starting", "routing"} /\ k.res = "idle" /\ k.conn = "none" /\ k.capturing = {}
           /\ k.reqSent = 0 /\ k.resSent = 0 /\ k.relayed = 0
  <2>1. /\ [NewTask EXCEPT !.main = "starting", !.captured = TRUE, !.req = "run"] \in Task
        /\ [NewTask EXCEPT !.main = "routing"] \in Task
    <3>1. 0 \in 0 .. MaxChunk /\ 0 \in 0 .. MaxMsg
      BY PipelineAssumption
    <3>2. NewTask \in Task
      BY <3>1 DEF NewTask, Task, MainStates, ConnStates
    <3> QED
      BY <3>2 DEF Task, MainStates
  <2>2. CASE ReqCaptured(t)
    BY <2>1, <2>2 DEF ReqCaptured, Arrive, NewTask
  <2>3. CASE ReqBypassed(t)
    BY <2>1, <2>3 DEF ReqBypassed, Arrive, NewTask
  <2> QED
    BY <2>2, <2>3
<1>2. /\ task' \in [TraceIds -> Task] /\ \A u \in TraceIds \ {t} : task'[u] = task[u]
      /\ task'[t].main \in {"starting", "routing"} /\ task'[t].res = "idle" /\ task'[t].conn = "none"
      /\ task'[t].capturing = {} /\ task'[t].reqSent = 0 /\ task'[t].resSent = 0 /\ task'[t].relayed = 0
  BY <1>1 DEF TasksTyped
<1>3. task[t].reqSent = 0 /\ task[t].resSent = 0 /\ task[t].relayed = 0 /\ task[t].conn = "none"
  BY <1>1, TaskBounds DEF TaskFits, NewTask
<1>4. TaskFits(t)'
  BY <1>2 DEF TaskFits
<1>5. ~Over(t) /\ ~Recording(t) /\ ~Tunnelled(t)
  BY <1>1, <1>3 DEF Over, Recording, Tunnelled
<1> QED
  BY <1>1, <1>2, <1>3, <1>4, <1>5 DEF Effect, Silent, storeVars

(***************************************************************************)
(* A step that leaves the connection, the messages and the progress of the *)
(* main task as they are: those of the body tasks.                         *)
(***************************************************************************)
LEMMA BodyEffect ==
  ASSUME TasksTyped, NEW t \in TraceIds, NEW k \in Task, task' = [task EXCEPT ![t] = k],
         k.main = task[t].main \/ (task[t].main = "answered" /\ k.main = "responding"),
         k.main = "idle" => k = NewTask, k.res # "idle" => Kind[t] = "http",
         k.conn = task[t].conn, k.relayed = task[t].relayed, k.capturing = task[t].capturing,
         task[t].reqSent <= k.reqSent, task[t].resSent <= k.resSent,
         UNCHANGED storeVars,
         \/ UNCHANGED <<queue, overrun>> /\ k.reqSent = task[t].reqSent /\ k.resSent = task[t].resSent
         \/ \E e \in EventRecord :
              /\ Publish(e) /\ e.id = t
              /\ \/ /\ e.type \in {"OnRequestBodyEnd", "OnResponseBodyEnd"}
                    /\ k.reqSent = task[t].reqSent /\ k.resSent = task[t].resSent
                 \/ /\ e.type = "OnRequestBody" /\ Kind[t] = "http" /\ e.num = task[t].reqSent + 1
                    /\ k.reqSent = e.num /\ k.resSent = task[t].resSent
                 \/ /\ e.type = "OnResponseBody" /\ Kind[t] = "http" /\ e.num = task[t].resSent + 1
                    /\ k.resSent = e.num /\ k.reqSent = task[t].reqSent
  PROVE  Effect(t)
<1>1. task' \in [TraceIds -> Task] /\ task'[t] = k /\ \A u \in TraceIds \ {t} : task'[u] = task[u]
  BY DEF TasksTyped
<1>2. TaskFits(t)'
  BY <1>1, TaskBounds DEF TaskFits
<1>3. (Over(t) => Over(t)') /\ (Recording(t) => Recording(t)') /\ (Tunnelled(t) => Tunnelled(t)')
  BY <1>1 DEF Over, Recording, Tunnelled
<1>4. ASSUME NEW e \in EventRecord, Publish(e), e.id = t,
             \/ /\ e.type \in {"OnRequestBodyEnd", "OnResponseBodyEnd"}
                /\ k.reqSent = task[t].reqSent /\ k.resSent = task[t].resSent
             \/ /\ e.type = "OnRequestBody" /\ Kind[t] = "http" /\ e.num = task[t].reqSent + 1
                /\ k.reqSent = e.num /\ k.resSent = task[t].resSent
             \/ /\ e.type = "OnResponseBody" /\ Kind[t] = "http" /\ e.num = task[t].resSent + 1
                /\ k.resSent = e.num /\ k.reqSent = task[t].reqSent
      PROVE  Sends(t, e)
  BY <1>1, <1>4 DEF Sends, OfHttp, OfWebSocket, OfConnect, Ends
<1> QED
  BY <1>1, <1>2, <1>3, <1>4, TaskBounds DEF Effect

\* The actions of the body tasks, and the one that spawns the second.
LEMMA BodySteps ==
  ASSUME TasksTyped, NEW t \in TraceIds,
         \/ RequestBodyChunk(t) \/ RequestBodyEnd(t) \/ ResponseBodyChunk(t) \/ ResponseBodyEnd(t)
         \/ SpawnResponseBody(t)
  PROVE  Effect(t)
<1>1. /\ task[t].req = "run" \/ task[t].res = "run" => task[t].main # "idle"
      /\ task[t].res = "run" => Kind[t] = "http"
  BY TaskBounds DEF TaskFits, NewTask
<1>2. CASE RequestBodyChunk(t)
  <2> DEFINE k == [task[t] EXCEPT !.reqSent = @ + 1]
             e == Event("OnRequestBody", t, task[t].reqSent + 1, FALSE)
  <2>1. task' = [task EXCEPT ![t] = k] /\ Publish(e) /\ Kind[t] = "http"
    BY <1>2, <1>1 DEF RequestBodyChunk, Emit, TasksTyped
  <2>2. k \in Task
    BY <1>2, TaskBounds, PipelineAssumption DEF RequestBodyChunk, Task
  <2>3. /\ k.main = task[t].main /\ k.res = task[t].res
        /\ k.conn = task[t].conn /\ k.relayed = task[t].relayed /\ k.capturing = task[t].capturing
        /\ k.reqSent = task[t].reqSent + 1 /\ k.resSent = task[t].resSent
    BY TaskBounds DEF Task
  <2>4. e \in EventRecord /\ e.type = "OnRequestBody" /\ e.id = t /\ e.num = task[t].reqSent + 1
    BY TaskBounds DEF Event, EventRecord, EventTypes
  <2> HIDE DEF k, e
  <2>5. /\ task[t].reqSent <= k.reqSent /\ task[t].resSent <= k.resSent
        /\ k.main # "idle" /\ (k.res # "idle" => Kind[t] = "http") /\ UNCHANGED storeVars
    BY <1>2, <1>1, <2>1, <2>3, TaskBounds DEF RequestBodyChunk, TaskFits, Publish, Silent, storeVars
  <2> QED
    BY <1>2, <2>1, <2>2, <2>3, <2>4, <2>5, BodyEffect
<1>3. CASE ResponseBodyChunk(t)
  <2> DEFINE k == [task[t] EXCEPT !.resSent = @ + 1]
             e == Event("OnResponseBody", t, task[t].resSent + 1, FALSE)
  <2>1. task' = [task EXCEPT ![t] = k] /\ Publish(e) /\ Kind[t] = "http"
    BY <1>3, <1>1 DEF ResponseBodyChunk, Emit, TasksTyped
  <2>2. k \in Task
    BY <1>3, TaskBounds, PipelineAssumption DEF ResponseBodyChunk, Task
  <2>3. /\ k.main = task[t].main /\ k.res = task[t].res
        /\ k.conn = task[t].conn /\ k.relayed = task[t].relayed /\ k.capturing = task[t].capturing
        /\ k.resSent = task[t].resSent + 1 /\ k.reqSent = task[t].reqSent
    BY TaskBounds DEF Task
  <2>4. e \in EventRecord /\ e.type = "OnResponseBody" /\ e.id = t /\ e.num = task[t].resSent + 1
    BY TaskBounds DEF Event, EventRecord, EventTypes
  <2> HIDE DEF k, e
  <2>5. /\ task[t].reqSent <= k.reqSent /\ task[t].resSent <= k.resSent
        /\ k.main # "idle" /\ (k.res # "idle" => Kind[t] = "http") /\ UNCHANGED storeVars
    BY <1>3, <1>1, <2>1, <2>3, TaskBounds DEF ResponseBodyChunk, TaskFits, Publish, Silent, storeVars
  <2> QED
    BY <1>3, <2>1, <2>2, <2>3, <2>4, <2>5, BodyEffect
<1>4. CASE RequestBodyEnd(t)
  <2> DEFINE k == [task[t] EXCEPT !.req = "done"]
             e == Event("OnRequestBodyEnd", t, 0, FALSE)
  <2>1. task' = [task EXCEPT ![t] = k] /\ Publish(e)
    BY <1>4, <1>1 DEF RequestBodyEnd, Emit, TasksTyped
  <2>2. k \in Task
    BY <1>4, TaskBounds, PipelineAssumption DEF RequestBodyEnd, Task
  <2>3. /\ k.main = task[t].main /\ k.res = task[t].res
        /\ k.conn = task[t].conn /\ k.relayed = task[t].relayed /\ k.capturing = task[t].capturing
        /\ k.reqSent = task[t].reqSent /\ k.resSent = task[t].resSent
    BY TaskBounds DEF Task
  <2>4. e \in EventRecord /\ e.type = "OnRequestBodyEnd" /\ e.id = t
    BY TaskBounds DEF Event, EventRecord, EventTypes
  <2> HIDE DEF k, e
  <2>5. /\ task[t].reqSent <= k.reqSent /\ task[t].resSent <= k.resSent
        /\ k.main # "idle" /\ (k.res # "idle" => Kind[t] = "http") /\ UNCHANGED storeVars
    BY <1>4, <1>1, <2>1, <2>3, TaskBounds DEF RequestBodyEnd, TaskFits, Publish, Silent, storeVars
  <2> QED
    BY <1>4, <2>1, <2>2, <2>3, <2>4, <2>5, BodyEffect
<1>5. CASE ResponseBodyEnd(t)
  <2> DEFINE k == [task[t] EXCEPT !.res = "done"]
             e == Event("OnResponseBodyEnd", t, 0, FALSE)
  <2>1. task' = [task EXCEPT ![t] = k] /\ Publish(e) /\ Kind[t] = "http"
    BY <1>5, <1>1 DEF ResponseBodyEnd, Emit, TasksTyped
  <2>2. k \in Task
    BY <1>5, TaskBounds, PipelineAssumption DEF ResponseBodyEnd, Task
  <2>3. /\ k.main = task[t].main /\ k.res = "done"
        /\ k.conn = task[t].conn /\ k.relayed = task[t].relayed /\ k.capturing = task[t].capturing
        /\ k.reqSent = task[t].reqSent /\ k.resSent = task[t].resSent
    BY TaskBounds DEF Task
  <2>4. e \in EventRecord /\ e.type = "OnResponseBodyEnd" /\ e.id = t
    BY TaskBounds DEF Event, EventRecord, EventTypes
  <2> HIDE DEF k, e
  <2>5. /\ task[t].reqSent <= k.reqSent /\ task[t].resSent <= k.resSent
        /\ k.main # "idle" /\ (k.res # "idle" => Kind[t] = "http") /\ UNCHANGED storeVars
    BY <1>5, <1>1, <2>1, <2>3, TaskBounds DEF ResponseBodyEnd, TaskFits, Publish, Silent, storeVars
  <2> QED
    BY <1>5, <2>1, <2>2, <2>3, <2>4, <2>5, BodyEffect
<1>6. CASE SpawnResponseBody(t)
  <2> DEFINE k == [task[t] EXCEPT !.main = "responding", !.res = "run"]
  <2>1. task' = [task EXCEPT ![t] = k] /\ Silent /\ task[t].main = "answered"
    BY <1>6, <1>1 DEF SpawnResponseBody, Emit, TasksTyped
  <2>2. k \in Task
    BY <1>6, TaskBounds, PipelineAssumption DEF SpawnResponseBody, Task, MainStates
  <2>3. /\ k.main = "responding" /\ k.res = "run"
        /\ k.conn = task[t].conn /\ k.relayed = task[t].relayed /\ k.capturing = task[t].capturing
        /\ k.reqSent = task[t].reqSent /\ k.resSent = task[t].resSent
    BY TaskBounds DEF Task
  <2> HIDE DEF k
  <2>5. /\ task[t].reqSent <= k.reqSent /\ task[t].resSent <= k.resSent
        /\ k.main # "idle" /\ (k.res # "idle" => Kind[t] = "http") /\ UNCHANGED storeVars
    BY <1>6, <1>1, <2>1, <2>3, TaskBounds DEF SpawnResponseBody, TaskFits, Publish, Silent, storeVars
  <2> QED
    BY <1>6, <2>1, <2>2, <2>3, <2>5, BodyEffect DEF Silent
<1> QED
  BY <1>2, <1>3, <1>4, <1>5, <1>6

(***************************************************************************)
(* A step of the task that owns the connection, or the one that hands it   *)
(* over.                                                                   *)
(***************************************************************************)
Connection(t, conn) ==
  task' = [task EXCEPT ![t] = [task[t] EXCEPT !.main = "done", !.conn = conn]]

ConnectionSays(t, conn, type) ==
  /\ Emit(t, type)
  /\ type \in {"OnError", "OnWebSocketError", "OnWebSocketEnd", "OnTunnelStart", "OnTunnelEnd"}
  /\ type \in OfWebSocket => Kind[t] = "ws"
  /\ type \in OfConnect => Kind[t] = "connect"
  /\ type \in Ends => conn = "closed"
  /\ type = "OnTunnelStart" => task[t].conn = "connecting" /\ conn = "open"
  /\ type = "OnError" => ~Tunnelled(t)

\* Such a step keeps its promises: what the connection says fits where it is.
LEMMA ConnEffect ==
  ASSUME TasksTyped, NEW t \in TraceIds, NEW conn \in ConnStates \ {"none"}, Connection(t, conn),
         Kind[t] # "http", ~Over(t),
         conn \in {"failing", "upgrading"} => Kind[t] = "ws",
         conn \in {"connecting", "intercepting"} => Kind[t] = "connect",
         Tunnelled(t) => conn \in {"open", "closed"},
         Silent \/ \E type : ConnectionSays(t, conn, type)
  PROVE  Effect(t)
<1> DEFINE k == [task[t] EXCEPT !.main = "done", !.conn = conn]
<1>1. /\ k \in Task /\ k.main = "done" /\ k.conn = conn
      /\ k.res = task[t].res /\ k.reqSent = task[t].reqSent /\ k.resSent = task[t].resSent
      /\ k.relayed = task[t].relayed /\ k.capturing = task[t].capturing
  BY TaskBounds DEF Task, MainStates
<1>2. task' = [task EXCEPT ![t] = k]
  BY DEF Connection
<1> HIDE DEF k
<1>3. task' \in [TraceIds -> Task] /\ task'[t] = k /\ \A u \in TraceIds \ {t} : task'[u] = task[u]
  BY <1>1, <1>2 DEF TasksTyped
<1>4. TaskFits(t)'
  BY <1>1, <1>3, TaskBounds DEF TaskFits
<1>5. /\ Recording(t)'
      /\ Tunnelled(t)' <=> conn \in {"open", "closed"}
      /\ Over(t)' <=> conn = "closed"
  BY <1>1, <1>3 DEF Over, Recording, Tunnelled
<1>6. UNCHANGED storeVars
  BY DEF Silent, ConnectionSays, Emit, Publish, storeVars
<1>7. ASSUME NEW type, ConnectionSays(t, conn, type)
      PROVE  \E e \in EventRecord : Sends(t, e)
  <2> DEFINE e == Event(type, t, 0, FALSE)
  <2>1. e \in EventRecord /\ e.id = t /\ e.type = type /\ type \notin OfHttp
    BY <1>7 DEF ConnectionSays, Event, EventRecord, EventTypes, OfHttp
  <2>2. Publish(e)
    BY <1>7 DEF ConnectionSays, Emit
  <2> HIDE DEF e
  <2>3. Sends(t, e)
    BY <1>1, <1>3, <1>5, <1>7, <2>1, <2>2 DEF ConnectionSays, Sends
  <2> QED
    BY <2>1, <2>3
<1>8. UNCHANGED <<queue, overrun>> \/ \E e \in EventRecord : Sends(t, e)
  BY <1>7 DEF Silent
<1>9. /\ Over(t) => Over(t)'
      /\ Recording(t) => Recording(t)'
      /\ Tunnelled(t) => Tunnelled(t)'
  BY <1>5
<1> QED
  BY <1>1, <1>3, <1>4, <1>6, <1>8, <1>9, TaskBounds DEF Effect

\* The two forms of the update in the actions.
LEMMA ConnectionMoves ==
  ASSUME TasksTyped, NEW t \in TraceIds, NEW conn,
         \/ task' = [task EXCEPT ![t].main = "done", ![t].conn = conn]
         \/ task' = [task EXCEPT ![t].conn = conn] /\ task[t].conn # "none"
  PROVE  Connection(t, conn)
<1>1. task[t] \in Task /\ (task[t].conn # "none" => task[t].main = "done")
  BY TaskBounds DEF TaskFits
<1>2. [task[t] EXCEPT !.conn = conn] = [task[t] EXCEPT !.main = task[t].main, !.conn = conn]
  BY <1>1 DEF Task
<1> QED
  BY <1>1, <1>2 DEF Connection, TasksTyped

\* The actions of the connection: the handshake and the CONNECT hand it over, the
\* rest belong to the task that owns it.
LEMMA ConnSteps ==
  ASSUME TasksTyped, NEW t \in TraceIds,
         \/ Handshake(t) \/ Upgraded(t) \/ WebSocketError(t) \/ WebSocketEnd(t)
         \/ Handoff(t) \/ Intercept(t) \/ InterceptEnds(t) \/ ConnectFails(t) \/ TunnelStart(t) \/ TunnelEnd(t)
  PROVE  Effect(t)
<1>1. /\ TaskFits(t)
      /\ task[t].conn # "none" => task[t].main = "done" /\ Kind[t] # "http"
      /\ task[t].conn \notin {"none", "closed"} \/ task[t].main \in {"routing", "handshake"} => ~Over(t)
      /\ Tunnelled(t) <=> task[t].conn \in {"open", "closed"}
  BY TaskBounds DEF TaskFits, Over, Tunnelled
<1>2. CASE Handshake(t)
  <2>1. PICK conn \in {"failing", "upgrading"} :
          task[t].main = "handshake" /\ Silent /\ Connection(t, conn)
    BY <1>2, ConnectionMoves DEF Handshake
  <2>2. Kind[t] = "ws" /\ task[t].conn = "none" /\ ~Over(t)
    BY <1>1, <2>1 DEF TaskFits
  <2> QED
    BY <1>1, <2>1, <2>2, ConnEffect DEF ConnStates
<1>3. CASE Upgraded(t)
  <2>1. /\ task[t].conn \in {"upgrading"} /\ Silent
        /\ Connection(t, "open")
    BY <1>3, ConnectionMoves DEF Upgraded
  <2>2. Kind[t] = "ws" /\ ~Over(t)
    BY <1>1, <1>3, <2>1 DEF TaskFits, Upgraded
  <2> QED
    BY <1>1, <2>1, <2>2, ConnEffect DEF ConnStates
<1>4. CASE WebSocketError(t)
  <2>1. /\ task[t].conn \in {"failing", "upgrading"} /\ Emit(t, "OnWebSocketError")
        /\ Connection(t, "closed")
    BY <1>4, ConnectionMoves DEF WebSocketError
  <2>2. Kind[t] = "ws" /\ ~Over(t)
    BY <1>1, <1>4, <2>1 DEF TaskFits, WebSocketError
  <2>3. ConnectionSays(t, "closed", "OnWebSocketError")
    BY <1>1, <2>1, <2>2 DEF ConnectionSays, OfWebSocket, OfConnect, Ends
  <2> QED
    BY <1>1, <2>1, <2>2, <2>3, ConnEffect DEF ConnStates
<1>5. CASE WebSocketEnd(t)
  <2>1. /\ task[t].conn \in {"open"} /\ Emit(t, "OnWebSocketEnd")
        /\ Connection(t, "closed")
    BY <1>5, ConnectionMoves DEF WebSocketEnd
  <2>2. Kind[t] = "ws" /\ ~Over(t)
    BY <1>1, <1>5, <2>1 DEF TaskFits, WebSocketEnd
  <2>3. ConnectionSays(t, "closed", "OnWebSocketEnd")
    BY <1>1, <2>1, <2>2 DEF ConnectionSays, OfWebSocket, OfConnect, Ends
  <2> QED
    BY <1>1, <2>1, <2>2, <2>3, ConnEffect DEF ConnStates
<1>6. CASE Handoff(t)
  <2>1. /\ task[t].main = "routing" /\ Silent /\ Kind[t] = "connect"
        /\ Connection(t, "connecting")
    BY <1>6, ConnectionMoves DEF Handoff
  <2>2. task[t].conn = "none" /\ ~Over(t)
    BY <1>1, <2>1
  <2> QED
    BY <1>1, <2>1, <2>2, ConnEffect DEF ConnStates
<1>7. CASE Intercept(t)
  <2>1. /\ task[t].conn \in {"connecting"} /\ Silent
        /\ Connection(t, "intercepting")
    BY <1>7, ConnectionMoves DEF Intercept
  <2>2. Kind[t] = "connect" /\ ~Over(t)
    BY <1>1, <1>7, <2>1 DEF TaskFits, Intercept
  <2> QED
    BY <1>1, <2>1, <2>2, ConnEffect DEF ConnStates
<1>8. CASE InterceptEnds(t)
  <2>1. /\ task[t].conn \in {"intercepting"} /\ Silent
        /\ Connection(t, "closed")
    BY <1>8, ConnectionMoves DEF InterceptEnds
  <2>2. Kind[t] = "connect" /\ ~Over(t)
    BY <1>1, <1>8, <2>1 DEF TaskFits, InterceptEnds
  <2> QED
    BY <1>1, <2>1, <2>2, ConnEffect DEF ConnStates
<1>9. CASE ConnectFails(t)
  <2>1. /\ task[t].conn \in {"connecting", "intercepting"} /\ Emit(t, "OnError")
        /\ Connection(t, "closed")
    BY <1>9, ConnectionMoves DEF ConnectFails
  <2>2. Kind[t] = "connect" /\ ~Over(t)
    BY <1>1, <1>9, <2>1 DEF TaskFits, ConnectFails
  <2>3. ConnectionSays(t, "closed", "OnError")
    BY <1>1, <2>1, <2>2 DEF ConnectionSays, OfWebSocket, OfConnect, Ends
  <2> QED
    BY <1>1, <2>1, <2>2, <2>3, ConnEffect DEF ConnStates
<1>10. CASE TunnelStart(t)
  <2>1. /\ task[t].conn \in {"connecting"} /\ Emit(t, "OnTunnelStart")
        /\ Connection(t, "open")
    BY <1>10, ConnectionMoves DEF TunnelStart
  <2>2. Kind[t] = "connect" /\ ~Over(t)
    BY <1>1, <1>10, <2>1 DEF TaskFits, TunnelStart
  <2>3. ConnectionSays(t, "open", "OnTunnelStart")
    BY <1>1, <2>1, <2>2 DEF ConnectionSays, OfWebSocket, OfConnect, Ends
  <2> QED
    BY <1>1, <2>1, <2>2, <2>3, ConnEffect DEF ConnStates
<1>11. CASE TunnelEnd(t)
  <2>1. /\ task[t].conn \in {"open"} /\ Emit(t, "OnTunnelEnd")
        /\ Connection(t, "closed")
    BY <1>11, ConnectionMoves DEF TunnelEnd
  <2>2. Kind[t] = "connect" /\ ~Over(t)
    BY <1>1, <1>11, <2>1 DEF TaskFits, TunnelEnd
  <2>3. ConnectionSays(t, "closed", "OnTunnelEnd")
    BY <1>1, <2>1, <2>2 DEF ConnectionSays, OfWebSocket, OfConnect, Ends
  <2> QED
    BY <1>1, <2>1, <2>2, <2>3, ConnEffect DEF ConnStates
<1> QED
  BY <1>2, <1>3, <1>4, <1>5, <1>6, <1>7, <1>8, <1>9, <1>10, <1>11

\* The relay forwards a message, with a number of its own.
LEMMA RelayEffect ==
  ASSUME TasksTyped, NEW t \in TraceIds, Relay(t)
  PROVE  Effect(t)
<1>1. PICK close \in BOOLEAN :
        task' = [task EXCEPT ![t].relayed = @ + 1,
                   ![t].capturing = @ \cup {[num |-> task[t].relayed + 1, close |-> close]}]
  BY DEF Relay
<1> DEFINE m == [num |-> task[t].relayed + 1, close |-> close]
           k == [task[t] EXCEPT !.relayed = task[t].relayed + 1, !.capturing = task[t].capturing \cup {m}]
<1>2. /\ Kind[t] = "ws" /\ task[t].conn = "open" /\ Silent
      /\ task[t].relayed + 1 \in 1 .. MaxMsg
  BY TaskBounds, PipelineAssumption DEF Relay
<1>3. m \in Message /\ m.num = task[t].relayed + 1
  BY <1>2 DEF Message
<1>4. task' = [task EXCEPT ![t] = k]
  BY <1>1 DEF TasksTyped
<1> HIDE DEF m
<1>5. /\ k \in Task /\ k.main = task[t].main /\ k.conn = task[t].conn
      /\ k.res = task[t].res /\ k.reqSent = task[t].reqSent /\ k.resSent = task[t].resSent
      /\ k.relayed = task[t].relayed + 1 /\ k.capturing = task[t].capturing \cup {m}
  <2>1. task[t] \in Task
    BY TaskBounds
  <2>2. task[t].relayed + 1 \in 0 .. MaxMsg /\ task[t].capturing \cup {m} \in SUBSET Message
    BY <1>2, <1>3, <2>1, PipelineAssumption DEF Task
  <2> QED
    BY <2>1, <2>2 DEF Task
<1> HIDE DEF k
<1>6. task' \in [TraceIds -> Task] /\ task'[t] = k /\ \A u \in TraceIds \ {t} : task'[u] = task[u]
  BY <1>4, <1>5 DEF TasksTyped
<1>7. TaskFits(t)'
  <2>1. TaskFits(t) /\ task[t].main = "done"
    BY <1>2, TaskBounds DEF TaskFits
  <2>2. /\ \A l \in k.capturing : l.num <= k.relayed
        /\ \A l, n \in k.capturing : l.num = n.num => l = n
    BY <2>1, <1>3, <1>5, TaskBounds DEF TaskFits
  <2> QED
    BY <2>1, <2>2, <1>2, <1>5, <1>6 DEF TaskFits
<1>8. (Over(t) => Over(t)') /\ (Recording(t) => Recording(t)') /\ (Tunnelled(t) => Tunnelled(t)')
  BY <1>5, <1>6 DEF Over, Recording, Tunnelled
<1>9. \A l \in k.capturing : l \in task[t].capturing \/ l.num > task[t].relayed
  BY <1>3, <1>5, TaskBounds
<1> QED
  BY <1>2, <1>5, <1>6, <1>7, <1>8, <1>9, TaskBounds DEF Effect, Silent, storeVars

\* A capture task sends its message, and is gone.
LEMMA CaptureEffect ==
  ASSUME TasksTyped, NEW t \in TraceIds, CaptureMessage(t)
  PROVE  Effect(t)
<1>1. PICK m \in task[t].capturing :
        /\ task' = [task EXCEPT ![t].capturing = @ \ {m}]
        /\ Publish(Event("OnWebSocketMessage", t, m.num, m.close))
  BY DEF CaptureMessage
<1> DEFINE k == [task[t] EXCEPT !.capturing = task[t].capturing \ {m}]
           e == Event("OnWebSocketMessage", t, m.num, m.close)
<1>2. m \in Message /\ m.num \in Nat /\ Kind[t] = "ws"
  BY <1>1, TaskBounds DEF TaskFits
<1>3. e \in EventRecord /\ e.type = "OnWebSocketMessage" /\ e.id = t /\ e.num = m.num /\ e.close = m.close
  BY <1>2 DEF Event, EventRecord, EventTypes, Message
<1>4. /\ k \in Task /\ k.main = task[t].main /\ k.conn = task[t].conn
      /\ k.res = task[t].res /\ k.reqSent = task[t].reqSent /\ k.resSent = task[t].resSent
      /\ k.relayed = task[t].relayed /\ k.capturing = task[t].capturing \ {m}
  BY TaskBounds DEF Task
<1>5. task' = [task EXCEPT ![t] = k] /\ Publish(e)
  BY <1>1 DEF TasksTyped
<1> HIDE DEF k, e
<1>6. task' \in [TraceIds -> Task] /\ task'[t] = k /\ \A u \in TraceIds \ {t} : task'[u] = task[u]
  BY <1>4, <1>5 DEF TasksTyped
<1>7. TaskFits(t)'
  <2>1. TaskFits(t) /\ task[t].main # "idle"
    BY <1>1, TaskBounds DEF TaskFits, NewTask
  <2> QED
    BY <2>1, <1>4, <1>6 DEF TaskFits
<1>8. (Over(t) => Over(t)') /\ (Recording(t) => Recording(t)') /\ (Tunnelled(t) => Tunnelled(t)')
  BY <1>4, <1>6 DEF Over, Recording, Tunnelled
<1>9. Sends(t, e)
  BY <1>1, <1>2, <1>3, <1>4, <1>5, <1>6 DEF Sends, OfHttp, OfConnect, Ends
<1>10. UNCHANGED storeVars
  BY <1>5 DEF Publish
<1> QED
  BY <1>3, <1>4, <1>6, <1>7, <1>8, <1>9, <1>10, TaskBounds DEF Effect

\* Every action of an exchange has such an effect.
LEMMA TaskEffect ==
  ASSUME TasksTyped, NEW t \in TraceIds, Progress(t) \/ Peer(t)
  PROVE  Effect(t)
BY MainSteps, ArriveEffect, BodySteps, ConnSteps, RelayEffect, CaptureEffect DEF Progress, Peer

-----------------------------------------------------------------------------
(***************************************************************************)
(* What a task's step does to the channel and to the invariant.            *)
(***************************************************************************)

\* A send appends; when the channel is full, everything in it moves up by one.
LEMMA PublishShape ==
  ASSUME TypeOK, NEW e \in EventRecord, Publish(e)
  PROVE  /\ queue' \in Seq(EventRecord) /\ Len(queue') \in Nat /\ Len(queue') <= Capacity /\ overrun' \in BOOLEAN
         /\ Len(queue') > 0 /\ queue'[Len(queue')] = e
         /\ \E d \in {0, 1} :
              /\ Len(queue') = Len(queue) - d + 1
              /\ \A i \in 1 .. Len(queue') - 1 : i + d \in 1 .. Len(queue) /\ queue'[i] = queue[i + d]
              /\ ~overrun' => d = 0 /\ ~overrun
<1>1. queue \in Seq(EventRecord) /\ Len(queue) \in Nat /\ Len(queue) <= Capacity /\ overrun \in BOOLEAN
  BY DEF TypeOK, EventRecord
<1>2. Capacity \in Nat \ {0}
  BY PipelineAssumption
<1>3. overrun' = (overrun \/ Len(queue) = Capacity)
  BY DEF Publish
<1>4. CASE Len(queue) < Capacity
  <2>1. queue' = Append(queue, e)
    BY <1>4 DEF Publish
  <2>2. /\ queue' \in Seq(EventRecord) /\ Len(queue') = Len(queue) + 1 /\ queue'[Len(queue')] = e
        /\ \A i \in 1 .. Len(queue) : queue'[i] = queue[i]
    BY <1>1, <2>1
  <2> QED
    BY <1>1, <1>2, <1>3, <1>4, <2>2
<1>5. CASE Len(queue) = Capacity
  <2> DEFINE rest == Tail(queue)
  <2>1. queue' = Append(rest, e)
    BY <1>5, <1>2 DEF Publish
  <2>2. /\ rest \in Seq(EventRecord) /\ Len(rest) = Len(queue) - 1
        /\ \A i \in 1 .. Len(rest) : rest[i] = queue[i + 1]
    BY <1>1, <1>2, <1>5
  <2> HIDE DEF rest
  <2>3. /\ queue' \in Seq(EventRecord) /\ Len(queue') = Len(queue) /\ queue'[Len(queue')] = e
        /\ \A i \in 1 .. Len(queue') - 1 : queue'[i] = queue[i + 1]
    BY <1>1, <1>2, <1>5, <2>1, <2>2
  <2>4. /\ Len(queue') = Len(queue) - 1 + 1
        /\ \A i \in 1 .. Len(queue') - 1 : i + 1 \in 1 .. Len(queue) /\ queue'[i] = queue[i + 1]
    BY <1>1, <1>2, <1>5, <2>3
  <2>6. overrun' = TRUE
    BY <1>3, <1>5
  <2>7. \E d \in {0, 1} :
              /\ Len(queue') = Len(queue) - d + 1
              /\ \A i \in 1 .. Len(queue') - 1 : i + d \in 1 .. Len(queue) /\ queue'[i] = queue[i + d]
              /\ ~overrun' => d = 0 /\ ~overrun
    <3> WITNESS 1 \in {0, 1}
    <3> QED
      BY <2>4, <2>6
  <2>8. overrun' \in BOOLEAN
    BY <2>6
  <2>9. Len(queue') \in Nat /\ Len(queue') <= Capacity /\ Len(queue') > 0
    BY <1>1, <1>2, <1>5, <2>3
  <2> QED
    BY <2>3, <2>7, <2>8, <2>9
<1> QED
  BY <1>1, <1>4, <1>5, PipelineAssumption

\* What is recorded and what is in the channel fits the tasks after the step too.
LEMMA RecordStable ==
  ASSUME TypeOK, NEW t \in TraceIds, TasksTyped, Effect(t), NEW u \in TraceIds, RecordFits(u), Cache!TypeOK
  PROVE  RecordFits(u)'
<1>1. cache' = cache /\ started' = started
  BY DEF Effect, storeVars
<1>2. CASE u # t
  BY <1>1, <1>2 DEF Effect, RecordFits, EntryFits, Recording, Over, Tunnelled
<1>3. CASE u = t
  <2>1. /\ task[t].reqSent \in Nat /\ task[t].resSent \in Nat /\ task[t].relayed \in Nat
        /\ task'[t].reqSent \in Nat /\ task'[t].resSent \in Nat /\ task'[t].relayed \in Nat
        /\ task[t].reqSent <= task'[t].reqSent /\ task[t].resSent <= task'[t].resSent /\ task[t].relayed <= task'[t].relayed
        /\ \A m \in task'[t].capturing : m \in task[t].capturing \/ m.num > task[t].relayed
        /\ Over(t) => Over(t)'
        /\ Recording(t) => Recording(t)'
        /\ Tunnelled(t) => Tunnelled(t)'
    BY TaskBounds, PipelineAssumption DEF Effect, Task
  <2>2. ASSUME cache[t] # None
        PROVE  EntryFits(t)'
    <3>1. EntryFits(t)
      BY <1>3, <2>2 DEF RecordFits
    <3>2. Within(cache[t].request, task'[t].reqSent)
      BY <2>1, <3>1 DEF EntryFits, Within
    <3>3. cache[t].response # None => Within(cache[t].response, task'[t].resSent)
      BY <2>1, <3>1 DEF EntryFits, Within
    <3>4. cache[t].messages # None =>
             /\ Within(cache[t].messages.log, task'[t].relayed)
             /\ \A m \in task'[t].capturing : \A i \in DOMAIN cache[t].messages.log : cache[t].messages.log[i] # m.num
      BY <2>1, <3>1 DEF EntryFits, Within
    <3> QED
      BY <1>1, <2>1, <3>1, <3>2, <3>3, <3>4 DEF EntryFits
  <2> QED
    BY <1>1, <1>3, <2>1, <2>2 DEF RecordFits
<1> QED
  BY <1>2, <1>3

\* An event in the channel stays what it was for the cache, whatever the tasks do.
LEMMA EventStable ==
  ASSUME TypeOK, NEW t \in TraceIds, TasksTyped, Effect(t), NEW e \in EventRecord, EventFits(e)
  PROVE  EventFits(e)'
<1>1. cache' = cache /\ started' = started /\ e.id \in TraceIds /\ e.num \in Nat
  BY DEF Effect, storeVars, EventRecord
<1>2. CASE e.id # t
  BY <1>1, <1>2 DEF Effect, EventFits, Recording, Over, Tunnelled
<1>3. CASE e.id = t
  <2>1. /\ task[t].reqSent \in Nat /\ task[t].resSent \in Nat /\ task[t].relayed \in Nat
        /\ task'[t].reqSent \in Nat /\ task'[t].resSent \in Nat /\ task'[t].relayed \in Nat
        /\ task[t].reqSent <= task'[t].reqSent /\ task[t].resSent <= task'[t].resSent /\ task[t].relayed <= task'[t].relayed
        /\ \A m \in task'[t].capturing : m \in task[t].capturing \/ m.num > task[t].relayed
        /\ Over(t) => Over(t)'
        /\ Recording(t) => Recording(t)'
        /\ Tunnelled(t) => Tunnelled(t)'
    BY TaskBounds, PipelineAssumption DEF Effect, Task
  <2>2. e.type = "OnRequestBody" => e.num \in 1 .. task'[t].reqSent
    BY <1>3, <2>1 DEF EventFits
  <2>3. e.type = "OnResponseBody" => e.num \in 1 .. task'[t].resSent
    BY <1>3, <2>1 DEF EventFits
  <2>4. e.type = "OnWebSocketMessage" => e.num \in 1 .. task'[t].relayed /\ \A m \in task'[t].capturing : m.num # e.num
    BY <1>3, <2>1 DEF EventFits
  <2> QED
    BY <1>1, <1>3, <2>1, <2>2, <2>3, <2>4 DEF EventFits
<1> QED
  BY <1>2, <1>3

\* The event it sends fits, and is in order after all that is in the channel.
LEMMA SentFits ==
  ASSUME TypeOK, NEW t \in TraceIds, TasksTyped, Effect(t), RecordFits(t), NEW e \in EventRecord, Sends(t, e)
  PROVE  EventFits(e)'
<1>1. cache' = cache /\ started' = started /\ e.id = t /\ e.num \in Nat
  BY DEF Effect, storeVars, EventRecord, Sends
<1>2. TaskFits(t) /\ task[t] \in Task /\ \A m \in task[t].capturing : m.num \in 1 .. MaxMsg
  BY TaskBounds DEF Message
<1>3. e.type = "OnRequestStart" => t \notin started /\ Recording(t)'
  BY DEF Sends, RecordFits
<1>4. e.type = "OnRequestBody" => e.num \in 1 .. task'[t].reqSent /\ (cache[t] # None => Above(e.num, cache[t].request))
  <2>1. ASSUME e.type = "OnRequestBody" PROVE e.num = task[t].reqSent + 1 /\ task'[t].reqSent = e.num /\ task[t].reqSent \in Nat
    BY <2>1, TaskBounds DEF Sends
  <2>2. cache[t] # None => Within(cache[t].request, task[t].reqSent)
    BY DEF RecordFits, EntryFits
  <2> QED
    BY <2>1, <2>2 DEF Within, Above
<1>5. e.type = "OnResponseBody" =>
        e.num \in 1 .. task'[t].resSent /\ (cache[t] # None /\ cache[t].response # None => Above(e.num, cache[t].response))
  <2>1. ASSUME e.type = "OnResponseBody" PROVE e.num = task[t].resSent + 1 /\ task'[t].resSent = e.num /\ task[t].resSent \in Nat
    BY <2>1, TaskBounds DEF Sends
  <2>2. cache[t] # None /\ cache[t].response # None => Within(cache[t].response, task[t].resSent)
    BY DEF RecordFits, EntryFits
  <2> QED
    BY <2>1, <2>2 DEF Within, Above
<1>6. e.type = "OnWebSocketMessage" =>
        /\ e.num \in 1 .. task'[t].relayed
        /\ \A m \in task'[t].capturing : m.num # e.num
        /\ cache[t] # None /\ cache[t].messages # None =>
             \A i \in DOMAIN cache[t].messages.log : cache[t].messages.log[i] # e.num
  <2> SUFFICES ASSUME e.type = "OnWebSocketMessage"
               PROVE  /\ e.num \in 1 .. task'[t].relayed
                      /\ \A m \in task'[t].capturing : m.num # e.num
                      /\ cache[t] # None /\ cache[t].messages # None =>
                           \A i \in DOMAIN cache[t].messages.log : cache[t].messages.log[i] # e.num
    OBVIOUS
  <2>1. \E m \in task[t].capturing : m.num = e.num /\ task'[t].capturing = task[t].capturing \ {m}
    BY DEF Sends
  <2>2. PICK m \in task[t].capturing : m.num = e.num /\ task'[t].capturing = task[t].capturing \ {m}
    BY <2>1
  <2>3. m.num \in 1 .. MaxMsg /\ m.num <= task[t].relayed /\ \A n \in task[t].capturing : n.num = m.num => n = m
    BY <1>2, <2>2 DEF TaskFits
  <2>4. task[t].relayed \in Nat /\ task'[t].relayed \in Nat /\ task[t].relayed <= task'[t].relayed
    BY TaskBounds, PipelineAssumption DEF Effect, Task
  <2>5. cache[t] # None /\ cache[t].messages # None => \A i \in DOMAIN cache[t].messages.log : cache[t].messages.log[i] # m.num
    BY <2>2 DEF RecordFits, EntryFits
  <2> QED
    BY <2>2, <2>3, <2>4, <2>5, PipelineAssumption
<1>7. e.type = "OnTunnelStart" => Tunnelled(t)' /\ (cache[t] # None => cache[t].status \notin Store!Terminal)
  <2>1. task[t].conn = "connecting" => ~Over(t)
    BY DEF Over
  <2> QED
    BY <2>1 DEF Sends, RecordFits, EntryFits
<1>8. e.type = "OnError" /\ Kind[t] = "connect" /\ cache[t] # None => cache[t].tunnel = None
  BY DEF Sends, RecordFits, EntryFits
<1>9. /\ e.type \in OfHttp => Kind[t] = "http"
      /\ e.type \in OfWebSocket => Kind[t] = "ws"
      /\ e.type \in OfConnect => Kind[t] = "connect"
      /\ e.type \in Ends => Over(t)'
  BY DEF Sends
<1> QED
  BY <1>1, <1>3, <1>4, <1>5, <1>6, <1>7, <1>8, <1>9 DEF EventFits

\* A task sends nothing that has to come before what is in the channel already.
LEMMA SentInOrder ==
  ASSUME TypeOK, NEW t \in TraceIds, TasksTyped, NEW e \in EventRecord, Sends(t, e), NEW f \in EventRecord, EventFits(f)
  PROVE  InOrder(f, e)
<1> SUFFICES ASSUME f.id = t PROVE InOrder(f, e)
  BY DEF InOrder, Sends
<1>1. /\ e.id = t /\ e.num \in Nat /\ f.num \in Nat
      /\ task[t].reqSent \in Nat /\ task[t].resSent \in Nat
  BY TaskBounds DEF Sends, EventRecord
<1>2. f.type = "OnRequestStart" => e.type # "OnRequestStart"
  BY DEF Sends, EventFits
<1>3. e.type = "OnRequestBody" /\ f.type = "OnRequestBody" => f.num < e.num
  BY <1>1 DEF Sends, EventFits
<1>4. e.type = "OnResponseBody" /\ f.type = "OnResponseBody" => f.num < e.num
  BY <1>1 DEF Sends, EventFits
<1>5. e.type = "OnWebSocketMessage" /\ f.type = "OnWebSocketMessage" => f.num # e.num
  BY DEF Sends, EventFits
<1>6. e.type = "OnTunnelStart" => f.type \notin {"OnTunnelEnd", "OnError"}
  BY DEF Sends, EventFits, Over, Ends
<1>7. Kind[t] = "connect" /\ e.type = "OnError" => f.type # "OnTunnelStart"
  BY DEF Sends, EventFits
<1> QED
  BY <1>1, <1>2, <1>3, <1>4, <1>5, <1>6, <1>7 DEF InOrder, BodyEvents

\* A step of a task preserves the invariant.
LEMMA TaskInv ==
  ASSUME Inv, NEW t \in TraceIds, TasksTyped, Effect(t)
  PROVE  TypeOK' /\ Orderly'
<1>1. /\ TypeOK /\ Cache!TypeOK
      /\ \A u \in TraceIds : TaskFits(u) /\ RecordFits(u)
      /\ \A i \in 1 .. Len(queue) : EventFits(queue[i])
      /\ \A i, j \in 1 .. Len(queue) : i < j => InOrder(queue[i], queue[j])
      /\ queue \in Seq(EventRecord) /\ Len(queue) \in Nat /\ Len(queue) <= Capacity
  BY DEF Inv, Orderly, Cache!Inv, TypeOK, EventRecord
<1>2. \A u \in TraceIds : TaskFits(u)' /\ RecordFits(u)'
  <2>1. \A u \in TraceIds \ {t} : TaskFits(u)'
    BY <1>1 DEF Effect, TaskFits
  <2>2. TaskFits(t)'
    BY DEF Effect
  <2>3. \A u \in TraceIds : RecordFits(u)'
    BY <1>1, RecordStable
  <2> QED
    BY <2>1, <2>2, <2>3
<1>3. task' \in [TraceIds -> Task]
  BY DEF Effect
<1>4. \A e \in EventRecord : EventFits(e) => EventFits(e)'
  BY <1>1, EventStable
<1>5. CASE UNCHANGED <<queue, overrun>>
  <2>1. \A i \in 1 .. Len(queue') : EventFits(queue[i])'
    BY <1>1, <1>4, <1>5
  <2>2. \A i, j \in 1 .. Len(queue') : i < j => InOrder(queue'[i], queue'[j])
    BY <1>1, <1>5
  <2>3. TypeOK'
    BY <1>1, <1>3, <1>5 DEF TypeOK, Task, Message
  <2> QED
    BY <1>2, <2>1, <2>2, <2>3 DEF Orderly
<1>6. CASE \E e \in EventRecord : Sends(t, e)
  <2>1. PICK e \in EventRecord : Sends(t, e)
    BY <1>6
  <2>2. Publish(e)
    BY <2>1 DEF Sends
  <2>3. /\ queue' \in Seq(EventRecord) /\ Len(queue') \in Nat /\ Len(queue') <= Capacity /\ overrun' \in BOOLEAN
        /\ Len(queue') > 0 /\ queue'[Len(queue')] = e
    BY <1>1, <2>2, PublishShape
  <2>4. \A i \in 1 .. Len(queue') - 1 : \E j \in 1 .. Len(queue) : queue'[i] = queue[j] /\ queue[j] \in EventRecord
    BY <1>1, <2>2, PublishShape
  <2>5. TypeOK'
    BY <1>3, <2>3 DEF TypeOK, Task, Message, EventRecord
  <2>6. \A i \in 1 .. Len(queue') : EventFits(queue[i])'
    <3>1. \A i \in 1 .. Len(queue') - 1 : EventFits(queue[i])'
      BY <1>1, <1>4, <2>4
    <3>2. EventFits(e)'
      BY <1>1, <2>1, SentFits
    <3> QED
      BY <2>3, <3>1, <3>2
  <2>7. \A i, j \in 1 .. Len(queue') : i < j => InOrder(queue'[i], queue'[j])
    <3>1. \A i \in 1 .. Len(queue') - 1 : InOrder(queue'[i], e)
      BY <1>1, <2>1, <2>4, SentInOrder
    <3>2. PICK d \in {0, 1} :
              /\ Len(queue') = Len(queue) - d + 1
              /\ \A i \in 1 .. Len(queue') - 1 : i + d \in 1 .. Len(queue) /\ queue'[i] = queue[i + d]
      BY <1>1, <2>2, PublishShape
    <3>3. \A i, j \in 1 .. Len(queue') - 1 : i < j => InOrder(queue'[i], queue'[j])
      <4> TAKE i, j \in 1 .. Len(queue') - 1
      <4>1. i < j => i + d < j + d
        BY <2>3
      <4> QED
        BY <1>1, <3>2, <4>1
    <3> QED
      BY <2>3, <3>1, <3>3
  <2> QED
    BY <1>2, <2>5, <2>6, <2>7 DEF Orderly
<1> QED
  BY <1>5, <1>6 DEF Effect

\* ... and leaves no gap where there was none.
LEMMA TaskComplete ==
  ASSUME Inv, Complete, NEW t \in TraceIds, TasksTyped, Effect(t)
  PROVE  Complete'
<1> SUFFICES ASSUME ~overrun'
             PROVE  /\ \A i \in 1 .. Len(queue') : FollowedUp(queue[i])'
                    /\ \A type \in BodyEvents, u \in TraceIds : Gapless(type, u)'
  BY DEF Complete
<1>1. TypeOK /\ queue \in Seq(EventRecord) /\ Len(queue) \in Nat
  BY DEF Inv, TypeOK, EventRecord
<1>2. cache' = cache
  BY DEF Effect, storeVars
<1>3. \A type \in BodyEvents, u \in TraceIds : Sent(type, task[u]) \in Nat /\ Sent(type, task'[u]) \in Nat
  BY PipelineAssumption DEF Effect, TasksTyped, Task, Sent
<1>6. \A i \in 1 .. Len(queue) : queue[i] \in EventRecord
  BY <1>1
<1>7. \A e \in EventRecord : e.id \in TraceIds /\ e.num \in Nat
  BY DEF EventRecord
<1>4. CASE UNCHANGED <<queue, overrun>> /\ task'[t].reqSent = task[t].reqSent /\ task'[t].resSent = task[t].resSent
  <2>1. \A type \in BodyEvents, u \in TraceIds : Sent(type, task'[u]) = Sent(type, task[u])
    BY <1>4 DEF Effect, Sent
  <2>2. \A type, u, n : InChannel(type, u, n)' <=> InChannel(type, u, n)
    BY <1>4 DEF InChannel
  <2>3. queue' = queue /\ ~overrun
    BY <1>4
  <2>4. \A i \in 1 .. Len(queue) : FollowedUp(queue[i])'
    BY <1>6, <1>7, <2>1, <2>2, <2>3 DEF Complete, FollowedUp
  <2>5. \A type \in BodyEvents, u \in TraceIds : Gapless(type, u)'
    BY <1>2, <2>1, <2>2, <2>3 DEF Complete, Gapless
  <2> QED
    BY <2>3, <2>4, <2>5
<1>5. CASE \E e \in EventRecord : Sends(t, e)
  <2>1. PICK e \in EventRecord : Sends(t, e)
    BY <1>5
  <2>2. Publish(e) /\ e.id = t
    BY <2>1 DEF Sends
  <2>3. /\ Len(queue') = Len(queue) + 1 /\ queue'[Len(queue')] = e
        /\ \A i \in 1 .. Len(queue) : queue'[i] = queue[i]
        /\ ~overrun
    BY <1>1, <2>2, PublishShape
  <2>4. \A type, u, n : InChannel(type, u, n) => InChannel(type, u, n)'
    BY <1>1, <2>3 DEF InChannel
  <2>5. \A type \in BodyEvents : e.type = type => InChannel(type, t, e.num)'
    BY <1>1, <2>2, <2>3 DEF InChannel
  <2>6. \A type \in BodyEvents, u \in TraceIds :
          \/ Sent(type, task'[u]) = Sent(type, task[u])
          \/ /\ u = t /\ e.type = type /\ e.num = Sent(type, task[t]) + 1
             /\ Sent(type, task'[t]) = e.num
    BY <2>1 DEF Effect, Sends, Sent, BodyEvents
  <2>7. \A type \in BodyEvents, u \in TraceIds, n \in Nat :
          (\A m \in n .. Sent(type, task[u]) : InChannel(type, u, m)) =>
            \A m \in n .. Sent(type, task'[u]) : InChannel(type, u, m)'
    BY <1>3, <2>4, <2>5, <2>6
  <2>8. \A i \in 1 .. Len(queue') : FollowedUp(queue[i])'
    <3>1. \A i \in 1 .. Len(queue) : FollowedUp(queue[i])'
      <4> TAKE i \in 1 .. Len(queue)
      <4>1. FollowedUp(queue[i]) /\ queue'[i] = queue[i] /\ queue[i].id \in TraceIds /\ queue[i].num \in Nat
        BY <1>6, <1>7, <2>3 DEF Complete
      <4> QED
        BY <2>7, <4>1 DEF FollowedUp
    <3>2. FollowedUp(e)'
      <4>1. e.type \in BodyEvents => e.num = Sent(e.type, task'[t])
        BY <2>1, <2>2 DEF Sends, Sent, BodyEvents
      <4> QED
        BY <1>7, <2>2, <2>5, <4>1 DEF FollowedUp
    <3> QED
      BY <1>1, <2>3, <3>1, <3>2
  <2>9. \A type \in BodyEvents, u \in TraceIds : Gapless(type, u)'
    <3> TAKE type \in BodyEvents, u \in TraceIds
    <3>1. Gapless(type, u)
      BY <2>3 DEF Complete
    <3>2. ASSUME cache[u] # None, Body(type, cache[u]) # None, Body(type, cache[u]) # << >>
          PROVE  Body(type, cache[u])[Len(Body(type, cache[u]))] + 1 \in Nat
      <4>1. Body(type, cache[u]) \in Seq(Nat)
        BY <3>2 DEF Inv, Cache!Inv, Cache!TypeOK, Cache!Entry, Body
      <4> QED
        BY <3>2, <4>1
    <3> QED
      BY <1>2, <2>7, <3>1, <3>2 DEF Gapless
  <2> QED
    BY <2>8, <2>9
<1> QED
  BY <1>4, <1>5 DEF Effect

-----------------------------------------------------------------------------
(***************************************************************************)
(* What the consumer does. Applied says how an event other than            *)
(* OnRequestStart changes the entry of its exchange.                       *)
(***************************************************************************)
LogOf(c, n) == \E j \in DOMAIN c.messages.log : c.messages.log[j] = n

Applied(e, c, f) ==
  /\ f.request = IF e.type = "OnRequestBody" THEN Append(c.request, e.num) ELSE c.request
  /\ f.response = IF e.type = "OnResponseStart" THEN << >>
                  ELSE IF e.type = "OnResponseBody" /\ c.response # None THEN Append(c.response, e.num)
                  ELSE c.response
  /\ f.messages # None =>
       /\ c.messages # None \/ e.type \in OfWebSocket
       /\ \A i \in DOMAIN f.messages.log :
            \/ e.type = "OnWebSocketMessage" /\ f.messages.log[i] = e.num
            \/ c.messages # None /\ LogOf(c, f.messages.log[i])
  /\ f.tunnel = IF e.type = "OnTunnelStart" THEN "Connected"
                ELSE IF e.type = "OnTunnelEnd" /\ c.tunnel # None THEN "Disconnected"
                ELSE c.tunnel
  /\ IF e.type \in Ends THEN f.status \in Store!Terminal ELSE f.status = c.status

Handled(e) ==
  /\ now' = now /\ started' = started /\ snap' = snap
  /\ \A u \in TraceIds \ {e.id} : cache'[u] = cache[u]
  /\ cache'[e.id] # None <=> cache[e.id] # None
  /\ cache[e.id] # None => Applied(e, cache[e.id], cache'[e.id])

\* The constants of the store, as its own module assumes them.
LEMMA NoneApart ==
  /\ None \notin Nat \cup Seq(Nat) \cup Cache!TunnelStatus \cup Cache!WebSocket \cup Cache!Entry
  /\ Store!Entry = Cache!Entry /\ Store!WebSocket = Cache!WebSocket /\ Store!Terminal = Cache!Terminal
<1>1. /\ Store!Entry = Cache!Entry /\ Store!WebSocket = Cache!WebSocket
      /\ Store!TunnelStatus = Cache!TunnelStatus /\ Store!Terminal = Cache!Terminal
  BY DEF Store!Entry, Store!WebSocket, Store!TunnelStatus, Store!Status, Store!WebSocketStatus, Store!Terminal,
     Cache!Entry, Cache!WebSocket, Cache!TunnelStatus, Cache!Status, Cache!WebSocketStatus, Cache!Terminal
<1> QED
  BY <1>1, PipelineNone

\* A handler that replaces the entry of the event's exchange, when there is one.
LEMMA BecomeHandled ==
  ASSUME Cache!TypeOK, NEW e \in EventRecord, NEW f, Store!Become(e.id, f),
         cache[e.id] # None => f # None /\ Applied(e, cache[e.id], f)
  PROVE  Handled(e)
<1>1. e.id \in TraceIds /\ cache \in [TraceIds -> Cache!Entry \cup {None}]
  BY DEF EventRecord, Cache!TypeOK
<1>2. CASE cache[e.id] = None
  BY <1>1, <1>2 DEF Store!Become, Handled
<1>3. CASE cache[e.id] # None
  BY <1>1, <1>3 DEF Store!Become, Handled
<1> QED
  BY <1>2, <1>3

\* The fields of an entry, and those of a completed one.
LEMMA EntryFields ==
  ASSUME Cache!TypeOK, NEW id \in TraceIds, cache[id] # None
  PROVE  /\ cache[id] \in Cache!Entry /\ now \in Nat
         /\ cache[id].request \in Seq(Nat)
         /\ cache[id].response # None => cache[id].response \in Seq(Nat)
         /\ cache[id].messages # None => cache[id].messages \in Cache!WebSocket /\ cache[id].messages.log \in Seq(Nat)
         /\ \A s \in Cache!Terminal :
              LET d == Store!Completed(cache[id], s, now)
              IN  /\ d \in Cache!Entry /\ d.status = s
                  /\ d.request = cache[id].request /\ d.response = cache[id].response
                  /\ d.messages = cache[id].messages /\ d.tunnel = cache[id].tunnel
<1>1. cache[id] \in Cache!Entry /\ now \in Nat
  BY DEF Cache!TypeOK
<1>2. cache[id].messages # None => cache[id].messages \in Cache!WebSocket
  BY <1>1 DEF Cache!Entry
<1>3. ASSUME NEW s \in Cache!Terminal
      PROVE  LET d == Store!Completed(cache[id], s, now)
             IN  /\ d \in Cache!Entry /\ d.status = s
                 /\ d.request = cache[id].request /\ d.response = cache[id].response
                 /\ d.messages = cache[id].messages /\ d.tunnel = cache[id].tunnel
  BY <1>1 DEF Store!Completed, Cache!Entry, Cache!Status, Cache!Terminal
<1> QED
  BY <1>1, <1>2, <1>3 DEF Cache!Entry, Cache!WebSocket

\* Pushed adds a message at the end and may drop the oldest.
LEMMA PushedLog ==
  ASSUME NEW log \in Seq(Nat), NEW n \in Nat
  PROVE  /\ Store!Pushed(log, n) \in Seq(Nat)
         /\ \A i \in DOMAIN Store!Pushed(log, n) :
              Store!Pushed(log, n)[i] = n \/ \E j \in DOMAIN log : log[j] = Store!Pushed(log, n)[i]
<1>1. CASE Len(log) < MaxLog
  BY <1>1 DEF Store!Pushed
<1>2. CASE ~(Len(log) < MaxLog)
  <2> DEFINE rest == Tail(log)
  <2>1. log # << >>
    BY <1>2, PipelineAssumption
  <2>2. rest \in Seq(Nat) /\ \A i \in DOMAIN rest : i + 1 \in DOMAIN log /\ rest[i] = log[i + 1]
    BY <2>1
  <2>3. Store!Pushed(log, n) = Append(rest, n)
    BY <1>2 DEF Store!Pushed
  <2> HIDE DEF rest
  <2> QED
    BY <2>2, <2>3
<1> QED
  BY <1>1, <1>2

\* The handlers, one by one.
LEMMA HandleEffect ==
  ASSUME Cache!TypeOK, NEW e \in EventRecord, e.type # "OnRequestStart", Handle(e)
  PROVE  Handled(e)
<1> DEFINE c == cache[e.id]
<1>0. e.id \in TraceIds /\ e.num \in Nat /\ e.type \in EventTypes /\ now \in Nat
  BY DEF EventRecord, Cache!TypeOK
<1>1. c # None =>
         /\ c \in Cache!Entry
         /\ c.request \in Seq(Nat)
         /\ c.response # None => c.response \in Seq(Nat)
         /\ c.messages # None => c.messages \in Cache!WebSocket /\ c.messages.log \in Seq(Nat)
         /\ \A s \in Cache!Terminal :
              LET d == Store!Completed(c, s, now)
              IN  /\ d \in Cache!Entry /\ d.status = s
                  /\ d.request = c.request /\ d.response = c.response
                  /\ d.messages = c.messages /\ d.tunnel = c.tunnel
  BY <1>0, EntryFields
<1>2. \A f \in Cache!Entry : f # None
  BY NoneApart
<1>3. c # None /\ c.messages # None => \A i \in DOMAIN c.messages.log : LogOf(c, c.messages.log[i])
  BY DEF LogOf
<1>4. None \notin Cache!WebSocket /\ None \notin Seq(Nat) /\ None \notin Cache!TunnelStatus
  BY NoneApart
<1>5. CASE e.type \in {"OnRequestEnd", "OnError"}
  <2> DEFINE s == IF e.type = "OnError" THEN "Error" ELSE "Completed"
             f == Store!Completed(c, s, now)
  <2>1. Store!Become(e.id, f)
    BY <1>5 DEF Handle, Store!OnRequestEnd, Store!OnError
  <2>2. s \in Cache!Terminal
    BY DEF Cache!Terminal
  <2> HIDE DEF s
  <2>3. c # None => f # None /\ Applied(e, c, f)
    <3> SUFFICES ASSUME c # None PROVE f # None /\ Applied(e, c, f)
      OBVIOUS
    <3>1. /\ f \in Cache!Entry /\ f.status = s
          /\ f.request = c.request /\ f.response = c.response
          /\ f.messages = c.messages /\ f.tunnel = c.tunnel
      BY <1>1, <2>2
    <3> HIDE DEF f
    <3> QED
      BY <1>2, <1>3, <1>5, <2>2, <3>1, NoneApart DEF Applied, Ends
  <2> HIDE DEF f
  <2> QED
    BY <2>1, <2>3, BecomeHandled
<1>6. CASE e.type = "OnRequestBody"
  <2> DEFINE f == [c EXCEPT !.request = Append(c.request, e.num)]
  <2>1. Store!Become(e.id, f)
    BY <1>6 DEF Handle, Store!OnRequestBody
  <2>2. c # None => f # None /\ Applied(e, c, f)
    <3> SUFFICES ASSUME c # None PROVE f # None /\ Applied(e, c, f)
      OBVIOUS
    <3>1. Append(c.request, e.num) \in Seq(Nat)
      BY <1>0, <1>1
    <3>2. /\ f \in Cache!Entry /\ f.status = c.status
          /\ f.request = Append(c.request, e.num) /\ f.response = c.response
          /\ f.messages = c.messages /\ f.tunnel = c.tunnel
      BY <1>1, <3>1 DEF Cache!Entry
    <3> HIDE DEF f
    <3> QED
      BY <1>2, <1>3, <1>6, <3>2 DEF Applied, Ends
  <2> HIDE DEF f
  <2> QED
    BY <2>1, <2>2, BecomeHandled
<1>7. CASE e.type = "OnResponseStart"
  <2> DEFINE f == [c EXCEPT !.response = << >>]
  <2>1. Store!Become(e.id, f)
    BY <1>7 DEF Handle, Store!OnResponseStart
  <2>2. c # None => f # None /\ Applied(e, c, f)
    <3> SUFFICES ASSUME c # None PROVE f # None /\ Applied(e, c, f)
      OBVIOUS
    <3>1. /\ f \in Cache!Entry /\ f.status = c.status
          /\ f.request = c.request /\ f.response = << >>
          /\ f.messages = c.messages /\ f.tunnel = c.tunnel
      <4>1. << >> \in Seq(Nat) \cup {None}
        OBVIOUS
      <4> QED
        BY <1>1, <4>1 DEF Cache!Entry
    <3> HIDE DEF f
    <3> QED
      BY <1>2, <1>3, <1>7, <3>1 DEF Applied, Ends
  <2> HIDE DEF f
  <2> QED
    BY <2>1, <2>2, BecomeHandled
<1>8. CASE e.type = "OnResponseBody"
  <2> DEFINE b == IF c.response = None THEN None ELSE Append(c.response, e.num)
             f == [c EXCEPT !.response = b]
  <2>1. Store!Become(e.id, f)
    BY <1>8 DEF Handle, Store!OnResponseBody
  <2>2. c # None => f # None /\ Applied(e, c, f)
    <3> SUFFICES ASSUME c # None PROVE f # None /\ Applied(e, c, f)
      OBVIOUS
    <3>1. b \in Seq(Nat) \cup {None}
      BY <1>0, <1>1
    <3>2. b = IF c.response # None THEN Append(c.response, e.num) ELSE c.response
      OBVIOUS
    <3> HIDE DEF b
    <3>3. /\ f \in Cache!Entry /\ f.status = c.status
          /\ f.request = c.request /\ f.response = b
          /\ f.messages = c.messages /\ f.tunnel = c.tunnel
      BY <1>1, <3>1 DEF Cache!Entry
    <3> HIDE DEF f
    <3> QED
      BY <1>2, <1>3, <1>8, <3>2, <3>3 DEF Applied, Ends
  <2> HIDE DEF f
  <2> QED
    BY <2>1, <2>2, BecomeHandled
<1>9. CASE e.type \in {"OnWebSocketStart", "OnWebSocketMessage"}
  <2> DEFINE log == IF e.type = "OnWebSocketStart" THEN << >> ELSE Store!Pushed(Store!Logged(c.messages), e.num)
             status == IF e.type = "OnWebSocketStart" THEN "Start" ELSE IF e.close THEN "Disconnected" ELSE "Connected"
             m == [status |-> status, log |-> log]
             f == [c EXCEPT !.messages = m]
  <2>1. Store!Become(e.id, f)
    BY <1>9 DEF Handle, Store!OnWebSocketStart, Store!OnWebSocketMessage
  <2>2. c # None => f # None /\ Applied(e, c, f)
    <3> SUFFICES ASSUME c # None PROVE f # None /\ Applied(e, c, f)
      OBVIOUS
    <3>1. Store!Logged(c.messages) \in Seq(Nat)
      BY <1>1 DEF Store!Logged
    <3>2. /\ log \in Seq(Nat)
          /\ \A i \in DOMAIN log :
               \/ e.type = "OnWebSocketMessage" /\ log[i] = e.num
               \/ c.messages # None /\ LogOf(c, log[i])
      <4>1. CASE e.type = "OnWebSocketStart"
        BY <4>1
      <4>2. CASE e.type = "OnWebSocketMessage"
        <5> DEFINE old == Store!Logged(c.messages)
        <5>1. log = Store!Pushed(old, e.num)
          BY <4>2
        <5>2. \A j \in DOMAIN old : c.messages # None /\ old[j] = c.messages.log[j] /\ j \in DOMAIN c.messages.log
          BY DEF Store!Logged
        <5> HIDE DEF log, old
        <5>3. /\ log \in Seq(Nat)
              /\ \A i \in DOMAIN log : log[i] = e.num \/ \E j \in DOMAIN old : old[j] = log[i]
          BY <1>0, <3>1, <5>1, PushedLog DEF old
        <5> QED
          BY <4>2, <5>2, <5>3 DEF LogOf
      <4> QED
        BY <1>9, <4>1, <4>2
    <3> HIDE DEF log
    <3>3. m \in Cache!WebSocket /\ m.log = log
      BY <3>2 DEF Cache!WebSocket, Cache!WebSocketStatus
    <3> HIDE DEF m
    <3>4. /\ f \in Cache!Entry /\ f.status = c.status
          /\ f.request = c.request /\ f.response = c.response
          /\ f.messages = m /\ f.tunnel = c.tunnel
      BY <1>1, <3>3 DEF Cache!Entry
    <3> HIDE DEF f
    <3> QED
      BY <1>2, <1>9, <3>2, <3>3, <3>4 DEF Applied, Ends, OfWebSocket
  <2> HIDE DEF f
  <2> QED
    BY <2>1, <2>2, BecomeHandled
<1>10. CASE e.type = "OnWebSocketError"
  <2> DEFINE d == Store!Completed(c, "Completed", now)
             m == [status |-> "Error", log |-> Store!Logged(d.messages)]
             f == [d EXCEPT !.messages = m]
  <2>1. Store!Become(e.id, f)
    BY <1>10 DEF Handle, Store!OnWebSocketError
  <2>2. c # None => f # None /\ Applied(e, c, f)
    <3> SUFFICES ASSUME c # None PROVE f # None /\ Applied(e, c, f)
      OBVIOUS
    <3>1. /\ d \in Cache!Entry /\ d.status = "Completed" /\ "Completed" \in Cache!Terminal
          /\ d.request = c.request /\ d.response = c.response
          /\ d.messages = c.messages /\ d.tunnel = c.tunnel
      BY <1>1 DEF Cache!Terminal
    <3> HIDE DEF d
    <3>2. /\ Store!Logged(d.messages) \in Seq(Nat)
          /\ \A i \in DOMAIN Store!Logged(d.messages) : c.messages # None /\ LogOf(c, Store!Logged(d.messages)[i])
      BY <1>1, <3>1 DEF Store!Logged, LogOf
    <3>3. m \in Cache!WebSocket /\ m.log = Store!Logged(d.messages)
      BY <3>2 DEF Cache!WebSocket, Cache!WebSocketStatus
    <3> HIDE DEF m
    <3>4. /\ f \in Cache!Entry /\ f.status = d.status
          /\ f.request = d.request /\ f.response = d.response
          /\ f.messages = m /\ f.tunnel = d.tunnel
      BY <3>1, <3>3 DEF Cache!Entry
    <3> HIDE DEF f
    <3> QED
      BY <1>2, <1>10, <3>1, <3>2, <3>3, <3>4, NoneApart DEF Applied, Ends, OfWebSocket
  <2> HIDE DEF f
  <2> QED
    BY <2>1, <2>2, BecomeHandled
<1>11. CASE e.type = "OnWebSocketEnd"
  <2> DEFINE d == Store!Completed(c, "Completed", now)
             m == IF d.messages = None THEN None ELSE [status |-> "Disconnected", log |-> d.messages.log]
             f == [d EXCEPT !.messages = m]
  <2>1. Store!Become(e.id, f)
    BY <1>11 DEF Handle, Store!OnWebSocketEnd
  <2>2. c # None => f # None /\ Applied(e, c, f)
    <3> SUFFICES ASSUME c # None PROVE f # None /\ Applied(e, c, f)
      OBVIOUS
    <3>1. /\ d \in Cache!Entry /\ d.status = "Completed" /\ "Completed" \in Cache!Terminal
          /\ d.request = c.request /\ d.response = c.response
          /\ d.messages = c.messages /\ d.tunnel = c.tunnel
      BY <1>1 DEF Cache!Terminal
    <3> HIDE DEF d
    <3>2. m \in Cache!WebSocket \cup {None} /\ (m # None => c.messages # None /\ m.log = c.messages.log)
      BY <1>1, <3>1 DEF Cache!WebSocket, Cache!WebSocketStatus
    <3> HIDE DEF m
    <3>3. /\ f \in Cache!Entry /\ f.status = d.status
          /\ f.request = d.request /\ f.response = d.response
          /\ f.messages = m /\ f.tunnel = d.tunnel
      BY <3>1, <3>2 DEF Cache!Entry
    <3> HIDE DEF f
    <3> QED
      BY <1>2, <1>3, <1>11, <3>1, <3>2, <3>3, NoneApart DEF Applied, Ends, OfWebSocket
  <2> HIDE DEF f
  <2> QED
    BY <2>1, <2>2, BecomeHandled
<1>12. CASE e.type = "OnTunnelStart"
  <2> DEFINE f == [c EXCEPT !.tunnel = "Connected"]
  <2>1. Store!Become(e.id, f)
    BY <1>12 DEF Handle, Store!OnTunnelStart
  <2>2. c # None => f # None /\ Applied(e, c, f)
    <3> SUFFICES ASSUME c # None PROVE f # None /\ Applied(e, c, f)
      OBVIOUS
    <3>1. /\ f \in Cache!Entry /\ f.status = c.status
          /\ f.request = c.request /\ f.response = c.response
          /\ f.messages = c.messages /\ f.tunnel = "Connected"
      BY <1>1 DEF Cache!Entry, Cache!TunnelStatus
    <3> HIDE DEF f
    <3> QED
      BY <1>2, <1>3, <1>12, <3>1 DEF Applied, Ends
  <2> HIDE DEF f
  <2> QED
    BY <2>1, <2>2, BecomeHandled
<1>13. CASE e.type = "OnTunnelEnd"
  <2> DEFINE d == Store!Completed(c, "Completed", now)
             s == IF d.tunnel = None THEN None ELSE "Disconnected"
             f == [d EXCEPT !.tunnel = s]
  <2>1. Store!Become(e.id, f)
    BY <1>13 DEF Handle, Store!OnTunnelEnd
  <2>2. c # None => f # None /\ Applied(e, c, f)
    <3> SUFFICES ASSUME c # None PROVE f # None /\ Applied(e, c, f)
      OBVIOUS
    <3>1. /\ d \in Cache!Entry /\ d.status = "Completed" /\ "Completed" \in Cache!Terminal
          /\ d.request = c.request /\ d.response = c.response
          /\ d.messages = c.messages /\ d.tunnel = c.tunnel
      BY <1>1 DEF Cache!Terminal
    <3> HIDE DEF d
    <3>2. s \in Cache!TunnelStatus \cup {None} /\ s = IF c.tunnel # None THEN "Disconnected" ELSE c.tunnel
      BY <3>1 DEF Cache!TunnelStatus
    <3> HIDE DEF s
    <3>3. /\ f \in Cache!Entry /\ f.status = d.status
          /\ f.request = d.request /\ f.response = d.response
          /\ f.messages = d.messages /\ f.tunnel = s
      BY <3>1, <3>2 DEF Cache!Entry
    <3> HIDE DEF f
    <3> QED
      BY <1>2, <1>3, <1>13, <3>1, <3>2, <3>3, NoneApart DEF Applied, Ends
  <2> HIDE DEF f
  <2> QED
    BY <2>1, <2>2, BecomeHandled
<1>14. CASE e.type \in {"OnRequestBodyEnd", "OnResponseBodyEnd", "OnProxyStart", "OnProxyEnd"}
  <2>1. UNCHANGED storeVars
    BY <1>14 DEF Handle
  <2>2. c # None => Applied(e, c, c)
    BY <1>3, <1>14 DEF Applied, Ends
  <2> QED
    BY <2>1, <2>2 DEF storeVars, Handled
<1> QED
  BY <1>0, <1>5, <1>6, <1>7, <1>8, <1>9, <1>10, <1>11, <1>12, <1>13, <1>14 DEF EventTypes

(***************************************************************************)
(* Every event in the channel is one the store expects.                    *)
(***************************************************************************)
LEMMA HandleIsStep ==
  ASSUME Cache!TypeOK, TasksTyped, NEW e \in EventRecord, EventFits(e), Handle(e)
  PROVE  Store!Next \/ UNCHANGED storeVars
<1>0. e.id \in TraceIds /\ e.num \in Nat /\ e.type \in EventTypes /\ e.close \in BOOLEAN
  BY DEF EventRecord
<1>1. CASE e.type = "OnRequestStart"
  <2>1. Store!OnRequestStart(e.id) /\ e.id \notin started
    BY <1>1 DEF Handle, EventFits
  <2> QED
    BY <1>0, <2>1 DEF Store!Next
<1>2. CASE cache[e.id] = None /\ e.type # "OnRequestStart"
  <2>1. Handled(e)
    BY <1>2, HandleEffect
  <2>2. cache' = cache
    <3>1. cache \in [TraceIds -> Cache!Entry \cup {None}]
      BY DEF Cache!TypeOK
    <3>2. \E f : cache' = [cache EXCEPT ![e.id] = f] \/ cache' = cache
      BY <1>0, <1>2 DEF Handle, Store!OnRequestBody, Store!OnRequestEnd, Store!OnError, Store!OnResponseStart,
         Store!OnResponseBody, Store!OnWebSocketStart, Store!OnWebSocketError, Store!OnWebSocketEnd,
         Store!OnWebSocketMessage, Store!OnTunnelStart, Store!OnTunnelEnd, Store!Become, storeVars
    <3>3. cache' \in [TraceIds -> {cache'[u] : u \in TraceIds}]
      BY <3>1, <3>2
    <3> QED
      BY <1>0, <1>2, <2>1, <3>1, <3>3 DEF Handled
  <2> QED
    BY <2>1, <2>2 DEF Handled, storeVars
<1>3. CASE cache[e.id] # None /\ e.type # "OnRequestStart"
  <2>1. task[e.id].reqSent <= MaxChunk /\ task[e.id].resSent <= MaxChunk /\ task[e.id].relayed <= MaxMsg
        /\ task[e.id].reqSent \in Nat /\ task[e.id].resSent \in Nat /\ task[e.id].relayed \in Nat
    BY <1>0, PipelineAssumption DEF TasksTyped, Task
  <2>2. CASE e.type = "OnRequestBody"
    <3>1. Store!OnRequestBody(e.id, e.num)
      BY <2>2 DEF Handle
    <3>2. e.num \in 1 .. MaxChunk /\ Above(e.num, cache[e.id].request)
      BY <1>0, <1>3, <2>1, <2>2, PipelineAssumption DEF EventFits
    <3>3. cache[e.id].request \in Seq(Nat)
      BY <1>0, <1>3, EntryFields
    <3>4. e.num \in Store!FreshChunks(cache[e.id].request)
      BY <3>2, <3>3 DEF Above, Store!FreshChunks
    <3> QED
      BY <1>0, <1>3, <3>1, <3>4 DEF Store!Next, Store!RequestBodyEvent
  <2>3. CASE e.type = "OnResponseBody" /\ cache[e.id].response # None
    <3>1. Store!OnResponseBody(e.id, e.num) /\ Kind[e.id] = "http"
      BY <2>3 DEF Handle, EventFits, OfHttp
    <3>2. e.num \in 1 .. MaxChunk /\ Above(e.num, cache[e.id].response)
      BY <1>0, <1>3, <2>1, <2>3, PipelineAssumption DEF EventFits
    <3>3. cache[e.id].response \in Seq(Nat)
      BY <1>0, <1>3, <2>3, EntryFields
    <3>4. e.num \in Store!FreshChunks(cache[e.id].response)
      BY <3>2, <3>3 DEF Above, Store!FreshChunks
    <3> QED
      BY <1>0, <1>3, <2>3, <3>1, <3>4 DEF Store!Next, Store!HttpEvent
  <2>4. CASE e.type = "OnResponseBody" /\ cache[e.id].response = None
    <3>1. Store!Become(e.id, [cache[e.id] EXCEPT !.response = None])
      BY <2>4 DEF Handle, Store!OnResponseBody
    <3>2. cache[e.id] \in Cache!Entry /\ cache \in [TraceIds -> Cache!Entry \cup {None}]
      BY <1>0, <1>3 DEF Cache!TypeOK
    <3>3. [cache[e.id] EXCEPT !.response = None] = cache[e.id]
      BY <2>4, <3>2 DEF Cache!Entry
    <3> QED
      BY <3>1, <3>2, <3>3 DEF Store!Become, storeVars
  <2>5. CASE e.type = "OnWebSocketMessage"
    <3> DEFINE m == [num |-> e.num, close |-> e.close]
    <3>1. Store!OnWebSocketMessage(e.id, m) /\ Kind[e.id] = "ws"
      BY <2>5 DEF Handle, EventFits, OfWebSocket
    <3>2. m \in Store!WebSocketMessage /\ m.num = e.num
      BY <1>0, <2>1, <2>5, PipelineAssumption DEF EventFits, Store!WebSocketMessage
    <3>3. cache[e.id].messages # None =>
            /\ cache[e.id].messages.log \in Seq(Nat)
            /\ \A i \in DOMAIN cache[e.id].messages.log : cache[e.id].messages.log[i] # m.num
      BY <1>0, <1>3, <2>5, <3>2, EntryFields DEF EventFits
    <3> HIDE DEF m
    <3>4. m \in Store!FreshMessages(cache[e.id].messages)
      BY <3>2, <3>3 DEF Store!FreshMessages
    <3> QED
      BY <1>0, <1>3, <3>1, <3>4 DEF Store!Next, Store!WebSocketEvent
  <2>6. CASE e.type = "OnError"
    BY <1>0, <2>6 DEF Handle, Store!Next
  <2>7. CASE e.type \in {"OnRequestEnd", "OnResponseStart"}
    BY <1>0, <2>7 DEF Handle, EventFits, OfHttp, Store!Next, Store!HttpEvent
  <2>8. CASE e.type \in {"OnWebSocketStart", "OnWebSocketError", "OnWebSocketEnd"}
    BY <1>0, <2>8 DEF Handle, EventFits, OfWebSocket, Store!Next, Store!WebSocketEvent
  <2>9. CASE e.type \in {"OnTunnelStart", "OnTunnelEnd"}
    BY <1>0, <2>9 DEF Handle, EventFits, OfConnect, Store!Next, Store!TunnelEvent
  <2>10. CASE e.type \in {"OnRequestBodyEnd", "OnResponseBodyEnd", "OnProxyStart", "OnProxyEnd"}
    BY <2>10 DEF Handle
  <2> QED
    BY <1>0, <1>3, <2>2, <2>3, <2>4, <2>5, <2>6, <2>7, <2>8, <2>9, <2>10 DEF EventTypes
<1> QED
  BY <1>1, <1>2, <1>3

\* The two instances of the store are one.
LEMMA SameInsertion == \A id \in TraceIds : Store!OnRequestStart(id) <=> Cache!OnRequestStart(id)
<1>1. \A e, t : Store!IsNeedDeleted(e, t) <=> Cache!IsNeedDeleted(e, t)
  BY DEF Store!OlderThan, Store!IsNeedDeleted, Store!HasActiveLongConnection, Store!TunnelActive,
     Store!WebSocketActive, Store!Terminal,
     Cache!OlderThan, Cache!IsNeedDeleted, Cache!HasActiveLongConnection, Cache!TunnelActive,
     Cache!WebSocketActive, Cache!Terminal
<1>2. \A c, t : Store!Deletable(c, t) = Cache!Deletable(c, t)
  BY <1>1 DEF Store!Deletable, Store!Present, Cache!Deletable, Cache!Present
<1>3. \A c, t : Store!Expired(c, t) = Cache!Expired(c, t)
  BY <1>2 DEF Store!Expired, Store!OlderThan, Cache!Expired, Cache!OlderThan
<1>4. \A c, ids : Store!Oldest(c, ids) = Cache!Oldest(c, ids)
  BY DEF Store!Oldest, Store!Older, Cache!Oldest, Cache!Older
<1>5. \A c, ids : Store!Without(c, ids) = Cache!Without(c, ids)
  BY DEF Store!Without, Cache!Without
<1>6. \A c : Store!Present(c) = Cache!Present(c)
  BY DEF Store!Present, Cache!Present
<1>7. \A c, t : Store!Evicted(c, t) = Cache!Evicted(c, t)
  <2> TAKE c, t
  <2> DEFINE kept == Store!Without(c, Store!Expired(c, t))
             victims == Store!Oldest(kept, Store!Deletable(kept, t))
  <2>1. kept = Cache!Without(c, Cache!Expired(c, t))
    BY <1>3, <1>5
  <2> HIDE DEF kept
  <2>2. victims = Cache!Oldest(kept, Cache!Deletable(kept, t))
    BY <1>2, <1>4
  <2> HIDE DEF victims
  <2>3. {Store!Without(kept, {id}) : id \in victims} = {Cache!Without(kept, {id}) : id \in victims}
    BY <1>5
  <2>4. \A S : Store!Cardinality(S) = Cache!Cardinality(S)
    BY DEF Store!Cardinality, Cache!Cardinality
  <2>5. Store!Evicted(c, t) = IF Store!Cardinality(Store!Present(kept)) > EvictThreshold /\ victims # {}
                              THEN {Store!Without(kept, {id}) : id \in victims} ELSE {kept}
    BY DEF Store!Evicted, kept, victims
  <2>6. Cache!Evicted(c, t) = IF Cache!Cardinality(Cache!Present(kept)) > EvictThreshold /\ victims # {}
                              THEN {Cache!Without(kept, {id}) : id \in victims} ELSE {kept}
    <3>1. Cache!Evicted(c, t) =
            LET k == Cache!Without(c, Cache!Expired(c, t))
                v == Cache!Oldest(k, Cache!Deletable(k, t))
            IN  IF Cache!Cardinality(Cache!Present(k)) > EvictThreshold /\ v # {}
                THEN {Cache!Without(k, {id}) : id \in v} ELSE {k}
      BY DEF Cache!Evicted
    <3> QED
      BY <2>1, <2>2, <3>1
  <2> QED
    BY <1>6, <2>3, <2>4, <2>5, <2>6
<1>8. \A t : Store!NewEntry(t) = Cache!NewEntry(t)
  BY DEF Store!NewEntry, Cache!NewEntry
<1> QED
  BY <1>7, <1>8 DEF Store!OnRequestStart, Cache!OnRequestStart

\* Hence they have the same behaviours.
LEMMA SameNext ==
  /\ Store!Init <=> Cache!Init
  /\ [Store!Next]_storeVars <=> [Cache!Next]_(Cache!vars)
<1>1. Store!Init <=> Cache!Init
  BY DEF Store!Init, Cache!Init
<1>2. \A id \in TraceIds : Store!OnRequestStart(id) <=> Cache!OnRequestStart(id)
  BY SameInsertion
<1>3. \A id \in TraceIds : Store!RequestBodyEvent(id) <=> Cache!RequestBodyEvent(id)
  BY DEF Store!RequestBodyEvent, Store!FreshChunks, Store!OnRequestBody, Store!Become,
     Cache!RequestBodyEvent, Cache!FreshChunks, Cache!OnRequestBody, Cache!Become
<1>4. \A id \in TraceIds : Store!OnError(id) <=> Cache!OnError(id)
  BY DEF Store!OnError, Store!Completed, Store!Become, Cache!OnError, Cache!Completed, Cache!Become
<1>5. \A id \in TraceIds : Store!HttpEvent(id) <=> Cache!HttpEvent(id)
  BY DEF Store!HttpEvent, Store!OnRequestEnd, Store!OnResponseStart, Store!OnResponseBody, Store!FreshChunks,
     Store!Completed, Store!Become,
     Cache!HttpEvent, Cache!OnRequestEnd, Cache!OnResponseStart, Cache!OnResponseBody, Cache!FreshChunks,
     Cache!Completed, Cache!Become
<1>6. \A id \in TraceIds : Store!WebSocketEvent(id) <=> Cache!WebSocketEvent(id)
  BY DEF Store!WebSocketEvent, Store!OnWebSocketStart, Store!OnWebSocketError, Store!OnWebSocketEnd,
     Store!OnWebSocketMessage, Store!FreshMessages, Store!WebSocketMessage, Store!Logged, Store!Pushed,
     Store!Completed, Store!Become,
     Cache!WebSocketEvent, Cache!OnWebSocketStart, Cache!OnWebSocketError, Cache!OnWebSocketEnd,
     Cache!OnWebSocketMessage, Cache!FreshMessages, Cache!WebSocketMessage, Cache!Logged, Cache!Pushed,
     Cache!Completed, Cache!Become
<1>7. \A id \in TraceIds : Store!TunnelEvent(id) <=> Cache!TunnelEvent(id)
  BY DEF Store!TunnelEvent, Store!OnTunnelStart, Store!OnTunnelEnd, Store!Completed, Store!Become,
     Cache!TunnelEvent, Cache!OnTunnelStart, Cache!OnTunnelEnd, Cache!Completed, Cache!Become
<1>8. \A r \in Readers : Store!Read(r) <=> Cache!Read(r)
  BY DEF Store!Read, Store!ScanBegin, Store!ScanEnd, Store!ScanNewEntry, Store!DropEntry, Store!Scanned, Store!Present,
     Store!IsNeedDeleted, Store!OlderThan, Store!HasActiveLongConnection, Store!TunnelActive, Store!WebSocketActive,
     Store!Terminal,
     Cache!Read, Cache!ScanBegin, Cache!ScanEnd, Cache!ScanNewEntry, Cache!DropEntry, Cache!Scanned, Cache!Present,
     Cache!IsNeedDeleted, Cache!OlderThan, Cache!HasActiveLongConnection, Cache!TunnelActive, Cache!WebSocketActive,
     Cache!Terminal
<1>9. Store!Tick <=> Cache!Tick
  BY DEF Store!Tick, Cache!Tick
<1>10. Store!Next <=> Cache!Next
  BY <1>2, <1>3, <1>4, <1>5, <1>6, <1>7, <1>8, <1>9 DEF Store!Next, Cache!Next
<1> QED
  BY <1>1, <1>10 DEF storeVars, Cache!vars

(***************************************************************************)
(* What MessageEventStoreProofs shows of the store's steps, for the        *)
(* constants of the pipeline.                                              *)
(***************************************************************************)
LEMMA CacheInv ==
  /\ Store!Init => Cache!Inv
  /\ Cache!Inv /\ [Store!Next]_storeVars => Cache!Inv'
<1>1. Cache!Init => Cache!Inv
  BY NoneApart, PipelineAssumption, Cache!InitInv
<1>2. Cache!Inv /\ [Cache!Next]_(Cache!vars) => Cache!Inv'
  BY NoneApart, PipelineAssumption, Cache!NextInv
<1> QED
  BY <1>1, <1>2, SameNext

\* An insertion removes only entries it may delete ...
LEMMA CacheInsertEffect ==
  ASSUME Cache!TypeOK, NEW id \in TraceIds, Cache!OnRequestStart(id)
  PROVE  \E ids \in SUBSET (Cache!Deletable(cache, now) \ {id}) :
           cache' = [u \in TraceIds |-> IF u \in ids THEN None ELSE IF u = id THEN Cache!NewEntry(now) ELSE cache[u]]
BY NoneApart, PipelineAssumption, Cache!InsertEffect

\* ... which have a terminal status.
LEMMA CacheDeletableIsTerminal ==
  ASSUME Cache!CompletionTimed, NEW id \in Cache!Deletable(cache, now)
  PROVE  id \in Cache!Present(cache) /\ cache[id].status \in Cache!Terminal
BY NoneApart, PipelineAssumption, Cache!DeletableIsTerminal

(***************************************************************************)
(* The cache moves, the tasks do not.                                      *)
(***************************************************************************)

\* The part of an entry the tasks and the channel are compared with.
SameContent(c, d) ==
  /\ d.request = c.request /\ d.response = c.response /\ d.messages = c.messages
  /\ d.tunnel = c.tunnel /\ d.status = c.status

\* What a snapshot or the clock may do: entries keep their content or, when they are
\* terminal, go.
LEMMA RemovalFits ==
  ASSUME \A u \in TraceIds : RecordFits(u), started' = started, task' = task,
         \A u \in TraceIds :
           IF cache'[u] # None THEN cache[u] # None /\ SameContent(cache[u], cache'[u])
           ELSE cache[u] # None => cache[u].status \in Store!Terminal
  PROVE  /\ \A u \in TraceIds : RecordFits(u)'
         /\ \A e \in EventRecord : EventFits(e) => EventFits(e)'
<1>1. ASSUME NEW u \in TraceIds PROVE RecordFits(u)'
  <2>1. CASE cache'[u] # None
    <3>1. cache[u] # None /\ SameContent(cache[u], cache'[u]) /\ u \in started /\ EntryFits(u) /\ Recording(u)
      BY <2>1 DEF RecordFits
    <3>2. EntryFits(u)'
      BY <3>1 DEF EntryFits, SameContent, Over, Tunnelled
    <3> QED
      BY <2>1, <3>1, <3>2 DEF RecordFits, Recording
  <2>2. CASE cache'[u] = None
    <3>1. u \in started => Over(u) /\ Recording(u)
      BY <2>2 DEF RecordFits, EntryFits
    <3> QED
      BY <2>2, <3>1 DEF RecordFits, Recording, Over
  <2> QED
    BY <2>1, <2>2
<1>2. ASSUME NEW e \in EventRecord, EventFits(e) PROVE EventFits(e)'
  <2>1. e.id \in TraceIds
    BY DEF EventRecord
  <2>2. cache'[e.id] # None => cache[e.id] # None /\ SameContent(cache[e.id], cache'[e.id])
    BY <2>1
  <2> QED
    BY <1>2, <2>2 DEF EventFits, SameContent, Recording, Over, Tunnelled
<1> QED
  BY <1>1, <1>2

\* An insertion may evict, but only what is terminal.
LEMMA InsertionFits ==
  ASSUME Cache!Inv, \A u \in TraceIds : RecordFits(u), task' = task,
         NEW e \in EventRecord, EventFits(e), e.type = "OnRequestStart", Handle(e)
  PROVE  /\ \A u \in TraceIds : RecordFits(u)'
         /\ \A f \in EventRecord : EventFits(f) /\ InOrder(e, f) => EventFits(f)'
         /\ \A u \in TraceIds : cache'[u] = None \/ cache'[u] = Cache!NewEntry(now) \/ cache'[u] = cache[u]
<1>1. e.id \in TraceIds /\ Cache!OnRequestStart(e.id)
  BY SameInsertion DEF EventRecord, Handle
<1>2. started' = started \cup {e.id}
  BY <1>1 DEF Cache!OnRequestStart
<1>3. PICK ids \in SUBSET (Cache!Deletable(cache, now) \ {e.id}) :
        cache' = [u \in TraceIds |-> IF u \in ids THEN None ELSE IF u = e.id THEN Cache!NewEntry(now) ELSE cache[u]]
  BY <1>1, CacheInsertEffect DEF Cache!Inv
<1>4. \A u \in ids : u \in TraceIds /\ cache[u] # None /\ cache[u].status \in Store!Terminal
  BY CacheDeletableIsTerminal, NoneApart DEF Cache!Inv, Cache!Present
<1> DEFINE new == Cache!NewEntry(now)
<1>5. /\ new.request = << >> /\ new.response = None /\ new.messages = None /\ new.tunnel = None
      /\ new.status \notin Store!Terminal /\ new # None
  <2>1. new \in Cache!Entry
    BY DEF Cache!Inv, Cache!TypeOK, Cache!NewEntry, Cache!Entry, Cache!Status
  <2> QED
    BY <2>1, NoneApart DEF Cache!NewEntry, Store!Terminal
<1>6. /\ cache'[e.id] = new
      /\ \A u \in ids : cache'[u] = None
      /\ \A u \in TraceIds \ ids : u # e.id => cache'[u] = cache[u]
  <2>1. e.id \notin ids
    OBVIOUS
  <2> HIDE DEF new
  <2> QED
    BY <1>1, <1>3, <1>4, <2>1 DEF new
<1> HIDE DEF new
<1>7. ASSUME NEW u \in TraceIds PROVE RecordFits(u)'
  <2>1. CASE u = e.id
    <3>1. EntryFits(u)'
      BY <1>5, <1>6, <2>1 DEF EntryFits, Within, Increasing
    <3>2. Recording(u)'
      BY <2>1 DEF EventFits, Recording
    <3> QED
      BY <1>2, <2>1, <3>1, <3>2, <1>5, <1>6 DEF RecordFits
  <2>2. CASE u \in ids
    <3>1. Over(u) /\ Recording(u)
      BY <1>4, <2>2 DEF RecordFits, EntryFits
    <3> QED
      BY <1>6, <2>2, <3>1 DEF RecordFits, Recording, Over
  <2>3. CASE u \notin ids /\ u # e.id
    <3>1. cache'[u] = cache[u] /\ (u \in started' <=> u \in started)
      BY <1>2, <1>6, <2>3
    <3> QED
      BY <3>1 DEF RecordFits, EntryFits, Recording, Over, Tunnelled
  <2> QED
    BY <2>1, <2>2, <2>3
<1>8. ASSUME NEW f \in EventRecord, EventFits(f), InOrder(e, f) PROVE EventFits(f)'
  <2>1. f.id \in TraceIds
    BY DEF EventRecord
  <2>2. CASE f.id = e.id
    <3>1. f.type # "OnRequestStart"
      BY <1>8, <2>2 DEF InOrder
    <3> QED
      BY <1>5, <1>6, <1>8, <2>2, <3>1 DEF EventFits, Above, Over, Tunnelled
  <2>3. CASE f.id # e.id
    <3>1. cache'[f.id] = None \/ cache'[f.id] = cache[f.id]
      BY <1>6, <2>1, <2>3
    <3> QED
      BY <1>2, <1>8, <2>3, <3>1 DEF EventFits, Recording, Over, Tunnelled
  <2> QED
    BY <2>2, <2>3
<1> QED
  BY <1>6, <1>7, <1>8 DEF new

\* A chunk above all those of a body.
LEMMA AppendFits ==
  ASSUME NEW b \in Seq(Nat), NEW n \in Nat, NEW sent, Within(b, sent), Increasing(b), n \in 1 .. sent, Above(n, b)
  PROVE  Within(Append(b, n), sent) /\ Increasing(Append(b, n))
<1> DEFINE f == Append(b, n)
<1>1. /\ f \in Seq(Nat) /\ Len(f) = Len(b) + 1 /\ f[Len(b) + 1] = n /\ Len(b) \in Nat
      /\ \A i \in 1 .. Len(b) : f[i] = b[i]
      /\ DOMAIN b = 1 .. Len(b) /\ DOMAIN f = 1 .. Len(f)
  OBVIOUS
<1> HIDE DEF f
<1> QED
  BY <1>1 DEF Within, Increasing, Above, f

\* The other events, on an entry their exchange still has.
LEMMA EventKeepsFit ==
  ASSUME Cache!TypeOK, \A u \in TraceIds : RecordFits(u), task' = task,
         NEW e \in EventRecord, EventFits(e), e.type # "OnRequestStart", Handled(e)
  PROVE  /\ \A u \in TraceIds : RecordFits(u)'
         /\ \A f \in EventRecord : EventFits(f) /\ InOrder(e, f) => EventFits(f)'
<1> DEFINE t == e.id
           c == cache[t]
           d == cache'[t]
<1>1. t \in TraceIds /\ e.num \in Nat
  BY DEF EventRecord
<1>2. /\ started' = started
      /\ \A u \in TraceIds \ {t} : cache'[u] = cache[u]
      /\ d # None <=> c # None
      /\ c # None => Applied(e, c, d)
  BY DEF Handled
<1>3. c # None => /\ c.request \in Seq(Nat)
                  /\ c.response # None => c.response \in Seq(Nat)
                  /\ EntryFits(t)
  BY <1>1, EntryFields DEF RecordFits
<1>4. c # None => EntryFits(t)'
  <2> SUFFICES ASSUME c # None PROVE EntryFits(t)'
    OBVIOUS
  <2>1. Within(d.request, task[t].reqSent) /\ Increasing(d.request)
    <3>1. CASE e.type = "OnRequestBody"
      <4>1. d.request = Append(c.request, e.num) /\ c.request \in Seq(Nat)
        BY <1>2, <1>3, <3>1 DEF Applied
      <4>2. e.num \in 1 .. task[t].reqSent /\ Above(e.num, c.request)
        BY <3>1 DEF EventFits
      <4>3. Within(c.request, task[t].reqSent) /\ Increasing(c.request)
        BY <1>3 DEF EntryFits
      <4> QED
        BY <1>1, <4>1, <4>2, <4>3, AppendFits
    <3>2. CASE e.type # "OnRequestBody"
      BY <1>2, <1>3, <3>2 DEF Applied, EntryFits
    <3> QED
      BY <3>1, <3>2
  <2>2. d.response # None => Within(d.response, task[t].resSent) /\ Increasing(d.response)
    <3>1. CASE e.type = "OnResponseBody" /\ c.response # None
      <4>1. d.response = Append(c.response, e.num) /\ c.response \in Seq(Nat)
        BY <1>2, <1>3, <3>1 DEF Applied
      <4>2. e.num \in 1 .. task[t].resSent /\ Above(e.num, c.response)
        BY <3>1 DEF EventFits
      <4>3. Within(c.response, task[t].resSent) /\ Increasing(c.response)
        BY <1>3, <3>1 DEF EntryFits
      <4> QED
        BY <1>1, <4>1, <4>2, <4>3, AppendFits
    <3>2. CASE e.type = "OnResponseStart"
      BY <1>2, <3>2 DEF Applied, Within, Increasing
    <3>3. CASE e.type # "OnResponseStart" /\ ~(e.type = "OnResponseBody" /\ c.response # None)
      BY <1>2, <1>3, <3>3 DEF Applied, EntryFits
    <3> QED
      BY <3>1, <3>2, <3>3
  <2>3. d.messages # None =>
           /\ Kind[t] = "ws"
           /\ Within(d.messages.log, task[t].relayed)
           /\ \A m \in task[t].capturing : \A i \in DOMAIN d.messages.log : d.messages.log[i] # m.num
    <3> SUFFICES ASSUME d.messages # None
                 PROVE  /\ Kind[t] = "ws"
                        /\ \A i \in DOMAIN d.messages.log :
                             /\ d.messages.log[i] \in 1 .. task[t].relayed
                             /\ \A m \in task[t].capturing : d.messages.log[i] # m.num
      BY DEF Within
    <3>1. Kind[t] = "ws"
      BY <1>2, <1>3 DEF Applied, EntryFits, EventFits
    <3>2. ASSUME NEW i \in DOMAIN d.messages.log
          PROVE  /\ d.messages.log[i] \in 1 .. task[t].relayed
                 /\ \A m \in task[t].capturing : d.messages.log[i] # m.num
      <4>1. CASE e.type = "OnWebSocketMessage" /\ d.messages.log[i] = e.num
        BY <4>1 DEF EventFits
      <4>2. CASE c.messages # None /\ LogOf(c, d.messages.log[i])
        BY <1>3, <4>2 DEF LogOf, EntryFits, Within
      <4> QED
        BY <1>2, <4>1, <4>2 DEF Applied
    <3> QED
      BY <3>1, <3>2
  <2>4. d.tunnel # None => Kind[t] = "connect" /\ Tunnelled(t)
    BY <1>2, <1>3 DEF Applied, EntryFits, EventFits, OfConnect
  <2>5. d.status \in Store!Terminal => Over(t) /\ d.tunnel # "Connected"
    <3> SUFFICES ASSUME d.status \in Store!Terminal PROVE Over(t) /\ d.tunnel # "Connected"
      OBVIOUS
    <3>1. CASE e.type \notin Ends
      <4>1. c.status \in Store!Terminal
        BY <1>2, <3>1 DEF Applied
      <4>2. e.type # "OnTunnelStart" /\ e.type # "OnTunnelEnd"
        BY <3>1, <4>1 DEF EventFits, Ends
      <4> QED
        BY <1>2, <1>3, <4>1, <4>2 DEF Applied, EntryFits
    <3>2. CASE e.type \in Ends
      <4>1. Over(t)
        BY <3>2 DEF EventFits
      <4>2. e.type # "OnTunnelEnd" => c.tunnel = None
        BY <1>3, <3>2 DEF EntryFits, EventFits, Ends, OfHttp, OfWebSocket
      <4>3. None # "Connected"
        BY NoneApart DEF Cache!TunnelStatus
      <4> QED
        BY <1>2, <3>2, <4>1, <4>2, <4>3 DEF Applied, Ends
    <3> QED
      BY <3>1, <3>2
  <2> HIDE DEF c
  <2> QED
    BY <2>1, <2>2, <2>3, <2>4, <2>5 DEF EntryFits, Over, Tunnelled
<1>5. ASSUME NEW u \in TraceIds PROVE RecordFits(u)'
  <2>1. CASE u = t
    BY <1>2, <1>4, <2>1 DEF RecordFits, Recording, Over
  <2>2. CASE u # t
    BY <1>2, <2>2 DEF RecordFits, EntryFits, Recording, Over, Tunnelled
  <2> QED
    BY <2>1, <2>2
<1>6. ASSUME NEW f \in EventRecord, EventFits(f), InOrder(e, f) PROVE EventFits(f)'
  <2>0. f.id \in TraceIds /\ f.num \in Nat
    BY DEF EventRecord
  <2>1. CASE f.id # t
    BY <1>2, <1>6, <2>0, <2>1 DEF EventFits, Recording, Over, Tunnelled
  <2>2. CASE f.id = t /\ c = None
    BY <1>2, <1>6, <2>2 DEF EventFits, Recording, Over, Tunnelled
  <2>3. CASE f.id = t /\ c # None
    <3>1. Applied(e, c, d)
      BY <1>2, <2>3
    <3>2. f.type = "OnRequestBody" => Above(f.num, d.request)
      <4>1. CASE e.type = "OnRequestBody"
        BY <1>1, <1>3, <1>6, <2>0, <2>3, <3>1, <4>1 DEF Applied, EventFits, InOrder, BodyEvents, Above
      <4>2. CASE e.type # "OnRequestBody"
        BY <1>6, <2>3, <3>1, <4>2 DEF Applied, EventFits
      <4> QED
        BY <4>1, <4>2
    <3>3. f.type = "OnResponseBody" /\ d.response # None => Above(f.num, d.response)
      <4>1. CASE e.type = "OnResponseBody" /\ c.response # None
        BY <1>1, <1>3, <1>6, <2>0, <2>3, <3>1, <4>1 DEF Applied, EventFits, InOrder, BodyEvents, Above
      <4>2. CASE e.type = "OnResponseStart"
        BY <3>1, <4>2 DEF Applied, Above
      <4>3. CASE e.type # "OnResponseStart" /\ ~(e.type = "OnResponseBody" /\ c.response # None)
        BY <1>6, <2>3, <3>1, <4>3 DEF Applied, EventFits
      <4> QED
        BY <4>1, <4>2, <4>3
    <3>4. f.type = "OnWebSocketMessage" /\ d.messages # None =>
            \A i \in DOMAIN d.messages.log : d.messages.log[i] # f.num
      BY <1>6, <2>3, <3>1 DEF Applied, LogOf, EventFits, InOrder
    <3>5. f.type = "OnTunnelStart" => d.status \notin Store!Terminal
      <4> SUFFICES ASSUME f.type = "OnTunnelStart" PROVE d.status \notin Store!Terminal
        OBVIOUS
      <4>1. c.status \notin Store!Terminal /\ Kind[t] = "connect"
        BY <1>6, <2>3 DEF EventFits, OfConnect
      <4>2. e.type \notin Ends
        BY <1>6, <2>3, <4>1 DEF EventFits, InOrder, Ends, OfHttp, OfWebSocket
      <4> QED
        BY <3>1, <4>1, <4>2 DEF Applied
    <3>6. f.type = "OnError" /\ Kind[t] = "connect" => d.tunnel = None
      BY <1>6, <2>3, <3>1 DEF Applied, EventFits, InOrder
    <3> QED
      BY <1>2, <1>6, <2>3, <3>2, <3>3, <3>4, <3>5, <3>6 DEF EventFits, Recording, Over, Tunnelled
  <2> QED
    BY <2>1, <2>2, <2>3
<1> QED
  BY <1>5, <1>6

\* The head is handled, the others move up.
LEMMA ConsumeShape ==
  ASSUME TypeOK, Consume
  PROVE  /\ Handle(queue[1]) /\ queue[1] \in EventRecord /\ task' = task /\ overrun' = overrun
         /\ queue' \in Seq(EventRecord) /\ Len(queue) \in Nat /\ Len(queue) > 0 /\ Len(queue') = Len(queue) - 1
         /\ \A i \in 1 .. Len(queue') : i + 1 \in 1 .. Len(queue) /\ queue'[i] = queue[i + 1] /\ queue[i + 1] \in EventRecord
<1>1. queue \in Seq(EventRecord)
  BY DEF TypeOK, EventRecord
<1>2. queue # << >> /\ Handle(Head(queue)) /\ queue' = Tail(queue) /\ task' = task /\ overrun' = overrun
  BY DEF Consume
<1> QED
  BY <1>1, <1>2

\* The consumer preserves the invariant.
LEMMA ConsumeInv ==
  ASSUME Inv, Consume
  PROVE  TypeOK' /\ Orderly'
<1> DEFINE e == queue[1]
<1>1. /\ TypeOK /\ Cache!TypeOK /\ Cache!Inv
      /\ \A u \in TraceIds : TaskFits(u) /\ RecordFits(u)
      /\ \A i \in 1 .. Len(queue) : EventFits(queue[i])
      /\ \A i, j \in 1 .. Len(queue) : i < j => InOrder(queue[i], queue[j])
  BY DEF Inv, Orderly, Cache!Inv
<1>2. /\ Handle(e) /\ e \in EventRecord /\ task' = task /\ overrun' = overrun
      /\ queue' \in Seq(EventRecord) /\ Len(queue) \in Nat /\ Len(queue) > 0 /\ Len(queue') = Len(queue) - 1
      /\ \A i \in 1 .. Len(queue') : i + 1 \in 1 .. Len(queue) /\ queue'[i] = queue[i + 1] /\ queue[i + 1] \in EventRecord
  BY <1>1, ConsumeShape
<1>3. EventFits(e) /\ \A i \in 1 .. Len(queue') : InOrder(e, queue'[i]) /\ EventFits(queue[i + 1])
  <2>1. 1 \in 1 .. Len(queue) /\ \A i \in 1 .. Len(queue') : 1 < i + 1
    BY <1>2
  <2> QED
    BY <1>1, <1>2, <2>1
<1> HIDE DEF e
<1>4. /\ \A u \in TraceIds : RecordFits(u)'
      /\ \A f \in EventRecord : EventFits(f) /\ InOrder(e, f) => EventFits(f)'
  <2>1. CASE e.type = "OnRequestStart"
    BY <1>1, <1>2, <1>3, <2>1, InsertionFits
  <2>2. CASE e.type # "OnRequestStart"
    BY <1>1, <1>2, <1>3, <2>2, HandleEffect, EventKeepsFit
  <2> QED
    BY <2>1, <2>2
<1>5. \A i \in 1 .. Len(queue') : EventFits(queue[i])'
  BY <1>2, <1>3, <1>4
<1>6. \A i, j \in 1 .. Len(queue') : i < j => InOrder(queue'[i], queue'[j])
  <2> TAKE i, j \in 1 .. Len(queue')
  <2>1. i < j => i + 1 < j + 1
    BY <1>2
  <2> QED
    BY <1>1, <1>2, <2>1
<1>7. \A u \in TraceIds : TaskFits(u)'
  BY <1>1, <1>2 DEF TaskFits
<1>8. TypeOK'
  <2>1. Len(queue) <= Capacity /\ Capacity \in Nat
    BY <1>1, PipelineAssumption DEF TypeOK
  <2>2. Len(queue') <= Capacity
    BY <1>2, <2>1
  <2> QED
    BY <1>1, <1>2, <2>2 DEF TypeOK, EventRecord
<1> QED
  BY <1>4, <1>5, <1>6, <1>7, <1>8 DEF Orderly

\* What handling an event does to a body.
LEMMA BodyChange ==
  ASSUME Cache!Inv, \A u \in TraceIds : RecordFits(u), task' = task,
         NEW e \in EventRecord, EventFits(e), Handle(e), NEW type \in BodyEvents, NEW u \in TraceIds,
         cache'[u] # None, Body(type, cache'[u]) # None, Body(type, cache'[u]) # << >>
  PROVE  /\ cache[u] # None /\ Body(type, cache[u]) # None
         /\ \/ Body(type, cache'[u]) = Body(type, cache[u]) /\ ~(e.type = type /\ e.id = u)
            \/ Body(type, cache'[u]) = Append(Body(type, cache[u]), e.num) /\ e.type = type /\ e.id = u
<1>1. CASE e.type = "OnRequestStart"
  <2>1. cache'[u] = Cache!NewEntry(now) \/ cache'[u] = cache[u]
    BY <1>1, InsertionFits
  <2>2. Body(type, Cache!NewEntry(now)) \in {<< >>, None}
    BY DEF Body, Cache!NewEntry
  <2> QED
    BY <1>1, <2>1, <2>2 DEF BodyEvents
<1>2. CASE e.type # "OnRequestStart"
  <2>1. Handled(e)
    BY <1>2, HandleEffect DEF Cache!Inv
  <2>2. CASE u # e.id
    BY <2>1, <2>2 DEF Handled
  <2>3. CASE u = e.id
    <3>1. cache[u] # None /\ Applied(e, cache[u], cache'[u])
      BY <2>1, <2>3 DEF Handled
    <3>2. CASE type = "OnRequestBody"
      <4>1. cache[u].request \in Seq(Nat)
        BY <3>1, EntryFields DEF Cache!Inv
      <4>2. cache[u].request # None
        BY <4>1, NoneApart
      <4> QED
        BY <2>3, <3>1, <3>2, <4>2 DEF Applied, Body
    <3>3. CASE type = "OnResponseBody"
      BY <2>3, <3>1, <3>3 DEF Applied, Body
    <3> QED
      BY <3>2, <3>3 DEF BodyEvents
  <2> QED
    BY <2>2, <2>3
<1> QED
  BY <1>1, <1>2

\* The consumer appends a chunk while the next one is still to come: in the channel,
\* when it has been sent.
LEMMA ConsumeComplete ==
  ASSUME Inv, Complete, Consume
  PROVE  Complete'
<1> DEFINE e == queue[1]
<1>1. /\ TypeOK /\ Cache!TypeOK /\ Cache!Inv
      /\ \A u \in TraceIds : RecordFits(u)
      /\ \A i \in 1 .. Len(queue) : EventFits(queue[i])
      /\ \A i, j \in 1 .. Len(queue) : i < j => InOrder(queue[i], queue[j])
  BY DEF Inv, Orderly, Cache!Inv
<1>2. /\ Handle(e) /\ e \in EventRecord /\ task' = task /\ overrun' = overrun
      /\ queue' \in Seq(EventRecord) /\ Len(queue) \in Nat /\ Len(queue) > 0 /\ Len(queue') = Len(queue) - 1
      /\ \A i \in 1 .. Len(queue') : i + 1 \in 1 .. Len(queue) /\ queue'[i] = queue[i + 1] /\ queue[i + 1] \in EventRecord
  BY <1>1, ConsumeShape
<1> SUFFICES ASSUME ~overrun
             PROVE  /\ \A i \in 1 .. Len(queue') : FollowedUp(queue[i])'
                    /\ \A type \in BodyEvents, u \in TraceIds : Gapless(type, u)'
  BY <1>2 DEF Complete
<1>3. /\ \A i \in 1 .. Len(queue) : FollowedUp(queue[i])
      /\ \A type \in BodyEvents, u \in TraceIds : Gapless(type, u)
  BY DEF Complete
<1>4. /\ EventFits(e) /\ FollowedUp(e)
      /\ \A i \in 1 .. Len(queue') : InOrder(e, queue[i + 1]) /\ FollowedUp(queue[i + 1])
      /\ \A i \in 1 .. Len(queue) : i = 1 \/ (i - 1 \in 1 .. Len(queue') /\ queue'[i - 1] = queue[i] /\ InOrder(e, queue[i]))
  <2>1. 1 \in 1 .. Len(queue) /\ \A i \in 1 .. Len(queue') : 1 < i + 1
    BY <1>2
  <2>2. \A i \in 1 .. Len(queue) : i = 1 \/ (i - 1 \in 1 .. Len(queue') /\ i - 1 + 1 = i /\ 1 < i)
    BY <1>2
  <2> QED
    BY <1>1, <1>2, <1>3, <2>1, <2>2
<1>5. e.id \in TraceIds /\ e.num \in Nat /\ \A f \in EventRecord : f.id \in TraceIds /\ f.num \in Nat
  BY <1>2 DEF EventRecord
<1> HIDE DEF e
<1>6. \A type \in BodyEvents, u \in TraceIds : \A n :
        InChannel(type, u, n) /\ ~(e.type = type /\ e.id = u /\ n = e.num) => InChannel(type, u, n)'
  BY <1>4 DEF InChannel, e
<1>7. \A type \in BodyEvents, n \in Nat : InChannel(type, e.id, n) /\ e.type = type => n = e.num \/ n > e.num
  <2> TAKE type \in BodyEvents, n \in Nat
  <2>1. ASSUME NEW i \in 1 .. Len(queue), queue[i].type = type, queue[i].id = e.id, queue[i].num = n, e.type = type
        PROVE  n = e.num \/ n > e.num
    <3>1. i = 1 \/ InOrder(e, queue[i])
      BY <1>4
    <3> QED
      BY <1>5, <2>1, <3>1 DEF InOrder, e
  <2> QED
    BY <2>1 DEF InChannel
<1>8. \A type \in BodyEvents, u \in TraceIds : Sent(type, task[u]) \in Nat
  BY <1>1, PipelineAssumption DEF TypeOK, Sent
<1>9. ASSUME NEW i \in 1 .. Len(queue') PROVE FollowedUp(queue[i])'
  <2>1. PICK f \in EventRecord : queue'[i] = f /\ InOrder(e, f) /\ FollowedUp(f)
    BY <1>2, <1>4
  <2>2. f.id \in TraceIds /\ f.num \in Nat
    BY <1>5, <2>1
  <2>3. f.type \in BodyEvents => \A n \in f.num .. Sent(f.type, task[f.id]) : InChannel(f.type, f.id, n)'
    <3> SUFFICES ASSUME f.type \in BodyEvents, NEW n \in f.num .. Sent(f.type, task[f.id])
                 PROVE  InChannel(f.type, f.id, n)'
      OBVIOUS
    <3>1. InChannel(f.type, f.id, n)
      BY <2>1 DEF FollowedUp
    <3>2. e.type = f.type /\ e.id = f.id => n # e.num
      BY <1>5, <1>8, <2>1, <2>2 DEF InOrder
    <3> QED
      BY <1>6, <2>2, <3>1, <3>2
  <2> QED
    BY <1>2, <2>1, <2>3 DEF FollowedUp
<1>10. ASSUME NEW type \in BodyEvents, NEW u \in TraceIds PROVE Gapless(type, u)'
  <2> DEFINE b == Body(type, cache[u])
             d == Body(type, cache'[u])
  <2> SUFFICES ASSUME cache'[u] # None, d # None, d # << >>
               PROVE  /\ \A i \in 1 .. Len(d) - 1 : d[i + 1] = d[i] + 1
                      /\ \A n \in d[Len(d)] + 1 .. Sent(type, task[u]) : InChannel(type, u, n)'
    <3>1. d = << >> => \A i \in 1 .. Len(d) - 1 : d[i + 1] = d[i] + 1
      OBVIOUS
    <3> QED
      BY <1>2, <3>1 DEF Gapless
  <2>1. /\ cache[u] # None /\ b # None
        /\ \/ d = b /\ ~(e.type = type /\ e.id = u)
           \/ d = Append(b, e.num) /\ e.type = type /\ e.id = u
    BY <1>1, <1>2, <1>4, BodyChange
  <2>2. b \in Seq(Nat)
    BY <1>1, <2>1, EntryFields DEF Body, BodyEvents
  <2>3. /\ \A i \in 1 .. Len(b) - 1 : b[i + 1] = b[i] + 1
        /\ b # << >> => \A n \in b[Len(b)] + 1 .. Sent(type, task[u]) : InChannel(type, u, n)
    BY <1>3, <2>1 DEF Gapless
  <2> HIDE DEF b, d
  <2>4. CASE d = b /\ ~(e.type = type /\ e.id = u)
    BY <1>6, <2>3, <2>4
  <2>5. CASE d = Append(b, e.num) /\ e.type = type /\ e.id = u
    <3>1. /\ Len(d) = Len(b) + 1 /\ d[Len(d)] = e.num /\ Len(b) \in Nat
          /\ \A i \in 1 .. Len(b) : d[i] = b[i] /\ b[i] \in Nat
      BY <1>5, <2>2, <2>5
    <3>2. \A n \in e.num + 1 .. Sent(type, task[u]) : InChannel(type, u, n)'
      <4> TAKE n \in e.num + 1 .. Sent(type, task[u])
      <4>1. n \in e.num .. Sent(type, task[u]) /\ n # e.num
        BY <1>5, <1>8
      <4>2. InChannel(type, u, n)
        BY <1>4, <2>5, <4>1 DEF FollowedUp
      <4> QED
        BY <1>6, <4>1, <4>2
    <3>3. b # << >> => e.num = b[Len(b)] + 1
      <4> SUFFICES ASSUME b # << >> PROVE e.num = b[Len(b)] + 1
        OBVIOUS
      <4>1. Len(b) \in 1 .. Len(b) /\ Len(b) \in DOMAIN b /\ b[Len(b)] \in Nat
        BY <2>2
      <4>2. b[Len(b)] < e.num /\ e.num <= Sent(type, task[u])
        <5>1. CASE type = "OnRequestBody"
          BY <1>4, <1>5, <1>8, <2>1, <2>5, <4>1, <5>1 DEF EventFits, Above, Body, Sent, b
        <5>2. CASE type = "OnResponseBody"
          BY <1>4, <1>5, <1>8, <2>1, <2>5, <4>1, <5>2 DEF EventFits, Above, Body, Sent, b
        <5> QED
          BY <5>1, <5>2 DEF BodyEvents
      <4>3. b[Len(b)] + 1 \in b[Len(b)] + 1 .. Sent(type, task[u])
        BY <1>5, <1>8, <4>1, <4>2
      <4>4. InChannel(type, e.id, b[Len(b)] + 1)
        BY <2>3, <2>5, <4>3
      <4>5. b[Len(b)] + 1 = e.num \/ b[Len(b)] + 1 > e.num
        BY <1>7, <2>5, <4>1, <4>4
      <4> QED
        BY <1>5, <4>1, <4>2, <4>5
    <3>4. \A i \in 1 .. Len(d) - 1 : d[i + 1] = d[i] + 1
      <4> TAKE i \in 1 .. Len(d) - 1
      <4>1. CASE i = Len(b)
        BY <3>1, <3>3, <4>1
      <4>2. CASE i # Len(b)
        BY <2>3, <3>1, <4>2
      <4> QED
        BY <4>1, <4>2
    <3> QED
      BY <3>1, <3>2, <3>4
  <2> QED
    BY <2>1, <2>4, <2>5
<1> QED
  BY <1>9, <1>10

\* A snapshot changes is_new or removes what it found finished.
LEMMA ReadRemoves ==
  ASSUME Cache!Inv, NEW r \in Readers, Store!Read(r)
  PROVE  /\ started' = started
         /\ \A u \in TraceIds :
              IF cache'[u] # None THEN cache[u] # None /\ SameContent(cache[u], cache'[u])
              ELSE cache[u] # None => cache[u].status \in Store!Terminal
<1>1. cache \in [TraceIds -> Cache!Entry \cup {None}]
  BY DEF Cache!Inv, Cache!TypeOK
<1>2. CASE Store!ScanBegin(r) \/ Store!ScanEnd(r)
  BY <1>2 DEF Store!ScanBegin, Store!ScanEnd, SameContent
<1>3. ASSUME NEW id \in TraceIds, Store!ScanNewEntry(r, id)
      PROVE  /\ started' = started
             /\ \A u \in TraceIds :
                  IF cache'[u] # None THEN cache[u] # None /\ SameContent(cache[u], cache'[u])
                  ELSE cache[u] # None => cache[u].status \in Store!Terminal
  <2> DEFINE d == [cache[id] EXCEPT !.is_new = FALSE]
  <2>1. cache[id] # None /\ started' = started /\ cache' = [cache EXCEPT ![id] = d]
    BY <1>1, <1>3 DEF Store!ScanNewEntry
  <2>2. d \in Cache!Entry /\ SameContent(cache[id], d)
    BY <1>1, <2>1 DEF Cache!Entry, SameContent
  <2>3. d # None
    BY <2>2, NoneApart
  <2> HIDE DEF d
  <2>4. cache'[id] = d /\ \A u \in TraceIds \ {id} : cache'[u] = cache[u]
    BY <1>1, <2>1
  <2> QED
    BY <2>1, <2>2, <2>3, <2>4 DEF SameContent
<1>4. ASSUME NEW id \in TraceIds, Store!DropEntry(r, id)
      PROVE  /\ started' = started
             /\ \A u \in TraceIds :
                  IF cache'[u] # None THEN cache[u] # None /\ SameContent(cache[u], cache'[u])
                  ELSE cache[u] # None => cache[u].status \in Store!Terminal
  <2>1. started' = started /\ id \in snap[r].doomed /\ cache' = [cache EXCEPT ![id] = None]
    BY <1>4 DEF Store!DropEntry
  <2>2. cache[id] # None => cache[id].status \in Store!Terminal
    BY <2>1, NoneApart DEF Cache!Inv, Cache!DoomedIsReported
  <2>3. cache'[id] = None /\ \A u \in TraceIds \ {id} : cache'[u] = cache[u]
    BY <1>1, <2>1
  <2> QED
    BY <2>1, <2>2, <2>3 DEF SameContent
<1> QED
  BY <1>2, <1>3, <1>4 DEF Store!Read

\* The steps that touch only the cache.
CacheStep ==
  /\ task' = task /\ queue' = queue /\ overrun' = overrun /\ started' = started
  /\ \A u \in TraceIds :
       IF cache'[u] # None THEN cache[u] # None /\ SameContent(cache[u], cache'[u])
       ELSE cache[u] # None => cache[u].status \in Store!Terminal

\* The clock is such a step.
LEMMA EmptyCacheStep ==
  ASSUME UNCHANGED <<cache, started, task, queue, overrun>>
  PROVE  CacheStep
BY DEF CacheStep, SameContent

\* They preserve the invariant and the completeness of the bodies.
LEMMA CacheStepInv ==
  ASSUME Inv, CacheStep
  PROVE  TypeOK' /\ Orderly' /\ (Complete => Complete')
<1>1. /\ \A u \in TraceIds : RecordFits(u)'
      /\ \A e \in EventRecord : EventFits(e) => EventFits(e)'
  BY RemovalFits DEF Inv, Orderly, CacheStep
<1>2. \A i \in 1 .. Len(queue) : queue[i] \in EventRecord
  <2>1. queue \in Seq(EventRecord)
    BY DEF Inv, TypeOK, EventRecord
  <2> QED
    BY <2>1
<1>3. task' = task /\ queue' = queue /\ overrun' = overrun
  BY DEF CacheStep
<1>4. TypeOK'
  BY <1>3 DEF Inv, TypeOK
<1>5. Orderly'
  BY <1>1, <1>2, <1>3 DEF Inv, Orderly, TaskFits
<1>6. Complete => Complete'
  <2>1. \A type, u, n : InChannel(type, u, n)' <=> InChannel(type, u, n)
    BY <1>3 DEF InChannel
  <2>2. \A type \in BodyEvents, u \in TraceIds : Gapless(type, u) => Gapless(type, u)'
    BY <1>3, <2>1 DEF CacheStep, SameContent, Gapless, Body
  <2>3. \A i \in 1 .. Len(queue) : FollowedUp(queue[i]) => FollowedUp(queue[i])'
    BY <1>3, <2>1 DEF FollowedUp
  <2> QED
    BY <1>3, <2>2, <2>3 DEF Complete
<1> QED
  BY <1>4, <1>5, <1>6

-----------------------------------------------------------------------------
(***************************************************************************)
(* The invariant holds, and with it the properties.                        *)
(***************************************************************************)
LEMMA InitInv == Init => Inv /\ Complete
<1> SUFFICES ASSUME Init PROVE Inv /\ Complete
  OBVIOUS
<1>1. Cache!Inv
  BY CacheInv DEF Init
<1>2. /\ cache = [t \in TraceIds |-> None] /\ started = {}
      /\ queue = << >> /\ Len(queue) = 0 /\ overrun = FALSE /\ task = [t \in TraceIds |-> NewTask]
  BY DEF Init, Store!Init
<1>3. NewTask \in Task
  <2>1. 0 \in 0 .. MaxChunk /\ 0 \in 0 .. MaxMsg
    BY PipelineAssumption
  <2> QED
    BY <2>1 DEF NewTask, Task, MainStates, ConnStates
<1>4. TypeOK
  <2>1. queue \in Seq(EventRecord)
    BY <1>2
  <2>2. Len(queue) <= Capacity
    BY <1>2, PipelineAssumption
  <2> QED
    BY <1>2, <1>3, <2>1, <2>2 DEF TypeOK, Task, Message, EventRecord
<1>5. \A t \in TraceIds : TaskFits(t) /\ RecordFits(t)
  BY <1>2 DEF TaskFits, RecordFits, NewTask
<1>6. \A i \in 1 .. Len(queue) : FALSE
  BY <1>2
<1> QED
  BY <1>1, <1>2, <1>4, <1>5, <1>6 DEF Inv, Orderly, Complete, Gapless

\* A step of the pipeline is one of the store, or leaves it alone.
LEMMA StoreStep == Inv /\ [Next]_vars => [Store!Next]_storeVars
<1> SUFFICES ASSUME Inv, Next PROVE [Store!Next]_storeVars
  BY DEF vars, storeVars
<1>1. Cache!TypeOK /\ TasksTyped /\ TypeOK
  BY DEF Inv, Cache!Inv, TasksTyped, Orderly, TypeOK, Task, Message
<1>2. CASE \E t \in TraceIds : Progress(t) \/ Peer(t)
  BY <1>1, <1>2, TaskEffect DEF Effect
<1>3. CASE Consume
  <2>1. Handle(queue[1]) /\ queue[1] \in EventRecord /\ 1 \in 1 .. Len(queue)
    BY <1>1, <1>3, ConsumeShape
  <2> QED
    BY <1>1, <2>1, HandleIsStep DEF Inv, Orderly
<1>4. CASE \E r \in Readers : Store!Read(r)
  BY <1>4 DEF Store!Next
<1>5. CASE Store!Tick
  BY <1>5 DEF Store!Next
<1> QED
  BY <1>2, <1>3, <1>4, <1>5 DEF Next

\* The invariant is inductive, and so is it with the bodies complete.
LEMMA NextInv == Inv /\ [Next]_vars => Inv' /\ (Complete => Complete')
<1> SUFFICES ASSUME Inv, [Next]_vars PROVE Inv' /\ (Complete => Complete')
  OBVIOUS
<1>1. Cache!Inv'
  BY CacheInv, StoreStep DEF Inv
<1>2. TasksTyped
  BY DEF Inv, TasksTyped, Orderly, TypeOK, Task, Message
<1>3. CASE \E t \in TraceIds : Progress(t) \/ Peer(t)
  <2>1. PICK t \in TraceIds : Effect(t)
    BY <1>2, <1>3, TaskEffect
  <2> QED
    BY <1>1, <1>2, <2>1, TaskInv, TaskComplete DEF Inv
<1>4. CASE Consume
  BY <1>1, <1>4, ConsumeInv, ConsumeComplete DEF Inv
<1>5. CASE \E r \in Readers : Store!Read(r) /\ UNCHANGED <<queue, overrun, task>>
  <2>1. CacheStep
    BY <1>5, ReadRemoves DEF Inv, CacheStep
  <2> QED
    BY <1>1, <2>1, CacheStepInv DEF Inv
<1>6. CASE Store!Tick /\ UNCHANGED <<queue, overrun, task>>
  <2>1. CacheStep
    BY <1>6, EmptyCacheStep DEF Store!Tick
  <2> QED
    BY <1>1, <2>1, CacheStepInv DEF Inv
<1>7. CASE UNCHANGED vars
  <2>1. CacheStep
    BY <1>7, EmptyCacheStep DEF vars
  <2> QED
    BY <1>1, <2>1, CacheStepInv DEF Inv
<1> QED
  BY <1>3, <1>4, <1>5, <1>6, <1>7 DEF Next

\* So they hold of every reachable state.
LEMMA Invariance == Spec => [](Inv /\ Complete)
BY InitInv, NextInv, PTL DEF Spec

\* The channel never holds more than its capacity, whatever is published.
THEOREM TypeCorrect == Spec => []TypeOK
BY Invariance, PTL DEF Inv

\* For any capacity, any order of publications and any loss in the channel, the cache
\* sees a behaviour of the store: what MessageEventStoreProofs shows of the store for
\* events in any order holds of the cache behind the channel.
THEOREM PipelineImplementsStore == Spec => StoreSpec
<1>1. Init => Store!Init
  BY DEF Init
<1>2. Inv /\ [Next]_vars => [Store!Next]_(Store!vars)
  BY StoreStep DEF Store!vars, storeVars
<1> QED
  BY <1>1, <1>2, Invariance, PTL DEF Spec, StoreSpec, Store!Spec

\* An exchange the cache takes for finished, or has forgotten, is over.
THEOREM FinishedIsOver == Spec => []FinishedMeansOver
<1>1. Inv => FinishedMeansOver
  BY DEF Inv, Orderly, RecordFits, EntryFits, FinishedMeansOver, IsTerminal
<1> QED
  BY <1>1, Invariance, PTL

\* A plain request or a tunnel that is over, and whose entry says so, can be evicted.
THEOREM OverCanGo == Spec => []OverIsEvictable
<1>1. Inv => OverIsEvictable
  <2> SUFFICES ASSUME Inv, NEW t \in Store!Present(cache), Kind[t] # "ws", Over(t), IsTerminal(t)
               PROVE  Store!IsNeedDeleted(cache[t], now)
    BY DEF OverIsEvictable
  <2>1. t \in TraceIds /\ cache[t] # None /\ EntryFits(t) /\ cache[t].status \in Store!Terminal
    BY DEF Store!Present, Inv, Orderly, RecordFits, IsTerminal
  <2>2. cache[t].tunnel # "Connected" /\ cache[t].messages = None
    BY <2>1 DEF EntryFits
  <2> QED
    BY <2>1, <2>2 DEF Store!IsNeedDeleted, Store!HasActiveLongConnection, Store!TunnelActive, Store!WebSocketActive
<1> QED
  BY <1>1, Invariance, PTL

\* A captured body holds the chunks of the transfer in their order, none twice, and
\* without an overrun none is skipped.
THEOREM BodiesAreFaithful == Spec => []BodiesFaithful
<1>1. Inv /\ Complete => BodiesFaithful
  <2> SUFFICES ASSUME Inv, Complete, NEW t \in Store!Present(cache)
               PROVE  /\ Faithful(cache[t].request)
                      /\ cache[t].response # None => Faithful(cache[t].response)
    BY DEF BodiesFaithful
  <2>1. t \in TraceIds /\ cache[t] # None /\ EntryFits(t)
    BY DEF Store!Present, Inv, Orderly, RecordFits
  <2>2. Increasing(cache[t].request) /\ (cache[t].response # None => Increasing(cache[t].response))
    BY <2>1 DEF EntryFits
  <2>3. cache[t].request # None
    <3>1. cache[t].request \in Seq(Nat)
      BY <2>1, EntryFields DEF Inv, Cache!Inv
    <3> QED
      BY <3>1, NoneApart
  <2>4. ~overrun => Gapless("OnRequestBody", t) /\ Gapless("OnResponseBody", t)
    BY <2>1 DEF Complete, BodyEvents
  <2> QED
    BY <2>1, <2>2, <2>3, <2>4 DEF Faithful, Increasing, Gapless, Body
<1> QED
  BY <1>1, Invariance, PTL
=============================================================================
