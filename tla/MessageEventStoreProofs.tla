----------------------- MODULE MessageEventStoreProofs -----------------------
(***************************************************************************)
(* Theorems about MessageEventStore, for any number of exchanges and       *)
(* readers, any thresholds and any order of events.                        *)
(***************************************************************************)
EXTENDS MessageEventStore, FiniteSetTheorems, WellFoundedInduction, TLAPS

-----------------------------------------------------------------------------
(***************************************************************************)
(* Insertion.                                                              *)
(***************************************************************************)

\* What an insertion removes, it finds deletable: remove_oldest_completed filters
\* both the expired entries and the threshold's victim by is_need_delteed.
LEMMA EvictedIsWithout ==
  ASSUME NEW c, NEW t, NEW d \in Evicted(c, t)
  PROVE  \E ids \in SUBSET Deletable(c, t) : d = Without(c, ids)
<1> DEFINE kept == Without(c, Expired(c, t))
           victims == Oldest(kept, Deletable(kept, t))
<1>1. d = kept \/ \E v \in victims : d = Without(kept, {v})
  BY DEF Evicted
<1>2. CASE d = kept
  <2>1. Expired(c, t) \in SUBSET Deletable(c, t)
    BY DEF Expired
  <2>2. QED BY <1>2, <2>1
<1>3. CASE \E v \in victims : d = Without(kept, {v})
  <2>1. PICK v \in victims : d = Without(kept, {v})
    BY <1>3
  <2>2. v \in TraceIds /\ kept[v] # None /\ IsNeedDeleted(kept[v], t)
    BY <2>1 DEF Oldest, Deletable, Present
  <2>3. kept[v] = c[v]
    BY <2>2 DEF Without
  <2>4. v \in Deletable(c, t)
    BY <2>2, <2>3 DEF Deletable, Present
  <2>5. Without(kept, {v}) = Without(c, Expired(c, t) \cup {v})
    BY DEF Without
  <2>6. Expired(c, t) \cup {v} \in SUBSET Deletable(c, t)
    BY <2>4 DEF Expired
  <2>7. QED BY <2>1, <2>5, <2>6
<1>4. QED BY <1>1, <1>2, <1>3

\* The cache after OnRequestStart(id): the new entry is there, and every other
\* entry is either as it was or was deletable and is gone.
LEMMA InsertEffect ==
  ASSUME TypeOK, NEW id \in TraceIds, OnRequestStart(id)
  PROVE  \E ids \in SUBSET (Deletable(cache, now) \ {id}) :
           cache' = [other \in TraceIds |->
                       IF other \in ids THEN None
                       ELSE IF other = id THEN NewEntry(now) ELSE cache[other]]
<1> DEFINE c == [cache EXCEPT ![id] = NewEntry(now)]
<1>1. PICK ids \in SUBSET Deletable(c, now) : cache' = Without(c, ids)
  BY EvictedIsWithout DEF OnRequestStart
<1>2. c[id] = NewEntry(now) /\ \A other \in TraceIds \ {id} : c[other] = cache[other]
  BY DEF TypeOK
<1>3. ~IsNeedDeleted(NewEntry(now), now)
  BY DEF IsNeedDeleted, NewEntry, Terminal, OlderThan
<1>4. id \notin ids
  BY <1>1, <1>2, <1>3 DEF Deletable
<1>5. ids \in SUBSET (Deletable(cache, now) \ {id})
  BY <1>1, <1>2, <1>4 DEF Deletable, Present
<1>6. cache' = [other \in TraceIds |->
                  IF other \in ids THEN None
                  ELSE IF other = id THEN NewEntry(now) ELSE cache[other]]
  BY <1>1, <1>2 DEF Without
<1>7. QED BY <1>5, <1>6

-----------------------------------------------------------------------------
(***************************************************************************)
(* The other events.                                                       *)
(***************************************************************************)

\* A well-formed entry whose log is within MAX_WEBSOCKET_LOG_MESSAGES.
Sound(e) ==
  /\ e \in Entry
  /\ e.messages # None => Len(e.messages.log) <= MaxLog

\* What an event may make of an entry: the same exchange, with its status left
\* alone or made terminal, and timed when it had no time yet.
Evolves(e, f) ==
  /\ Sound(f)
  /\ f.is_new = e.is_new
  /\ f.request_start = e.request_start
  /\ \/ f.status = e.status /\ f.completed_at = e.completed_at
     \/ /\ f.status \in Terminal
        /\ f.completed_at = IF e.completed_at = None THEN now ELSE e.completed_at

\* The events that do not insert.
Event(id) ==
  \/ RequestBodyEvent(id)
  \/ OnError(id)
  \/ HttpEvent(id)
  \/ WebSocketEvent(id)
  \/ TunnelEvent(id)

\* A handler that makes `entry` of the entry of id touches nothing else.
LEMMA BecomeEffect ==
  ASSUME TypeOK, NEW id \in TraceIds, NEW entry, Become(id, entry),
         cache[id] # None => Evolves(cache[id], entry)
  PROVE  /\ UNCHANGED <<now, started, snap>>
         /\ \/ cache' = cache
            \/ /\ cache[id] # None
               /\ \E f : Evolves(cache[id], f) /\ cache' = [cache EXCEPT ![id] = f]
<1>1. CASE cache[id] = None
  BY <1>1 DEF Become
<1>2. CASE cache[id] # None
  BY <1>2 DEF Become
<1>3. QED BY <1>1, <1>2

\* mark_completed_at and set_status: the entry becomes terminal.
LEMMA CompletedEvolves ==
  ASSUME NEW e \in Entry, Sound(e), now \in Nat, NEW s \in Terminal
  PROVE  Evolves(e, Completed(e, s, now))
BY DEF Evolves, Sound, Completed, Entry, Status, Terminal

\* Replacing a body, the websocket part or the tunnel part by another is an
\* evolution too, alone or after one.
LEMMA PartEvolves ==
  ASSUME NEW e, NEW d, Evolves(e, d)
  PROVE  /\ \A b \in Seq(Nat) : Evolves(e, [d EXCEPT !.request = b])
         /\ \A b \in Seq(Nat) \cup {None} : Evolves(e, [d EXCEPT !.response = b])
         /\ Evolves(e, [d EXCEPT !.messages = None])
         /\ \A m \in WebSocket :
              Len(m.log) <= MaxLog => Evolves(e, [d EXCEPT !.messages = m])
         /\ \A s \in TunnelStatus \cup {None} : Evolves(e, [d EXCEPT !.tunnel = s])
<1>1. d \in Entry
  BY DEF Evolves, Sound
<1>2. \A b \in Seq(Nat) : Evolves(e, [d EXCEPT !.request = b])
  BY <1>1 DEF Evolves, Sound, Entry
<1>3. \A b \in Seq(Nat) \cup {None} : Evolves(e, [d EXCEPT !.response = b])
  BY <1>1 DEF Evolves, Sound, Entry
<1>4. Evolves(e, [d EXCEPT !.messages = None])
  BY <1>1 DEF Evolves, Sound, Entry
<1>5. \A m \in WebSocket : Len(m.log) <= MaxLog => Evolves(e, [d EXCEPT !.messages = m])
  BY <1>1 DEF Evolves, Sound, Entry
<1>6. \A s \in TunnelStatus \cup {None} : Evolves(e, [d EXCEPT !.tunnel = s])
  BY <1>1 DEF Evolves, Sound, Entry
<1>7. QED BY <1>2, <1>3, <1>4, <1>5, <1>6

\* What the cache holds is sound, and an entry that does not change evolves.
LEMMA PresentIsSound ==
  ASSUME TypeOK, NEW id \in TraceIds, cache[id] # None
  PROVE  Sound(cache[id]) /\ Evolves(cache[id], cache[id]) /\ now \in Nat
BY DEF TypeOK, Sound, Present, Evolves

\* push and drain: the log keeps its type and its bound.
LEMMA PushedInBounds ==
  ASSUME NEW log \in Seq(Nat), Len(log) <= MaxLog, NEW n \in Nat
  PROVE  Pushed(log, n) \in Seq(Nat) /\ Len(Pushed(log, n)) <= MaxLog
<1>1. CASE Len(log) < MaxLog
  BY <1>1, StoreAssumption DEF Pushed
<1>2. CASE Len(log) = MaxLog
  <2>1. log # << >>
    BY <1>2, StoreAssumption
  <2>2. Tail(log) \in Seq(Nat) /\ Len(Tail(log)) = Len(log) - 1
    BY <2>1
  <2>3. QED BY <1>2, <2>2, StoreAssumption DEF Pushed
<1>3. QED BY <1>1, <1>2, StoreAssumption

\* Every handler but the insertion leaves the cache alone or lets the entry of its
\* id evolve.
LEMMA EventEffect ==
  ASSUME TypeOK, NEW id \in TraceIds, Event(id)
  PROVE  /\ UNCHANGED <<now, started, snap>>
         /\ \/ cache' = cache
            \/ /\ cache[id] # None
               /\ \E f : Evolves(cache[id], f) /\ cache' = [cache EXCEPT ![id] = f]
<1> DEFINE e == cache[id]
           Finished(s) == Completed(e, s, now)
<1> SUFFICES \E entry : Become(id, entry) /\ (e # None => Evolves(e, entry))
  BY BecomeEffect
<1>1. e # None => Sound(e) /\ Evolves(e, e) /\ now \in Nat
  BY PresentIsSound
<1>2. \A s \in Terminal : e # None => Evolves(e, Finished(s))
  BY <1>1, CompletedEvolves DEF Sound
<1>3. CASE RequestBodyEvent(id)
  <2>1. PICK n \in FreshChunks(e.request) : OnRequestBody(id, n)
    BY <1>3 DEF RequestBodyEvent
  <2>2. n \in Nat
    BY StoreAssumption DEF FreshChunks
  <2>3. e # None => Append(e.request, n) \in Seq(Nat)
    BY <1>1, <2>2 DEF Sound, Entry
  <2>4. QED BY <1>1, <2>1, <2>3, PartEvolves DEF OnRequestBody
<1>4. CASE OnError(id)
  BY <1>2, <1>4 DEF OnError, Terminal
<1>5. CASE HttpEvent(id)
  <2>1. CASE OnRequestEnd(id)
    BY <1>2, <2>1 DEF OnRequestEnd, Terminal
  <2>2. CASE OnResponseStart(id)
    <3>1. << >> \in Seq(Nat) \cup {None}
      OBVIOUS
    <3>2. e # None => Evolves(e, [e EXCEPT !.response = << >>])
      BY <1>1, <3>1, PartEvolves
    <3>3. QED BY <2>2, <3>2 DEF OnResponseStart
  <2>3. CASE \E n \in FreshChunks(e.response) : OnResponseBody(id, n)
    <3>1. PICK n \in FreshChunks(e.response) : OnResponseBody(id, n)
      BY <2>3
    <3>2. n \in Nat
      BY StoreAssumption DEF FreshChunks
    <3> DEFINE body == IF e.response = None THEN None ELSE Append(e.response, n)
    <3>3. e # None => body \in Seq(Nat) \cup {None}
      BY <1>1, <3>2 DEF Sound, Entry
    <3>4. Become(id, [e EXCEPT !.response = body])
      BY <3>1 DEF OnResponseBody
    <3>5. e # None => Evolves(e, [e EXCEPT !.response = body])
      BY <1>1, <3>3, PartEvolves
    <3>6. QED BY <3>4, <3>5
  <2>4. QED BY <1>5, <2>1, <2>2, <2>3 DEF HttpEvent
<1>6. CASE WebSocketEvent(id)
  <2> DEFINE d == Finished("Completed")
  <2>1. e # None => Evolves(e, d)
    BY <1>2 DEF Terminal
  <2>2. CASE OnWebSocketStart(id)
    <3> DEFINE m == [status |-> "Start", log |-> << >>]
    <3>1. m \in WebSocket /\ Len(m.log) <= MaxLog
      BY StoreAssumption DEF WebSocket, WebSocketStatus
    <3>2. e # None => Evolves(e, [e EXCEPT !.messages = m])
      BY <1>1, <3>1, PartEvolves
    <3>3. QED BY <2>2, <3>2 DEF OnWebSocketStart
  <2>3. CASE OnWebSocketError(id)
    <3> DEFINE m == [status |-> "Error", log |-> Logged(d.messages)]
    <3>1. e # None => m \in WebSocket /\ Len(m.log) <= MaxLog
      <4> HIDE DEF d
      <4>1. QED BY <2>1, StoreAssumption
              DEF Evolves, Sound, Entry, WebSocket, WebSocketStatus, Logged
    <3>2. e # None => Evolves(e, [d EXCEPT !.messages = m])
      BY <2>1, <3>1, PartEvolves
    <3>3. QED BY <2>3, <3>2 DEF OnWebSocketError
  <2>4. CASE OnWebSocketEnd(id)
    <3> DEFINE m == IF d.messages = None THEN None
                    ELSE [status |-> "Disconnected", log |-> d.messages.log]
    <3>1. e # None => m = None \/ (m \in WebSocket /\ Len(m.log) <= MaxLog)
      <4> HIDE DEF d
      <4>1. QED BY <2>1 DEF Evolves, Sound, Entry, WebSocket, WebSocketStatus
    <3>2. e # None => Evolves(e, [d EXCEPT !.messages = m])
      BY <2>1, <3>1, PartEvolves
    <3>3. QED BY <2>4, <3>2 DEF OnWebSocketEnd
  <2>5. CASE cache[id] # None
             /\ \E m \in FreshMessages(e.messages) : OnWebSocketMessage(id, m)
    <3>1. PICK m \in FreshMessages(e.messages) : OnWebSocketMessage(id, m)
      BY <2>5
    <3>2. m.num \in Nat
      BY StoreAssumption DEF FreshMessages, WebSocketMessage
    <3>3. Logged(e.messages) \in Seq(Nat) /\ Len(Logged(e.messages)) <= MaxLog
      BY <1>1, <2>5, StoreAssumption DEF Sound, Entry, WebSocket, Logged
    <3> DEFINE ws == [status |-> IF m.close THEN "Disconnected" ELSE "Connected",
                      log    |-> Pushed(Logged(e.messages), m.num)]
    <3>4. ws \in WebSocket /\ Len(ws.log) <= MaxLog
      BY <3>2, <3>3, PushedInBounds DEF WebSocket, WebSocketStatus
    <3>5. Evolves(e, [e EXCEPT !.messages = ws])
      BY <1>1, <2>5, <3>4, PartEvolves
    <3>6. QED BY <3>1, <3>5 DEF OnWebSocketMessage
  <2>6. QED BY <1>6, <2>2, <2>3, <2>4, <2>5 DEF WebSocketEvent
<1>7. CASE TunnelEvent(id)
  <2> DEFINE d == Finished("Completed")
  <2>1. e # None => Evolves(e, d)
    BY <1>2 DEF Terminal
  <2>2. CASE OnTunnelStart(id)
    BY <1>1, <2>2, PartEvolves DEF OnTunnelStart, TunnelStatus
  <2>3. CASE OnTunnelEnd(id)
    <3> DEFINE s == IF d.tunnel = None THEN None ELSE "Disconnected"
    <3>1. e # None => Evolves(e, [d EXCEPT !.tunnel = s])
      BY <2>1, PartEvolves DEF TunnelStatus
    <3>2. QED BY <2>3, <3>1 DEF OnTunnelEnd
  <2>4. QED BY <1>7, <2>2, <2>3 DEF TunnelEvent
<1>8. QED BY <1>3, <1>4, <1>5, <1>6, <1>7 DEF Event

-----------------------------------------------------------------------------
(***************************************************************************)
(* The inductive invariant. The completion times make every deletable      *)
(* entry terminal, even one that the age test of is_need_delteed finds:    *)
(* this is what eviction rests on. The rest ties the snapshots to the      *)
(* entries: what a reader has been given is marked as not new, and what it *)
(* is about to remove has been given to it and stays terminal.             *)
(***************************************************************************)
StartedOnly ==
  \A id \in Present(cache) : id \in started /\ cache[id].request_start <= now

ReportedIsOld ==
  \A r \in Readers : \A id \in snap[r].result :
    id \in started /\ (cache[id] # None => ~cache[id].is_new)

DoomedIsReported ==
  \A r \in Readers : \A id \in snap[r].doomed :
    id \in snap[r].result /\ (cache[id] # None => cache[id].status \in Terminal)

Inv ==
  /\ TypeOK
  /\ CompletionTimed
  /\ StartedOnly
  /\ ReportedIsOld
  /\ DoomedIsReported
  /\ ReportedAtMostOnce

\* Only terminal entries are ever found deletable.
LEMMA DeletableIsTerminal ==
  ASSUME CompletionTimed, NEW t, NEW id \in Deletable(cache, t)
  PROVE  id \in Present(cache) /\ cache[id].status \in Terminal
BY DEF Deletable, IsNeedDeleted, OlderThan, CompletionTimed, Present

\* The empty cache satisfies the invariant.
LEMMA InitInv == Init => Inv
BY StoreAssumption DEF Init, Inv, TypeOK, CompletionTimed, StartedOnly, ReportedIsOld,
   DoomedIsReported, ReportedAtMostOnce, Present

\* OnRequestStart with its eviction preserves it: what insertion leaves was there
\* before, and the new entry is untimed, unreported and begun.
LEMMA InsertInv ==
  ASSUME Inv, NEW id \in TraceIds, id \notin started, OnRequestStart(id)
  PROVE  Inv'
<1>1. PICK ids \in SUBSET (Deletable(cache, now) \ {id}) :
        cache' = [other \in TraceIds |->
                    IF other \in ids THEN None
                    ELSE IF other = id THEN NewEntry(now) ELSE cache[other]]
  BY InsertEffect DEF Inv
<1>2. started' = started \cup {id} /\ UNCHANGED <<now, snap>>
  BY DEF OnRequestStart
<1>3. now \in Nat /\ NewEntry(now) \in Entry /\ NewEntry(now).messages = None
  BY DEF Inv, TypeOK, NewEntry, Entry, Status
<1>4. \A other \in Present(cache') :
        \/ other = id /\ cache'[other] = NewEntry(now)
        \/ other # id /\ cache[other] # None /\ cache'[other] = cache[other]
  BY <1>1 DEF Present
<1>5. TypeOK'
  <2>1. cache' \in [TraceIds -> Entry \cup {None}]
    BY <1>1, <1>3 DEF Inv, TypeOK
  <2>2. \A other \in Present(cache') :
          cache'[other].messages # None => Len(cache'[other].messages.log) <= MaxLog
    BY <1>3, <1>4 DEF Inv, TypeOK, Present
  <2>3. QED BY <1>2, <2>1, <2>2 DEF Inv, TypeOK
<1>6. CompletionTimed'
  <2>1. NewEntry(now).status \notin Terminal /\ NewEntry(now).completed_at = None
    BY DEF NewEntry, Terminal
  <2>2. QED BY <1>2, <1>4, <2>1 DEF Inv, CompletionTimed, Present
<1>7. StartedOnly'
  BY <1>2, <1>3, <1>4 DEF Inv, StartedOnly, Present, NewEntry
<1>8. ReportedIsOld' /\ DoomedIsReported'
  <2>1. \A r \in Readers : id \notin snap[r].result /\ id \notin snap[r].doomed
    BY DEF Inv, ReportedIsOld, DoomedIsReported
  <2>2. \A r \in Readers : snap[r].result \subseteq TraceIds /\ snap[r].doomed \subseteq TraceIds
    BY DEF Inv, TypeOK
  <2>3. QED BY <1>2, <1>4, <2>1, <2>2 DEF Inv, ReportedIsOld, DoomedIsReported, Present
<1>9. ReportedAtMostOnce'
  BY <1>2 DEF Inv, ReportedAtMostOnce
<1>10. QED BY <1>5, <1>6, <1>7, <1>8, <1>9 DEF Inv

\* The other handlers preserve it: each changes one entry, whose status becomes
\* terminal together with its completion time.
LEMMA EventInv ==
  ASSUME Inv, NEW id \in TraceIds, Event(id)
  PROVE  Inv'
<1>1. /\ UNCHANGED <<now, started, snap>>
      /\ \/ cache' = cache
         \/ /\ cache[id] # None
            /\ \E f : Evolves(cache[id], f) /\ cache' = [cache EXCEPT ![id] = f]
  BY EventEffect DEF Inv
<1>2. CASE cache' = cache
  BY <1>1, <1>2 DEF Inv, TypeOK, CompletionTimed, StartedOnly, ReportedIsOld,
     DoomedIsReported, ReportedAtMostOnce, Present
<1>3. CASE cache[id] # None
           /\ \E f : Evolves(cache[id], f) /\ cache' = [cache EXCEPT ![id] = f]
  <2>1. PICK f : Evolves(cache[id], f) /\ cache' = [cache EXCEPT ![id] = f]
    BY <1>3
  <2>2. cache[id] # None /\ f # None /\ f \in Entry
    BY <1>3, <2>1, NoneAssumption DEF Evolves, Sound
  <2>3. /\ cache'[id] = f
        /\ \A other \in TraceIds \ {id} : cache'[other] = cache[other]
    BY <2>1 DEF Inv, TypeOK
  <2>4. Present(cache') = Present(cache)
    BY <2>2, <2>3 DEF Present
  <2>5. TypeOK'
    BY <1>1, <2>1, <2>2, <2>3, <2>4 DEF Inv, TypeOK, Evolves, Sound
  <2>6. CompletionTimed'
    <3>1. id \in Present(cache) /\ now \in Nat /\ cache[id] \in Entry
      BY <2>2 DEF Present, Inv, TypeOK
    <3>2. /\ f.status \in Terminal <=> f.completed_at # None
          /\ f.completed_at # None => f.completed_at \in f.request_start .. now
      <4>1. CASE f.status = cache[id].status /\ f.completed_at = cache[id].completed_at
        BY <2>1, <3>1, <4>1 DEF Inv, CompletionTimed, Evolves
      <4>2. CASE /\ f.status \in Terminal
                 /\ f.completed_at = IF cache[id].completed_at = None THEN now
                                     ELSE cache[id].completed_at
        <5>1. cache[id].request_start \in 0 .. now
          BY <3>1, StoreAssumption DEF Inv, StartedOnly, Entry
        <5>2. QED BY <2>1, <3>1, <4>2, <5>1, NoneAssumption DEF Inv, CompletionTimed, Evolves
      <4>3. QED BY <2>1, <4>1, <4>2 DEF Evolves
    <3>3. QED BY <1>1, <2>3, <2>4, <3>2 DEF Inv, CompletionTimed, Present
  <2>7. StartedOnly'
    BY <1>1, <2>1, <2>3, <2>4 DEF Inv, StartedOnly, Present, Evolves
  <2>8. f.is_new = cache[id].is_new
    BY <2>1 DEF Evolves
  <2>9. cache[id].status \in Terminal => f.status \in Terminal
    BY <2>1 DEF Evolves
  <2>10. \A r \in Readers : snap[r].result \subseteq TraceIds /\ snap[r].doomed \subseteq TraceIds
    BY DEF Inv, TypeOK
  <2>11. ReportedIsOld' /\ DoomedIsReported'
    BY <1>1, <2>2, <2>3, <2>8, <2>9, <2>10 DEF Inv, ReportedIsOld, DoomedIsReported
  <2>12. ReportedAtMostOnce'
    BY <1>1 DEF Inv, ReportedAtMostOnce
  <2>13. QED BY <2>5, <2>6, <2>7, <2>11, <2>12 DEF Inv
<1>4. QED BY <1>1, <1>2, <1>3

\* A step of get_new_requests preserves it: an entry is reported by the reader that
\* clears its is_new, hence by no other.
LEMMA ReadInv ==
  ASSUME Inv, NEW r \in Readers, Read(r)
  PROVE  Inv'
<1>0. now' = now /\ started' = started
  BY DEF Read, ScanBegin, ScanEnd, ScanNewEntry, DropEntry
<1>1. CASE ScanBegin(r) \/ ScanEnd(r)
  <2>1. cache' = cache
    BY <1>1 DEF ScanBegin, ScanEnd
  <2>2. \E p \in {"scan", "drop"}, due \in SUBSET TraceIds :
          snap' = [snap EXCEPT ![r].phase = p, ![r].due = due]
    BY <1>1 DEF ScanBegin, ScanEnd, Present
  <2>3. \A s \in Readers : /\ snap'[s].result = snap[s].result
                           /\ snap'[s].doomed = snap[s].doomed
    BY <2>2 DEF Inv, TypeOK
  <2>4. TypeOK'
    BY <1>0, <2>1, <2>2 DEF Inv, TypeOK, Present
  <2>5. QED
    BY <1>0, <2>1, <2>3, <2>4 DEF Inv, CompletionTimed, StartedOnly, ReportedIsOld,
       DoomedIsReported, ReportedAtMostOnce, Present
<1>2. CASE \E id \in TraceIds : ScanNewEntry(r, id)
  <2>1. PICK id \in TraceIds : ScanNewEntry(r, id)
    BY <1>2
  <2> DEFINE f == [cache[id] EXCEPT !.is_new = FALSE]
  <2>2. /\ cache[id] # None
        /\ cache[id] \in Entry
        /\ cache[id].is_new
        /\ id \in Present(cache)
    BY <2>1 DEF ScanNewEntry, Present, Inv, TypeOK
  <2>3. /\ f \in Entry
        /\ f # None
        /\ ~f.is_new
        /\ f.status = cache[id].status
        /\ f.completed_at = cache[id].completed_at
        /\ f.request_start = cache[id].request_start
        /\ f.messages = cache[id].messages
    BY <2>2, NoneAssumption DEF Entry
  <2>4. cache' = [cache EXCEPT ![id] = f]
    BY <2>1 DEF ScanNewEntry
  <2> HIDE DEF f
  <2>5. /\ cache'[id] = f
        /\ \A other \in TraceIds \ {id} : cache'[other] = cache[other]
        /\ Present(cache') = Present(cache)
    BY <2>2, <2>3, <2>4 DEF Inv, TypeOK, Present
  <2> DEFINE doomed == IF IsNeedDeleted(cache[id], now) THEN snap[r].doomed \cup {id}
                       ELSE snap[r].doomed
  <2>6. snap' = [snap EXCEPT ![r].result = @ \cup {id}, ![r].doomed = doomed]
    <3>1. snap[r] \in [phase  : {"idle", "scan", "drop"}, due    : SUBSET TraceIds,
                       doomed : SUBSET TraceIds,          result : SUBSET TraceIds]
      BY DEF Inv, TypeOK
    <3>2. [snap EXCEPT ![r].result = @ \cup {id}][r].doomed = snap[r].doomed
      BY <3>1 DEF Inv, TypeOK
    <3>3. QED BY <2>1, <3>2 DEF ScanNewEntry, Scanned
  <2>7. /\ snap'[r].result = snap[r].result \cup {id}
        /\ snap'[r].doomed = doomed
        /\ \A s \in Readers \ {r} : snap'[s] = snap[s]
    BY <2>6 DEF Inv, TypeOK
  <2>70. doomed \in SUBSET TraceIds
    BY DEF Inv, TypeOK
  <2>8. IsNeedDeleted(cache[id], now) => cache[id].status \in Terminal
    BY <2>2, DeletableIsTerminal DEF Deletable, Inv
  <2>9. \A s \in Readers : id \notin snap[s].result
    BY <2>2 DEF Inv, ReportedIsOld
  <2>10. \A s \in Readers : snap[s].result \subseteq TraceIds /\ snap[s].doomed \subseteq TraceIds
    BY DEF Inv, TypeOK
  <2>11. TypeOK'
    <3>1. cache' \in [TraceIds -> Entry \cup {None}]
      BY <2>3, <2>4 DEF Inv, TypeOK
    <3>2. \A other \in Present(cache') :
            cache'[other].messages # None => Len(cache'[other].messages.log) <= MaxLog
      BY <2>3, <2>5 DEF Inv, TypeOK, Present
    <3>3. snap' \in [Readers -> [phase  : {"idle", "scan", "drop"},
                                 due    : SUBSET TraceIds,
                                 doomed : SUBSET TraceIds,
                                 result : SUBSET TraceIds]]
      <4> HIDE DEF doomed
      <4>1. QED BY <2>6, <2>70 DEF Inv, TypeOK
    <3>4. QED BY <1>0, <3>1, <3>2, <3>3 DEF Inv, TypeOK
  <2>12. CompletionTimed' /\ StartedOnly'
    BY <1>0, <2>2, <2>3, <2>5 DEF Inv, CompletionTimed, StartedOnly, Present
  <2>13. ReportedIsOld'
    BY <1>0, <2>2, <2>3, <2>5, <2>7, <2>10 DEF Inv, ReportedIsOld, StartedOnly
  <2>14. DoomedIsReported'
    <3> SUFFICES ASSUME NEW s \in Readers, NEW other \in snap'[s].doomed
                 PROVE  /\ other \in snap'[s].result
                        /\ cache'[other] # None => cache'[other].status \in Terminal
      BY DEF DoomedIsReported
    <3>1. CASE other = id
      <4>1. cache[id].status \in Terminal /\ id \in snap'[s].result
        BY <2>2, <2>7, <2>8, <2>9, <3>1 DEF Inv, DoomedIsReported
      <4>2. QED BY <2>3, <2>5, <3>1, <4>1
    <3>2. CASE other # id
      <4>1. other \in snap[s].doomed
        BY <2>7, <3>2
      <4>2. other \in TraceIds /\ other \in snap'[s].result
        BY <2>7, <2>10, <4>1 DEF Inv, DoomedIsReported
      <4>3. QED BY <2>5, <3>2, <4>1, <4>2 DEF Inv, DoomedIsReported
    <3>3. QED BY <3>1, <3>2
  <2>15. ReportedAtMostOnce'
    BY <2>7, <2>9 DEF Inv, ReportedAtMostOnce
  <2>16. QED BY <2>11, <2>12, <2>13, <2>14, <2>15 DEF Inv
<1>3. CASE \E id \in TraceIds : DropEntry(r, id)
  <2>1. PICK id \in TraceIds : DropEntry(r, id)
    BY <1>3
  <2>2. cache' = [cache EXCEPT ![id] = None]
    BY <2>1 DEF DropEntry
  <2>3. /\ cache'[id] = None
        /\ \A other \in TraceIds \ {id} : cache'[other] = cache[other]
    BY <2>2 DEF Inv, TypeOK
  <2>4. Present(cache') = Present(cache) \ {id}
    BY <2>3 DEF Present
  <2>5. snap' = [snap EXCEPT ![r].doomed = @ \ {id}]
    BY <2>1 DEF DropEntry
  <2>6. /\ snap'[r].doomed = snap[r].doomed \ {id}
        /\ \A s \in Readers : snap'[s].result = snap[s].result
        /\ \A s \in Readers \ {r} : snap'[s] = snap[s]
    BY <2>5 DEF Inv, TypeOK
  <2>7. \A s \in Readers : snap[s].result \subseteq TraceIds /\ snap[s].doomed \subseteq TraceIds
    BY DEF Inv, TypeOK
  <2>8. TypeOK'
    BY <1>0, <2>2, <2>3, <2>4, <2>5 DEF Inv, TypeOK, Present
  <2>9. CompletionTimed' /\ StartedOnly'
    BY <1>0, <2>3, <2>4 DEF Inv, CompletionTimed, StartedOnly, Present
  <2>10. ReportedIsOld' /\ DoomedIsReported'
    BY <1>0, <2>3, <2>6, <2>7 DEF Inv, ReportedIsOld, DoomedIsReported
  <2>11. ReportedAtMostOnce'
    BY <2>6 DEF Inv, ReportedAtMostOnce
  <2>12. QED BY <2>8, <2>9, <2>10, <2>11 DEF Inv
<1>4. QED BY <1>1, <1>2, <1>3 DEF Read

\* The clock preserves it: times that have passed stay passed.
LEMMA TickInv ==
  ASSUME Inv, Tick
  PROVE  Inv'
<1>1. /\ now \in Nat
      /\ now' = now + 1
      /\ UNCHANGED <<cache, started, snap>>
  BY DEF Tick, Inv, TypeOK
<1>2. \A id \in Present(cache) : cache[id] \in Entry
  BY DEF Inv, TypeOK, Present
<1>3. TypeOK'
  BY <1>1 DEF Inv, TypeOK, Present
<1>4. StartedOnly'
  BY <1>1, <1>2 DEF Inv, StartedOnly, Present, Entry
<1>5. CompletionTimed'
  BY <1>1, <1>2 DEF Inv, CompletionTimed, Present, Entry
<1>6. QED BY <1>1, <1>3, <1>4, <1>5
        DEF Inv, ReportedIsOld, DoomedIsReported, ReportedAtMostOnce

\* So does a step that changes nothing.
LEMMA StutterInv ==
  ASSUME Inv, UNCHANGED vars
  PROVE  Inv'
BY DEF vars, Inv, TypeOK, CompletionTimed, StartedOnly, ReportedIsOld,
   DoomedIsReported, ReportedAtMostOnce, Present

\* The cases of a step.
LEMMA NextCases ==
  ASSUME Next
  PROVE  \/ \E id \in TraceIds : id \notin started /\ OnRequestStart(id)
         \/ \E id \in TraceIds : Event(id)
         \/ \E r \in Readers : Read(r)
         \/ Tick
BY DEF Next, Event

\* The invariant is inductive.
LEMMA NextInv == Inv /\ [Next]_vars => Inv'
<1> SUFFICES ASSUME Inv, [Next]_vars PROVE Inv'
  OBVIOUS
<1>1. CASE UNCHANGED vars
  BY <1>1, StutterInv
<1>2. CASE Next
  BY <1>2, NextCases, InsertInv, EventInv, ReadInv, TickInv
<1>3. QED BY <1>1, <1>2

\* The inductive invariant holds of every reachable cache.
THEOREM Invariance == Spec => []Inv
BY InitInv, NextInv, PTL DEF Spec

-----------------------------------------------------------------------------
(***************************************************************************)
(* The invariants.                                                         *)
(***************************************************************************)

\* Whatever the order of the events, the cache is well formed and no websocket log
\* grows beyond MAX_WEBSOCKET_LOG_MESSAGES.
THEOREM TypeCorrect == Spec => []TypeOK
BY Invariance, PTL DEF Inv

\* An entry is terminal exactly when it has a completion time, and the time is
\* between its start and now.
THEOREM CompletionIsTimed == Spec => []CompletionTimed
BY Invariance, PTL DEF Inv

\* No two concurrent get_new_requests calls return the same entry.
THEOREM NewRequestsReportedOnce == Spec => []ReportedAtMostOnce
BY Invariance, PTL DEF Inv

-----------------------------------------------------------------------------
(***************************************************************************)
(* What a step may never do.                                               *)
(***************************************************************************)

\* The three ways an entry may fare in a step.
LEMMA EntryStep ==
  ASSUME Inv, [Next]_vars, NEW id \in TraceIds, cache[id] # None
  PROVE  \/ /\ cache'[id] # None
            /\ \/ Evolves(cache[id], cache'[id])
               \/ cache'[id] = [cache[id] EXCEPT !.is_new = FALSE]
         \/ /\ cache'[id] = None
            /\ started' # started
            /\ id \in Deletable(cache, now)
         \/ /\ cache'[id] = None
            /\ started' = started
            /\ \E r \in Readers : snap[r].phase = "drop" /\ id \in snap[r].doomed
<1>0. Evolves(cache[id], cache[id]) /\ id \in started
  BY PresentIsSound DEF Inv, StartedOnly, Present
<1>1. CASE \E new \in TraceIds : new \notin started /\ OnRequestStart(new)
  <2>1. PICK new \in TraceIds : new \notin started /\ OnRequestStart(new)
    BY <1>1
  <2>2. id # new /\ started' # started
    BY <1>0, <2>1 DEF OnRequestStart
  <2>3. PICK ids \in SUBSET (Deletable(cache, now) \ {new}) :
          cache' = [other \in TraceIds |->
                      IF other \in ids THEN None
                      ELSE IF other = new THEN NewEntry(now) ELSE cache[other]]
    BY <2>1, InsertEffect DEF Inv
  <2>4. QED BY <1>0, <2>2, <2>3
<1>2. CASE \E t \in TraceIds : Event(t)
  <2>1. PICK t \in TraceIds : Event(t)
    BY <1>2
  <2>2. \/ cache' = cache
        \/ /\ cache[t] # None
           /\ \E f : Evolves(cache[t], f) /\ cache' = [cache EXCEPT ![t] = f]
    BY <2>1, EventEffect DEF Inv
  <2>3. CASE cache' = cache
    BY <1>0, <2>3
  <2>4. CASE \E f : Evolves(cache[t], f) /\ cache' = [cache EXCEPT ![t] = f]
    <3>1. PICK f : Evolves(cache[t], f) /\ cache' = [cache EXCEPT ![t] = f]
      BY <2>4
    <3>2. f # None
      BY <3>1, NoneAssumption DEF Evolves, Sound
    <3>3. cache'[id] = IF id = t THEN f ELSE cache[id]
      BY <3>1 DEF Inv, TypeOK
    <3>4. QED BY <1>0, <3>1, <3>2, <3>3
  <2>5. QED BY <2>2, <2>3, <2>4
<1>3. CASE \E r \in Readers : Read(r)
  <2>1. PICK r \in Readers : Read(r)
    BY <1>3
  <2>2. CASE ScanBegin(r) \/ ScanEnd(r)
    BY <1>0, <2>2 DEF ScanBegin, ScanEnd
  <2>3. CASE \E t \in TraceIds : ScanNewEntry(r, t)
    <3>1. PICK t \in TraceIds : ScanNewEntry(r, t)
      BY <2>3
    <3> DEFINE f == [cache[t] EXCEPT !.is_new = FALSE]
    <3>2. cache' = [cache EXCEPT ![t] = f]
      BY <3>1 DEF ScanNewEntry
    <3>3. cache[t] \in Entry
      BY <3>1 DEF ScanNewEntry, Inv, TypeOK
    <3>4. f # None
      BY <3>3, NoneAssumption DEF Entry
    <3>5. cache'[id] = IF id = t THEN f ELSE cache[id]
      BY <3>2 DEF Inv, TypeOK
    <3>6. QED BY <1>0, <3>4, <3>5
  <2>4. CASE \E t \in TraceIds : DropEntry(r, t)
    <3>1. PICK t \in TraceIds : DropEntry(r, t)
      BY <2>4
    <3>2. cache'[id] = IF id = t THEN None ELSE cache[id]
      BY <3>1 DEF DropEntry, Inv, TypeOK
    <3>3. QED BY <1>0, <3>1, <3>2 DEF DropEntry
  <2>5. QED BY <2>1, <2>2, <2>3, <2>4 DEF Read
<1>4. CASE Tick \/ UNCHANGED vars
  BY <1>0, <1>4 DEF Tick, vars
<1>5. QED BY <1>1, <1>2, <1>3, <1>4, NextCases

\* Terminal entries stay terminal and keep their completion time.
THEOREM TerminalIsForever == Spec => TerminalForever
<1>1. ASSUME Inv, [Next]_vars, NEW id \in TraceIds,
             cache[id] # None, cache[id].status \in Terminal, cache'[id] # None
      PROVE  /\ cache'[id].status \in Terminal
             /\ cache'[id].completed_at = cache[id].completed_at
  <2>1. id \in Present(cache) /\ cache[id] \in Entry /\ cache[id].completed_at # None
    BY <1>1 DEF Present, Inv, TypeOK, CompletionTimed
  <2>2. CASE Evolves(cache[id], cache'[id])
    BY <1>1, <2>1, <2>2 DEF Evolves
  <2>3. CASE cache'[id] = [cache[id] EXCEPT !.is_new = FALSE]
    BY <1>1, <2>1, <2>3 DEF Entry
  <2>4. QED BY <1>1, <2>2, <2>3, EntryStep
<1>2. Inv /\ [Next]_vars =>
        [\A id \in TraceIds :
           cache[id] # None /\ cache[id].status \in Terminal /\ cache'[id] # None =>
             /\ cache'[id].status \in Terminal
             /\ cache'[id].completed_at = cache[id].completed_at]_vars
  BY <1>1
<1>3. QED BY <1>2, Invariance, PTL DEF Spec, TerminalForever

\* No insertion removes an exchange whose tunnel or websocket is live.
THEOREM EvictionIsSafe == Spec => EvictionSparesActive
<1>1. Inv /\ [Next]_vars =>
        [\A id \in TraceIds :
           /\ cache[id] # None
           /\ HasActiveLongConnection(cache[id])
           /\ cache'[id] = None
           => \E r \in Readers : snap[r].phase = "drop" /\ id \in snap[r].doomed]_vars
  BY EntryStep DEF Deletable, IsNeedDeleted
<1>2. QED BY <1>1, Invariance, PTL DEF Spec, EvictionSparesActive

\* A snapshot removes only what some snapshot has reported.
THEOREM SnapshotsAreSafe == Spec => SnapshotRemovesReported
<1>1. Inv /\ [Next]_vars =>
        [\A id \in TraceIds :
           cache[id] # None /\ cache'[id] = None /\ started' = started
             => \E r \in Readers : id \in snap[r].result]_vars
  BY EntryStep DEF Inv, DoomedIsReported
<1>2. QED BY <1>1, Invariance, PTL DEF Spec, SnapshotRemovesReported

\* Only an insertion records an exchange or makes the cache larger.
LEMMA OnlyInsertionGrows ==
  ASSUME Inv, [Next]_vars,
         ~\E id \in TraceIds : id \notin started /\ OnRequestStart(id)
  PROVE  started' = started /\ Present(cache') \subseteq Present(cache)
<1>1. started' = started
  <2>1. \A id \in TraceIds : Event(id) => started' = started
    BY EventEffect DEF Inv
  <2>2. \A r \in Readers : Read(r) => started' = started
    BY DEF Read, ScanBegin, ScanEnd, ScanNewEntry, DropEntry
  <2>3. Tick \/ UNCHANGED vars => started' = started
    BY DEF Tick, vars
  <2>4. QED BY <2>1, <2>2, <2>3, NextCases
<1>2. ASSUME NEW id \in TraceIds, cache[id] = None
      PROVE  cache'[id] = None
  <2>1. CASE \E t \in TraceIds : Event(t)
    <3>1. PICK t \in TraceIds : Event(t)
      BY <2>1
    <3>2. \/ cache' = cache
          \/ /\ cache[t] # None
             /\ \E f : Evolves(cache[t], f) /\ cache' = [cache EXCEPT ![t] = f]
      BY <3>1, EventEffect DEF Inv
    <3>3. QED BY <1>2, <3>2 DEF Inv, TypeOK
  <2>2. CASE \E r \in Readers : Read(r)
    BY <1>2, <2>2 DEF Read, ScanBegin, ScanEnd, ScanNewEntry, DropEntry, Inv, TypeOK
  <2>3. CASE Tick \/ UNCHANGED vars
    BY <1>2, <2>3 DEF Tick, vars
  <2>4. QED BY <2>1, <2>2, <2>3, NextCases
<1>3. QED BY <1>1, <1>2 DEF Present

\* What an insertion removes before its time has been finished longest: among the
\* entries that stay and could have gone, none is older.
THEOREM EvictionIsOldestFirst == Spec => EvictionTakesOldest
<1>1. ASSUME Inv, [Next]_vars, started' # started,
             NEW id \in Present(cache) \ Present(cache')
      PROVE  \/ OlderThan(cache[id], MaxCompletedAge, now)
             \/ \A other \in Deletable(cache', now) : ~Older(cache'[other], cache[id])
  <2>1. PICK new \in TraceIds : new \notin started /\ OnRequestStart(new)
    BY <1>1, OnlyInsertionGrows
  <2> DEFINE c == [cache EXCEPT ![new] = NewEntry(now)]
             kept == Without(c, Expired(c, now))
             victims == Oldest(kept, Deletable(kept, now))
  <2>2. cache' \in Evicted(c, now)
    BY <2>1 DEF OnRequestStart
  <2>3. cache' = kept \/ \E v \in victims : cache' = Without(kept, {v})
    BY <2>2 DEF Evicted
  <2>4. id \in TraceIds /\ cache[id] # None /\ cache'[id] = None /\ id \in started
    BY <1>1 DEF Present, Inv, StartedOnly
  <2>5. c[id] = cache[id]
    BY <2>1, <2>4 DEF Inv, TypeOK
  <2>6. CASE id \in Expired(c, now)
    BY <2>5, <2>6 DEF Expired
  <2>7. CASE id \notin Expired(c, now)
    <3>1. kept[id] = cache[id]
      BY <2>4, <2>5, <2>7 DEF Without
    <3>2. PICK v \in victims : cache' = Without(kept, {v})
      <4> HIDE DEF kept, victims
      <4>1. QED BY <2>3, <2>4, <3>1
    <3>3. id = v
      BY <2>4, <3>1, <3>2 DEF Without
    <3>4. \A other \in Deletable(cache', now) :
            other \in Deletable(kept, now) /\ cache'[other] = kept[other]
      <4> HIDE DEF kept
      <4>1. QED BY <3>2 DEF Deletable, Present, Without
    <3>5. \A other \in Deletable(kept, now) : ~Older(kept[other], kept[id])
      BY <3>2, <3>3 DEF Oldest
    <3>6. QED BY <3>1, <3>4, <3>5
  <2>8. QED BY <2>6, <2>7
<1>2. Inv /\ [Next]_vars =>
        [started' # started =>
           \A id \in Present(cache) \ Present(cache') :
             \/ OlderThan(cache[id], MaxCompletedAge, now)
             \/ \A other \in Deletable(cache', now) : ~Older(cache'[other], cache[id])]_vars
  BY <1>1
<1>3. QED BY <1>2, Invariance, PTL DEF Spec, EvictionTakesOldest

\* Always evict completed entries that have exceeded the TTL.
THEOREM ExpiredEntriesLeave == Spec => ExpiredLeave
<1>1. ASSUME Inv, [Next]_vars, started' # started, NEW id \in Present(cache'),
             cache'[id].status \in Terminal, OlderThan(cache'[id], MaxCompletedAge, now')
      PROVE  HasActiveLongConnection(cache'[id])
  <2>1. PICK new \in TraceIds : new \notin started /\ OnRequestStart(new)
    BY <1>1, OnlyInsertionGrows
  <2> DEFINE c == [cache EXCEPT ![new] = NewEntry(now)]
             kept == Without(c, Expired(c, now))
             victims == Oldest(kept, Deletable(kept, now))
  <2>2. cache' \in Evicted(c, now) /\ now' = now
    BY <2>1 DEF OnRequestStart
  <2>3. cache' = kept \/ \E v \in victims : cache' = Without(kept, {v})
    BY <2>2 DEF Evicted
  <2>4. id \in TraceIds /\ cache'[id] # None
    BY <1>1 DEF Present
  <2>5. cache'[id] = kept[id]
    <3> HIDE DEF kept, victims
    <3>1. QED BY <2>3, <2>4 DEF Without
  <2>6. kept[id] = c[id] /\ id \notin Expired(c, now)
    <3> HIDE DEF c
    <3>1. QED BY <2>4, <2>5 DEF Without
  <2>7. QED
    <3> HIDE DEF c, kept
    <3>1. c[id] # None /\ c[id].status \in Terminal /\ OlderThan(c[id], MaxCompletedAge, now)
      BY <1>1, <2>2, <2>4, <2>5, <2>6
    <3>2. QED BY <2>4, <2>5, <2>6, <3>1 DEF Expired, Deletable, Present, IsNeedDeleted
<1>2. Inv /\ [Next]_vars =>
        [started' # started =>
           \A id \in Present(cache') :
             cache'[id].status \in Terminal /\ OlderThan(cache'[id], MaxCompletedAge, now')
               => HasActiveLongConnection(cache'[id])]_vars
  BY <1>1
<1>3. QED BY <1>2, Invariance, PTL DEF Spec, ExpiredLeave

-----------------------------------------------------------------------------
(***************************************************************************)
(* The size of the cache.                                                  *)
(***************************************************************************)

\* Among entries some can be removed first: min_by_key finds one.
LEMMA OldestExists ==
  ASSUME NEW c, NEW ids, ids # {},
         \A id \in ids : c[id].completed_at \in Nat \cup {None}
  PROVE  Oldest(c, ids) # {}
<1> DEFINE times == {c[id].completed_at : id \in ids} \ {None}
<1>1. CASE times = {}
  <2>1. \A id \in ids : c[id].completed_at = None
    BY <1>1
  <2>2. PICK id \in ids : TRUE
    OBVIOUS
  <2>3. id \in Oldest(c, ids)
    BY <2>1 DEF Oldest, Older
  <2>4. QED BY <2>3
<1>2. CASE times # {}
  <2>1. times \subseteq Nat
    OBVIOUS
  <2>2. PICK first \in times : \A t \in times : <<t, first>> \notin OpToRel(<, Nat)
    <3> HIDE DEF times
    <3>1. QED BY <1>2, <2>1, WFMin, NatLessThanWellFounded
  <2>3. \A t \in times : ~(t < first)
    BY <2>1, <2>2 DEF OpToRel
  <2>4. PICK id \in ids : c[id].completed_at = first /\ first # None
    OBVIOUS
  <2>5. \A other \in ids : ~Older(c[other], c[id])
    <3> SUFFICES ASSUME NEW other \in ids, Older(c[other], c[id]) PROVE FALSE
      OBVIOUS
    <3>1. c[other].completed_at # None /\ c[other].completed_at < first
      BY <2>4 DEF Older
    <3>2. c[other].completed_at \in times
      BY <3>1
    <3>3. QED BY <2>3, <3>1, <3>2
  <2>6. QED BY <2>5 DEF Oldest
<1>3. QED BY <1>1, <1>2

\* Every step of the cache records at most one more exchange, so at any time
\* finitely many have been.
Finite == IsFiniteSet(started)

\* At any time finitely many exchanges have been recorded, TraceIds finite or not.
LEMMA Finiteness == Spec => []Finite
<1>1. Init => Finite
  BY FS_EmptySet DEF Init, Finite
<1>2. Inv /\ Finite /\ [Next]_vars => Finite'
  <2> SUFFICES ASSUME Inv, Finite, [Next]_vars PROVE Finite'
    OBVIOUS
  <2>1. CASE \E id \in TraceIds : id \notin started /\ OnRequestStart(id)
    BY <2>1, FS_AddElement DEF Finite, OnRequestStart
  <2>2. CASE ~\E id \in TraceIds : id \notin started /\ OnRequestStart(id)
    BY <2>2, OnlyInsertionGrows DEF Finite
  <2>3. QED BY <2>1, <2>2
<1>3. QED BY <1>1, <1>2, Invariance, PTL DEF Spec

\* An insertion above the threshold that finds an entry it may remove makes the
\* cache no larger.
LEMMA InsertionFrees ==
  ASSUME Inv, Finite, NEW new \in TraceIds, new \notin started, OnRequestStart(new),
         Cardinality(Present(cache')) > EvictThreshold,
         Deletable(cache', now') # {}
  PROVE  Cardinality(Present(cache')) <= Cardinality(Present(cache))
<1> DEFINE c == [cache EXCEPT ![new] = NewEntry(now)]
           kept == Without(c, Expired(c, now))
           victims == Oldest(kept, Deletable(kept, now))
<1>1. cache' \in Evicted(c, now) /\ now' = now
  BY DEF OnRequestStart
<1>2. NewEntry(now) \in Entry /\ NewEntry(now) # None
  <2>1. NewEntry(now) \in Entry
    BY DEF NewEntry, Entry, Status, Inv, TypeOK
  <2>2. QED BY <2>1, NoneAssumption
<1>3. new \notin Present(cache) /\ Present(cache) \subseteq started
  BY DEF Inv, StartedOnly
<1>4. Present(kept) \subseteq Present(cache) \cup {new}
  BY DEF Present, Without, Inv, TypeOK
<1>5. /\ IsFiniteSet(Present(cache))
      /\ IsFiniteSet(Present(cache) \cup {new})
      /\ Cardinality(Present(cache)) \in Nat
      /\ Cardinality(Present(cache) \cup {new}) = Cardinality(Present(cache)) + 1
  BY <1>3, FS_Subset, FS_AddElement, FS_CardinalityType DEF Finite
<1>6. CASE \E v \in victims : cache' = Without(kept, {v})
  <2>1. PICK v \in victims : cache' = Without(kept, {v})
    BY <1>6
  <2>2. v \in Present(kept)
    BY DEF Oldest, Deletable
  <2>3. Present(cache') \subseteq (Present(cache) \cup {new}) \ {v}
    <3> HIDE DEF kept
    <3>1. QED BY <1>4, <2>1 DEF Present, Without
  <2>4. v \in Present(cache) \cup {new}
    BY <1>4, <2>2
  <2>5. /\ IsFiniteSet((Present(cache) \cup {new}) \ {v})
        /\ Cardinality((Present(cache) \cup {new}) \ {v}) = Cardinality(Present(cache))
    <3> DEFINE S == Present(cache) \cup {new}
    <3>1. IsFiniteSet(S) /\ v \in S
      BY <1>5, <2>4
    <3> HIDE DEF S
    <3>2. IsFiniteSet(S \ {v}) /\ Cardinality(S \ {v}) = Cardinality(S) - 1
      BY <3>1, FS_RemoveElement
    <3>3. QED BY <1>5, <3>2 DEF S
  <2>6. QED BY <2>3, <2>5, FS_Subset
<1>7. CASE cache' = kept /\ ~(Cardinality(Present(kept)) > EvictThreshold /\ victims # {})
  <2>1. victims = {}
    BY <1>7
  <2>2. \A id \in Deletable(kept, now) : kept[id].completed_at \in Nat \cup {None}
    <3>1. ASSUME NEW id \in Deletable(kept, now)
          PROVE  kept[id] \in Entry
      <4>1. id \in TraceIds /\ kept[id] # None
        BY DEF Deletable, Present
      <4>2. kept[id] = c[id]
        BY <4>1 DEF Without
      <4>3. QED BY <1>2, <4>1, <4>2 DEF Inv, TypeOK
    <3>2. QED BY <3>1 DEF Entry
  <2>3. Deletable(kept, now) = {}
    <3> HIDE DEF kept
    <3>1. QED BY <2>1, <2>2, OldestExists
  <2>4. QED BY <1>1, <1>7, <2>3
<1>8. QED
  <2> HIDE DEF c
  <2>1. QED BY <1>1, <1>6, <1>7 DEF Evicted

\* The cache outgrows EVICT_THRESHOLD only when nothing in it may be removed.
THEOREM GrowthIsAlwaysForced == Spec => GrowthIsForced
<1>1. ASSUME Inv, Finite, [Next]_vars,
             Cardinality(Present(cache')) > Cardinality(Present(cache)),
             Cardinality(Present(cache')) > EvictThreshold
      PROVE  Deletable(cache', now') = {}
  <2>1. /\ IsFiniteSet(Present(cache))
        /\ Cardinality(Present(cache)) \in Nat
    BY <1>1, FS_Subset, FS_CardinalityType DEF Finite, Inv, StartedOnly
  <2>2. CASE \E id \in TraceIds : id \notin started /\ OnRequestStart(id)
    <3>1. PICK id \in TraceIds : id \notin started /\ OnRequestStart(id)
      BY <2>2
    <3>2. Present(cache') \subseteq started \cup {id}
      BY <1>1, <3>1, InsertInv DEF Inv, StartedOnly, OnRequestStart
    <3>3. Cardinality(Present(cache')) \in Nat
      BY <1>1, <3>2, FS_AddElement, FS_Subset, FS_CardinalityType DEF Finite
    <3>4. QED BY <1>1, <2>1, <3>1, <3>3, InsertionFrees
  <2>3. CASE ~\E id \in TraceIds : id \notin started /\ OnRequestStart(id)
    <3>1. Present(cache') \subseteq Present(cache)
      BY <1>1, <2>3, OnlyInsertionGrows
    <3>2. /\ Cardinality(Present(cache')) <= Cardinality(Present(cache))
          /\ Cardinality(Present(cache')) \in Nat
      BY <2>1, <3>1, FS_Subset, FS_CardinalityType
    <3>3. QED BY <1>1, <2>1, <3>2
  <2>4. QED BY <2>2, <2>3
<1>2. Inv /\ Finite /\ [Next]_vars =>
        [Cardinality(Present(cache')) > Cardinality(Present(cache))
         /\ Cardinality(Present(cache')) > EvictThreshold
           => Deletable(cache', now') = {}]_vars
  BY <1>1
<1>3. QED BY <1>2, Invariance, Finiteness, PTL DEF Spec, GrowthIsForced

-----------------------------------------------------------------------------
(***************************************************************************)
(* The cache implements EntryLifecycle.                                    *)
(***************************************************************************)

\* The stage of an exchange, by cases, before and after a step.
LEMMA LifeOf ==
  /\ life = [id \in TraceIds |-> life[id]]
  /\ \A id \in TraceIds :
       /\ id \notin started => life[id] = "absent"
       /\ id \in started /\ cache[id] = None => life[id] = "gone"
       /\ id \in started /\ cache[id] # None /\ cache[id].status \in Terminal
            => life[id] = "terminal"
       /\ id \in started /\ cache[id] # None /\ cache[id].status \notin Terminal
            => life[id] = "pending"
BY DEF life

\* The same of the stage after the step.
LEMMA LifeOfNext ==
  /\ life' = [id \in TraceIds |-> life'[id]]
  /\ \A id \in TraceIds :
       /\ id \notin started' => life'[id] = "absent"
       /\ id \in started' /\ cache'[id] = None => life'[id] = "gone"
       /\ id \in started' /\ cache'[id] # None /\ cache'[id].status \in Terminal
            => life'[id] = "terminal"
       /\ id \in started' /\ cache'[id] # None /\ cache'[id].status \notin Terminal
            => life'[id] = "pending"
BY DEF life

\* An insertion with its eviction is a Record step of the life cycle: what it evicts
\* was terminal.
LEMMA InsertRecords ==
  ASSUME Inv, NEW id \in TraceIds, id \notin started, OnRequestStart(id)
  PROVE  Lifecycle!Record(id)
<1>1. PICK ids \in SUBSET (Deletable(cache, now) \ {id}) :
        cache' = [other \in TraceIds |->
                    IF other \in ids THEN None
                    ELSE IF other = id THEN NewEntry(now) ELSE cache[other]]
  BY InsertEffect DEF Inv
<1>2. started' = started \cup {id}
  BY DEF OnRequestStart
<1>3. /\ ids \subseteq TraceIds /\ id \notin ids
      /\ \A other \in ids : other \in started /\ life[other] = "terminal"
  BY <1>1, DeletableIsTerminal, LifeOf DEF Inv, StartedOnly, Present, Deletable
<1>4. NewEntry(now) # None /\ NewEntry(now).status \notin Terminal
  <2>1. NewEntry(now) \in Entry
    BY DEF NewEntry, Entry, Status, Inv, TypeOK
  <2>2. NewEntry(now).status = "RequestStarted"
    BY DEF NewEntry
  <2>3. QED BY <2>1, <2>2, NoneAssumption DEF Terminal
<1>5. life' = Lifecycle!Forgotten(ids, [life EXCEPT ![id] = "pending"])
  <2>1. life'[id] = "pending"
    BY <1>1, <1>2, <1>3, <1>4, LifeOfNext
  <2>2. \A other \in ids : life'[other] = "gone"
    BY <1>1, <1>2, <1>3, LifeOfNext
  <2>3. \A other \in TraceIds \ (ids \cup {id}) : life'[other] = life[other]
    BY <1>1, <1>2, LifeOf, LifeOfNext
  <2>4. [life EXCEPT ![id] = "pending"]
          = [other \in TraceIds |-> IF other = id THEN "pending" ELSE life[other]]
    BY LifeOf
  <2>5. life' = [other \in TraceIds |->
                   IF other \in ids THEN "gone"
                   ELSE IF other = id THEN "pending" ELSE life[other]]
    BY <1>3, <2>1, <2>2, <2>3, LifeOfNext
  <2>6. QED BY <2>4, <2>5 DEF Lifecycle!Forgotten
<1>6. QED BY <1>3, <1>5, LifeOf DEF Lifecycle!Record

\* Any other event finishes its exchange or leaves every stage as it was.
LEMMA EventFinishes ==
  ASSUME Inv, NEW id \in TraceIds, Event(id)
  PROVE  Lifecycle!Finish(id) \/ life' = life
<1>1. /\ started' = started
      /\ \/ cache' = cache
         \/ /\ cache[id] # None
            /\ \E f : Evolves(cache[id], f) /\ cache' = [cache EXCEPT ![id] = f]
  BY EventEffect DEF Inv
<1>2. CASE cache' = cache
  BY <1>1, <1>2 DEF life
<1>3. CASE cache[id] # None
           /\ \E f : Evolves(cache[id], f) /\ cache' = [cache EXCEPT ![id] = f]
  <2>1. PICK f : Evolves(cache[id], f) /\ cache' = [cache EXCEPT ![id] = f]
    BY <1>3
  <2>2. id \in started /\ f # None
    BY <1>3, <2>1, NoneAssumption DEF Inv, StartedOnly, Present, Evolves, Sound
  <2>3. /\ cache'[id] = f
        /\ \A other \in TraceIds \ {id} : cache'[other] = cache[other]
    BY <2>1 DEF Inv, TypeOK
  <2>4. \A other \in TraceIds \ {id} : life'[other] = life[other]
    BY <1>1, <2>3, LifeOf, LifeOfNext
  <2>5. CASE life'[id] = life[id]
    BY <2>4, <2>5, LifeOf, LifeOfNext
  <2>6. CASE life'[id] # life[id]
    <3>1. cache[id].status \in Terminal => f.status \in Terminal
      BY <2>1 DEF Evolves
    <3>2. life[id] = "pending" /\ life'[id] = "terminal"
      BY <1>1, <1>3, <2>2, <2>3, <2>6, <3>1, LifeOf, LifeOfNext
    <3>3. life' = [life EXCEPT ![id] = "terminal"]
      BY <2>4, <3>2, LifeOf, LifeOfNext
    <3>4. QED BY <3>2, <3>3 DEF Lifecycle!Finish
  <2>7. QED BY <2>5, <2>6
<1>4. QED BY <1>1, <1>2, <1>3

\* A step of get_new_requests forgets one terminal exchange or leaves every stage.
LEMMA ReadForgets ==
  ASSUME Inv, NEW r \in Readers, Read(r)
  PROVE  (\E id \in TraceIds : Lifecycle!Forget(id)) \/ life' = life
<1>1. CASE ScanBegin(r) \/ ScanEnd(r)
  BY <1>1 DEF ScanBegin, ScanEnd, life
<1>2. CASE \E id \in TraceIds : ScanNewEntry(r, id)
  <2>1. PICK id \in TraceIds : ScanNewEntry(r, id)
    BY <1>2
  <2> DEFINE f == [cache[id] EXCEPT !.is_new = FALSE]
  <2>2. /\ cache[id] # None
        /\ started' = started
        /\ cache' = [cache EXCEPT ![id] = f]
    BY <2>1 DEF ScanNewEntry
  <2>3. cache[id] \in Entry
    BY <2>2 DEF Inv, TypeOK
  <2>4. f # None /\ f.status = cache[id].status
    BY <2>3, NoneAssumption DEF Entry
  <2>5. /\ cache'[id] = f
        /\ \A other \in TraceIds \ {id} : cache'[other] = cache[other]
    BY <2>2 DEF Inv, TypeOK
  <2>6. \A other \in TraceIds : life'[other] = life[other]
    <3> HIDE DEF f
    <3>1. life'[id] = life[id]
      BY <2>2, <2>4, <2>5, LifeOf, LifeOfNext
    <3>2. \A other \in TraceIds \ {id} : life'[other] = life[other]
      BY <2>2, <2>5, LifeOf, LifeOfNext
    <3>3. QED BY <3>1, <3>2
  <2>7. QED BY <2>6, LifeOf, LifeOfNext
<1>3. CASE \E id \in TraceIds : DropEntry(r, id)
  <2>1. PICK id \in TraceIds : DropEntry(r, id)
    BY <1>3
  <2>2. started' = started /\ cache' = [cache EXCEPT ![id] = None]
    BY <2>1 DEF DropEntry
  <2>3. id \in started /\ (cache[id] # None => cache[id].status \in Terminal)
    BY <2>1 DEF DropEntry, Inv, DoomedIsReported, ReportedIsOld
  <2>4. /\ cache'[id] = None
        /\ \A other \in TraceIds \ {id} : cache'[other] = cache[other]
    BY <2>2 DEF Inv, TypeOK
  <2>5. \A other \in TraceIds \ {id} : life'[other] = life[other]
    BY <2>2, <2>4, LifeOf, LifeOfNext
  <2>6. life'[id] = "gone"
    BY <2>2, <2>3, <2>4, LifeOfNext
  <2>7. CASE cache[id] = None
    <3>1. life[id] = "gone"
      BY <2>3, <2>7, LifeOf
    <3>2. QED BY <2>5, <2>6, <3>1, LifeOf, LifeOfNext
  <2>8. CASE cache[id] # None
    <3>1. life[id] = "terminal"
      BY <2>3, <2>8, LifeOf
    <3>2. life' = [life EXCEPT ![id] = "gone"]
      BY <2>5, <2>6, LifeOf, LifeOfNext
    <3>3. QED BY <3>1, <3>2 DEF Lifecycle!Forget
  <2>9. QED BY <2>7, <2>8
<1>4. QED BY <1>1, <1>2, <1>3 DEF Read

\* The cache implements the life cycle: an exchange is recorded once, and removed
\* only after it was terminal, for good.
THEOREM CacheImplementsLifecycle == Spec => LifecycleSpec
<1>1. Init => Lifecycle!Init
  BY DEF Init, Lifecycle!Init, life
<1>2. Inv /\ [Next]_vars => [Lifecycle!Next]_life
  <2> SUFFICES ASSUME Inv, [Next]_vars PROVE Lifecycle!Next \/ life' = life
    OBVIOUS
  <2>1. CASE Tick \/ UNCHANGED vars
    BY <2>1 DEF Tick, vars, life
  <2>2. QED
    BY <2>1, NextCases, InsertRecords, EventFinishes, ReadForgets DEF Lifecycle!Next
<1>3. QED BY <1>1, <1>2, Invariance, PTL DEF Spec, LifecycleSpec, Lifecycle!Spec
=============================================================================
