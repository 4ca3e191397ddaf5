-------------------------- MODULE RequestProcessing --------------------------
(***************************************************************************)
(* One request under the rules (layers/request_processing_layer): the      *)
(* enabled handlers of the rules that match it run in execution order,     *)
(* each may answer in place of the upstream; the answer of the upstream    *)
(* goes through the same handlers in the same order, and out to the client *)
(* through the throttled bodies.                                           *)
(*                                                                         *)
(* A body is [text, tags, enc]: a text, the tags injected into it and the  *)
(* encoding its bytes are in. A header that describes a body holds what it *)
(* says: the encoding, or the body whose length it states. A path is the   *)
(* sequence of its parts, a query absent, empty or a value.                *)
(***************************************************************************)
EXTENDS Integers, Sequences, SequencesExt, FiniteSets, FiniteSetsExt

CONSTANTS
  RuleLists,  \* what the rule cache may hold: sequences of rules
  Requests,   \* requests of the client
  Answers,    \* answers of the upstream
  Frames,     \* the lengths of the frames a body that is not empty comes in
  Absent      \* Rust's None; no such header

VARIABLES
  stage,    \* where the request is
  rules,    \* the rules the request is under
  todo,     \* the handlers still to run in this direction
  req,      \* the request as it stands
  resp,     \* the response as it stands
  waited,   \* milliseconds slept for the handlers
  asked,    \* the requests the upstream has received
  flight,   \* the frame in the throttled bodies: its length, the bodies behind it
  sent,     \* lengths of the frames the client has received
  clock,    \* milliseconds slept by the throttled bodies
  original  \* history: the request of the client

vars == <<stage, rules, todo, req, resp, waited, asked, flight, sent, clock, original>>

Max2(a, b) == IF a > b THEN a ELSE b

Body(text) == [text |-> text, tags |-> 0, enc |-> Absent]
NoBody == Body("")
NoResponse == [by |-> "nobody", html |-> FALSE, encoding |-> Absent, chunked |-> FALSE,
               length |-> Absent, body |-> NoBody, ends |-> TRUE, rates |-> << >>]

-----------------------------------------------------------------------------
(***************************************************************************)
(* The handlers.                                                           *)
(***************************************************************************)
MatchingRules(rs) == {i \in DOMAIN rs : rs[i].enabled /\ rs[i].matches}

\* load_all_rules sorts the rules of the cache.
Precedes(r, s) == r.priority > s.priority \/ (r.priority = s.priority /\ r.id < s.id)

\* The handlers that run, as <<rule, handler>>.
AllHandlers(rs) ==
  {p \in UNION {{i} \X DOMAIN rs[i].handlers : i \in MatchingRules(rs)} : rs[p[1]].handlers[p[2]].enabled}

HandlerAt(rs, p) == rs[p[1]].handlers[p[2]]

\* The order they are collected in, which the sort by their own order keeps among equals.
CollectedBefore(rs, p, q) ==
  \/ Precedes(rs[p[1]], rs[q[1]])
  \/ ~Precedes(rs[q[1]], rs[p[1]]) /\ (p[1] < q[1] \/ (p[1] = q[1] /\ p[2] < q[2]))

RunsBefore_asCollected(rs, p, q) == CollectedBefore(rs, p, q)
RunsBefore(rs, p, q) ==
  \/ HandlerAt(rs, p).order < HandlerAt(rs, q).order
  \/ HandlerAt(rs, p).order = HandlerAt(rs, q).order /\ CollectedBefore(rs, p, q)

\* all_handlers once sorted: each handler comes after as many as run before it.
SortedHandlers(rs) ==
  LET Rank(p) == Cardinality({q \in AllHandlers(rs) : RunsBefore(rs, q, p)})
  IN  [k \in 1 .. Cardinality(AllHandlers(rs)) |->
         HandlerAt(rs, CHOOSE p \in AllHandlers(rs) : Rank(p) = k - 1)]

Answered(by, body) ==
  [NoResponse EXCEPT !.by = by, !.length = body, !.body = body]

LocalFile(h) ==
  CASE h.file = "missing" -> Answered("localFile", Body("File not found"))
    [] h.file = "directory" -> Answered("localFile", Body("Path is not a file"))
    [] h.file = "unreadable" -> Answered("localFile", Body("Failed to read file"))
    [] OTHER -> [Answered("localFile", Body(h.file)) EXCEPT !.html = TRUE]

Or(a, b) == IF a = Absent THEN b ELSE a

\* The query mark is written whether or not there is a query.
ForwardPath(uri, target) ==
  [uri EXCEPT !.path = IF target = "/" THEN @ ELSE <<target>> \o @,
              !.query = IF @ = Absent THEN "" ELSE @]

ProxyForward(uri, h) ==
  LET to == [uri EXCEPT !.scheme = Or(h.scheme, @), !.authority = Or(h.authority, @)]
  IN  IF h.path = Absent THEN to ELSE ForwardPath(to, h.path)

ForwardInvalid(h) == "invalid" \in {h.scheme, h.authority, h.path}

\* A URL with a scheme has a path, "/" if none is written.
ModifyUrl(uri, url) ==
  [scheme    |-> Or(url.scheme, uri.scheme),
   authority |-> Or(url.authority, uri.authority),
   path      |-> IF url.path = Absent THEN uri.path ELSE url.path,
   query     |-> IF url.path = Absent THEN uri.query ELSE url.query]

ModifyRequest(r, h) ==
  [r EXCEPT !.uri = IF h.url = Absent THEN @ ELSE ModifyUrl(@, h.url),
            !.body = IF h.body = Absent THEN @ ELSE Body(h.body),
            !.length = IF h.body = Absent THEN @ ELSE Body(h.body)]

ModifyResponse_keepsEncoding(r, h) ==
  IF h.body = Absent THEN r
  ELSE [r EXCEPT !.chunked = FALSE, !.length = Body(h.body), !.body = Body(h.body), !.ends = TRUE, !.rates = << >>]
ModifyResponse(r, h) ==
  IF h.body = Absent THEN r
  ELSE [r EXCEPT !.encoding = Absent, !.chunked = FALSE, !.length = Body(h.body),
                 !.body = Body(h.body), !.ends = TRUE, !.rates = << >>]

Decoders == {"gzip", "deflate", "br"}

\* A body that cannot be decoded is used as it is.
Decompressed(r) ==
  IF r.encoding \in Decoders /\ r.body.enc = r.encoding THEN [r.body EXCEPT !.enc = Absent] ELSE r.body

Utf8(body) == body.enc = Absent /\ body.text # "binary"

\* Reading the body takes it out of the response, throttled bodies and all.
Taken(r, body) == [r EXCEPT !.body = body, !.ends = TRUE, !.rates = << >>]

HtmlScriptInjector(r, h) ==
  LET plain  == Decompressed(r)
      tagged == [plain EXCEPT !.tags = @ + 1]
  IN  CASE ~r.html -> r
        [] r.html /\ (~r.ends \/ ~Utf8(plain)) -> Taken(r, NoBody)
        [] r.html /\ r.ends /\ Utf8(plain) /\ h.blank -> Taken(r, plain)
        [] OTHER -> [Taken(r, tagged) EXCEPT !.encoding = Absent,
                                             !.length = IF r.chunked THEN Absent ELSE tagged]

BytesPerSec(kbps) == (kbps * 1000) \div 8

\* What ThrottledBody::delay_for_chunk sleeps for a frame, in milliseconds.
DelayForChunk(bps, len) == IF bps = 0 \/ len = 0 THEN 0 ELSE (len * 1000) \div bps

Throttled(r, kbps) ==
  IF kbps = 0 THEN r ELSE [r EXCEPT !.rates = Append(@, BytesPerSec(kbps))]

DelayRange(h) == Max2(0, h.ms - h.variance) .. (h.ms + h.variance)

-----------------------------------------------------------------------------
Init ==
  /\ stage = "lookup"
  /\ rules \in RuleLists
  /\ todo = << >>
  /\ req \in Requests
  /\ resp = NoResponse
  /\ waited = 0
  /\ asked = {}
  /\ flight = Absent
  /\ sent = << >>
  /\ clock = 0
  /\ original = req

streamVars == <<flight, sent, clock>>
restVars == <<rules, original, streamVars>>

\* BuildProxyRequestService and find_matching_rules. A rule file that cannot be read
\* or compiled fails the lookup for every request, which then goes on without rules.
FindMatchingRules ==
  /\ stage = "lookup"
  /\ \/ todo' = SortedHandlers(rules) /\ rules' = rules
     \/ todo' = << >> /\ rules' = << >>
  /\ stage' = "request"
  /\ UNCHANGED <<req, resp, waited, asked, original, streamVars>>

Respond(r) == stage' = "deliver" /\ resp' = r /\ todo' = << >> /\ UNCHANGED req

\* ErrorHandleFuture answers an error with a page of its own.
Fail == Respond(Answered("error", Body("error")))

Proceed(r) == stage' = stage /\ req' = r /\ todo' = Tail(todo) /\ UNCHANGED resp

Wait(ms) == waited' = waited + ms

HandleRequest ==
  /\ stage = "request" /\ todo # << >>
  /\ UNCHANGED <<asked, restVars>>
  /\ LET h == Head(todo) IN
       CASE h.kind = "block" ->
              /\ IF h.invalid THEN Fail ELSE Respond(Answered("block", Body("blocked")))
              /\ Wait(0)
         [] h.kind = "localFile" -> Respond(LocalFile(h)) /\ Wait(0)
         [] h.kind = "modifyRequest" -> Proceed(ModifyRequest(req, h)) /\ Wait(0)
         [] h.kind = "proxyForward" ->
              /\ IF ForwardInvalid(h) THEN Fail ELSE Proceed([req EXCEPT !.uri = ProxyForward(@, h)])
              /\ Wait(0)
         [] h.kind = "delay" ->
              /\ Proceed(req)
              /\ \E ms \in DelayRange(h) :
                   Wait(CASE h.type = "before" -> ms [] h.type = "both" -> ms \div 2 [] OTHER -> 0)
         [] h.kind = "throttle" ->
              IF h.offline THEN Respond(Answered("throttle", Body("offline"))) /\ Wait(0)
              ELSE Proceed(req) /\ Wait(h.latency)
         [] OTHER -> Proceed(req) /\ Wait(0)

\* proxy_http_request_inner. A failure skips the handlers of the response.
Upstream ==
  /\ stage = "request" /\ todo = << >>
  /\ asked' = asked \cup {req}
  /\ \/ /\ \E r \in Answers : resp' = r
        /\ stage' = "response"
        /\ todo' = SortedHandlers(rules)
        /\ UNCHANGED req
     \/ Fail
  /\ UNCHANGED <<waited, restVars>>

HandleResponse ==
  /\ stage = "response" /\ todo # << >>
  /\ todo' = Tail(todo)
  /\ LET h == Head(todo) IN
       /\ resp' = CASE h.kind = "modifyResponse" -> ModifyResponse(resp, h)
                    [] h.kind = "htmlScriptInjector" -> HtmlScriptInjector(resp, h)
                    [] h.kind = "throttle" -> Throttled(resp, h.download)
                    [] OTHER -> resp
       /\ IF h.kind = "delay"
          THEN \E ms \in DelayRange(h) :
                 Wait(CASE h.type = "after" -> ms [] h.type = "both" -> ms \div 2 [] OTHER -> 0)
          ELSE Wait(0)
  /\ UNCHANGED <<stage, req, asked, restVars>>

Deliver ==
  /\ stage = "response" /\ todo = << >>
  /\ stage' = "deliver"
  /\ UNCHANGED <<todo, req, resp, waited, asked, restVars>>

-----------------------------------------------------------------------------
(***************************************************************************)
(* The body on its way to the client. A throttled body asks the one inside *)
(* it for a frame only when it holds none, so one frame is under way.      *)
(***************************************************************************)
Coming == IF resp.body = NoBody THEN << >> ELSE Frames
Left == IF resp.ends THEN Len(Coming) ELSE Len(Coming) - 1  \* frames before an end or an error

Pulled == Len(sent) + IF flight = Absent THEN 0 ELSE 1

IsEndStream_inner == resp.ends /\ Pulled = Left

\* hyper asks a body for its end before it polls it.
IsEndStream == resp.ends /\ Pulled = Left /\ flight = Absent

handled == <<rules, todo, req, resp, waited, asked, original>>

PollFrame ==
  /\ stage = "deliver" /\ ~IsEndStream /\ flight = Absent /\ Pulled < Left
  /\ flight' = [length |-> Frames[Pulled + 1], passed |-> 0]
  /\ UNCHANGED <<stage, sent, clock, handled>>

SleepForChunk ==
  /\ stage = "deliver" /\ ~IsEndStream /\ flight # Absent /\ flight.passed < Len(resp.rates)
  /\ flight' = [flight EXCEPT !.passed = @ + 1]
  /\ clock' = clock + DelayForChunk(resp.rates[flight.passed + 1], flight.length)
  /\ UNCHANGED <<stage, sent, handled>>

TakeFrame ==
  /\ stage = "deliver" /\ ~IsEndStream /\ flight # Absent /\ flight.passed = Len(resp.rates)
  /\ sent' = Append(sent, flight.length)
  /\ flight' = Absent
  /\ UNCHANGED <<stage, clock, handled>>

Finish ==
  /\ stage = "deliver"
  /\ IsEndStream \/ (~resp.ends /\ flight = Absent /\ Pulled = Left)
  /\ stage' = IF IsEndStream THEN "done" ELSE "broken"
  /\ UNCHANGED <<streamVars, handled>>

Step ==
  \/ FindMatchingRules \/ HandleRequest \/ Upstream \/ HandleResponse \/ Deliver
  \/ PollFrame \/ SleepForChunk \/ TakeFrame \/ Finish

\* The request has been dealt with.
Over == stage \in {"done", "broken"} /\ UNCHANGED vars

Next == Step \/ Over

Spec == Init /\ [][Next]_vars

-----------------------------------------------------------------------------
Run == SortedHandlers(rules)
Of(run, kinds) == {i \in DOMAIN run : run[i].kind \in kinds}

TypeOK ==
  /\ stage \in {"lookup", "request", "response", "deliver", "done", "broken"}
  /\ DOMAIN resp = DOMAIN NoResponse
  /\ waited \in Nat /\ clock \in Nat
  /\ Cardinality(asked) \in 0 .. 1
  /\ flight # Absent => flight.length \in Range(Frames) /\ flight.passed \in 0 .. Len(resp.rates)
  /\ IsPrefix(sent, Frames)

\* An answer that is not the upstream's comes from the first handler that answers, and
\* the upstream has not heard of the request.
Answering(h) ==
  \/ h.kind \in {"block", "localFile"}
  \/ h.kind = "throttle" /\ h.offline
  \/ h.kind = "proxyForward" /\ ForwardInvalid(h)

AnsweredByFirst ==
  stage \in {"deliver", "done", "broken"} =>
    LET run == Run
        answering == {i \in DOMAIN run : Answering(run[i])}
    IN  IF answering = {}
        THEN resp.by \in {"upstream", "error"} /\ asked # {}
        ELSE /\ asked = {}
             /\ \E i \in answering :
                  /\ \A j \in answering : run[i].order <= run[j].order
                  /\ resp.by \in {run[i].kind, "error"}

\* The headers of what the client receives describe its body: the encoding is the body's,
\* the length is the body's. The HTML injector breaks this twice: with nothing to inject it
\* decodes the body and leaves the header, and what it cannot read as text it drops
\* while the headers stay.
InjectorGap(run) ==
  \E i \in Of(run, {"htmlScriptInjector"}) :
    resp.body = NoBody \/ (run[i].blank /\ resp.encoding \in Decoders /\ resp.body.enc = Absent)

HeadersDescribeBody ==
  stage = "deliver" /\ ~InjectorGap(Run) =>
    /\ resp.encoding = resp.body.enc
    /\ resp.length \in {Absent, resp.body}
    /\ resp.chunked => resp.length = Absent

\* The upstream is asked where the last handler that names a part of the address says,
\* and the path the client asked for, or the last one a rule names, ends the path.
Naming(run, f) ==
  {i \in DOMAIN run :
     \/ run[i].kind = "proxyForward" /\ run[i][f] # Absent
     \/ run[i].kind = "modifyRequest" /\ run[i].url # Absent /\ run[i].url[f] # Absent}

Named(h, f) == IF h.kind = "proxyForward" THEN h[f] ELSE h.url[f]

AskedWhereTold ==
  \A r \in asked :
    LET run     == Run
        Told(f) == Named(run[Max(Naming(run, f))], f)
        written == {i \in Naming(run, "path") : run[i].kind = "modifyRequest"}
        base    == IF written = {} THEN original.uri.path ELSE run[Max(written)].url.path
    IN  /\ \A f \in {"scheme", "authority"} :
             r.uri[f] = IF Naming(run, f) = {} THEN original.uri[f] ELSE Told(f)
        /\ IsSuffix(base, r.uri.path)

Sum(s) ==
  LET sum[k \in 0 .. Len(s)] == IF k = 0 THEN 0 ELSE sum[k - 1] + s[k]
  IN  sum[Len(s)]

\* What a rule makes wait is what it is configured for: with every handler run, each
\* delay has taken its milliseconds, give or take its variance. One split in two halves
\* may lose a millisecond.
Most(h) == CASE h.kind = "delay" -> h.ms + h.variance [] h.kind = "throttle" -> h.latency [] OTHER -> 0
Least(h) ==
  CASE h.kind = "delay" -> Max2(0, h.ms - h.variance) - (IF h.type = "both" THEN 1 ELSE 0)
    [] h.kind = "throttle" -> h.latency
    [] OTHER -> 0

WaitsAsConfigured ==
  stage \in {"deliver", "done"} =>
    /\ waited <= Sum([i \in DOMAIN Run |-> Most(Run[i])])
    /\ resp.by = "upstream" => waited >= Sum([i \in DOMAIN Run |-> Least(Run[i])])

\* A throttled body is paced: what it has let through took its bytes' time, less a
\* millisecond for each frame, which the division loses.
PacedAt(bps) == (clock + Len(sent)) * bps >= 1000 * Sum(sent)

Paced == stage \in {"deliver", "done"} => \A i \in DOMAIN resp.rates : PacedAt(resp.rates[i])

\* The client reads to the end what the upstream sent to the end.
WholeBody == stage = "done" => sent = Coming

\* Who answers, and who is asked, is as the rules say.
RulesDecide == AnsweredByFirst /\ AskedWhereTold

\* Delays and throttling take their time, and cost no byte.
DeliveredInTime == WaitsAsConfigured /\ Paced /\ WholeBody

=============================================================================
