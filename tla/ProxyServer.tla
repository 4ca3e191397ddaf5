---------------------------- MODULE ProxyServer ----------------------------
(***************************************************************************)
(* Connections to the proxy: the accept loop of each address               *)
(* (proxy_server/mod.rs: bind_hyper), the routing of requests              *)
(* (gateway_service.rs), and what becomes of a CONNECT                     *)
(* (proxy_connect_request.rs, connect_upgraded.rs).                        *)
(*                                                                         *)
(* The accept loop sets up one connection at a time and reads the setting  *)
(* for the upstream proxy for each. After a CONNECT the first four bytes   *)
(* of the client decide whether its connection is relayed, decrypted or    *)
(* served as websockets; they are then read again with the rest. Bytes are *)
(* numbered. TLS, HTTP and the handlers behind the routes are not          *)
(* modelled: a decrypted connection is one whose bytes go to the TLS       *)
(* layer.                                                                  *)
(***************************************************************************)
EXTENDS Integers, Sequences

CONSTANTS
  Addrs,          \* addresses the proxy listens on
  Conns,          \* connections clients make
  Hosts,          \* hosts of CONNECT requests
  Filters,        \* capture filters: [enabled, include, exclude], the last two sets of hosts
  ClientSettings, \* what settings/client_proxy.json may hold
  SystemProxy,    \* whether the system names a proxy
  Requests,       \* requests clients make
  Nobody,         \* no connection, no certificate
  Ttl,            \* validity of a certificate
  MaxBytes,       \* bound: bytes a client sends after a CONNECT
  MaxChanges,     \* bound: changes of the settings
  MaxTime         \* bound: on the clock

VARIABLES
  clientProxy, \* the upstream proxy setting and its version
  filter,      \* the capture filter
  changes,     \* changes of either so far
  acceptor,    \* the connection each accept loop is at, or why there is none
  conns,       \* the connections
  certs,       \* cached certificates of hosts: their end, and that of the cache entry
  time

vars == <<clientProxy, filter, changes, acceptor, conns, certs, time>>

SniffLength == 4
CacheTtl == Ttl \div 2

\* "speaks" is how the client begins after a CONNECT; "eof" that it has closed its half.
Unused ==
  [phase |-> "closed", since |-> 0, via |-> Nobody,
   request |-> Nobody, host |-> Nobody, speaks |-> "other", sent |-> 0, eof |-> FALSE,
   taken |-> 0, pre |-> << >>, relayed |-> << >>, cert |-> Nobody]
Panicked == [Unused EXCEPT !.phase = "panicked"]

Init ==
  /\ clientProxy \in {[setting |-> s, version |-> 0] : s \in ClientSettings}
  /\ filter \in Filters
  /\ changes = 0
  /\ acceptor = [a \in Addrs |-> "waiting"]
  /\ conns = [c \in Conns |-> Unused]
  /\ certs = [h \in Hosts |-> Nobody]
  /\ time = 0

settings == <<clientProxy, filter, changes>>

\* The user edits one or the other.
ChangeSettings ==
  /\ changes < MaxChanges
  /\ changes' = changes + 1
  /\ \/ \E s \in ClientSettings \ {clientProxy.setting} :
          clientProxy' = [setting |-> s, version |-> clientProxy.version + 1] /\ UNCHANGED filter
     \/ \E f \in Filters \ {filter} : filter' = f /\ UNCHANGED clientProxy
  /\ UNCHANGED <<acceptor, conns, certs, time>>

Tick == time < MaxTime /\ time' = time + 1 /\ UNCHANGED <<settings, acceptor, conns, certs>>

-----------------------------------------------------------------------------
(***************************************************************************)
(* The accept loop.                                                        *)
(***************************************************************************)
Accept(a) ==
  /\ acceptor[a] = "waiting"
  /\ \E c \in Conns :
       /\ conns[c].phase = "closed"
       /\ acceptor' = [acceptor EXCEPT ![a] = c]
       /\ conns' = [conns EXCEPT ![c] = [Unused EXCEPT !.phase = "accepted", !.since = clientProxy.version]]
  /\ UNCHANGED <<settings, certs, time>>

\* .expect("accept failed")
AcceptFails(a) ==
  /\ acceptor[a] = "waiting"
  /\ acceptor' = [acceptor EXCEPT ![a] = "panicked"]
  /\ UNCHANGED <<settings, conns, certs, time>>

\* What cannot be read is the default, and an unknown type is none.
FromProxyConfig(setting) ==
  CASE setting = "system" -> "System" [] setting \in {"custom", "badUrl"} -> "Custom" [] OTHER -> "None"

\* HttpClientBuilder::build: how requests leave.
Build(setting) ==
  CASE FromProxyConfig(setting) = "System" /\ SystemProxy -> "proxy"
    [] FromProxyConfig(setting) = "Custom" -> IF setting = "badUrl" THEN "error" ELSE "proxy"
    [] OTHER -> "direct"

BuildClient(a) ==
  /\ acceptor[a] \in Conns
  /\ LET c   == acceptor[a]
         via == Build(clientProxy.setting)
     IN  IF via = "error" \* .expect("build request client error")
         THEN /\ acceptor' = [acceptor EXCEPT ![a] = "panicked"]
              /\ conns' = [conns EXCEPT ![c] = Unused]
         ELSE /\ acceptor' = [acceptor EXCEPT ![a] = "waiting"]
              /\ conns' = [conns EXCEPT ![c] = [@ EXCEPT !.phase = "open",
                                                  !.via = [route |-> via, version |-> clientProxy.version]]]
  /\ UNCHANGED <<settings, certs, time>>

-----------------------------------------------------------------------------
(***************************************************************************)
(* Requests. On the connection itself all routes are open; inside a        *)
(* decrypted one all but the first two; where a client began with GET      *)
(* after its CONNECT, only websockets are served.                          *)
(***************************************************************************)
Serving == {"open", "decrypted", "websockets"}

Route(r, at) ==
  CASE at = "open" /\ r.own -> "selfService"
    [] at = "open" /\ r.method = "CONNECT" -> "connect"
    [] r.upgrade = "websocket" \/ at = "websockets" -> "websocket"
    [] r.upgrade = "none" -> "http"
    [] OTHER -> "tunnel"

Ask(c) ==
  /\ conns[c].phase \in Serving /\ conns[c].request = Nobody
  /\ \E r \in Requests :
       conns' = [conns EXCEPT ![c].request = [asked |-> r, route |-> Route(r, conns[c].phase)]]
  /\ UNCHANGED <<settings, acceptor, certs, time>>

Routed(c, route) == conns[c].request # Nobody /\ conns[c].request.route = route

\* The router of the UI, and ErrorHandlerLayer, answer whatever comes.
ServeSelf(c) ==
  /\ Routed(c, "selfService")
  /\ conns' = [conns EXCEPT ![c].request = Nobody]
  /\ UNCHANGED <<settings, acceptor, certs, time>>

UpstreamAnswers(c) ==
  /\ Routed(c, "http")
  /\ conns' = [conns EXCEPT ![c].request = Nobody]
  /\ UNCHANGED <<settings, acceptor, certs, time>>

\* HttpClient::request gives up after headers_timeout; the client is told.
HeadersTimeout(c) ==
  /\ Routed(c, "http")
  /\ conns' = [conns EXCEPT ![c].request = Nobody]
  /\ UNCHANGED <<settings, acceptor, certs, time>>

\* proxy_ws_inner: its assertion, then the relay until both ends are done.
ServeWebSocket(c) ==
  /\ Routed(c, "websocket")
  /\ conns' = [conns EXCEPT ![c] = IF @.request.asked.upgrade = "websocket" THEN Unused ELSE Panicked]
  /\ UNCHANGED <<settings, acceptor, certs, time>>

\* proxy_tunnel_proxy: its assertion.
ServeTunnel(c) ==
  /\ Routed(c, "tunnel")
  /\ conns' = [conns EXCEPT ![c] = IF @.request.asked.method = "CONNECT"
                                   THEN [@ EXCEPT !.request = Nobody, !.phase = "dialling"] ELSE Panicked]
  /\ UNCHANGED <<settings, acceptor, certs, time>>

\* proxy_connect_request answers at once; the rest happens in a task of its own.
ServeConnect(c) ==
  /\ Routed(c, "connect")
  /\ \E h \in Hosts, s \in {"tls", "get", "other"} :
       conns' = [conns EXCEPT ![c] = [@ EXCEPT !.request = Nobody, !.phase = "upgraded", !.host = h, !.speaks = s]]
  /\ UNCHANGED <<settings, acceptor, certs, time>>

-----------------------------------------------------------------------------
(***************************************************************************)
(* After a CONNECT.                                                        *)
(***************************************************************************)
Upgraded == {"upgraded", "deciding", "handshake", "dialling", "tunnel", "decrypted", "websockets"}

ClientSends(c) ==
  /\ conns[c].phase \in Upgraded \ {"decrypted", "websockets"}
  /\ ~conns[c].eof
  /\ \/ conns[c].sent < MaxBytes /\ conns' = [conns EXCEPT ![c].sent = @ + 1]
     \/ conns' = [conns EXCEPT ![c].eof = TRUE]
  /\ UNCHANGED <<settings, acceptor, certs, time>>

\* ConnectUpgraded::new. When the client closes before its fourth byte, those it sent
\* are looked at but not kept.
Sniff(c) ==
  /\ conns[c].phase = "upgraded"
  /\ LET n == IF conns[c].sent < SniffLength THEN conns[c].sent ELSE SniffLength IN
       /\ n = SniffLength \/ conns[c].eof
       /\ conns' = [conns EXCEPT ![c] = [@ EXCEPT
            !.taken = n,
            !.pre = IF n = SniffLength THEN [i \in 1 .. n |-> i] ELSE << >>,
            !.phase = CASE conns[c].speaks = "get" /\ n = SniffLength -> "websockets"
                        [] conns[c].speaks = "tls" /\ n >= 2 -> "deciding"
                        [] OTHER -> "dialling"]]
  /\ UNCHANGED <<settings, acceptor, certs, time>>

\* should_capture_https
ShouldCapture(f, h) ==
  /\ f.enabled
  /\ IF f.include # {} THEN h \in f.include ELSE h \notin f.exclude

Decide(c) ==
  /\ conns[c].phase = "deciding"
  /\ conns' = [conns EXCEPT ![c].phase = IF ShouldCapture(filter, conns[c].host) THEN "handshake" ELSE "dialling"]
  /\ UNCHANGED <<settings, acceptor, certs, time>>

\* gen_cert_by_ca. Its NOT_BEFORE_OFFSET is far below a unit of this clock.
Generated == [until |-> time + Ttl, cachedUntil |-> time + CacheTtl]

\* ServerCaManager::get_server_config, then the TLS handshake.
Cached(h) == certs[h] # Nobody /\ time < certs[h].cachedUntil
Certificate(h) == IF Cached(h) THEN certs[h] ELSE Generated

Handshake(c) ==
  /\ conns[c].phase = "handshake"
  /\ certs' = [certs EXCEPT ![conns[c].host] = Certificate(conns[c].host)]
  /\ conns' = [conns EXCEPT ![c] =
       IF @.pre = << >> THEN Unused
       ELSE [@ EXCEPT !.phase = "decrypted", !.cert = [until |-> certs'[conns[c].host].until, shown |-> time]]]
  /\ UNCHANGED <<settings, acceptor, time>>

\* tunnel_proxy_by_stream
Dial(c) ==
  /\ conns[c].phase = "dialling"
  /\ \E r \in {[conns[c] EXCEPT !.phase = "tunnel"], Unused} : conns' = [conns EXCEPT ![c] = r]
  /\ UNCHANGED <<settings, acceptor, certs, time>>

FromPrefix_dropsRest(r, size) ==
  LET n == IF Len(r.pre) < size THEN Len(r.pre) ELSE size
  IN  [r EXCEPT !.relayed = @ \o SubSeq(r.pre, 1, n), !.pre = << >>]

\* ConnectUpgraded::poll_read into a buffer of some size: first what was sniffed, as much
\* as fits, then what comes.
FromPrefix(r, size) ==
  LET n == IF Len(r.pre) < size THEN Len(r.pre) ELSE size
  IN  [r EXCEPT !.relayed = @ \o SubSeq(r.pre, 1, n), !.pre = SubSeq(@, n + 1, Len(@))]

FromClient_countsBuffer(r, size) ==
  LET n == IF r.sent - r.taken < size THEN r.sent - r.taken ELSE size
  IN  [r EXCEPT !.relayed = @ \o [i \in 1 .. n |-> r.taken + i], !.taken = @ + size]
FromClient(r, size) ==
  LET n == IF r.sent - r.taken < size THEN r.sent - r.taken ELSE size
  IN  [r EXCEPT !.relayed = @ \o [i \in 1 .. n |-> r.taken + i], !.taken = @ + n]

PollRead_withMore(c) ==
  /\ conns[c].phase \in {"tunnel", "decrypted", "websockets"}
  /\ conns[c].taken < conns[c].sent
  /\ \E size \in {1, 3} :
       conns' = [conns EXCEPT ![c] = IF @.pre # << >> THEN FromPrefix(@, size) ELSE FromClient(@, size)]
  /\ UNCHANGED <<settings, acceptor, certs, time>>
PollRead(c) ==
  /\ conns[c].phase \in {"tunnel", "decrypted", "websockets"}
  /\ conns[c].pre # << >> \/ conns[c].taken < conns[c].sent
  /\ \E size \in {1, 3} :
       conns' = [conns EXCEPT ![c] = IF @.pre # << >> THEN FromPrefix(@, size) ELSE FromClient(@, size)]
  /\ UNCHANGED <<settings, acceptor, certs, time>>

\* Either end is done with the connection.
Hangup(c) ==
  /\ conns[c].phase \in {"open", "tunnel", "decrypted", "websockets"}
  /\ conns' = [conns EXCEPT ![c] = Unused]
  /\ UNCHANGED <<settings, acceptor, certs, time>>

Next ==
  \/ ChangeSettings \/ Tick
  \/ \E a \in Addrs : Accept(a) \/ AcceptFails(a) \/ BuildClient(a)
  \/ \E c \in Conns :
       \/ Ask(c) \/ ServeSelf(c) \/ UpstreamAnswers(c) \/ HeadersTimeout(c) \/ ServeWebSocket(c)
       \/ ServeTunnel(c) \/ ServeConnect(c) \/ ClientSends(c) \/ Sniff(c) \/ Decide(c)
       \/ Handshake(c) \/ Dial(c) \/ PollRead(c) \/ Hangup(c)

Spec == Init /\ [][Next]_vars

\* The tasks of the proxy run and the timer fires; clients, upstream servers and users
\* need not.
ConnectionStep(c) ==
  \/ ServeSelf(c) \/ HeadersTimeout(c) \/ ServeTunnel(c) \/ ServeConnect(c)
  \/ Sniff(c) \/ Decide(c) \/ Handshake(c) \/ Dial(c) \/ PollRead(c)
Fairness == \A c \in Conns : WF_vars(ConnectionStep(c))
FairSpec == Spec /\ Fairness

-----------------------------------------------------------------------------
TypeOK ==
  /\ acceptor \in [Addrs -> Conns \cup {"waiting", "panicked"}]
  /\ \A c \in Conns :
       /\ conns[c].taken <= conns[c].sent /\ conns[c].sent <= MaxBytes
       /\ conns[c].phase \in Serving \cup Upgraded \cup {"accepted", "closed", "panicked"}

\* A connection forwards with the setting of a moment since it was accepted, never an
\* older one.
SettingIsCurrent ==
  \A c \in Conns : conns[c].via # Nobody => conns[c].via.version >= conns[c].since

\* What is relayed or decrypted is what the client sent, from its first byte, in order
\* and without gaps, however the sniffed bytes were cut; only a client that closes before
\* its fourth byte loses some.
TunnelKeepsBytes ==
  \A c \in Conns : (conns[c].taken >= SniffLength \/ ~conns[c].eof) =>
    conns[c].relayed \o conns[c].pre = [i \in 1 .. conns[c].taken |-> i] \/ conns[c].phase = "upgraded"

\* A cached certificate is still valid when it is shown.
CertificateValid ==
  \A c \in Conns : conns[c].cert # Nobody => conns[c].cert.shown < conns[c].cert.until

\* assert_eq!(req.method(), Method::CONNECT) in proxy_tunnel_proxy, and
\* assert!(is_upgrade_request(&req)) in proxy_ws_inner.
AssertionsHold == \A c \in Conns : conns[c].phase # "panicked"

\* What a client sends through a tunnel arrives, all of it, sniffed bytes first, though it
\* sends no more.
Behind(c) == conns[c].phase = "tunnel" /\ Len(conns[c].relayed) < conns[c].sent /\ conns[c].taken >= SniffLength
BytesArrive == \A c \in Conns : Behind(c) ~> ~Behind(c)

\* Connections keep their bytes and are served nothing stale.
ConnectionsKept == TunnelKeepsBytes /\ SettingIsCurrent /\ CertificateValid

=============================================================================
