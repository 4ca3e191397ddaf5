------------------------- MODULE MCMessageEventStore -------------------------
(***************************************************************************)
(* Instances of MessageEventStore for TLC.                                 *)
(***************************************************************************)
EXTENDS MessageEventStore, TLC

CONSTANTS h1, w1, c1, r1, r2

\* One exchange of each kind.
MixedIds == {h1, w1, c1}
MixedKind == h1 :> "http" @@ w1 :> "ws" @@ c1 :> "connect"

\* A plain request and a websocket.
PairIds == {h1, w1}
PairKind == h1 :> "http" @@ w1 :> "ws"
=============================================================================
