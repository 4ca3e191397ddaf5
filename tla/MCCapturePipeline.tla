-------------------------- MODULE MCCapturePipeline --------------------------
(***************************************************************************)
(* Instances of CapturePipeline for TLC.                                   *)
(***************************************************************************)
EXTENDS CapturePipeline, TLC

CONSTANTS h1, w1, c1, r1

HttpAndWebSocket == {h1, w1}
UpgradesOnly == {w1, c1}
OneOfEach == {h1, w1, c1}

KindOf == h1 :> "http" @@ w1 :> "ws" @@ c1 :> "connect"

HttpAndWebSocketKind == [t \in HttpAndWebSocket |-> KindOf[t]]
UpgradesOnlyKind == [t \in UpgradesOnly |-> KindOf[t]]
OneOfEachKind == [t \in OneOfEach |-> KindOf[t]]
==============================================================================
