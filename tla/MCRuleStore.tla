----------------------------- MODULE MCRuleStore -----------------------------
(***************************************************************************)
(* Instances of RuleStore for TLC: a request or two, a UI connection, a    *)
(* command line process.                                                   *)
(***************************************************************************)
EXTENDS RuleStore, TLC

CONSTANTS r1, r2, ui, ui2, cli

\* A UI that creates, edits and deletes rules, and lynx rules pull, which writes one of
\* them. No rule that may come goes again: what that leads to is in ChurnOps.
EditOps ==
  ui :> ({"create"} \X {0, 1} \cup {"update"} \X {1} \cup {"delete"} \X {2})
  @@ cli :> ({"createWithId", "update"} \X {1})
\* A UI that creates and deletes rules.
ChurnOps == ui :> {"create", "delete"} \X {1, 2}
\* Two UIs that create rules.
TwoCreatesOps == ui :> {"create"} \X {1, 2} @@ ui2 :> {"create"} \X {1, 2}

\* Requests are alike.
RequestSymmetry == Permutations(Readers)
=============================================================================
