------------------------------ MODULE MCService ------------------------------
(***************************************************************************)
(* The service for TLC, and beside its components the match expressions,   *)
(* which have no state: about each of them one question is asked.          *)
(***************************************************************************)
EXTENDS Service

CONSTANTS a, b  \* actors

VARIABLES question, verdict

matchVars == <<question, verdict>>

MatchExpr == INSTANCE MatchExpr WITH
  Primaries <- {<<"p">>, <<"q">>, <<"q", "p">>}, Predicates <- {"p", "q"}, Depth <- 2,
  Segments <- {"x", "y"}, MaxPath <- 3, Keys <- {"k", "l"}, Vals <- {"1", "2"}

MCInit ==
  /\ Init
  /\ IF part = "match" THEN MatchExpr!Init ELSE question = Null /\ verdict = "unknown"

ServiceNext == Next /\ UNCHANGED matchVars
MatchNext == part = "match" /\ MatchExpr!Next /\ UNCHANGED vars
MCNext == ServiceNext \/ MatchNext

MCSpec == MCInit /\ [][MCNext]_<<vars, matchVars>>
MCFairSpec == MCSpec /\ Fairness

Symmetry == Permutations(Actors)

\* Match expressions, once one is asked about: an expression matches when it holds under the
\* usual precedence, typed or formatted; globs and query parameters match what they mean.
AsMeant == part = "match" => MatchExpr!AsMeant

=============================================================================
