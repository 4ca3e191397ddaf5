----------------------------- MODULE MatchExpr -----------------------------
(***************************************************************************)
(* The match expressions of rules (crates/lynx-dsl): parsing, lowering to  *)
(* a program of predicates and a plan, and evaluation against the facts of *)
(* a request.                                                              *)
(*                                                                         *)
(* A source is a sequence of tokens: parentheses, keywords and primaries.  *)
(* A primary (a URL pattern with its flags) is the sequence of predicates  *)
(* it stands for; the facts of a request are the set of those that hold.   *)
(* Path globs and query parameters, the predicates that are more than an   *)
(* equality, are asked about on their own. Each has a reference definition *)
(* that does not follow the code.                                          *)
(***************************************************************************)
EXTENDS Integers, Sequences, SequencesExt, FiniteSets, FiniteSetsExt

CONSTANTS
  Primaries,  \* sequences of predicates
  Predicates,
  Depth,      \* of the expressions asked about
  Segments,   \* of paths
  MaxPath,    \* of paths and globs
  Keys, Vals  \* of query parameters

VARIABLES
  question, \* an expression and facts, a glob and a path, or parameters and a query
  verdict   \* whether it matches

vars == <<question, verdict>>

-----------------------------------------------------------------------------
(***************************************************************************)
(* Parsing (expr_parser.rs). The result is an or of ands of terms, or an   *)
(* error.                                                                  *)
(***************************************************************************)
T(t) == [t |-> t]
PrimaryToken(p) == [t |-> "primary", of |-> p]
Error == [kind |-> "error"]
Failed(r) == r.kind = "error"

\* The parentheses open before a token.
DepthAt(s, i) ==
  Cardinality({j \in 1 .. i - 1 : s[j].t = "("}) - Cardinality({j \in 1 .. i - 1 : s[j].t = ")"})

Balanced(s) ==
  /\ \A i \in DOMAIN s : s[i].t = ")" => DepthAt(s, i) > 0
  /\ DepthAt(s, Len(s) + 1) = 0

\* split_top_level: the non-empty parts between the keywords outside parentheses.
SplitTopLevel(s, op) ==
  LET cuts  == {0, Len(s) + 1} \cup {i \in DOMAIN s : s[i].t = op /\ DepthAt(s, i) = 0}
      order == SetToSortSeq(cuts, <)
      parts == [k \in 1 .. Len(order) - 1 |-> SubSeq(s, order[k] + 1, order[k + 1] - 1)]
  IN  SelectSeq(parts, LAMBDA p : p # << >>)

\* An error in any part is one of the whole.
AllOf(kind, rs) == IF rs = << >> \/ \E i \in DOMAIN rs : Failed(rs[i]) THEN Error ELSE [kind |-> kind, parts |-> rs]

RECURSIVE ParseOr(_)

\* parse_primary_fragment, parse_grouped_expression
ParsePrimary(s) ==
  IF s[1].t = "("
  THEN IF s[Len(s)].t # ")" \/ Len(s) < 3 THEN Error
       ELSE LET inner == ParseOr(SubSeq(s, 2, Len(s) - 1)) IN
              IF Failed(inner) THEN Error ELSE [kind |-> "group", of |-> inner]
  ELSE IF Len(s) = 1 /\ s[1].t = "primary" THEN [kind |-> "primary", of |-> s[1].of] ELSE Error

RECURSIVE ParseNot(_)
ParseNot(s) ==
  IF s = << >> THEN Error
  ELSE IF s[1].t = "NOT"
  THEN LET inner == ParseNot(Tail(s)) IN IF Failed(inner) THEN Error ELSE [kind |-> "not", of |-> inner]
  ELSE ParsePrimary(s)

ParseAnd(s) ==
  IF ~Balanced(s) THEN Error
  ELSE LET parts == SplitTopLevel(s, "AND") IN AllOf("and", [i \in DOMAIN parts |-> ParseNot(parts[i])])

ParseOr(s) ==
  IF ~Balanced(s) THEN Error
  ELSE LET parts == SplitTopLevel(s, "OR") IN AllOf("or", [i \in DOMAIN parts |-> ParseAnd(parts[i])])

-----------------------------------------------------------------------------
(***************************************************************************)
(* Lowering (compile.rs): the predicates go to a pool, the plan refers to  *)
(* them by index.                                                          *)
(***************************************************************************)
Lowered(pool, plan) == [pool |-> pool, plan |-> plan]

LowerPrimary_restarts(pool, ps) ==
  LET at == [i \in DOMAIN ps |-> [op |-> "pred", at |-> i]]
  IN  Lowered(pool \o ps, IF Len(ps) = 1 THEN at[1] ELSE [op |-> "all", plans |-> at])

\* lower_url, lower_cli, plan_all_indices
LowerPrimary(pool, ps) ==
  LET at == [i \in DOMAIN ps |-> [op |-> "pred", at |-> Len(pool) + i]]
  IN  Lowered(pool \o ps, IF Len(ps) = 1 THEN at[1] ELSE [op |-> "all", plans |-> at])

RECURSIVE Lower(_, _)

\* The parts of an and or an or, one after the other, with one pool.
LowerParts(pool, op, parts) ==
  IF Len(parts) = 1 THEN Lower(pool, parts[1])
  ELSE LET Step(l, e) == LET r == Lower(l.pool, e) IN [pool |-> r.pool, plans |-> Append(l.plans, r.plan)]
           l == FoldLeft(Step, [pool |-> pool, plans |-> << >>], parts)
       IN  Lowered(l.pool, [op |-> op, plans |-> l.plans])

Lower(pool, e) ==
  CASE e.kind = "primary" -> LowerPrimary(pool, e.of)
    [] e.kind = "group" -> Lower(pool, e.of)
    [] e.kind = "not" -> LET r == Lower(pool, e.of) IN Lowered(r.pool, [op |-> "not", of |-> r.plan])
    [] e.kind = "and" -> LowerParts(pool, "all", e.parts)
    [] e.kind = "or" -> LowerParts(pool, "any", e.parts)

\* eval_plan
RECURSIVE EvalPlan(_, _, _)
EvalPlan(plan, pool, facts) ==
  CASE plan.op = "pred" -> plan.at \in DOMAIN pool /\ pool[plan.at] \in facts
    [] plan.op = "all" -> \A i \in DOMAIN plan.plans : EvalPlan(plan.plans[i], pool, facts)
    [] plan.op = "any" -> \E i \in DOMAIN plan.plans : EvalPlan(plan.plans[i], pool, facts)
    [] plan.op = "not" -> ~EvalPlan(plan.of, pool, facts)

\* compile_match_expr and eval_program: "matches", "differs" or "error".
Verdict(b) == IF b THEN "matches" ELSE "differs"
MatchSource(s, facts) ==
  LET e == ParseOr(s) IN
    IF Failed(e) THEN "error" ELSE LET l == Lower(<< >>, e) IN Verdict(EvalPlan(l.plan, l.pool, facts))

-----------------------------------------------------------------------------
(***************************************************************************)
(* Formatting (format.rs) writes the parsed expression again.              *)
(***************************************************************************)
Joined(texts, op) ==
  FoldLeft(LAMBDA text, part : IF text = << >> THEN part ELSE text \o <<T(op)>> \o part, << >>, texts)

RECURSIVE Format(_)
Format(e) ==
  CASE e.kind = "primary" -> <<PrimaryToken(e.of)>>
    [] e.kind = "group" -> <<T("(")>> \o Format(e.of) \o <<T(")")>>
    [] e.kind = "not" -> <<T("NOT")>> \o Format(e.of)
    [] e.kind = "and" -> Joined([i \in DOMAIN e.parts |-> Format(e.parts[i])], "AND")
    [] e.kind = "or" -> Joined([i \in DOMAIN e.parts |-> Format(e.parts[i])], "OR")

-----------------------------------------------------------------------------
(***************************************************************************)
(* Paths and queries (eval.rs, query.rs).                                  *)
(***************************************************************************)
\* match_path_segments, from a position in the glob and one in the path.
RECURSIVE MatchSegments(_, _, _, _)
MatchSegments(glob, path, pi, ti) ==
  IF pi > Len(glob) THEN ti > Len(path)
  ELSE CASE glob[pi] = "**" -> pi = Len(glob) \/ \E next \in ti .. Len(path) + 1 : MatchSegments(glob, path, pi + 1, next)
         [] glob[pi] = "*" -> ti <= Len(path) /\ MatchSegments(glob, path, pi + 1, ti + 1)
         [] OTHER -> ti <= Len(path) /\ path[ti] = glob[pi] /\ MatchSegments(glob, path, pi + 1, ti + 1)

\* compile_path and match_path: without a wildcard, the path or a prefix of it.
MatchPath(glob, path) ==
  IF {"*", "**"} \cap Range(glob) = {} THEN IsPrefix(glob, path) ELSE MatchSegments(glob, path, 1, 1)

\* parse_query_pairs into a map, and query_params_subset_match: of a repeated key the
\* last counts.
LastValue(query, key) == query[Max({i \in DOMAIN query : query[i].key = key})].val
MatchQuery(expected, query) ==
  \A i \in DOMAIN expected :
    /\ \E j \in DOMAIN query : query[j].key = expected[i].key
    /\ LastValue(query, expected[i].key) = expected[i].val

-----------------------------------------------------------------------------
(***************************************************************************)
(* What they mean.                                                         *)
(***************************************************************************)
RECURSIVE Trees(_)
Trees(d) ==
  IF d = 0 THEN {[op |-> "primary", of |-> p] : p \in Primaries}
  ELSE LET ts == Trees(d - 1) IN
         ts \cup [op : {"NOT"}, of : ts] \cup [op : {"AND", "OR"}, left : ts, right : ts]

RECURSIVE Holds(_, _)
Holds(tree, facts) ==
  CASE tree.op = "primary" -> Range(tree.of) \subseteq facts
    [] tree.op = "NOT" -> ~Holds(tree.of, facts)
    [] tree.op = "AND" -> Holds(tree.left, facts) /\ Holds(tree.right, facts)
    [] tree.op = "OR" -> Holds(tree.left, facts) \/ Holds(tree.right, facts)

\* NOT binds tightest, OR loosest; parentheses only where they are needed.
Binding == [primary |-> 3, NOT |-> 2, AND |-> 1, OR |-> 0]
RECURSIVE Written(_)
WrittenIn(tree, binding) ==
  IF Binding[tree.op] >= binding THEN Written(tree) ELSE <<T("(")>> \o Written(tree) \o <<T(")")>>
Written(tree) ==
  CASE tree.op = "primary" -> <<PrimaryToken(tree.of)>>
    [] tree.op = "NOT" -> <<T("NOT")>> \o WrittenIn(tree.of, 2)
    [] OTHER -> WrittenIn(tree.left, Binding[tree.op]) \o <<T(tree.op)>> \o WrittenIn(tree.right, Binding[tree.op])

\* A path is in a glob's language when its segments can be dealt to the glob's in order,
\* one to each literal and star, any number to each double star.
Deals(glob, path) == {f \in [1 .. Len(path) -> 1 .. Len(glob)] : \A i \in 1 .. Len(path) - 1 : f[i] <= f[i + 1]}
InLanguage(glob, path) ==
  \E f \in Deals(glob, path) :
    \A g \in DOMAIN glob :
      LET dealt == {i \in DOMAIN path : f[i] = g} IN
        CASE glob[g] = "**" -> TRUE
          [] glob[g] = "*" -> Cardinality(dealt) = 1
          [] OTHER -> Cardinality(dealt) = 1 /\ \A i \in dealt : path[i] = glob[g]

\* A glob without wildcards stands for all that is below it.
PathMeant(glob, path) ==
  IF {"*", "**"} \cap Range(glob) = {} THEN InLanguage(glob \o <<"**">>, path) ELSE InLanguage(glob, path)

-----------------------------------------------------------------------------
Globs == UNION {[1 .. n -> Segments \cup {"*", "**"}] : n \in 1 .. MaxPath}
Paths == UNION {[1 .. n -> Segments] : n \in 0 .. MaxPath}
Queries == UNION {[1 .. n -> [key : Keys, val : Vals]] : n \in 0 .. 2}

Init ==
  /\ \/ question \in [about : {"expression"}, tree : Trees(Depth), facts : SUBSET Predicates]
     \/ question \in [about : {"path"}, glob : Globs, path : Paths]
     \/ question \in [about : {"query"}, expected : Queries \ {<< >>}, query : Queries]
  /\ verdict = "unknown"

Source == Written(question.tree)

MatchExpression ==
  /\ verdict = "unknown" /\ question.about = "expression"
  /\ verdict' = MatchSource(Source, question.facts)
  /\ UNCHANGED question

\* What the editor formats is saved and compiled instead.
MatchFormatted ==
  /\ verdict = "unknown" /\ question.about = "expression"
  /\ verdict' = MatchSource(Format(ParseOr(Source)), question.facts)
  /\ UNCHANGED question

MatchOther ==
  /\ verdict = "unknown" /\ question.about # "expression"
  /\ verdict' = Verdict(IF question.about = "path" THEN MatchPath(question.glob, question.path)
                        ELSE MatchQuery(question.expected, question.query))
  /\ UNCHANGED question

Next == MatchExpression \/ MatchFormatted \/ MatchOther
Spec == Init /\ [][Next]_vars

-----------------------------------------------------------------------------
Asked(about) == question.about = about /\ verdict # "unknown"

\* An expression matches when it holds under the usual precedence, whether it is compiled
\* as it was typed or as the editor formats it, and every expression compiles.
MatchesAsMeant == Asked("expression") => verdict = Verdict(Holds(question.tree, question.facts))

\* Formatting a formatted expression changes nothing more.
FormatIsStable ==
  Asked("expression") =>
    LET once == Format(ParseOr(Source)) IN Format(ParseOr(once)) = once

\* A glob matches the paths of its language.
GlobsAsMeant == Asked("path") => verdict = Verdict(PathMeant(question.glob, question.path))

\* "Subset match: every expected pair must appear in the actual query (extra params
\* allowed)." Where no key of the query is repeated, that is what is done.
Repeats(query) == \E i, j \in DOMAIN query : i # j /\ query[i].key = query[j].key
QueriesAsMeant ==
  Asked("query") /\ ~Repeats(question.query) =>
    verdict = Verdict(Range(question.expected) \subseteq Range(question.query))

\* What a user writes matches what it means: expressions, formatted ones, paths and queries.
AsMeant == MatchesAsMeant /\ FormatIsStable /\ GlobsAsMeant /\ QueriesAsMeant

=============================================================================
