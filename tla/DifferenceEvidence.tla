-------------------------- MODULE DifferenceEvidence --------------------------
(***************************************************************************)
(* One pair of queries from its differences to the repairs that count as     *)
(* proof: differences, obligations, the results on a world, the mutation     *)
(* tests on that world, the tests linked to differences, the grades.         *)
(* What a world shows is not computed: it shows some of the parts in which   *)
(* the student query differs, and a query agrees with the standard when it   *)
(* has the standard's own text in each of these parts.                       *)
(***************************************************************************)
EXTENDS DifferenceObligations, MutationTests

CONSTANTS
  Pairs,          \* pairs <<standard, student>>
  MaxFailures     \* bound: replacements of one run that fail to execute

VARIABLES
  pc,
  standard, student,
  diffs, owned,       \* the differences, and those with an obligation
  seen,               \* the differing parts the world shows
  original,           \* _MUTATION_ORIGINAL_EQUIVALENT while the tests run
  pending,            \* the mutation tests still to run
  ran,                \* the tests run, with what their replacement did
  links               \* for each of them the differences it is linked to

vars == <<pc, standard, student, diffs, owned, seen, original, pending, ran, links>>


Init ==
  /\ pc = "extract"
  /\ \E pair \in Pairs : standard = pair[1] /\ student = pair[2]
  /\ diffs = {} /\ owned = {} /\ seen = {} /\ original = FALSE
  /\ pending = <<>> /\ ran = <<>> /\ links = <<>>

ExtractDiffs ==
  /\ pc = "extract"
  /\ diffs' = AstDiffs(standard, student)
  /\ pc' = "compile"
  /\ UNCHANGED <<standard, student, owned, seen, original, pending, ran, links>>

CompileObligations ==
  /\ pc = "compile"
  /\ owned' = Obliged(diffs, standard, student)
  /\ pc' = "compare"
  /\ UNCHANGED <<standard, student, diffs, seen, original, pending, ran, links>>

Agrees(q) == seen \cap Differing(standard, q) = {}

\* Both queries run on the world, and its mutation tests start.
CompareOnWorld ==
  /\ pc = "compare"
  /\ \E s \in SUBSET Differing(standard, student) :
       /\ seen' = s
       /\ original' = (s = {})
  /\ pending' = Tests(standard, student)
  /\ pc' = "mutate"
  /\ UNCHANGED <<standard, student, diffs, owned, ran, links>>

Failures == Cardinality({i \in DOMAIN ran : ~ran[i].ok})
Record(test, ok) ==
  [test |-> test, ok |-> ok,
   fixed |-> ok /\ Agrees(test.mutant) /\ (~original \/ test.latent),
   kept |-> test.removal # NoQuery /\ Agrees(test.removal)]

\* A replacement runs, or it fails and the removal is tried all the same.
RunTest ==
  /\ pc = "mutate" /\ pending # <<>>
  /\ \E ok \in BOOLEAN :
       /\ ok \/ Failures < MaxFailures
       /\ ran' = Append(ran, Record(Head(pending), ok))
  /\ pending' = Tail(pending)
  /\ UNCHANGED <<pc, standard, student, diffs, owned, seen, original, links>>

\* An execution that timed out says nothing of the student: no test of this
\* run is kept.
AbortTests ==
  /\ pc = "mutate" /\ pending # <<>> /\ Failures < MaxFailures
  /\ pc' = "aborted"
  /\ original' = FALSE
  /\ pending' = <<>> /\ ran' = <<>>
  /\ UNCHANGED <<standard, student, diffs, owned, seen, links>>

FinishTests ==
  /\ pc = "mutate" /\ pending = <<>>
  /\ pc' = "link"
  /\ original' = FALSE
  /\ UNCHANGED <<standard, student, diffs, owned, seen, pending, ran, links>>

----------------------------------------------------------------------------
\* _mutation_clause_matches_diff: prefixes in both directions, and aliases.
PredicateClauses == {"WHERE", "HAVING", "PREDICATE"}
SetOperators == {"UNION", "INTERSECT", "EXCEPT"}
ClausePrefixes ==
  {<<"JOIN", "JOIN ON">>, <<"JOIN", "JOIN_TYPE">>, <<"JOIN", "JOIN TYPE">>, <<"JOIN", "JOIN STRUCTURE">>,
   <<"JOIN", "JOIN ON + WHERE">>, <<"JOIN ON", "JOIN ON + WHERE">>, <<"CTE", "CTE_RECURSIVE">>, <<"IN", "INTERSECT">>}
Aliases(clause) ==
  CASE clause \in {"PREDICATE", "LOGICAL"} -> {"WHERE", "HAVING", "JOIN ON"}
    [] clause = "IN" -> PredicateClauses
    [] clause = "SELECT" -> {"AGGREGATE", "WINDOW", "CASE"}
    [] clause = "JOIN_TYPE" -> {"JOIN TYPE", "JOIN"}
    [] clause = "AGGREGATE" -> {"SELECT", "HAVING"}
    [] clause = "CTE_RECURSIVE" -> {"CTE", "RECURSIVE CTE"}
    [] clause \in SetOperators -> SetOperators
    [] OTHER -> {}
\* Mutant: the aliases of a clause are forgotten.
BugClauseMatches(clause, d) ==
  d.clause = clause \/ <<clause, d.clause>> \in ClausePrefixes \/ <<d.clause, clause>> \in ClausePrefixes

ClauseMatches(clause, d) ==
  \/ d.clause = clause
  \/ <<clause, d.clause>> \in ClausePrefixes \/ <<d.clause, clause>> \in ClausePrefixes
  \/ clause \in Aliases(d.clause)

\* _link_mutation_diff_ids: a focused difference of the right kind is preferred
\* when it is the only one; then the knowledge point; then the clause alone.
Linked(test, focus) ==
  LET ofType(types) == {d \in focus : d.type \in types}
      byClause == {d \in focus : ClauseMatches(test.clause, d)}
      byKp == {d \in byClause : d.kp = test.kp}
      correlated == ofType({"correlated_predicate_changed"})
      setOps == ofType({"set_operator_changed"})
      nulls == ofType({"null_equality_changed", "null_predicate_negation_changed"})
      gaps == byClause \cap ofType(Gaps)
      whole == test.action = Replace
  IN IF /\ test.kp = "subquery-correlated" /\ Cardinality(correlated) = 1
        /\ test.action \in {"restore_correlated_comparison", "restore_correlated_predicate"} THEN correlated
     ELSE IF test.kp = "cte-recursive" /\ test.clause = "RECURSIVE CTE" /\ Cardinality(setOps) = 1 /\ whole THEN setOps
     ELSE IF test.clause = "WHERE" /\ Cardinality(gaps) = 1 /\ whole THEN gaps
     ELSE IF /\ test.kp \in {"null-handling", "comp-null"} \/ (test.kp = "case" /\ test.clause = "CASE")
             /\ Cardinality(nulls) = 1 /\ whole THEN nulls
     ELSE IF Cardinality(byKp) = 1 THEN byKp ELSE byClause

LinkTests ==
  /\ pc = "link"
  /\ links' = [i \in DOMAIN ran |-> Linked(ran[i].test, owned)]
  /\ pc' = "linked"
  /\ UNCHANGED <<standard, student, diffs, owned, seen, original, pending, ran>>

Next == ExtractDiffs \/ CompileObligations \/ CompareOnWorld \/ RunTest \/ AbortTests \/ FinishTests \/ LinkTests
Spec == Init /\ [][Next]_vars

----------------------------------------------------------------------------
\* is_atomic_repair: the replacement alone made the results agree, it is linked
\* to this difference only, and it changed nothing beside its clause.
Repairs(d) == {i \in DOMAIN links : ran[i].fixed /\ links[i] = {d} /\ ~ran[i].test.bundle}
RepairVerified == {d \in owned : pc = "linked" /\ Repairs(d) # {}}

\* The parts of the queries a difference may stand for.
PartsOf(d) ==
  CASE d.clause \in {"SELECT", "WINDOW", "CASE"} -> {"items"}
    [] d.clause \in {"PREDICATE", "NULL", "LOGICAL", "IN", "FUNCTION", "AGGREGATE", "WHERE", "HAVING"} ->
         {"items", "where", "having"}
    [] d.clause = "GROUP BY" -> {"group"}
    [] d.clause = "ORDER BY" -> {"order"}
    [] d.clause = "LIMIT" -> {"limit", "offset"}
    [] d.clause = "DISTINCT" -> {"distinct"}
    [] d.clause \in {"JOIN", "JOIN_TYPE", "JOIN ON"} -> {"joins", "where"}
    [] d.clause = "FROM" -> {"from", "joins"}
    [] OTHER -> Parts \cup {"block"}
ScopesOf(d) ==
  CASE d.depth > 0 -> {"sub", "root"}
    [] d.clause \in {"CTE", "CTE_RECURSIVE"} \/ d.scope = "cte" -> {"cte"}
    [] d.clause \in {"IN", "NULL", "CORRELATED SUBQUERY", "AGGREGATE", "WHERE", "FUNCTION"} \/ d.type = "comparison_left_column_changed" ->
         {"root", "cte", "sub"}
    [] OTHER -> {"root", "cte"}
AspectsOf(d) ==
  IF d.clause \in SetOperators THEN {<<"query", "set">>}
  ELSE ScopesOf(d) \X PartsOf(d)
       \cup (IF d.clause \in {"WHERE", "FUNCTION"} THEN {"sub"} \X Parts ELSE {})
       \cup (IF d.clause = "CTE_RECURSIVE" THEN {<<"query", "recursive">>} ELSE {})

Compiled == pc \notin {"extract", "compile"}
Changes == Differing(standard, student)
OutsideSubquery == {aspect[1] : aspect \in Changes} \in {{"root"}, {"cte"}}

\* A pair whose one change is no difference: the same conjuncts in another order.
Reordered ==
  \E scope \in {"root", "cte"} :
    /\ Changes = {<<scope, "where">>}
    /\ LET c == BlockAt(standard, scope).where
           d == BlockAt(student, scope).where
       IN Len(c.atoms) = Len(d.atoms) /\ ToSet(c.atoms) = ToSet(d.atoms) /\ "OR" \notin ToSet(c.ops \o d.ops)
\* Two changes that are left without an obligation: a predicate added beside an
\* unchanged correlated subquery, and another aggregate of a column that HAVING
\* aggregates too.
AddedBesideCorrelated ==
  Changes = {<<"root", "where">>} /\ Correlated(standard) /\ Len(student.root.where.atoms) > Len(standard.root.where.atoms)
HiddenByHaving ==
  /\ Changes = {<<"root", "items">>} /\ AggregateNamesOnly(standard.root, student.root)
  /\ \E a \in ToSet(standard.root.having.atoms) : \E it \in ToSet(OfKind(standard.root.items, "agg")) : a.fn # "" /\ a.col = it.col
Overlooked == Reordered \/ AddedBesideCorrelated \/ HiddenByHaving

\* A student query that differs from the standard in one part leaves an
\* obligation that is about this part: the rules that drop summaries of other
\* differences never drop them all.
OneChangeOwned ==
  Compiled /\ Cardinality(Changes) = 1 /\ ~Overlooked => \E d \in owned : AspectsOf(d) \cap Changes # {}

\* As long as all changes are in one query block that is no subquery, a repair
\* that counts as proof of a difference has restored a part this difference is
\* about, and the world shows this part; only a DISTINCT may be proven on a
\* world that shows nothing.
RepairProvesItsDifference ==
  OutsideSubquery => \A d \in RepairVerified : AspectsOf(d) \cap seen # {} \/ (seen = {} /\ d.clause = "DISTINCT")

\* Changes whose repair is linked to no difference, to several, or counts as a
\* bundle: FROM and OFFSET, a join that gains or loses its ON, a comparison of
\* another column, a predicate of a CASE.
Columns(c) == [i \in DOMAIN c.atoms |-> <<c.atoms[i].col, c.atoms[i].fn>>]
Whens(b) == CaseAtoms(b.items)
NoSingleRepair(aspect) ==
  LET b == BlockAt(standard, aspect[1])
      c == BlockAt(student, aspect[1])
  IN CASE aspect[2] \in {"from", "offset"} -> TRUE
       [] aspect[2] = "joins" -> PresenceChanged(b, c)
       [] aspect[2] = "where" -> Len(b.where.atoms) = Len(c.where.atoms) /\ Columns(b.where) # Columns(c.where)
       [] aspect[2] = "items" -> Len(Whens(b)) = Len(Whens(c)) /\ Whens(b) # Whens(c)
       [] OTHER -> FALSE

\* Any other single change, shown by the world, is proven by a repair when every
\* test executes.
RepairFound ==
  pc = "linked" /\ Cardinality(Changes) = 1 /\ Changes = seen /\ Failures = 0 /\ ~Overlooked
  /\ (\A aspect \in Changes : ~NoSingleRepair(aspect)) => RepairVerified # {}

=============================================================================
