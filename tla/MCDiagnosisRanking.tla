------------------------- MODULE MCDiagnosisRanking -------------------------
\* Evidence for TLC in three families: joins and aggregates, filters, and
\* ordering with pagination.  Every family takes any subset of its
\* differences, each with a weak, a pair-level or a proven grade.
EXTENDS DiagnosisRanking

Diff(id, kind, scope, std, stu, obligation) ==
  [id |-> id, kind |-> kind, scope |-> scope, std |-> std, stu |-> stu,
   obligation |-> obligation]

Grades == {"OUTPUT_ONLY", "PAIR_DISTINGUISHED", "CAUSAL_VERIFIED"}

Graded(d, grade) ==
  [id |-> d.id, kind |-> d.kind, scope |-> d.scope, std |-> d.std, stu |-> d.stu,
   obligation |-> d.obligation, grade |-> grade]

AnyOf(pool) ==
  UNION {{{Graded(d, g[d]) : d \in chosen} : g \in [chosen -> Grades]} : chosen \in SUBSET pool}

JoinPool == {Diff(1, "join_missing", "root", "b", "", TRUE),
             Diff(2, "join_type_changed", "root", "INNER", "CROSS", TRUE),
             Diff(3, "aggregate_distinct_changed", "root", "DISTINCT", "COUNT", TRUE),
             Diff(4, "window_changed", "root", "w1", "w2", TRUE),
             Diff(5, "join_type_changed", "cte", "LEFT", "INNER", TRUE)}

FilterPool == {Diff(1, "where_changed", "root", "c1", "", FALSE),
               Diff(2, "having_changed", "root", "", "c1", TRUE),
               Diff(3, "comparison_operator_changed", "cte", "GT", "GTE", TRUE),
               Diff(4, "where_changed", "cte", "GT", "GTE", FALSE),
               Diff(5, "aggregate_condition_in_where", "root", "h", "w", TRUE)}

ShapePool == {Diff(1, "order_by_changed", "root", "o", "", TRUE),
              Diff(2, "limit_changed", "root", "LIMIT", "LIMIT2", TRUE),
              Diff(3, "limit_changed", "root", "OFFSET", "", TRUE),
              Diff(4, "top_n_ordering_missing", "root", "o", "", TRUE),
              Diff(5, "limit_changed", "cte", "LIMIT", "LIMIT2", TRUE)}

Evidence(diffs, bridge, cartesian, duplicates, limit, order, placed, links) ==
  [diffs |-> diffs, bridge |-> bridge, cartesian |-> cartesian, duplicates |-> duplicates,
   joined |-> duplicates, declaredFanout |-> FALSE, limit |-> limit, order |-> order,
   aggregateInWhere |-> placed, links |-> links]

JoinEvidence ==
  {Evidence(d, b, c, n, FALSE, FALSE, FALSE, {}) :
     d \in AnyOf(JoinPool), b \in BOOLEAN, c \in BOOLEAN, n \in BOOLEAN}

\* Phase 1 emits no dependency today; the tests of the repository supply one.
Dependencies == {{}, {[from |-> 5, to |-> 1, type |-> "CAUSES"],
                      [from |-> 1, to |-> 2, type |-> "SUPPORTS"]}}

FilterEvidence ==
  {Evidence(d, FALSE, FALSE, FALSE, FALSE, FALSE, p, l) :
     d \in AnyOf(FilterPool), p \in BOOLEAN, l \in Dependencies}

\* The student's LIMIT stays in the text; an ORDER BY may stand in another
\* scope.  A lost root order is reported with a missing Top-N order when the
\* limits are equal, and with the changed limit when they are not.
Consistent(ids) == /\ 4 \in ids => 1 \in ids
                   /\ 1 \in ids => Cardinality({2, 4} \cap ids) = 1

ShapeEvidence ==
  {Evidence(d, FALSE, FALSE, FALSE, TRUE, o, FALSE, {}) :
     d \in {x \in AnyOf(ShapePool) : Consistent({y.id : y \in x})}, o \in BOOLEAN}

AllEvidence == JoinEvidence \cup FilterEvidence \cup ShapeEvidence

\* A common table expression is computed before the root; a signal without a
\* scope comes last.
TwoScopes == [s \in {"cte", "root", NoScope} |->
                IF s = "cte" THEN 0 ELSE IF s = "root" THEN 1 ELSE 2]
=============================================================================
