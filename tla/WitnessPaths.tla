----------------------------- MODULE WitnessPaths ---------------------------
(***************************************************************************)
(* From a difference to a served obligation: the constraint its template    *)
(* puts on the witness world, the rows the materialisers place, the         *)
(* execution of the two queries with the atomic replacement test, and the   *)
(* validation.  A world that does not serve gets more rows, as in feedback. *)
(***************************************************************************)
EXTENDS RelationPaths

CONSTANTS Obligations,   \* the differences, each with its queries and rows
          MaxRows        \* rows of a table

\* _constraint_templates.  o.context is what the template reads besides the
\* type: how the compared side is written.
ComparisonKind(o) ==
  CASE o.context = "scalar" -> "scalar_subquery_boundary_path"
    [] o.context = "filtered" -> "filtered_aggregate_boundary_path"
    [] o.context = "null_safe" /\ o.type = "comparison_operator_changed" -> "null_safe_comparison_paths"
    [] o.context = "aggregate" -> "aggregate_boundary_group"
    [] OTHER -> "boundary_tristate"

PredicateKind(o) ==
  CASE o.context = "like" -> "like_pattern_separation"
    [] o.context = "nested" -> "subquery_predicate_paths"
    [] o.context = "membership" /\ o.type # "where_changed" -> "subquery_membership_paths"
    [] OTHER -> IF o.type = "where_changed" THEN "observable_projection_discriminator" ELSE "predicate_positive_negative_paths"

JoinKind(o) ==
  CASE o.type = "join_predicate_placement_changed" -> "outer_join_predicate_placement_path"
    [] o.type \in {"join_missing", "join_type_changed"} -> "matched_and_dangling_join_rows"
    [] o.type = "join_on_changed" -> "standard_join_equal_student_join_unequal"

ListTypes == {"in_list_member_removed", "in_list_member_added"}
MembershipTypes ==
  {"correlated_predicate_changed", "subquery_membership_key_changed", "subquery_added", "subquery_removed",
   "null_sensitive_antijoin_equivalence", "in_exists_equivalence"}
MembershipKind(o) ==
  IF o.type \in MembershipTypes \/ (o.type = "in_predicate_negation_changed" /\ o.context = "membership")
  THEN "subquery_membership_paths" ELSE "in_list_membership_paths"

GroupTypes == {"group_by_changed", "group_by_expression_changed", "grouping_grain_too_fine", "grouping_grain_too_coarse"}
OrderTypes == {"order_by_changed", "order_direction_changed", "order_by_tiebreaker_missing", "order_by_key_added", "order_nulls_changed"}
CaseTypes == {"case_changed", "case_else_missing", "case_else_added", "case_when_missing", "case_when_added"}

Each(types, kind) == [t \in types |-> kind]
\* The kinds that follow from the type: paths across rows ...
RelationKinds ==
  Each(GroupTypes, "group_grain_split") @@ Each(OrderTypes, "order_key_separation")
  @@ Each({"having_changed", "aggregate_argument_changed"}, "aggregate_boundary_group")
  @@ Each({"set_operator_changed", "set_modifier_changed"}, "set_left_right_overlap")
  @@ Each({"window_over_changed", "window_function_changed"}, "window_partitions_and_ties")
  @@ Each({"boolean_projection_truth_test_changed"}, "projection_boolean_tristate_paths")
\* ... the shape of the result ...
ShapeKinds ==
  Each(CaseTypes, "case_unmatched_and_branch_rows")
  @@ Each({"projection_changed"}, "projection_value_paths") @@ Each({"star_mismatch"}, "projection_shape_paths")
  @@ Each({"limit_changed"}, "limit_row_count_paths") @@ Each({"cte_changed"}, "cte_base_paths")
  @@ Each({"recursive_cte_changed", "recursive_step_expression_changed"}, "cte_base_recursive_orphan_paths")
  @@ Each({"null_equality_changed"}, "null_and_non_null_rows") @@ Each({"null_predicate_negation_changed"}, "null_predicate_paths")
  @@ Each({"distinct_changed", "aggregate_distinct_changed"}, "duplicate_projected_tuple")
\* ... patterns, truth tables, aggregates.
ConditionKinds ==
  Each({"regex_pattern_changed", "like_pattern_changed", "glob_pattern_changed"}, "like_pattern_separation")
  @@ Each({"logical_operator_changed", "logical_precedence_tree_changed"}, "boolean_truth_table")
  @@ Each({"aggregate_function_changed"}, "aggregate_function_separation")
  @@ Each({"aggregate_filter_changed"}, "aggregate_filter_paths")
TypeKinds == RelationKinds @@ ShapeKinds @@ ConditionKinds

Kind(o) ==
  CASE o.type \in DOMAIN TypeKinds -> TypeKinds[o.type]
    [] o.type \in {"comparison_operator_changed", "literal_changed"} -> ComparisonKind(o)
    [] o.type \in {"where_changed", "predicate_missing", "predicate_added"} -> PredicateKind(o)
    [] o.type \in {"join_predicate_placement_changed", "join_missing", "join_type_changed", "join_on_changed"} -> JoinKind(o)
    [] OTHER -> MembershipKind(o)

\* validate_obligation
Served(o, w) ==
  CASE Kind(o) = "boundary_tristate" -> Boundary(o, w)
    [] Kind(o) = "null_safe_comparison_paths" -> NullSafeRows(o, w)
    [] Kind(o) = "like_pattern_separation" -> PatternSeparation(o, w)
    [] Kind(o) = "boolean_truth_table" -> TruthTable(o, w)
    [] Kind(o) = "set_left_right_overlap" -> SetPaths(o, w)
    [] Kind(o) = "case_unmatched_and_branch_rows" -> CaseBranches(o, w)
    [] Kind(o) = "subquery_membership_paths" -> MembershipRows(o, w)
    [] Kind(o) = "in_list_membership_paths" -> ListMembership(o, w)
    [] Kind(o) = "predicate_positive_negative_paths" -> PredicateRows(o, w)
    [] Kind(o) = "subquery_predicate_paths" -> SubqueryPair(o, w)
    [] Kind(o) = "aggregate_filter_paths" -> FilterRows(o, w)
    [] Kind(o) = "null_and_non_null_rows" -> NullAndOther(o, w)
    [] Kind(o) = "null_predicate_paths" -> NullTest(o, w)
    [] Kind(o) = "duplicate_projected_tuple" -> Duplicate(o, w)
    [] Kind(o) = "observable_projection_discriminator" -> Discriminator(o, w)
    [] Kind(o) = "projection_shape_paths" -> ProjectionShape(o, w)
    [] Kind(o) = "projection_value_paths" -> ProjectionValues(o, w)
    [] Kind(o) = "projection_boolean_tristate_paths" -> ProjectedTruth(o, w)
    [] Kind(o) = "limit_row_count_paths" -> LimitPaths(o, w)
    [] Kind(o) = "cte_base_paths" -> CteBase(o, w)
    [] Kind(o) = "cte_base_recursive_orphan_paths" -> Recursion(o, w)
    [] Kind(o) = "matched_and_dangling_join_rows" -> JoinPresence(o, w)
    [] Kind(o) = "standard_join_equal_student_join_unequal" -> JoinCondition(o, w)
    [] Kind(o) = "outer_join_predicate_placement_path" -> PlacementPath(o, w)
    [] Kind(o) = "group_grain_split" -> GroupGrain(o, w)
    [] Kind(o) = "aggregate_boundary_group" -> AggregateBoundary(o, w)
    [] Kind(o) = "filtered_aggregate_boundary_path" -> FilteredBoundary(o, w)
    [] Kind(o) = "aggregate_function_separation" -> FunctionSeparation(o, w)
    [] Kind(o) = "scalar_subquery_boundary_path" -> ScalarBoundary(o, w)
    [] Kind(o) = "window_partitions_and_ties" -> WindowPaths(o, w)
    [] Kind(o) = "order_key_separation" -> OrderRows(o, w)

----------------------------------------------------------------------------
VARIABLES
  ob,       \* the obligation
  placed,   \* per table, the rows placed: indices into ob.rows
  phase,    \* "rows", "executed", "served" or "open"
  at        \* the latest attempt

vars == <<ob, placed, phase, at>>

NoAttempt == [std |-> <<>>, stu |-> <<>>, differ |-> FALSE, test |-> [supported |-> FALSE, failed |-> FALSE, changed |-> FALSE]]
Db == [table \in {"t", "u"} |-> [i \in DOMAIN placed[table] |-> ob.rows[table][placed[table][i]]]]
World == [db |-> Db, at |-> at]

Init == ob \in Obligations /\ placed = [table \in {"t", "u"} |-> <<>>] /\ phase = "rows" /\ at = NoAttempt

\* The order of the rows matters to a query that sorts or limits them; the
\* others get them in the order of ob.rows.
Place ==
  /\ phase \in {"rows", "open"}
  /\ \E table \in {"t", "u"} : \E i \in DOMAIN ob.rows[table] :
       /\ Len(placed[table]) < MaxRows
       /\ ob.sorted \/ \A k \in DOMAIN placed[table] : placed[table][k] =< i
       /\ placed' = [placed EXCEPT ![table] = Append(@, i)]
  /\ phase' = "rows" /\ at' = NoAttempt
  /\ UNCHANGED ob

\* _validate_world_atomic_diffs: the replacement is executed, or it cannot be
\* (then it counts as a change if the two queries differ), or it cannot be
\* written.
Tested(o, outcome, std, student, mutant) ==
  LET differ == ~SameResult(o.std, std, student)
  IN [std |-> std, stu |-> student, differ |-> differ,
      test |-> [supported |-> outcome = "executed", failed |-> outcome = "failed" /\ differ,
                changed |-> \/ outcome = "executed" /\ ~SameResult(o.std, std, mutant)
                            \/ outcome = "failed" /\ differ]]

Execute ==
  /\ phase = "rows"
  /\ \E outcome \in {"executed", "failed", "unwritable"} :
       at' = Tested(ob, outcome, Result(ob.std, Db), Result(ob.student, Db), Result(ob.mutant, Db))
  /\ phase' = "executed"
  /\ UNCHANGED <<ob, placed>>

Validate ==
  /\ phase = "executed"
  /\ phase' = IF Served(ob, World) THEN "served" ELSE "open"
  /\ UNCHANGED <<ob, placed, at>>

Next == Place \/ Execute \/ Validate
Spec == Init /\ [][Next]_vars

----------------------------------------------------------------------------
Shown(o, db) == ~SameResult(o.std, Result(o.std, db), Result(o.mutant, db))

\* A served obligation of a family that promises it shows its difference:
\* the standard query and the same query with only this difference replaced
\* do not agree on the world.
PathsSeparate ==
  phase = "served" /\ ob.separates /\ ~at.test.failed => Shown(ob, Db)

\* Where the rows alone do not serve, the execution that does is one of this
\* very difference, not a result that another difference of the student's
\* changes.
FallbackShowsItsDifference ==
  LET unexecuted == [World EXCEPT !.at.test = NoAttempt.test, !.at.differ = FALSE]
  IN phase = "served" /\ ~at.test.failed /\ ~Served(ob, unexecuted) => Shown(ob, Db)

\* No validator asks for what no rows can give: an obligation is served by
\* the world that has every row.
FullWorldServes ==
  LET every(table) == ToSet(placed[table]) = DOMAIN ob.rows[table]
  IN phase = "open" /\ at.differ /\ (ob.complete \/ (at.test.supported /\ at.test.changed)) => ~(every("t") /\ every("u"))
=============================================================================
