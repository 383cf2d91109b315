------------------------ MODULE DifferenceObligations ------------------------
(***************************************************************************)
(* compile_obligations: one obligation for every difference that is not the *)
(* redundant summary of another.  is_redundant_summary_diff asks the whole  *)
(* list, never what is kept of it: a difference may be dropped for one that *)
(* is itself dropped.                                                       *)
(***************************************************************************)
EXTENDS AstDifferences

\* A text of one side of the inner difference stands in the same side of the outer.
Contained(inner, outer) ==
  \/ inner.std # {} /\ inner.std \subseteq outer.std
  \/ inner.stu # {} /\ inner.stu \subseteq outer.stu

HasType(diffs, types) == \E d \in diffs : d.type \in types
Comparing == {"comparison_operator_changed", "literal_changed"}
Gaps == {"predicate_missing", "predicate_added"}
AggregateTypes == {"aggregate_function_changed", "aggregate_argument_changed", "aggregate_distinct_changed"}
WindowTypes == {"window_over_changed", "window_function_changed"}
CaseParts == {"case_else_missing", "case_else_added", "case_when_missing", "case_when_added"}
OrderTypes == {"order_direction_changed", "order_by_tiebreaker_missing", "order_by_key_added", "order_nulls_changed"}
GroupTypes == {"group_by_expression_changed", "grouping_grain_too_fine", "grouping_grain_too_coarse"}
WhereTypes ==
  Comparing \cup Gaps \cup OrderTypes
  \cup {"logical_operator_changed", "null_equality_changed", "null_predicate_negation_changed", "regex_pattern_changed",
        "like_pattern_changed", "glob_pattern_changed", "in_predicate_negation_changed", "in_list_member_removed",
        "in_list_member_added", "correlated_predicate_changed", "aggregate_function_changed", "aggregate_argument_changed",
        "order_by_changed"}
RecursiveTypes ==
  Comparing \cup Gaps \cup AggregateTypes
  \cup {"logical_operator_changed", "null_equality_changed", "null_predicate_negation_changed", "set_operator_changed",
        "set_modifier_changed", "set_all_modifier_changed", "projection_changed"}
CteTypes ==
  Comparing \cup {"projection_changed", "distinct_changed", "logical_operator_changed", "where_changed", "group_by_changed",
                  "having_changed", "order_by_changed", "limit_changed", "aggregate_function_changed", "aggregate_argument_changed"}
FromTypes == {"join_missing", "join_type_changed", "join_on_changed", "correlated_predicate_changed",
              "subquery_added", "subquery_removed"} \cup WindowTypes

\* Mutant: a changed HAVING always counts as covered.
BugHavingCovered(d, all) == d.type = "having_changed"

\* _having_summary_is_covered: the comparisons or aggregates of a HAVING have
\* differences of their own.
HavingCovered(d, all) ==
  LET aggregates == {n \in d.std : FnOf(n) # "" /\ ~n.neg}
      compared == {e \in all : e.type \in Comparing /\ e.std \subseteq d.std /\ e.std # {}}
  IN /\ d.type = "having_changed" /\ d.std # {}
     /\ \/ \E e \in compared : e.clause = "HAVING"
        \/ aggregates # {}
           /\ \/ Cardinality({e \in compared : \E n \in e.std : FnOf(n) # ""}) >= Cardinality(aggregates)
              \/ \E e \in all : e.type \in AggregateTypes
                   /\ \E n \in d.std \cup d.stu : \E g \in e.std \cup e.stu : FnOf(n) = g.fn /\ n.col = g.col

\* The link of a correlated subquery written with another comparison than =.
IsLink(d) == \E n \in d.std \cup d.stu : ValueOf(n) \in OuterColumns
InCase(d, p, q) ==
  \E x \in {p, q} : \E t \in ToSet(AtomsOf(x, "root") \o AtomsOf(x, "sub")) :
    t.part = "case" /\ Bare(t.atom) \in d.std \cup d.stu

Redundant(d, all, p, q) ==
  LET others == all \ {d}
      contains(types) == \E e \in others : e.type \in types /\ Contained(e, d)
      containedIn(types) == \E e \in others : e.type \in types /\ Contained(d, e)
      correlated == {e \in all : e.type = "correlated_predicate_changed"}
  IN \/ d.type = "comparison_operator_changed" /\ contains({"null_equality_changed"})
     \/ d.type \in WindowTypes \cup AggregateTypes /\ d.std # {} /\ d.stu # {}
        /\ \E e \in others : e.type = d.type /\ e.std = d.std /\ e.stu = d.stu /\ e.depth > d.depth
     \/ d.type = "recursive_cte_changed" /\ contains(RecursiveTypes)
     \/ d.type \in Gaps
        /\ \/ \E e \in all : e.type = "having_changed" /\ (d.std \cup d.stu) \subseteq (e.std \cup e.stu) /\ HavingCovered(e, all)
           \/ InCase(d, p, q) /\ HasType(others, {"case_when_missing", "case_when_added"})
     \/ d.type = "where_changed" /\ HasType(others, WhereTypes)
     \/ d.type = "logical_operator_changed" /\ \E e \in all : e.type \in Gaps /\ e.depth = d.depth
     \/ HavingCovered(d, all)
     \/ d.type = "group_by_changed" /\ HasType(others, GroupTypes)
     \/ d.type = "projection_changed"
        /\ HasType(others, AggregateTypes \cup WindowTypes \cup {"function_argument_changed", "case_changed", "star_mismatch"})
     \/ d.type \in {"column_added", "column_dropped"} /\ HasType(all, {"projection_changed", "star_mismatch"})
     \/ d.type = "function_argument_changed"
        /\ \/ correlated # {} /\ d.col = "EXISTS"
           \/ HasType(all, CaseParts \cup {"case_changed"})
     \/ d.type \in {"subquery_added", "subquery_removed"}
        /\ (containedIn(Gaps \cup {"case_changed", "case_when_missing", "case_when_added"}) \/ \E e \in correlated : e.depth = 0)
     \/ d.type = "predicate_added" /\ correlated # {}
     \/ d.type = "comparison_left_column_changed" /\ correlated # {}
        /\ \E t \in ToSet(AtomsOf(p, "sub")) : Bare(t.atom) \in d.std
     \/ d.type = "join_on_changed" /\ HasType(all, {"join_type_changed"})
     \/ d.type = "correlated_predicate_changed"
        /\ IF d.depth > 0 THEN \E e \in others \cap correlated : e.depth = 0
           ELSE contains(WindowTypes) \/ (contains(Gaps) /\ ~\E e \in others : e.type \in Gaps /\ Contained(e, d) /\ IsLink(e))
     \/ d.type = "in_predicate_negation_changed" /\ \E e \in correlated : Contained(d, e)
     \/ d.type = "case_changed"
        /\ (HasType(all, CaseParts) \/ contains(Comparing \cup {"null_equality_changed", "null_predicate_negation_changed"}))
     \/ d.type = "from_source_changed" /\ HasType(others, FromTypes)
     \/ d.type = "join_key_column_changed" /\ HasType(others, {"join_on_changed"})
     \/ d.type \in {"set_modifier_changed", "set_all_modifier_changed"}
        /\ \E e \in all : e.type = "set_operator_changed" /\ e.col # ""
     \/ d.type = "set_operator_changed" /\ d.col = "" /\ \E e \in others : e.type = "set_operator_changed" /\ e.col # ""
     \/ d.type \in {"order_by_changed", "top_n_ordering_missing"} /\ HasType(others, OrderTypes)
     \/ d.type = "cte_changed" /\ \E e \in all : e.scope = "cte" /\ e.type \in CteTypes

Obliged(all, p, q) == {d \in all : ~Redundant(d, all, p, q)}
=============================================================================
