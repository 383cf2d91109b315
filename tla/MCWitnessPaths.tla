--------------------------- MODULE MCWitnessPaths ---------------------------
\* One or a few differences of every family.  separates: a world that serves
\* the obligation shows the difference; complete: a world with every row
\* serves it without a replacement test.
EXTENDS WitnessPaths

CONSTANT Families

Base ==
  [from |-> "t", side |-> "INNER", on |-> Lit(1), where |-> Lit(1), scalar |-> <<>>,
   member |-> [via |-> "", negated |-> FALSE, outer |-> "a", inner |-> "c"],
   items |-> <<Col("a"), Col("b")>>, distinct |-> FALSE, order |-> <<>>, limit |-> -1,
   group |-> <<>>, agg |-> [fn |-> "", col |-> "*", distinct |-> FALSE, filter |-> Lit(1)], having |-> <<>>,
   shown |-> 0, counts |-> TRUE,
   over |-> [fn |-> "", part |-> <<>>, order |-> <<>>, frame |-> ""], set |-> [op |-> "", all |-> FALSE]]

TRow(x, y) == [a |-> x, b |-> y]
URow(x, y) == [c |-> x, d |-> y]
Only(xs) == [i \in DOMAIN xs |-> TRow(xs[i], 1)]
Inner(xs) == [i \in DOMAIN xs |-> URow(xs[i], 1)]
Grid(xs, ys) == FlattenSeq([i \in DOMAIN xs |-> [j \in DOMAIN ys |-> TRow(xs[i], ys[j])]])
One == [t |-> Only(<<Null, 0, 1, 2>>), u |-> <<>>]
Twice == [t |-> Only(<<1, 1, 2>>), u |-> <<>>]
Two == [t |-> Grid(<<Null, 1, 2>>, <<1, 2>>), u |-> <<>>]
Square == [t |-> Grid(<<1, 2>>, <<1, 2>>), u |-> <<>>]
Sides == [t |-> Only(<<Null, 1, 2>>), u |-> Inner(<<Null, 1, 3>>)]

Diff(type, p, q, rows) ==
  [type |-> type, context |-> "", rel |-> "t", col |-> "a", value |-> 1,
   std |-> p, mutant |-> q, student |-> q, rows |-> rows, sorted |-> p.order # <<>>,
   separates |-> TRUE, complete |-> TRUE]
With(o, meta) == meta @@ o
\* The rows that are asked for do not always show this difference: each use
\* says why, and TLC refutes PathsSeparate for it without the mark.
Partial(o) == [o EXCEPT !.separates = FALSE]
\* No rows serve it: its relation is not a table, or its condition cannot be
\* read, or nothing but the execution tells.
Loose(o) == [o EXCEPT !.complete = FALSE]
\* The student also projects something else.
Beside(o) == [o EXCEPT !.student.items = <<Lit(7)>>]
\* ... and the relation of the difference has no rows of its own.
Derived(o) == Loose(Beside([o EXCEPT !.rel = "derived"]))

Where(p) == [Base EXCEPT !.where = p]
Cmp(op, c, v) == <<op, Col(c), Lit(v)>>
And(p, q) == <<"and", p, q>>
Or(p, q) == <<"or", p, q>>

Comparison(op, op2, v, v2) ==
  With(Diff("comparison_operator_changed", Where(Cmp(op, "a", v)), Where(Cmp(op2, "a", v2)), One), [computed |-> FALSE])
Boundaries ==
  {Comparison("GT", "GTE", 1, 1), Comparison("LTE", "LT", 1, 1), Beside(Comparison("GT", "GTE", 1, 1)),
   Derived(Comparison("GT", "GTE", 1, 1)),
   \* the value at the boundary is on the same side of both
   Partial([Comparison("GT", "GT", 1, 2) EXCEPT !.type = "literal_changed"]), Partial(Comparison("GT", "LT", 1, 1)),
   Loose([Comparison("GT", "LT", 1, 1) EXCEPT !.computed = TRUE, !.value = 9]),
   With([Diff("comparison_operator_changed", [Base EXCEPT !.scalar = <<"GT", "a", "MAX">>],
              [Base EXCEPT !.scalar = <<"GTE", "a", "MAX">>], Sides) EXCEPT !.context = "scalar"],
        [inner |-> "c", agg |-> [fn |-> "MAX"], computed |-> FALSE])}

NullSafe(op, op2, right) ==
  LET r == IF right = "" THEN Lit(1) ELSE Col(right) IN
  With([Diff("comparison_operator_changed", Where(<<op, Col("a"), r>>), Where(<<op2, Col("a"), r>>),
             IF right = "" THEN One ELSE [t |-> Grid(<<Null, 1>>, <<Null, 1, 2>>), u |-> <<>>]) EXCEPT !.context = "null_safe"],
       [stdOp |-> op, stuOp |-> op2, stdRight |-> right, stuRight |-> right])
Nulls ==
  {NullSafe("isnt", "NEQ", ""), NullSafe("is", "EQ", "b"), NullSafe("is", "NEQ", ""),
   Diff("null_equality_changed", Where(<<"is", Col("a"), Lit(Null)>>), Where(Cmp("EQ", "a", Null)), One),
   Diff("null_predicate_negation_changed", Where(<<"is", Col("a"), Lit(Null)>>), Where(<<"isnt", Col("a"), Lit(Null)>>), One),
   With(Diff("boolean_projection_truth_test_changed", [Base EXCEPT !.items = <<Cmp("GT", "a", 1)>>],
             [Base EXCEPT !.items = <<<<"istrue", Cmp("GT", "a", 1)>>>>], One), [p |-> Cmp("GT", "a", 1), stdIsTrue |-> FALSE])}

Logical(p, q, rows) == With(Diff("logical_operator_changed", Where(p), Where(q), rows), [p |-> p, q |-> q])
Opaque == <<"GT", <<"coalesce", Col("a"), Lit(0)>>, Lit(1)>>
Missing(p, q, known) ==
  With(Diff("predicate_missing", Where(IF known THEN And(p, q) ELSE q), Where(IF known THEN p ELSE Lit(1)), Two), [p |-> q, inContext |-> known])
Predicates ==
  {Logical(And(Cmp("EQ", "a", 1), Cmp("EQ", "b", 1)), Or(Cmp("EQ", "a", 1), Cmp("EQ", "b", 1)), Two),
   Logical(And(Opaque, Cmp("EQ", "b", 1)), Or(Opaque, Cmp("EQ", "b", 1)), Two),
   Beside(Logical(And(Opaque, Cmp("EQ", "b", 1)), Or(Opaque, Cmp("EQ", "b", 1)), Two)),
   Logical(Or(And(Cmp("EQ", "a", 1), Cmp("EQ", "b", 1)), Cmp("EQ", "a", 2)), And(Cmp("EQ", "a", 1), Or(Cmp("EQ", "b", 1), Cmp("EQ", "a", 2))), Two),
   Missing(Cmp("EQ", "a", 1), Cmp("EQ", "b", 1), TRUE), Missing(Cmp("EQ", "a", 1), Cmp("EQ", "b", 1), FALSE),
   Beside(Loose(With([Diff("predicate_missing", [Base EXCEPT !.member.via = "EXISTS"], Base, Sides) EXCEPT !.context = "nested"], [p |-> Lit(1)]))),
   \* two values of one column are asked for
   Partial([Diff("where_changed", Where(Cmp("GT", "a", 1)), Where(Cmp("GT", "b", 1)), Two) EXCEPT !.context = ""])}

List(type, xs, ys, negated) ==
  LET in(vs) == <<"in", Col("a")>> \o [i \in DOMAIN vs |-> Lit(vs[i])] IN
  With(Diff(type, Where(in(xs)), Where(IF negated THEN <<"not", in(ys)>> ELSE in(ys)), One),
       [listed |-> ToSet(xs), apart |-> IF negated THEN {} ELSE (ToSet(xs) \ ToSet(ys)) \cup (ToSet(ys) \ ToSet(xs)),
        pattern |-> ToSet(xs), studentPattern |-> ToSet(ys), negated |-> FALSE, studentNegated |-> negated])
Lists ==
  {List("in_list_member_removed", <<1, 2>>, <<1>>, FALSE), List("in_list_member_added", <<0>>, <<0, 2>>, FALSE),
   List("in_predicate_negation_changed", <<1>>, <<1>>, TRUE), List("like_pattern_changed", <<1, 2>>, <<2>>, FALSE),
   List("glob_pattern_changed", <<1>>, <<1, 2>>, TRUE)}

Membership(type, p, q, innerNull) ==
  With([Diff(type, [Base EXCEPT !.member = p], [Base EXCEPT !.member = q], Sides) EXCEPT !.context = "membership"],
       [outer |-> p.outer, inner |-> p.inner, stuOuter |-> q.outer, stuInner |-> q.inner, innerNull |-> innerNull, outerNull |-> FALSE])
M(via, negated) == [via |-> via, negated |-> negated, outer |-> "a", inner |-> "c"]
Memberships ==
  {\* an inner NULL makes NOT IN unknown for every outer value
   Partial(Membership("in_predicate_negation_changed", M("IN", FALSE), M("IN", TRUE), FALSE)),
   Membership("in_predicate_negation_changed", M("EXISTS", FALSE), M("EXISTS", TRUE), FALSE),
   \* ... and an outer NULL, or an overlap alone, is kept by neither
   Partial(Membership("null_sensitive_antijoin_equivalence", M("IN", TRUE), M("EXISTS", TRUE), TRUE)),
   [Membership("subquery_membership_key_changed", M("EXISTS", FALSE), [M("EXISTS", FALSE) EXCEPT !.inner = "d"], FALSE)
      EXCEPT !.rows = [t |-> Only(<<Null, 1, 2>>), u |-> <<URow(1, 3), URow(2, 1), URow(Null, 2)>>], !.complete = FALSE],
   \* the keys of the tables differ, not those of one row
   Partial(Loose([Membership("correlated_predicate_changed", M("EXISTS", FALSE), [M("EXISTS", FALSE) EXCEPT !.outer = "b"], FALSE)
      EXCEPT !.rows = [t |-> Grid(<<1, 2>>, <<1, 2>>), u |-> Inner(<<1, 2, 3>>)]]))}

CaseItem(ps, other) ==
  IF Len(ps) = 1 THEN <<"case", None, ps[1], Lit(1), other>>
  ELSE <<"case", None, ps[1], Lit(1), <<"case", None, ps[2], Lit(2), other>>>>
CaseDiff(type, ps, qs, other, other2, required) ==
  With(Diff(type, [Base EXCEPT !.items = <<CaseItem(ps, other)>>], [Base EXCEPT !.items = <<CaseItem(qs, other2)>>], One),
       [whens |-> ps, required |-> required, qualified |-> FALSE])
Cases ==
  {CaseDiff("case_when_missing", <<Cmp("EQ", "a", 1), Cmp("EQ", "a", 2)>>, <<Cmp("EQ", "a", 1)>>, Lit(0), Lit(0), {2}),
   \* an earlier branch takes every row that the missing one would
   Partial(CaseDiff("case_when_missing", <<Cmp("GTE", "a", 1), Cmp("EQ", "a", 2)>>, <<Cmp("GTE", "a", 1)>>, Lit(0), Lit(0), {2})),
   CaseDiff("case_else_missing", <<Cmp("EQ", "a", 1)>>, <<Cmp("EQ", "a", 1)>>, Lit(0), Lit(Null), {}),
   Loose(Beside(CaseDiff("case_changed", <<Opaque>>, <<Cmp("GT", "a", 0)>>, Lit(0), Lit(0), {}))),
   Derived(CaseDiff("case_else_missing", <<Cmp("EQ", "a", 1)>>, <<Cmp("EQ", "a", 1)>>, Lit(0), Lit(Null), {}))}

Join(side, on) == [Base EXCEPT !.from = "join", !.side = side, !.on = on, !.items = <<Col("a"), Col("b"), Col("c"), Col("d")>>]
Pair(l, r) == <<"t", l, "u", r>>
OnPairs(ps) == IF ps = {} THEN Lit(1) ELSE
  LET p == CHOOSE p \in ps : TRUE  q == CHOOSE q \in ps : ps = {p, q} IN
  And(<<"EQ", Col(p[2]), Col(p[4])>>, <<"EQ", Col(q[2]), Col(q[4])>>)
JoinRows == [t |-> Grid(<<Null, 1>>, <<1, 2>>), u |-> <<URow(1, 1), URow(1, 2), URow(Null, 1), URow(3, 1)>>]
OnDiff(ps, qs) ==
  With(Diff("join_on_changed", Join("INNER", OnPairs(ps)), Join("INNER", OnPairs(qs)), JoinRows), [pairs |-> ps, stuPairs |-> qs])
SideDiff(ps) ==
  With(Diff("join_type_changed", Join("INNER", OnPairs({Pair("a", "c")})), Join("LEFT", OnPairs({Pair("a", "c")})), Sides),
       [pairs |-> ps, stuPairs |-> {}])
Key1 == <<"EQ", Col("a"), Col("c")>>
Joins ==
  {OnDiff({Pair("a", "c")}, {Pair("b", "c")}), OnDiff({Pair("a", "c")}, {}), OnDiff({Pair("a", "c"), Pair("b", "d")}, {Pair("a", "c")}),
   \* what dangles may be on the right only
   Partial(SideDiff({Pair("a", "c")})), Loose(SideDiff({})), Loose(Beside(SideDiff({<<"t", "a", "derived", "c">>}))),
   Diff("join_predicate_placement_changed", Join("LEFT", And(Key1, Cmp("EQ", "d", 1))),
        [Join("LEFT", Key1) EXCEPT !.where = Cmp("EQ", "d", 1)], [JoinRows EXCEPT !.t = Only(<<Null, 1, 2>>)])}

Grouped(keys, fn, c) == [Base EXCEPT !.group = keys, !.agg.fn = fn, !.agg.col = c]
Having(q, op, v) == [q EXCEPT !.having = <<op, v>>, !.shown = Len(q.group), !.counts = FALSE]
Grain(type, keys, keys2) ==
  With(Diff(type, Grouped(keys, "COUNT", "*"), Grouped(keys2, "COUNT", "*"), Two), [group |-> keys, stuGroup |-> keys2])
Groupings ==
  {Grain("grouping_grain_too_fine", <<"a">>, <<"a", "b">>), Grain("grouping_grain_too_coarse", <<"a", "b">>, <<"b">>),
   \* the groups may be of the same sizes
   Partial(Grain("group_by_changed", <<"a">>, <<"b">>)), Derived(Grain("grouping_grain_too_fine", <<"a">>, <<"a", "b">>))}

Aggregated(o) == With(o, [group |-> o.std.group, agg |-> o.std.agg, stuAgg |-> o.mutant.agg])
Threshold(q, op, op2, v, rows) ==
  Aggregated([Diff("comparison_operator_changed", Having(q, op, v), Having(q, op2, v), rows) EXCEPT !.context = "aggregate", !.value = v])
Argument(q, r, rows) == Aggregated(Diff("aggregate_argument_changed", q, r, rows))
Totals(q, r) == Aggregated(Diff("aggregate_function_changed", q, r, Two))
Keyed(q) == [q EXCEPT !.shown = 1]
Distinct(q) == [q EXCEPT !.agg.distinct = TRUE]
FilterDiff(p, q) ==
  With(Diff("aggregate_filter_changed", [Grouped(<<>>, "COUNT", "*") EXCEPT !.agg.filter = p],
            [Grouped(<<>>, "COUNT", "*") EXCEPT !.agg.filter = q], Two), [p |-> p, q |-> q])
Counted1(p) == [Having(Grouped(<<"a">>, "COUNT", "*"), "GT", 1) EXCEPT !.where = p, !.counts = TRUE]
Aggregates ==
  {Loose(Threshold(Grouped(<<"a">>, "COUNT", "*"), "GT", "GTE", 2, Two)), Loose(Threshold(Grouped(<<"a">>, "SUM", "b"), "GT", "GTE", 2, Two)),
   Threshold(Grouped(<<"a">>, "MAX", "b"), "GTE", "GT", 2, Two), Loose(Threshold(Grouped(<<>>, "COUNT", "*"), "EQ", "GT", 0, One)),
   \* the sum of no value is read as 0
   Partial(Loose(Threshold(Grouped(<<>>, "SUM", "a"), "GTE", "GT", 0, One))),
   Loose(Threshold([Grouped(<<"a">>, "COUNT", "c") EXCEPT !.from = "join", !.on = Key1], "GT", "GTE", 1, Sides)),
   Derived(Threshold(Grouped(<<"a">>, "COUNT", "*"), "GT", "GTE", 1, Two)),
   Argument(Grouped(<<>>, "COUNT", "*"), Grouped(<<>>, "COUNT", "a"), One), Argument(Grouped(<<"b">>, "COUNT", "a"), Grouped(<<"b">>, "COUNT", "*"), Two),
   Loose(Argument(Distinct(Grouped(<<>>, "COUNT", "a")), Grouped(<<>>, "COUNT", "a"), One)),
   \* the duplicates may lie in different groups
   Partial(Argument(Distinct(Grouped(<<"a">>, "COUNT", "b")), Grouped(<<"a">>, "COUNT", "b"), Two)),
   Totals(Grouped(<<"a">>, "SUM", "b"), Grouped(<<"a">>, "MAX", "b")), Totals(Keyed(Grouped(<<"b">>, "COUNT", "a")), Keyed(Grouped(<<"b">>, "MIN", "a"))),
   \* without the key, the groups may trade their values
   Partial(Totals(Grouped(<<"b">>, "COUNT", "a"), Grouped(<<"b">>, "MIN", "a"))),
   Derived(Totals(Grouped(<<"a">>, "SUM", "b"), Grouped(<<"a">>, "MAX", "b"))),
   FilterDiff(Cmp("EQ", "a", 1), Lit(1)),
   \* as many rows may pass the one condition as the other
   Partial(FilterDiff(Cmp("EQ", "a", 1), Cmp("EQ", "b", 1))),
   Loose(With([Diff("comparison_operator_changed", Counted1(Cmp("GTE", "b", 1)), Counted1(Cmp("GT", "b", 1)), Two)
                 EXCEPT !.context = "filtered", !.col = "b"], [computed |-> FALSE]))}

Win(fn, part, order) == [Base EXCEPT !.over = [fn |-> fn, part |-> part, order |-> order, frame |-> ""], !.items = <<Col("a"), Col("b")>>]
OrderKey(c, desc) == [col |-> c, desc |-> desc, nulls |-> ~desc]
WindowDiff(q, r) == With(Diff("window_over_changed", q, r, Two), [over |-> q.over, stuOver |-> r.over, explicitNulls |-> FALSE])
Windows ==
  {Loose(WindowDiff(Win("ROW_NUMBER", <<"b">>, <<OrderKey("a", FALSE)>>), Win("ROW_NUMBER", <<"b">>, <<OrderKey("a", TRUE)>>))),
   Loose(WindowDiff(Win("RANK", <<>>, <<OrderKey("b", FALSE)>>), Win("ROW_NUMBER", <<>>, <<OrderKey("b", FALSE)>>))),
   \* the rows apart may have the same ranks
   Partial(WindowDiff(Win("RANK", <<"a">>, <<OrderKey("b", FALSE)>>), Win("RANK", <<>>, <<OrderKey("b", FALSE)>>))),
   Loose(With(WindowDiff(Win("RANK", <<>>, <<OrderKey("a", FALSE)>>), Win("RANK", <<>>, <<[OrderKey("a", FALSE) EXCEPT !.nulls = FALSE]>>)),
                [explicitNulls |-> TRUE]))}

Ordered(keys) == [Base EXCEPT !.order = keys]
OrderDiff(type, keys, keys2, rows) == With(Diff(type, Ordered(keys), Ordered(keys2), rows), [unbound |-> FALSE])
A(desc) == OrderKey("a", desc)
Bkey(desc) == OrderKey("b", desc)
NullsMoved(key) == [key EXCEPT !.nulls = ~@]
Holes == [t |-> <<TRow(1, Null), TRow(1, 1), TRow(2, Null), TRow(2, 2)>>, u |-> <<>>]
Orders ==
  {OrderDiff("order_direction_changed", <<A(FALSE), Bkey(FALSE)>>, <<A(FALSE), Bkey(TRUE)>>, Square),
   OrderDiff("order_nulls_changed", <<A(FALSE)>>, <<NullsMoved(A(FALSE))>>, One),
   \* the keys before are not looked at; the rows may lie in order already
   Partial(OrderDiff("order_nulls_changed", <<A(FALSE), Bkey(FALSE)>>, <<A(FALSE), NullsMoved(Bkey(FALSE))>>, Holes)),
   Partial(OrderDiff("order_by_tiebreaker_missing", <<A(FALSE), Bkey(FALSE)>>, <<A(FALSE)>>, Square)),
   Partial(OrderDiff("order_by_key_added", <<A(FALSE)>>, <<A(FALSE), Bkey(TRUE)>>, Square)),
   OrderDiff("order_by_changed", <<A(FALSE)>>, <<Bkey(FALSE)>>, Square),
   Loose(Beside(With(OrderDiff("order_direction_changed", <<A(FALSE)>>, <<A(TRUE)>>, One), [unbound |-> TRUE])))}

Set(op, all) == [Base EXCEPT !.set = [op |-> op, all |-> all]]
SetDiff(type, p, q, inCte) == With(Diff(type, p, q, Sides), [inCte |-> inCte])
Sets ==
  {SetDiff("set_modifier_changed", Set("UNION", FALSE), Set("UNION", TRUE), inCte) : inCte \in BOOLEAN}
  \cup {SetDiff("set_operator_changed", Set("INTERSECT", FALSE), Set("UNION", FALSE), inCte) : inCte \in BOOLEAN}
  \cup {SetDiff("set_operator_changed", Set("EXCEPT", FALSE), Set("INTERSECT", FALSE), inCte) : inCte \in BOOLEAN}
  \cup {SetDiff("set_operator_changed", Set("EXCEPT", FALSE), Set("UNION", FALSE), inCte) : inCte \in BOOLEAN}

Short == [Base EXCEPT !.items = <<Col("a")>>]
Projected(scope) == With(Diff("distinct_changed", [Short EXCEPT !.distinct = TRUE], Short, Twice), [scope |-> scope])
Limit(n, m) == [Diff("limit_changed", [Short EXCEPT !.limit = n], [Short EXCEPT !.limit = m], One) EXCEPT !.sorted = TRUE]
Shapes ==
  {Projected("root"), Projected("cte:w"), Beside(Projected("cte:w")),
   Diff("aggregate_distinct_changed", Distinct(Grouped(<<>>, "COUNT", "a")), Grouped(<<>>, "COUNT", "a"), Twice),
   \* duplicates of a NULL are no difference
   Partial(Diff("aggregate_distinct_changed", Distinct(Grouped(<<>>, "COUNT", "a")), Grouped(<<>>, "COUNT", "a"),
                [t |-> Only(<<Null, Null, 1>>), u |-> <<>>])),
   Diff("star_mismatch", Base, Short, One), Diff("projection_changed", Short, [Base EXCEPT !.items = <<Col("b")>>], One),
   Limit(1, 2), Partial(Beside(Limit(3, 4))),   \* any difference of the results will do
   Partial(Diff("cte_changed", Where(Cmp("GT", "a", 1)), Where(Cmp("GTE", "a", 1)), One)),   \* any base row
   Diff("recursive_cte_changed", Where(Cmp("GT", "a", 1)), Where(Cmp("GTE", "a", 1)),
        [t |-> <<TRow(1, Null), TRow(2, 1), TRow(3, 9)>>, u |-> <<>>]),
   \* two rows of the recursion will do
   Partial(Loose([Diff("recursive_cte_changed", Where(Cmp("GT", "a", 0)), Where(Cmp("GTE", "a", 0)), One) EXCEPT !.rel = "derived"]))}

Some == UNION Families
All == {Boundaries, Nulls, Predicates, Lists, Memberships, Cases, Joins, Groupings, Aggregates, Windows, Orders, Sets, Shapes}
=============================================================================
