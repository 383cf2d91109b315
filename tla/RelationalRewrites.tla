------------------------- MODULE RelationalRewrites -------------------------
(***************************************************************************)
(* The rewrites that _queries_are_supported_equivalent_rewrites recognises  *)
(* between forms of a query: joins, memberships, inlined tables, set        *)
(* branches, recursion, ordering.  A form is a record: its rule and what    *)
(* two queries of that kind may differ in, whether the recogniser looks at  *)
(* it or not.  XAccepted is what the recogniser answers, XRows the rows of  *)
(* the two queries on two tables r and s, both with columns k and v, and    *)
(* XUnseen the differences of an accepted form that it did not look at.     *)
(*                                                                         *)
(* The rows of a query are a function: from what identifies a row (its      *)
(* place in a table, the places of the rows it joins) to the row.  What a   *)
(* query shows is a bag of rows: how often each of them appears.            *)
(***************************************************************************)
EXTENDS SqlValues, FiniteSets, Sequences, Functions, Bags

Bag(rows) == [x \in Range(rows) |-> Cardinality({i \in DOMAIN rows : rows[i] = x})]
Shown(rows, distinct) == IF distinct THEN SetToBag(Range(rows)) ELSE Bag(rows)
Column(rows, c) == [i \in DOMAIN rows |-> rows[i][c]]
Same(x, y) == Compared("EQ", x, y) = 1

\* SQLite takes the least and the greatest value, and counts, without NULLs.
Bounds(agg, m, x) == IF agg = "MAX" THEN x =< m ELSE m =< x
Extreme(agg, xs) ==
  LET present == Range(xs) \ {Null}
  IN IF present = {} THEN Null
     ELSE CHOOSE m \in present : \A x \in present : Bounds(agg, m, x)
Aggregate(agg, xs) ==
  IF agg = "COUNT" THEN Cardinality({i \in DOMAIN xs : xs[i] # Null}) ELSE Extreme(agg, xs)

Filtered(rows, c, on) == Restrict(rows, {i \in DOMAIN rows : on => Same(rows[i][c], 1)})

\* The conditions of a join or of a correlated EXISTS.
On(on, x, y) ==
  CASE on = "keys" -> Same(x.k, y.k)
    [] on = "all" -> Same(x.k, y.k) /\ Same(x.v, y.v)
    [] on = "crossed" -> Same(x.v, y.k)
    [] on = "one side" -> Same(y.k, y.k)
    [] on = "shifted" -> y.k # Null /\ Same(x.k, y.k + 1)
Correlated(r, s, on) == Restrict(r, {i \in DOMAIN r : \E j \in DOMAIN s : On(on, r[i], s[j])})

\* LEFT JOIN: the rows without a match once, next to NULLs.
Absent == [k |-> Null, v |-> Null]
NoMatch == 0
Matches(r, s, on) == {m \in (DOMAIN r) \X (DOMAIN s) : On(on, r[m[1]], s[m[2]])}
Unmatched(r, s, on) == {i \in DOMAIN r : \A j \in DOMAIN s : ~On(on, r[i], s[j])}
Joined(r, s, on, side) ==
  [m \in Matches(r, s, on) \cup (IF side = "LEFT" THEN Unmatched(r, s, on) \X {NoMatch} ELSE {}) |->
     <<r[m[1]], IF m[2] = NoMatch THEN Absent ELSE s[m[2]]>>]

\* What the second of two joins shows and filters by.  The first one has r.v in
\* place of s.v, and as a filter r.v = 1 (of r) or s.v = 1.  f: inside a function.
SameItems == {"r.v", "r.k", "1"}
Items == {"r.v", "s.v", "f(s.v)"}
FirstItem(item) == IF item \in SameItems THEN item ELSE "r.v"
Item(pair, item) ==
  CASE item = "1" -> 1
    [] item = "r.k" -> pair[1].k
    [] item = "r.v" -> pair[1].v
    [] item \in {"s.v", "f(s.v)"} -> pair[2].v
Shows(pairs, item) == [m \in DOMAIN pairs |-> Item(pairs[m], item)]
Passes(pair, side) ==
  CASE side = "r" -> Same(pair[1].v, 1)
    [] side = "s" -> Same(pair[2].v, 1)
    [] side = "none" -> TRUE
Passing(pairs, side) == Restrict(pairs, {m \in DOMAIN pairs : Passes(pairs[m], side)})

\* What only the first query has: GROUP BY of all it shows, LIMIT 0, a further
\* condition 0 = 1, a further join with s, or rows in the second branch of a
\* UNION ALL, which is empty in the second query.
Clauses == {"none", "branch", "group", "limit", "join", "filter"}
Around(clause, rows, distinct, s) ==
  CASE clause = "none" -> Shown(rows, distinct)
    [] clause = "branch" -> Shown(rows, distinct) (+) Bag(Column(s, "k"))
    [] clause = "group" -> Shown(rows, TRUE)
    [] clause = "join" -> Shown([m \in (DOMAIN rows) \X (DOMAIN s) |-> rows[m[1]]], distinct)
    [] clause \in {"limit", "filter"} -> EmptyBag

When(condition, gap) == IF condition THEN {gap} ELSE {}
ClauseUnseen(p) == When(p.clause # "none", p.clause)

\* What ORDER BY c settles: the pairs of rows of which the first comes first.
\* NULL comes before every value.
Before(x, y) == IF Null \in {x, y} THEN y # Null ELSE x < y
OrderBy(rows, c) == {m \in (DOMAIN rows) \X (DOMAIN rows) : Before(rows[m[1]][c], rows[m[2]][c])}

----------------------------------------------------------------------------
\* USING (k) or NATURAL against ON.  The columns that USING or NATURAL joins are
\* not shown; every table name is taken off what is shown alone and off clauses.
UsingForms == [rule : {"using_on"}, side : {"INNER", "LEFT"}, names : {"USING", "NATURAL", "catalogued NATURAL"},
               on : {"keys", "all", "crossed"}, item : Items \cup SameItems, filtered : {"r", "s"},
               clause : Clauses]
EqualNames(on) == CASE on = "keys" -> {"k"} [] on = "all" -> {"k", "v"} [] on = "crossed" -> {}
Expected(p) ==
  CASE p.names = "USING" -> {"k"}
    [] p.names = "NATURAL" -> EqualNames(p.on)
    [] p.names = "catalogued NATURAL" -> {"k", "v"}
NameOf(item) == CASE item = "1" -> "none" [] item = "r.k" -> "k" [] OTHER -> "v"
UsingShape(p) ==
  /\ p.side = "INNER" /\ NameOf(p.item) \notin Expected(p) /\ p.item # "f(s.v)"
  /\ p.clause \in {"none", "branch"}
BugUsingAccepted(p) == UsingShape(p)   \* any ON condition
UsingAccepted(p) == UsingShape(p) /\ EqualNames(p.on) # {} /\ EqualNames(p.on) = Expected(p)
UsingRows(p, r, s) ==
  LET first == Joined(r, s, IF p.names = "USING" THEN "keys" ELSE "all", p.side)
      second == Joined(r, s, p.on, "INNER")
  IN <<Around(p.clause, Shows(Passing(first, "r"), FirstItem(p.item)), FALSE, s),
       Shown(Shows(Passing(second, p.filtered), p.item), FALSE)>>
UsingUnseen(p) ==
  When(p.item = "s.v", "shown column") \cup When(p.filtered = "s", "filtered column")
  \cup When(p.names = "NATURAL" /\ p.on = "keys", "common columns") \cup ClauseUnseen(p)

\* x >= (SELECT MAX(x) FROM r) against x = (...).
ExtremeForms == [rule : {"extreme"}, agg : {"MAX", "MIN"}, op : Comparisons, filtered : BOOLEAN]
ExtremeAccepted(p) ==
  ~p.filtered /\ p.op \in {"EQ", IF p.agg = "MAX" THEN "GTE" ELSE "LTE"}
ExtremeRows(p, r, s) ==
  LET bound == Extreme(p.agg, Column(Filtered(r, "v", p.filtered), "k"))
      Kept(op) == Bag(Restrict(Column(r, "k"), {i \in DOMAIN r : Compared(op, r[i].k, bound) = 1}))
  IN <<Kept(p.op), Kept("EQ")>>

\* WITH RECURSIVE c(n) AS (SELECT anchor UNION [ALL] SELECT n + step FROM c
\* WHERE n op bound): the first rows.
RecursiveForms == [rule : {"monotone"}, step : {-1, 0, 1}, op : {"LT", "LTE", "GT", "GTE", "EQ"}]
RecursiveAccepted(p) ==
  \/ p.step > 0 /\ p.op \in {"LT", "LTE"}
  \/ p.step < 0 /\ p.op \in {"GT", "GTE"}
Fuel == 5
Step(p, n) == 1 + n * p.step
Recursion(p) ==
  [n \in {n \in 0 .. Fuel : \A m \in 0 .. n - 1 : Holds(p.op, Step(p, m), 2)} |-> Step(p, n)]
RecursiveRows(p, r, s) == <<Shown(Recursion(p), FALSE), Shown(Recursion(p), TRUE)>>

\* (A op B) op2 C against (C op A) op2 B.
SetForms == [rule : {"branches"}, op : {"UNION", "UNION ALL", "INTERSECT", "EXCEPT"},
             op2 : {"UNION", "UNION ALL", "INTERSECT", "EXCEPT"}]
SetAccepted(p) == p.op = p.op2 /\ p.op # "EXCEPT"
Combined(op, a, b) ==
  CASE op = "UNION ALL" -> a (+) b
    [] op = "UNION" -> SetToBag(BagToSet(a) \cup BagToSet(b))
    [] op = "INTERSECT" -> SetToBag(BagToSet(a) \cap BagToSet(b))
    [] op = "EXCEPT" -> SetToBag(BagToSet(a) \ BagToSet(b))
SetRows(p, r, s) ==
  LET a == Bag(Column(r, "k"))  b == Bag(Column(s, "k"))  c == Bag(Column(r, "v"))
  IN <<Combined(p.op2, Combined(p.op, a, b), c), Combined(p.op2, Combined(p.op, c, a), b)>>

\* WITH c(v, n) AS (SELECT v, item FROM r WHERE f) SELECT outer FROM c, or the
\* same as a derived table, against SELECT v FROM r WHERE f, or SELECT item.
\* Items are compared by the letters of their text: v + k and v - k are the same.
\* A correlated filter is EXISTS (... WHERE s.k = r.k) against s.k = s.k.
InlineForms == [rule : {"inline"}, item : {"column", "COUNT", "computed"}, outer : {"v", "n"}, inline : {"v", "n"},
                derived : BOOLEAN, filter : {"same", "other", "correlated"}, distinct : BOOLEAN, clause : Clauses]
InlineAccepted(p) ==
  /\ p.inline = p.outer /\ p.filter # "other" /\ p.clause \in {"none", "branch"}
  /\ p.derived => p.item = "column" /\ ~p.distinct /\ p.filter = "same" /\ p.clause = "none"
InlineBody(r, s, filter, on) ==
  CASE filter = "same" -> Filtered(r, "k", TRUE)
    [] filter = "other" -> r
    [] filter = "correlated" -> Correlated(r, s, on)
Added(x, y, sign) == IF Null \in {x, y} THEN Null ELSE x + sign * y
Counted(rows) ==
  <<[v |-> IF DOMAIN rows = {} THEN Null ELSE rows[CHOOSE i \in DOMAIN rows : TRUE].v,
     n |-> Cardinality(DOMAIN rows)]>>
Tabled(rows, item, sign) ==
  IF item = "COUNT" THEN Counted(rows)
  ELSE [i \in DOMAIN rows |->
          [v |-> rows[i].v, n |-> IF item = "column" THEN rows[i].k ELSE Added(rows[i].v, rows[i].k, sign)]]
InlineRows(p, r, s) ==
  LET inner == Tabled(InlineBody(r, s, IF p.filter = "other" THEN "same" ELSE p.filter, "keys"), p.item, 1)
      body == InlineBody(r, s, p.filter, "one side")
      flat == IF p.inline = "v" THEN Column(body, "v") ELSE Column(Tabled(body, p.item, -1), "n")
  IN <<Around(p.clause, Column(inner, p.outer), p.distinct, s), Shown(flat, p.distinct)>>
InlineUnseen(p) ==
  When(p.item = "COUNT" /\ p.outer = "v", "aggregate body") \cup When(p.item = "computed" /\ p.outer = "n", "operator")
  \cup When(p.filter = "correlated", "correlation") \cup ClauseUnseen(p)

\* One aggregate row joined to r, against the same aggregate as a scalar.
ScalarForms == [rule : {"scalar_cte"}, agg : {"COUNT", "MAX"}, join : {"CROSS", "ON"}, reads : {1, 2}]
ScalarAccepted(p) == p.join = "CROSS" /\ p.reads = 1
ScalarRows(p, r, s) ==
  LET value == Aggregate(p.agg, Column(s, "v"))
      joined == {i \in DOMAIN r : p.join = "CROSS" \/ Same(value, r[i].v)}
  IN <<Bag([i \in joined |-> <<r[i].k, value>>]), Bag([i \in DOMAIN r |-> <<r[i].k, value>>])>>

\* SELECT (SELECT item FROM s WHERE 0 = 1) against SELECT NULL.
EmptyForms == [rule : {"empty_scalar"}, item : {"v", "MAX", "COUNT"}, literals : {"equal", "differ"}]
EmptyAccepted(p) == p.literals = "differ"
EmptyRows(p, r, s) ==
  LET inner == IF p.literals = "equal" THEN Column(s, "v") ELSE <<>>
  IN <<IF p.item = "v" THEN (IF DOMAIN inner = {} THEN Null ELSE inner[1]) ELSE Aggregate(p.item, inner), Null>>
EmptyUnseen(p) == When(p.item = "COUNT", "COUNT")

\* r.k IN (SELECT k FROM s WHERE v = 1) against r JOIN s ON c WHERE v = 1.  The
\* columns of an ON of one = are compared by their names.  "inner": a LIMIT 0 in
\* the list.
InJoinForms == [rule : {"in_join"}, side : {"INNER", "LEFT"}, distinct : BOOLEAN, uniqueKey : BOOLEAN,
                on : {"keys", "one side", "shifted", "crossed"}, item : Items, filtered : {"r", "s", "none"},
                clause : Clauses \cup {"inner"}]
InJoinAccepted(p) ==
  /\ p.side = "INNER" /\ p.on # "crossed" /\ p.item # "f(s.v)"
  /\ p.filtered # "none" /\ p.clause # "filter"
InJoinRows(p, r, s) ==
  LET members == IF p.clause = "inner" THEN {} ELSE Range(Column(Filtered(s, "v", TRUE), "k"))
      kept == {i \in DOMAIN r : SqlIn(r[i].k, members) = 1}
      clause == IF p.clause = "inner" THEN "none" ELSE p.clause
      pairs == Passing(Joined(r, s, p.on, p.side), p.filtered)
  IN <<Around(clause, Restrict(Column(r, "v"), kept), p.distinct, s), Shown(Shows(pairs, p.item), p.distinct)>>
InJoinUnseen(p) ==
  When(p.on # "keys", "ON") \cup When(p.item = "s.v", "shown column") \cup When(p.filtered = "r", "filtered column")
  \cup When(~p.uniqueKey /\ ~p.distinct, "unique key") \cup ClauseUnseen(p)

\* NOT EXISTS (s with the key of r) against LEFT JOIN ... WHERE column IS NULL.
\* tests: which column the join's WHERE compares with NULL, and how; extra: where
\* the condition s.v = 1 stands; from: the table that is joined.  Some = of EXISTS
\* must have the column names of some = of ON.
AntiForms == [rule : {"antijoin"}, side : {"LEFT", "INNER"},
              tests : {"s.k IS NULL", "s.k IS NOT NULL", "s.v IS NULL", "r.k IS NULL"}, from : {"r", "s"},
              on : {"keys", "one side", "crossed"}, extra : {"none", "EXISTS", "ON", "both"}, item : Items,
              clause : Clauses]
AntiAccepted(p) ==
  p.side = "LEFT" /\ (p.on # "crossed" \/ p.extra = "both") /\ p.item # "f(s.v)"
PassesNull(tests, pair) ==
  CASE tests = "s.k IS NULL" -> pair[2].k = Null
    [] tests = "s.k IS NOT NULL" -> pair[2].k # Null
    [] tests = "s.v IS NULL" -> pair[2].v = Null
    [] tests = "r.k IS NULL" -> pair[1].k = Null
AntiRows(p, r, s) ==
  LET kept == Unmatched(r, Filtered(s, "v", p.extra \in {"EXISTS", "both"}), "keys")
      pairs == Joined(IF p.from = "r" THEN r ELSE s, Filtered(s, "v", p.extra \in {"ON", "both"}), p.on, p.side)
      passing == {m \in DOMAIN pairs : PassesNull(p.tests, pairs[m])}
  IN <<Around(p.clause, Restrict(Column(r, "v"), kept), FALSE, s), Shown(Restrict(Shows(pairs, p.item), passing), FALSE)>>
AntiUnseen(p) ==
  When(p.tests # "s.k IS NULL", "test") \cup When(p.from = "s", "FROM") \cup When(p.on # "keys", "ON")
  \cup When(p.extra \in {"EXISTS", "ON"}, "extra condition") \cup When(p.item = "s.v", "shown column")
  \cup ClauseUnseen(p)

\* k IN (SELECT k FROM s WHERE v = 1 AND inner) against EXISTS (... s.k = r.k AND
\* v = 1 AND inner), below the same context of WHERE.  Where the recogniser sees a
\* NOT, the keys must be free of NULL, by the schema or by a test anywhere in
\* WHERE, or the list empty.  filter "side": r.v = 1 in EXISTS; item "s.v": r and
\* s are joined, and the queries show r.v and s.v.
InExistsForms == [rule : {"in_exists"}, below : {"AND", "NOT", "NOT (", "IS NULL"}, filter : {"same", "other", "side"},
                  item : {"r.v", "s.v"}, outer : {"free", "schema", "query", "or"},
                  inner : {"free", "query", "or", "null", "null or", "not ("}, innerSchema : BOOLEAN]
SeenNegated(p) == p.below = "NOT"
InExistsAccepted(p) ==
  /\ p.filter # "other"
  /\ \/ ~SeenNegated(p)
     \/ p.inner \in {"null", "null or", "not ("} /\ p.innerSchema
     \/ p.outer # "free" /\ (p.inner \in {"query", "or"} \/ p.innerSchema)
PassesTest(test, key, other) ==
  CASE test \in {"query", "not ("} -> key # Null
    [] test = "or" -> key # Null \/ other = 1
    [] test = "null" -> key = Null
    [] test = "null or" -> key = Null \/ other = 1
    [] test \in {"free", "schema"} -> TRUE
InnerKeys(p, s, filter) ==
  {s[j].k : j \in {j \in DOMAIN Filtered(s, "v", filter) : PassesTest(p.inner, s[j].k, s[j].v)}}
ExistsKeys(p, x, s) ==
  CASE p.filter = "same" -> InnerKeys(p, s, TRUE)
    [] p.filter = "other" -> InnerKeys(p, s, FALSE)
    [] p.filter = "side" -> IF Same(x.v, 1) THEN InnerKeys(p, s, FALSE) ELSE {}
In(x, keys) == IF keys = {} THEN 0 ELSE SqlIn(x, keys)
Exists(x, keys) == Bool(\E y \in keys : Same(x, y))
Below(context, value) ==
  CASE context = "AND" -> IsTrue(value)
    [] context \in {"NOT", "NOT ("} -> IsTrue(SqlNot(value))
    [] context = "IS NULL" -> value = Null
Crossed(r, s, kept) == [m \in kept \X (DOMAIN s) |-> <<r[m[1]], s[m[2]]>>]
InExistsRows(p, r, s) ==
  LET outer == {i \in DOMAIN r : PassesTest(p.outer, r[i].k, r[i].v)}
      member == {i \in outer : Below(p.below, In(r[i].k, InnerKeys(p, s, TRUE)))}
      exists == {i \in outer : Below(p.below, Exists(r[i].k, ExistsKeys(p, r[i], s)))}
  IN IF p.item = "r.v" THEN <<Bag(Restrict(Column(r, "v"), member)), Bag(Restrict(Column(r, "v"), exists))>>
     ELSE <<Bag(Shows(Crossed(r, s, member), "r.v")), Bag(Shows(Crossed(r, s, exists), "s.v"))>>
NullsExcluded(p) ==
  \/ p.inner = "null" /\ p.innerSchema
  \/ p.outer \in {"schema", "query"} /\ (p.inner \in {"query", "not ("} \/ p.innerSchema)
InExistsUnseen(p) ==
  When(p.filter = "side", "filtered column") \cup When(p.item = "s.v", "shown column")
  \cup When(p.below \in {"NOT (", "IS NULL"} /\ ~NullsExcluded(p), "context")
  \cup When(p.below = "NOT" /\ ~NullsExcluded(p), "test below OR or NOT")

\* ORDER BY a position, an alias or a column against another one of them; and an
\* alias taken away.  The query is SELECT v AS alias, k FROM r ORDER BY by, or
\* to: an alias k hides the column k there.  The recogniser puts the expression
\* in place of a position, and of an alias unless the catalogue has a column of
\* its name, and compares the texts.
OrderForms ==
  {p \in [rule : {"order_reference", "alias"}, alias : {"none", "k", "z"}, catalogue : BOOLEAN,
          by : {"1", "2", "k", "v", "z"}, to : {"1", "2", "k", "v", "z"}] :
     "z" \in {p.by, p.to} => p.alias = "z"}
Resolved(alias, by) ==
  CASE by = "1" -> "v" [] by = "2" -> "k" [] OTHER -> IF by = alias THEN "v" ELSE by
Substituted(p, by) ==
  IF by = "k" /\ p.catalogue THEN by ELSE Resolved(p.alias, by)
OrderAccepted(p) ==
  IF p.rule = "alias" THEN p.alias \notin {"none", p.by} /\ p.to = p.by
  ELSE /\ Substituted(p, p.by) = Substituted(p, p.to)
       /\ Substituted(p, p.by) # p.by \/ Substituted(p, p.to) # p.to
OrderRows(p, r, s) ==
  LET alias == IF p.rule = "alias" THEN "none" ELSE p.alias
  IN <<OrderBy(r, Resolved(p.alias, p.by)), OrderBy(r, Resolved(alias, p.to))>>
OrderUnseen(p) ==
  When(p.rule = "order_reference" /\ p.alias = "k" /\ p.catalogue /\ "k" \in {p.by, p.to}, "hidden column")

\* SELECT * against the columns of the schema.
StarForms == [rule : {"star"}, columns : {<<"k", "v">>, <<"v", "k">>, <<"k">>}, aliased : BOOLEAN,
              filter : {"same", "correlated"}]
StarAccepted(p) == p.columns = <<"k", "v">> /\ ~p.aliased
StarRows(p, r, s) ==
  LET kept(on) == IF p.filter = "same" THEN r ELSE Correlated(r, s, on)
      star == kept("keys")
      listed == kept("one side")
  IN <<Bag([i \in DOMAIN star |-> <<star[i].k, star[i].v>>]),
       Bag([i \in DOMAIN listed |-> [c \in DOMAIN p.columns |-> listed[i][p.columns[c]]]])>>
StarUnseen(p) == When(p.filter = "correlated", "correlation")

----------------------------------------------------------------------------
Forms ==
  UsingForms \cup ExtremeForms \cup RecursiveForms \cup SetForms \cup InlineForms \cup ScalarForms
  \cup EmptyForms \cup InJoinForms \cup AntiForms \cup InExistsForms \cup OrderForms \cup StarForms

\* Does the recogniser of its rule accept the form?
FormAccepted(p) ==
  CASE p.rule = "using_on" -> UsingAccepted(p)
    [] p.rule = "extreme" -> ExtremeAccepted(p)
    [] p.rule = "monotone" -> RecursiveAccepted(p)
    [] p.rule = "branches" -> SetAccepted(p)
    [] p.rule = "inline" -> InlineAccepted(p)
    [] p.rule = "scalar_cte" -> ScalarAccepted(p)
    [] p.rule = "empty_scalar" -> EmptyAccepted(p)
    [] p.rule = "in_join" -> InJoinAccepted(p)
    [] p.rule = "antijoin" -> AntiAccepted(p)
    [] p.rule = "in_exists" -> InExistsAccepted(p)
    [] p.rule \in {"order_reference", "alias"} -> OrderAccepted(p)
    [] p.rule = "star" -> StarAccepted(p)

\* The rows of both queries.
FormRows(p, r, s) ==
  CASE p.rule = "using_on" -> UsingRows(p, r, s)
    [] p.rule = "extreme" -> ExtremeRows(p, r, s)
    [] p.rule = "monotone" -> RecursiveRows(p, r, s)
    [] p.rule = "branches" -> SetRows(p, r, s)
    [] p.rule = "inline" -> InlineRows(p, r, s)
    [] p.rule = "scalar_cte" -> ScalarRows(p, r, s)
    [] p.rule = "empty_scalar" -> EmptyRows(p, r, s)
    [] p.rule = "in_join" -> InJoinRows(p, r, s)
    [] p.rule = "antijoin" -> AntiRows(p, r, s)
    [] p.rule = "in_exists" -> InExistsRows(p, r, s)
    [] p.rule \in {"order_reference", "alias"} -> OrderRows(p, r, s)
    [] p.rule = "star" -> StarRows(p, r, s)

\* The tables a form's query may meet: what its schema declares holds.
Admissible(p, r, s) ==
  CASE p.rule = "in_join" /\ p.uniqueKey -> \A i, j \in DOMAIN s : i # j => ~Same(s[i].k, s[j].k)
    [] p.rule = "in_exists" ->
         /\ p.outer = "schema" => Null \notin Range(Column(r, "k"))
         /\ p.innerSchema => Null \notin Range(Column(s, "k"))
    [] OTHER -> TRUE

\* What the two queries of an accepted form differ in without the recogniser
\* looking at it.
Unseen(p) ==
  CASE p.rule = "using_on" -> UsingUnseen(p)
    [] p.rule = "inline" -> InlineUnseen(p)
    [] p.rule = "empty_scalar" -> EmptyUnseen(p)
    [] p.rule = "in_join" -> InJoinUnseen(p)
    [] p.rule = "antijoin" -> AntiUnseen(p)
    [] p.rule = "in_exists" -> InExistsUnseen(p)
    [] p.rule \in {"order_reference", "alias"} -> OrderUnseen(p)
    [] p.rule = "star" -> StarUnseen(p)
    [] p.rule \in {"extreme", "monotone", "branches", "scalar_cte"} -> {}

\* Forms that differ in nothing their recogniser does not look at.
Covered(p) == Unseen(p) = {}
=============================================================================
