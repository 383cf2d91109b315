--------------------------- MODULE AstDifferences ---------------------------
(***************************************************************************)
(* extract_ast_diffs: the detectors that compare two queries, each with its *)
(* own idea of what differs, and the reductions that keep the difference    *)
(* that explains the others.  A difference carries the clause it is filed   *)
(* under, its type, its knowledge point, the column it names, the nodes of  *)
(* its two texts, the depth of its block and the scope written on it.       *)
(***************************************************************************)
EXTENDS SqlQueries

Diff(clause, type, kp, col, std, stu) ==
  [clause |-> clause, type |-> type, kp |-> kp, col |-> col, std |-> std, stu |-> stu, depth |-> 0, scope |-> ""]
One(cond, d) == IF cond THEN {d} ELSE {}
Shorter(s, t) == 1..(IF Len(s) < Len(t) THEN Len(s) ELSE Len(t))
Occurrences(x, seq) == Cardinality({i \in DOMAIN seq : seq[i] = x})

AggregateOf(it) == [fn |-> it.fn, col |-> it.col, dist |-> it.dist]
ItemAggregates(it) == IF it.kind = "agg" THEN <<AggregateOf(it)>> ELSE <<>>
Unlabelled(it) == [it EXCEPT !.alias = ""]
Labels(b) == [i \in 1..Len(b.items) |-> Unlabelled(b.items[i])]

\* Every item is the same up to the name of its aggregate, and one is not.
AggregateNamesOnly(b, c) ==
  /\ Len(b.items) = Len(c.items)
  /\ \A i \in DOMAIN b.items :
       \/ b.items[i] = c.items[i]
       \/ /\ b.items[i].kind = "agg" /\ c.items[i].kind = "agg"
          /\ b.items[i].col = c.items[i].col /\ b.items[i].dist = c.items[i].dist
          /\ b.items[i].alias = c.items[i].alias
  /\ \E i \in DOMAIN b.items : b.items[i] # c.items[i]

ItemsNodes(b) == UNION {ItemNodes(it) : it \in ToSet(b.items)}
\* AND-connected predicates are compared in any order.
WhereText(q, b) ==
  LET c == [b.where EXCEPT !.atoms = SelectSeq(b.where.atoms, LAMBDA a : ~(a.op = "EQ" /\ a.val \in OuterColumns))]
  IN <<Cardinality(ToSet(c.atoms)), IF "OR" \in ToSet(c.ops) THEN c ELSE [every |-> ToSet(c.atoms)],
       IF HoldsSub(c) THEN q.sub ELSE NoBlock>>

ClauseDiffs(p, q, b, c) ==
  One(Labels(b) # Labels(c) /\ ~AggregateNamesOnly(b, c),
      Diff("SELECT", "projection_changed", "select-basic", "", BlockNodes(b), BlockNodes(c)))
  \cup One(WhereText(p, b) # WhereText(q, c),
      Diff("WHERE", "where_changed", "where", "", UNION {Nodes(p, a) : a \in ToSet(b.where.atoms)},
           UNION {Nodes(q, a) : a \in ToSet(c.where.atoms)}))
  \cup One(b.group # c.group, Diff("GROUP BY", "group_by_changed", "group-by", "", {[key |-> k] : k \in b.group}, {[key |-> k] : k \in c.group}))
  \cup One(b.having # c.having, Diff("HAVING", "having_changed", "having", "", CondNodes(b.having), CondNodes(c.having)))
  \cup One(b.order # c.order, Diff("ORDER BY", "order_by_changed", "order-by", "", ToSet(b.order), ToSet(c.order)))
  \cup One(b.limit # c.limit, Diff("LIMIT", "limit_changed", "limit", "", {[limit |-> b.limit]}, {[limit |-> c.limit]}))
  \cup One(b.offset # c.offset, Diff("LIMIT", "limit_changed", "limit", "", {[offset |-> b.offset]}, {[offset |-> c.offset]}))
  \cup One(b.distinct # c.distinct, Diff("DISTINCT", "distinct_changed", "distinct", "", {}, {}))

ItemColumn(it) == IF it.kind \in {"column", "agg"} THEN it.col ELSE ""
ColumnDiffs(b, c) ==
  IF Labels(b) = Labels(c) \/ AggregateNamesOnly(b, c) THEN {}
  ELSE {Diff("SELECT", "column_dropped", "select-basic", ItemColumn(it), ItemNodes(it), {}) :
           it \in ToSet(Labels(b)) \ ToSet(Labels(c))}
       \cup {Diff("SELECT", "column_added", "select-basic", ItemColumn(it), {}, ItemNodes(it)) :
           it \in ToSet(Labels(c)) \ ToSet(Labels(b))}
       \cup One((OfKind(b.items, "star") = <<>>) # (OfKind(c.items, "star") = <<>>),
                Diff("SELECT", "star_mismatch", "select-basic", "", BlockNodes(b), BlockNodes(c)))

AliasDiffs(b, c) ==
  {Diff("SELECT", "alias_changed", "select-alias", ItemColumn(b.items[i]), {b.items[i]}, {c.items[i]}) :
     i \in {i \in Shorter(b.items, c.items) :
              Labels(b)[i] = Labels(c)[i] /\ b.items[i].alias # c.items[i].alias}}

\* The function calls of a block, EXISTS and CASE among them.
Calls(q, scope) ==
  LET items == SelectSeq(ItemsOf(q, scope), LAMBDA it : it.kind \in {"agg", "call", "case"})
      atoms == SelectSeq(AtomsOf(q, scope), LAMBDA t : t.atom.op \in {"EXISTS", "REGEXP"} \/ t.atom.fn # "")
  IN [i \in 1..Len(items) |->
        LET it == items[i] IN
        [name |-> IF it.kind = "case" THEN "CASE" ELSE it.fn, agg |-> it.kind = "agg", col |-> ItemColumn(it),
         args |-> Unlabelled(it), nodes |-> ItemNodes(it)]]
     \o [i \in 1..Len(atoms) |->
        LET a == atoms[i].atom IN
        [name |-> IF a.fn # "" THEN a.fn ELSE a.op, agg |-> a.fn # "", col |-> IF a.op = "EXISTS" THEN a.op ELSE a.col,
         args |-> CASE a.op = "EXISTS" -> q.sub [] a.fn # "" -> [col |-> a.col] [] OTHER -> Bare(a),
         nodes |-> Nodes(q, a)]]

CallDiffs(p, q, scope) ==
  LET f == Calls(p, scope)
      g == Calls(q, scope)
  IN {LET type == IF f[i].name = "REGEXP" THEN "regex_pattern_changed"
                  ELSE IF f[i].agg /\ g[i].agg THEN "aggregate_argument_changed" ELSE "function_argument_changed"
          clause == CASE type = "regex_pattern_changed" -> "PREDICATE"
                      [] type = "aggregate_argument_changed" -> "AGGREGATE" [] OTHER -> "FUNCTION"
          kp == CASE type = "regex_pattern_changed" -> "regex"
                  [] type = "aggregate_argument_changed" -> "aggregate" [] OTHER -> "function"
      IN Diff(clause, type, kp, f[i].col, f[i].nodes, g[i].nodes) :
      i \in {i \in Shorter(f, g) : f[i].name = g[i].name /\ f[i].args # g[i].args
                                   /\ ~(f[i].agg /\ g[i].agg /\ f[i].col = g[i].col)}}

GroupDiffs(b, c) ==
  One(b.group # c.group,
      Diff("GROUP BY",
           CASE b.group # {} /\ b.group \subseteq c.group -> "grouping_grain_too_fine"
             [] c.group # {} /\ c.group \subseteq b.group -> "grouping_grain_too_coarse"
             [] OTHER -> "group_by_expression_changed",
           "group-by", "", {[key |-> k] : k \in b.group}, {[key |-> k] : k \in c.group}))

Aggregating(c) == \E a \in ToSet(c.atoms) : a.fn # ""
MovedAggregate(b, c) ==
  b.having # NoCond /\ c.having = NoCond /\ c.where # NoCond /\ Aggregating(b.having) /\ Aggregating(c.where)
HavingDiffs(b, c) ==
  One(MovedAggregate(b, c),
      Diff("HAVING", "aggregate_condition_in_where", "having", "", CondNodes(b.having), CondNodes(c.where)))

\* A key that is replaced by another is left to order_by_changed.
OrderDiffs(b, c) ==
  LET keys(o) == [i \in DOMAIN o |-> o[i].key]
      signs(o) == [i \in DOMAIN o |-> <<o[i].key, o[i].desc>>]
      type == CASE signs(b.order) = signs(c.order) -> "order_nulls_changed"
                [] Len(b.order) > Len(c.order) /\ IsPrefix(signs(c.order), signs(b.order)) -> "order_by_tiebreaker_missing"
                [] Len(c.order) > Len(b.order) /\ IsPrefix(signs(b.order), signs(c.order)) -> "order_by_key_added"
                [] keys(b.order) = keys(c.order) -> "order_direction_changed"
                [] OTHER -> ""
  IN One(b.order # c.order /\ type # "", Diff("ORDER BY", type, "order-by", "", ToSet(b.order), ToSet(c.order)))

----------------------------------------------------------------------------
\* _comparison_ast_diffs: the predicates of both blocks are paired, first
\* those with the same text, then by column, and by literal among several.
Comparisons(q, scope) ==
  SelectSeq(AtomsOf(q, scope), LAMBDA t :
    t.atom.op \notin {"EXISTS", "REGEXP"} /\ ~(t.atom.op = "EQ" /\ t.atom.val \in OuterColumns))

Pairing(p, q, cs, ct) ==
  LET exact == {<<i, j>> \in (DOMAIN cs) \X (DOMAIN ct) : Text(p, cs[i].atom) = Text(q, ct[j].atom)}
      pair(pairs, i) ==
        LET free == {j \in DOMAIN ct : ct[j].atom.col = cs[i].atom.col /\ \A m \in pairs : m[2] # j}
            alike == {j \in free : ct[j].atom.val = cs[i].atom.val}
        IN IF (\E m \in pairs : m[1] = i) \/ Len(cs) # Len(ct) THEN pairs
           ELSE IF Cardinality(free) = 1 THEN pairs \cup {<<i, j>> : j \in free}
           ELSE IF Cardinality(alike) = 1 THEN pairs \cup {<<i, j>> : j \in alike}
           ELSE pairs
  IN FoldLeft(pair, exact, [i \in 1..Len(cs) |-> i])

PairDiffs(p, q, s, t) ==
  LET a == s.atom
      b == t.atom
      std == Nodes(p, Bare(a))
      stu == Nodes(q, Bare(b))
      having == s.part = "having"
      subChanged == IsSub(a) /\ IsSub(b) /\ p.sub # q.sub
      type == CASE a.op # b.op -> "comparison_operator_changed"
                [] a.list \ b.list # {} -> "in_list_member_removed"
                [] a.list # b.list -> "in_list_member_added"
                [] OTHER -> "literal_changed"
  IN IF a.op = b.op /\ subChanged THEN {}
     ELSE IF a.op = b.op /\ a.op \in {"LIKE", "GLOB"} /\ a.val # b.val
     THEN {[Diff("PREDICATE", IF a.op = "LIKE" THEN "like_pattern_changed" ELSE "glob_pattern_changed",
                 IF a.op = "LIKE" THEN "like" ELSE "glob", a.col, std, stu) EXCEPT !.scope = "root"]}
     ELSE One(a.op # b.op \/ a.val # b.val \/ a.list # b.list,
              Diff(IF having THEN "HAVING" ELSE "PREDICATE", type, IF having THEN "having" ELSE "where", a.col, std, stu))
          \cup One(b.op \in {"EQ", "NEQ"} /\ b.val = "NULL",
                   Diff("NULL", "null_equality_changed", "null", b.col, std, stu))

ComparisonDiffs(p, q, scope) ==
  LET cs == Comparisons(p, scope)
      ct == Comparisons(q, scope)
      pairs == Pairing(p, q, cs, ct)
  IN UNION {PairDiffs(p, q, cs[m[1]], ct[m[2]]) : m \in pairs}
     \cup {Diff("PREDICATE", "predicate_missing", "where", cs[i].atom.col, Nodes(p, Bare(cs[i].atom)), {}) :
             i \in {i \in DOMAIN cs : \A m \in pairs : m[1] # i}}
     \cup {Diff("PREDICATE", "predicate_added", "where", ct[j].atom.col, {}, Nodes(q, Bare(ct[j].atom))) :
             j \in {j \in DOMAIN ct : \A m \in pairs : m[2] # j}}

\* NOT before IN and IS, in every block at once.
NegationDiffs(p, q) ==
  LET all(x, op) ==
        SelectSeq(AtomsOf(x, "root") \o AtomsOf(x, "sub"), LAMBDA t : t.atom.op = op)
      changed(op) ==
        LET cs == all(p, op)
            ct == all(q, op)
            exact == {<<i, j>> \in (DOMAIN cs) \X (DOMAIN ct) : Text(p, cs[i].atom) = Text(q, ct[j].atom)}
            rest == {i \in DOMAIN cs : \A m \in exact : m[1] # i} \X {j \in DOMAIN ct : \A m \in exact : m[2] # j}
            last == IF Cardinality(rest) = 1 THEN {m \in rest : cs[m[1]].atom.col = ct[m[2]].atom.col} ELSE {}
        IN {<<cs[m[1]].atom, ct[m[2]].atom>> : m \in {m \in exact \cup last : cs[m[1]].atom.neg # ct[m[2]].atom.neg}}
  IN {Diff("IN", "in_predicate_negation_changed", "in-list", m[1].col, Nodes(p, m[1]), Nodes(q, m[2])) : m \in changed("IN")}
     \cup {Diff("NULL", "null_predicate_negation_changed", "null-handling", m[1].col, Nodes(p, m[1]), Nodes(q, m[2])) :
             m \in changed("IS")}

\* AND against OR: only the connectives are compared.
FirstWhere(q, scope) ==
  LET wheres == SelectSeq(Walked(q, scope), LAMBDA b : b # NoBlock /\ b.where # NoCond)
  IN IF wheres = <<>> THEN NoCond ELSE wheres[1].where
LogicalDiffs(p, q, scope) ==
  LET c == FirstWhere(p, scope)
      d == FirstWhere(q, scope)
  IN One(c # NoCond /\ d # NoCond /\ \E op \in {"AND", "OR"} : Occurrences(op, c.ops) # Occurrences(op, d.ops),
         Diff("LOGICAL", "logical_operator_changed", "where", "", UNION {Nodes(p, a) : a \in ToSet(c.atoms)},
              UNION {Nodes(q, a) : a \in ToSet(d.atoms)}))

\* Joins are matched by table; a join only the student has is no difference,
\* and of several changed ON conditions the first one stands for all.
JoinKp(side) == IF side = "LEFT" THEN "join-left" ELSE "join-inner"
Conditions(b) == UNION {j.on : j \in ToSet(b.joins)}
Side(b, j) == IF j.side = "CROSS" /\ Conditions(b) # {} THEN "INNER" ELSE j.side
JoinDiffs(b, c) ==
  LET tables(x) == {j.table : j \in ToSet(x.joins)}
      twin(j) == CHOOSE k \in ToSet(c.joins) : k.table = j.table
      common == {j \in ToSet(b.joins) : j.table \in tables(c)}
      onChanged == SelectSeq(b.joins, LAMBDA j : j.table \in tables(c) /\ j.on # {} /\ twin(j).on # {} /\ j.on # twin(j).on)
  IN {Diff("JOIN", "join_missing", "join-inner", j.table, {j}, {}) : j \in ToSet(b.joins) \ common}
     \cup {Diff("JOIN_TYPE", "join_type_changed", JoinKp(Side(b, j)), j.table, {j}, {twin(j)}) :
             j \in {j \in common : Side(b, j) # Side(c, twin(j))}}
     \cup One(Conditions(b) # Conditions(c),
              IF onChanged # <<>>
              THEN Diff("JOIN ON", "join_on_changed", "join-on", "", onChanged[1].on, twin(onChanged[1]).on)
              ELSE Diff("JOIN ON", "join_on_changed", "join-on", "", Conditions(b) \ Conditions(c), Conditions(c) \ Conditions(b)))

JoinKeyDiffs(b, c) ==
  LET columns(on) == {<<a.col, a.val>> : a \in on}
      changed == {i \in Shorter(b.joins, c.joins) :
                    b.joins[i].on # {} /\ c.joins[i].on # {} /\ columns(b.joins[i].on) # columns(c.joins[i].on)}
  IN {Diff("JOIN ON", "join_key_column_changed", "join-on", "", b.joins[i].on, c.joins[i].on) :
        i \in {i \in changed : \A k \in changed : i <= k}}

\* One predicate moved between the ON of a LEFT JOIN and WHERE, and nothing else.
PlacementDiffs(b, c) ==
  LET where(x) == ToSet(x.where.atoms)
      apart(s, t) == (s \ t) \cup (t \ s)
      moved(i) == ((b.joins[i].on \ c.joins[i].on) \cap (where(c) \ where(b)))
                  \cup ((c.joins[i].on \ b.joins[i].on) \cap (where(b) \ where(c)))
      placed == {i \in DOMAIN b.joins :
                   /\ b.joins[i].side = "LEFT" /\ c.joins[i].side = "LEFT" /\ b.joins[i].table = c.joins[i].table
                   /\ Cardinality(moved(i)) = 1
                   /\ apart(b.joins[i].on, c.joins[i].on) = moved(i) /\ apart(where(b), where(c)) = moved(i)}
  IN IF Len(b.joins) # Len(c.joins) THEN {}
     ELSE {[Diff("JOIN ON", "join_predicate_placement_changed", "join-on", b.joins[i].table, moved(i), moved(i))
              EXCEPT !.scope = "root"] : i \in placed}

SetDiffs(p, q) ==
  LET op == IF p.set.op # "" THEN p.set.op ELSE q.set.op
      kp == CASE op = "INTERSECT" -> "intersect" [] op = "EXCEPT" -> "except" [] OTHER -> "union"
      both == p.set.op # "" /\ q.set.op # ""
      node(x) == IF x.set.op = "" THEN {} ELSE {x.set}
  IN One(p.set # q.set, Diff(op, "set_operator_changed", kp, p.set.op, node(p), node(q)))
     \cup One(both /\ p.set.op = q.set.op /\ p.set # q.set, Diff(op, "set_modifier_changed", kp, "", node(p), node(q)))
     \cup One(both /\ p.set.op = q.set.op /\ p.set # q.set, Diff("UNION", "set_all_modifier_changed", "union", "", node(p), node(q)))
     \cup One(both /\ p.set.op # q.set.op, Diff("UNION", "set_operator_changed", kp, "", node(p), node(q)))

WindowDiffs(p, q, scope) ==
  LET w == OfKind(ItemsOf(p, scope), "win")
      v == OfKind(ItemsOf(q, scope), "win")
      d(type, i) == Diff("WINDOW", type, "window-row-number", "", {w[i]}, {v[i]})
  IN {d("window_function_changed", i) : i \in {i \in Shorter(w, v) : w[i].fn # v[i].fn}}
     \cup {d("window_over_changed", i) : i \in {i \in Shorter(w, v) : w[i].over # v[i].over}}
     \cup One(Len(w) # Len(v), Diff("WINDOW", "window_over_changed", "window-row-number", "", ToSet(w), ToSet(v)))

CaseDiffs(p, q, scope) ==
  LET cases(x) == LET found == OfKind(ItemsOf(x, scope), "case") IN [i \in 1..Len(found) |-> Unlabelled(found[i])]
      w == cases(p)
      v == cases(q)
      all(its) == UNION {ItemNodes(it) : it \in ToSet(its)}
      d(type, std, stu) == Diff("CASE", type, "case", "", std, stu)
  IN IF w = v THEN {}
     ELSE {d("case_changed", all(w), all(v))}
          \cup {d(IF v[i].other = "" THEN "case_else_missing" ELSE "case_else_added", {[else |-> w[i].other]}, {[else |-> v[i].other]}) :
                  i \in {i \in Shorter(w, v) : (w[i].other = "") # (v[i].other = "")}}
          \cup {d(IF Len(w[i].whens) > Len(v[i].whens) THEN "case_when_missing" ELSE "case_when_added", {}, {}) :
                  i \in {i \in Shorter(w, v) : Len(w[i].whens) # Len(v[i].whens)}}

\* The aggregates of a block, of its HAVING too; per column the last one counts.
Aggregates(q, scope) ==
  LET inItems == FlattenSeq([i \in 1..Len(ItemsOf(q, scope)) |-> ItemAggregates(ItemsOf(q, scope)[i])])
      inAtoms == SelectSeq(AtomsOf(q, scope), LAMBDA t : t.atom.fn # "")
  IN inItems \o [i \in 1..Len(inAtoms) |-> [fn |-> inAtoms[i].atom.fn, col |-> inAtoms[i].atom.col, dist |-> FALSE]]
AggregateDiffs(p, q, scope) ==
  LET last(x, col) == SelectLastInSeq(Aggregates(x, scope), LAMBDA g : g.col = col)
      columns == {g.col : g \in ToSet(Aggregates(p, scope))} \cap {g.col : g \in ToSet(Aggregates(q, scope))}
      of(x, col) == Aggregates(x, scope)[last(x, col)]
  IN {Diff("AGGREGATE", "aggregate_function_changed", "aggregate", col, {of(p, col)}, {of(q, col)}) :
        col \in {col \in columns : of(p, col).fn # of(q, col).fn}}

AllAggregates(q) == Aggregates(q, "root") \o Aggregates(q, "sub")
AggregateDistinctDiffs(p, q) ==
  LET g == AllAggregates(p)
      h == AllAggregates(q)
      changed == {i \in Shorter(g, h) : g[i].fn = h[i].fn /\ g[i].dist # h[i].dist}
  IN {Diff("AGGREGATE", "aggregate_distinct_changed", "aggregate", "", {g[i]}, {h[i]}) :
        i \in {i \in changed : \A k \in changed : i <= k}}

\* The same comparison of another column.
LeftColumnDiffs(p, q) ==
  LET plain(x) == SelectSeq(AtomsOf(x, "root") \o AtomsOf(x, "sub"),
                            LAMBDA t : t.atom.op \in {"EQ", "NEQ", "GT", "GTE", "LT", "LTE"})
      cs == plain(p)
      ct == plain(q)
      changed == {i \in Shorter(cs, ct) :
                    /\ cs[i].atom.op = ct[i].atom.op /\ cs[i].atom.val = ct[i].atom.val
                    /\ (IsSub(cs[i].atom) => p.sub = q.sub)
                    /\ cs[i].atom.fn = "" /\ ct[i].atom.fn = "" /\ cs[i].atom.col # ct[i].atom.col}
  IN IF p.root.where.ops # q.root.where.ops \/ (p.root.where = NoCond) # (q.root.where = NoCond) THEN {}
     ELSE {Diff("PREDICATE", "comparison_left_column_changed", "where", "", Nodes(p, cs[i].atom), Nodes(q, ct[i].atom)) :
             i \in {i \in changed : \A k \in changed : i <= k}}

TopNDiffs(b, c) ==
  One(b.order # <<>> /\ c.order = <<>> /\ b.limit = c.limit /\ b.limit # "",
      Diff("ORDER BY", "top_n_ordering_missing", "order-by", "", ToSet(b.order), {}))

\* Exactly one column before IN (SELECT ...) differs, in otherwise equal queries.
MembershipDiffs(p, q) ==
  LET ins(x) == SelectSeq(AtomsOf(x, "root") \o AtomsOf(x, "sub"), LAMBDA t : t.atom.op = "IN")
      cs == ins(p)
      ct == ins(q)
      changed == {i \in DOMAIN cs : cs[i].atom.col # ct[i].atom.col}
      restored == [p EXCEPT !.root.where.atoms = [i \in DOMAIN @ |->
                     IF @[i].op = "IN" /\ i \in DOMAIN q.root.where.atoms THEN [@[i] EXCEPT !.col = q.root.where.atoms[i].col]
                     ELSE @[i]]]
  IN IF Len(cs) # Len(ct) THEN {}
     ELSE {[Diff("IN", "subquery_membership_key_changed", "subquery-in", cs[i].atom.col, Nodes(p, cs[i].atom), Nodes(q, ct[i].atom))
              EXCEPT !.scope = "nested_membership"] :
             i \in {i \in changed : changed = {i} /\ IsSub(cs[i].atom) /\ IsSub(ct[i].atom) /\ p.sub = q.sub /\ restored = q}}

\* Exactly one item is wrapped in IS TRUE, in otherwise equal queries.
TruthTestDiffs(p, q) ==
  LET b == p.root.items
      c == q.root.items
      changed == {i \in DOMAIN b : b[i] # c[i]}
      wrapped(i) == b[i].kind = "test" /\ c[i].kind = "test" /\ b[i] = [c[i] EXCEPT !.istrue = ~c[i].istrue]
  IN IF Len(b) # Len(c) \/ [p EXCEPT !.root.items = c] # q THEN {}
     ELSE {[Diff("SELECT", "boolean_projection_truth_test_changed", "null-handling", b[i].col, {b[i]}, {c[i]})
              EXCEPT !.scope = "root"] : i \in {i \in changed : changed = {i} /\ wrapped(i)}}

FromDiffs(p, q) ==
  LET source(b) == IF b = NoBlock THEN b
                   ELSE [from |-> b.from, joins |-> [i \in DOMAIN b.joins |-> <<b.joins[i].table, Side(b, b.joins[i])>>]]
      sources(x) == <<source(x.root), source(x.sub), source(x.cte)>>
  IN One(sources(p) # sources(q), Diff("FROM", "from_source_changed", "select-basic", "", {[from |-> p.root.from]}, {[from |-> q.root.from]}))

\* The predicate around a correlated subquery, or the link inside it, changed.
\* The text of the predicate around it is the whole WHERE condition.
CorrelationDiffs(p, q) ==
  LET pairs(x) == {<<a.val, a.col>> : a \in Links(x)}
      context(x) == IF Correlated(x) THEN x.root.where ELSE NoCond
      lost == {a \in Links(p) : <<a.val, a.col>> \notin pairs(q)}
      new == {a \in Links(q) : <<a.val, a.col>> \notin pairs(p)}
      score(a, b) == (IF a.col = b.col THEN 8 ELSE 3) + (IF a.val = b.val THEN 8 ELSE 3)
  IN IF (~Correlated(p) /\ ~Correlated(q)) \/ MembershipDiffs(p, q) # {}
        \/ (context(p) = context(q) /\ pairs(p) = pairs(q)) THEN {}
     ELSE IF lost # {} /\ new # {}
     THEN LET a == CHOOSE a \in lost : TRUE
              b == CHOOSE b \in new : \A c \in new : score(a, c) <= score(a, b)
          IN {[Diff("CORRELATED SUBQUERY", "correlated_predicate_changed", "subquery-correlated", a.val, {a}, {b})
                 EXCEPT !.scope = "nested_correlation"]}
     ELSE {Diff("CORRELATED SUBQUERY", "correlated_predicate_changed", "subquery-correlated", "",
                CondNodes(context(p)), CondNodes(context(q)))}

\* The bodies of a WITH definition.
CteDiffs(p, q) ==
  IF p.recursive /\ (~q.recursive \/ p.cte # q.cte)
  THEN {Diff("CTE_RECURSIVE", "recursive_cte_changed", "cte-recursive", "", BlockNodes(p.cte), BlockNodes(q.cte))}
  ELSE IF p.cte = q.cte THEN {}
  ELSE {Diff("CTE", "cte_changed", "cte", "", BlockNodes(p.cte), BlockNodes(q.cte))}
       \cup (IF p.cte = NoBlock \/ q.cte = NoBlock THEN {}
             ELSE {[d EXCEPT !.scope = "cte"] : d \in ClauseDiffs(p, q, p.cte, q.cte)})

\* A subquery is compared with the detectors of its own, one level deeper.
CorrelationTypes ==
  {"where_changed", "predicate_added", "predicate_missing", "comparison_operator_changed", "comparison_left_column_changed",
   "logical_operator_changed", "join_on_changed", "join_key_column_changed"}
InnerDiffs(p, q) ==
  LET b == p.sub
      c == q.sub
      all == ClauseDiffs(p, q, b, c) \cup ColumnDiffs(b, c) \cup AliasDiffs(b, c) \cup CallDiffs(p, q, "sub")
             \cup GroupDiffs(b, c) \cup HavingDiffs(b, c) \cup OrderDiffs(b, c) \cup ComparisonDiffs(p, q, "sub")
             \cup LogicalDiffs(p, q, "sub") \cup JoinDiffs(b, c) \cup AggregateDiffs(p, q, "sub")
             \cup WindowDiffs(p, q, "sub") \cup CaseDiffs(p, q, "sub")
  IN {[d EXCEPT !.depth = 1, !.scope = IF d.type = "distinct_changed" THEN "subquery" ELSE d.scope] : d \in all}
SubqueryDiffs(p, q) ==
  IF p.sub = q.sub THEN {}
  ELSE IF q.sub = NoBlock
  THEN {[Diff("SUBQUERY", "subquery_removed", "subquery", "", BlockNodes(p.sub), {}) EXCEPT !.depth = 1]}
  ELSE IF p.sub = NoBlock
  THEN {[Diff("SUBQUERY", "subquery_added", "subquery", "", {}, BlockNodes(q.sub)) EXCEPT !.depth = 1]}
  ELSE LET inner == InnerDiffs(p, q) IN
       inner \cup One((\E d \in inner : d.type \in CorrelationTypes) /\ (Correlated(p) \/ Correlated(q)),
                      [Diff("CORRELATED SUBQUERY", "correlated_predicate_changed", "subquery-correlated", "",
                            BlockNodes(p.sub), BlockNodes(q.sub)) EXCEPT !.depth = 1])

RawDiffs(p, q) ==
  LET b == p.root
      c == q.root
  IN ClauseDiffs(p, q, b, c) \cup ColumnDiffs(b, c) \cup AliasDiffs(b, c) \cup CallDiffs(p, q, "root") \cup GroupDiffs(b, c)
     \cup HavingDiffs(b, c) \cup OrderDiffs(b, c) \cup ComparisonDiffs(p, q, "root") \cup NegationDiffs(p, q)
     \cup LogicalDiffs(p, q, "root") \cup JoinDiffs(b, c) \cup SetDiffs(p, q) \cup WindowDiffs(p, q, "root") \cup CteDiffs(p, q)
     \cup CaseDiffs(p, q, "root") \cup AggregateDiffs(p, q, "root") \cup CorrelationDiffs(p, q) \cup SubqueryDiffs(p, q)
     \cup FromDiffs(p, q) \cup PlacementDiffs(b, c) \cup TruthTestDiffs(p, q) \cup MembershipDiffs(p, q)
     \cup LeftColumnDiffs(p, q) \cup AggregateDistinctDiffs(p, q) \cup TopNDiffs(b, c) \cup JoinKeyDiffs(b, c)

\* Replacing the standard comparison of a subquery by the student's one turns
\* the whole query into the student's.
Explains(p, q, d) ==
  \E i \in DOMAIN p.sub.where.atoms :
    /\ Nodes(p, Bare(p.sub.where.atoms[i])) = d.std
    /\ i \in DOMAIN q.sub.where.atoms
    /\ [p EXCEPT !.sub.where.atoms[i] = q.sub.where.atoms[i]] = q
OnlyType(diffs, type) == IF \E d \in diffs : d.type = type THEN {d \in diffs : d.type = type} ELSE diffs
Reduced(p, q, diffs) ==
  LET nested == {d \in diffs : d.type \in {"comparison_operator_changed", "literal_changed"} /\ d.depth > 0}
      alone == Cardinality(nested) = 1 /\ \A d \in nested : Explains(p, q, d) /\ \A n \in d.std \cup d.stu : FnOf(n) = ""
      first == IF alone THEN nested ELSE diffs
      moved == PlacementDiffs(p.root, q.root) # {}
      second == IF ~moved THEN first
                ELSE {d \in first : d.type \notin {"where_changed", "predicate_missing", "predicate_added",
                                                   "join_on_changed", "join_key_column_changed"}}
  IN OnlyType(OnlyType(second, "boolean_projection_truth_test_changed"), "subquery_membership_key_changed")

AstDiffs(p, q) == Reduced(p, q, RawDiffs(p, q))
=============================================================================
