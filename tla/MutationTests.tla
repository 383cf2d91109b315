---------------------------- MODULE MutationTests ----------------------------
(***************************************************************************)
(* The mutation tests of a pair: the student query with one part of the      *)
(* standard put in its place, and, for a clause the student wrote, the       *)
(* student query without it.  Tests are listed in the order they are run.    *)
(***************************************************************************)
EXTENDS AstDifferences

NoQuery == [root |-> NoBlock]
Scopes == <<"root", "cte", "sub">>

Replace == "replace_student_clause_with_standard_clause"
Test(clause, kp, mutant) ==
  [clause |-> clause, kp |-> kp, action |-> Replace, scope |-> "root", mutant |-> mutant, removal |-> NoQuery,
   latent |-> FALSE, bundle |-> FALSE]
If(cond, test) == IF cond THEN <<test>> ELSE <<>>

WithBlock(q, scope, b) ==
  CASE scope = "root" -> [q EXCEPT !.root = b] [] scope = "sub" -> [q EXCEPT !.sub = b] [] OTHER -> [q EXCEPT !.cte = b]
\* Mutant: the WHERE of the block comes along with any other part.
BugTaking(q, scope, b, parts) ==
  WithBlock(q, scope, [part \in DOMAIN b |-> IF part \in parts \cup {"where"} THEN b[part] ELSE BlockAt(q, scope)[part]])

\* The student query with the named parts of one block taken from another block.
Taking(q, scope, b, parts) ==
  WithBlock(q, scope, [part \in DOMAIN b |-> IF part \in parts THEN b[part] ELSE BlockAt(q, scope)[part]])

----------------------------------------------------------------------------
\* _paired_query_blocks: two blocks are paired when they stand at the same
\* place of the tree, its node types included.
Holder(q) == LET c == q.root.where IN CHOOSE i \in DOMAIN c.atoms : IsSub(c.atoms[i])
SubPath(q) ==
  LET c == q.root.where
      i == Holder(q)
  IN <<i = 1, SubSeq(c.ops, IF i = 1 THEN 1 ELSE i - 1, Len(c.ops)), c.atoms[i].op, c.atoms[i].neg>>
PairedAt(p, q, scope) ==
  /\ p.set.op = q.set.op
  /\ scope = "cte" => p.cte # NoBlock /\ q.cte # NoBlock
  /\ scope = "sub" => p.sub # NoBlock /\ q.sub # NoBlock /\ SubPath(p) = SubPath(q)
PairedBlocks(p, q) == SelectSeq(Scopes, LAMBDA scope : PairedAt(p, q, scope))
\* The name of a block: the root is the one that is not below a set operator.
ScopeName(p, scope) == IF scope = "root" /\ p.set.op = "" THEN "root" ELSE "nested"

\* _find_kp_override: the knowledge point of a clause, by what a WHERE holds
\* and by what the block stands in.
Placed(q, scope, kp) ==
  LET holder == q.root.where.atoms[Holder(q)] IN
  CASE scope = "cte" -> IF q.recursive THEN "cte-recursive" ELSE "cte"
    [] scope = "sub" /\ holder.op # "EXISTS" ->
         IF Correlated(q) THEN "subquery-correlated" ELSE IF holder.op = "IN" THEN "subquery-in" ELSE "subquery-scalar"
    [] OTHER -> kp
WhereKp(q, scope) ==
  LET c == BlockAt(q, scope).where
      subs == {a \in ToSet(c.atoms) : IsSub(a)}
      inside == IF subs = {} THEN {} ELSE ToSet(q.sub.where.atoms)
  IN CASE \E a \in ToSet(c.atoms) \cup inside : a.val = "NULL" -> "comp-null"
       [] \E a \in subs : a.op = "IN" /\ a.neg -> "null-handling"
       [] subs # {} /\ Correlated(q) -> "subquery-correlated"
       [] \E a \in subs : a.op = "EXISTS" -> "subquery-exists"
       [] \E a \in subs : a.op = "IN" -> "subquery-in"
       [] subs # {} -> "subquery-scalar"
       [] OTHER -> Placed(q, scope, "where")

\* Clause by clause, in every paired block.
Blank(part) == CASE part \in {"where", "having"} -> NoCond [] part = "group" -> {} [] part = "order" -> <<>> [] OTHER -> ""
ClauseSpecs == <<<<"WHERE", "where", "where">>, <<"GROUP BY", "group-by", "group">>, <<"HAVING", "having", "having">>,
                 <<"ORDER BY", "order-by", "order">>, <<"LIMIT", "limit", "limit">>, <<"OFFSET", "limit", "offset">>>>
ClauseText(q, b, part) == IF part = "where" THEN CondText(q, b.where) ELSE b[part]
\* A WHERE around a subquery takes the FROM it refers to along with it.
WhereParts(p, b, c) ==
  IF b.where # NoCond /\ c.where # NoCond /\ (\E a \in ToSet(b.where.atoms) : IsSub(a) \/ a.op = "IN")
     /\ b.from # c.from /\ b.from.table = c.from.table
  THEN {"where", "from"} ELSE {"where"}
\* A WHERE that holds the subquery brings its own copy of it.
WithWhere(p, q, scope, parts, test) ==
  IF "where" \in parts /\ scope = "root" THEN [test EXCEPT !.mutant.sub = p.sub] ELSE test
Dropping(q, scope, part) ==
  LET bare == WithBlock(q, scope, [BlockAt(q, scope) EXCEPT ![part] = Blank(part)])
  IN IF part = "where" /\ scope = "root" THEN [bare EXCEPT !.sub = NoBlock] ELSE bare
ClauseTest(p, q, scope, spec) ==
  LET b == BlockAt(p, scope)
      c == BlockAt(q, scope)
      part == spec[3]
      parts == IF part = "where" THEN WhereParts(p, b, c) ELSE {part}
      of == IF b[part] # Blank(part) THEN p ELSE q
      kp == IF part = "where" THEN WhereKp(of, scope) ELSE Placed(of, scope, spec[2])
      test == [Test(spec[1], kp, Taking(q, scope, b, parts)) EXCEPT
                 !.scope = ScopeName(p, scope), !.bundle = "from" \in parts,
                 !.removal = IF c[part] = Blank(part) THEN NoQuery ELSE Dropping(q, scope, part)]
  IN If(ClauseText(p, b, part) # ClauseText(q, c, part), WithWhere(p, q, scope, parts, test))
ClauseTests(p, q) ==
  FlattenSeq([i \in 1..Len(PairedBlocks(p, q)) |->
    FlattenSeq([k \in 1..Len(ClauseSpecs) |-> ClauseTest(p, q, PairedBlocks(p, q)[i], ClauseSpecs[k])])])

----------------------------------------------------------------------------
\* Joins: the misplaced predicate first; then the ON conditions by position,
\* the joined tables, the whole structure, the types.
FromAndJoins == {"from", "joins", "items", "where"}
PlacementTests(p, q) ==
  LET placed == PlacementDiffs(p.root, q.root)
      i == CHOOSE i \in DOMAIN p.root.joins : p.root.joins[i].on # q.root.joins[i].on
  IN IF Cardinality(placed) # 1 THEN <<>>
     ELSE <<WithWhere(p, q, "root", {"where"},
             [Test("JOIN ON + WHERE", "join-on",
                   [q EXCEPT !.root.joins[i].on = p.root.joins[i].on, !.root.where = p.root.where])
                EXCEPT !.action = "move_outer_join_predicate_to_standard_clause", !.bundle = TRUE])>>

Sides(b) == [i \in DOMAIN b.joins |-> b.joins[i].side]
PresenceChanged(b, c) == \E i \in Shorter(b.joins, c.joins) : (b.joins[i].on = {}) # (c.joins[i].on = {})
JoinOnTests(p, q) ==
  LET b == p.root
      c == q.root
      ons(x) == [i \in DOMAIN x.joins |-> x.joins[i].on]
      restored == [i \in DOMAIN c.joins |->
                     IF i \in DOMAIN b.joins /\ b.joins[i].on # {} THEN [c.joins[i] EXCEPT !.on = b.joins[i].on] ELSE c.joins[i]]
  IN If(PlacementDiffs(b, c) = {} /\ b.joins # <<>> /\ c.joins # <<>> /\ ons(b) # ons(c)
          /\ ~(Sides(b) # Sides(c) /\ PresenceChanged(b, c)),
        Test("JOIN ON", "join-on", [q EXCEPT !.root.joins = restored]))

Restoring(p, q, parts, test) == WithWhere(p, q, "root", parts, [test EXCEPT !.mutant = Taking(q, "root", p.root, parts)])
JoinClauseTests(p, q) ==
  LET b == p.root
      c == q.root
      tables(x) == [i \in DOMAIN x.joins |-> x.joins[i].table]
      first == IF b.joins # <<>> THEN b.joins[1] ELSE c.joins[1]
  IN IF PairedAt(p, q, "root") /\ tables(b) # tables(c)
     THEN <<Restoring(p, q, FromAndJoins,
              [Test("JOIN", JoinKp(first.side), q) EXCEPT
                 !.action = "restore_join_operator_and_direct_dependencies", !.scope = ScopeName(p, "root"),
                 !.bundle = \E part \in FromAndJoins \ {"joins"} : b[part] # c[part]])>>
     ELSE <<>>
JoinStructureTests(p, q) ==
  LET b == p.root
      c == q.root
      kp == IF b.joins = <<>> THEN "join-inner" ELSE JoinKp(b.joins[1].side)
  IN IF (b.joins # <<>> \/ c.joins # <<>>) /\ (Len(b.joins) # Len(c.joins) \/ b.from # c.from)
     THEN <<Restoring(p, q, FromAndJoins,
              [Test("JOIN STRUCTURE", kp, q) EXCEPT !.action = "restore_standard_join_structure_and_dependent_query_shape",
                                                  !.bundle = Cardinality({part \in FromAndJoins : b[part] # c[part]}) > 1])>>
     ELSE <<>>
JoinTypeTests(p, q) ==
  LET b == p.root
      c == q.root
      restored == [i \in DOMAIN c.joins |->
                     IF i \notin DOMAIN b.joins THEN c.joins[i]
                     ELSE [c.joins[i] EXCEPT !.side = b.joins[i].side,
                                             !.on = IF (b.joins[i].on = {}) # (@ = {}) THEN b.joins[i].on ELSE @]]
  IN IF b.joins # <<>> /\ c.joins # <<>> /\ Sides(b) # Sides(c)
     THEN <<[Test("JOIN TYPE", JoinKp(b.joins[1].side), [q EXCEPT !.root.joins = restored])
               EXCEPT !.action = "restore_join_type_and_direct_dependencies", !.bundle = PresenceChanged(b, c)]>>
     ELSE <<>>

----------------------------------------------------------------------------
\* Block by block: DISTINCT and the projection.
DistinctTest(p, q, scope) ==
  LET b == BlockAt(p, scope)
      c == BlockAt(q, scope)
  IN If(b.distinct # c.distinct,
        [Test("DISTINCT", "distinct", Taking(q, scope, b, {"distinct"})) EXCEPT
           !.scope = ScopeName(p, scope), !.latent = ScopeName(p, scope) = "root",
           !.removal = IF c.distinct THEN WithBlock(q, scope, [c EXCEPT !.distinct = FALSE]) ELSE NoQuery])
ProjectionTest(p, q, scope) ==
  LET b == BlockAt(p, scope)
      c == BlockAt(q, scope)
      aggregating == OfKind(b.items \o c.items, "agg") # <<>>
  IN If(b.items # c.items,
        [Test(IF aggregating THEN "AGGREGATE" ELSE "SELECT", IF aggregating THEN "aggregate" ELSE "select-basic",
              Taking(q, scope, b, {"items"})) EXCEPT !.scope = ScopeName(p, scope)])
EachBlock(p, q, Tests(_, _, _)) ==
  FlattenSeq([i \in 1..Len(PairedBlocks(p, q)) |-> Tests(p, q, PairedBlocks(p, q)[i])])

\* An aggregate condition goes back from WHERE to HAVING; a grouping takes its
\* projection along.
PlacedAggregateTests(p, q) ==
  IF MovedAggregate(p.root, q.root)
  THEN <<Restoring(p, q, {"where", "having"},
           [Test("HAVING", "having", q) EXCEPT !.action = "move_aggregate_predicate_from_where_to_having",
                                          !.bundle = TRUE])>>
  ELSE <<>>
GroupingTests(p, q) ==
  If(p.root.group # q.root.group /\ p.root.items # q.root.items,
     [Test("GROUP BY", "group-by", Taking(q, "root", p.root, {"group", "items"}))
        EXCEPT !.action = "restore_grouping_grain_and_dependent_projection", !.bundle = TRUE])

----------------------------------------------------------------------------
\* Node by node: the places of a query that hold an expression, in the order
\* of a walk.
Places(q) ==
  FlattenSeq([i \in 1..Len(Scopes) |->
    LET b == BlockAt(q, Scopes[i]) IN
    IF b = NoBlock THEN <<>>
    ELSE [k \in 1..Len(b.items) |-> <<Scopes[i], "items", k>>]
         \o [k \in 1..Len(b.where.atoms) |-> <<Scopes[i], "where", k>>]
         \o [k \in 1..Len(b.having.atoms) |-> <<Scopes[i], "having", k>>]])
At(q, place) ==
  LET b == BlockAt(q, place[1]) IN IF place[2] = "items" THEN b.items[place[3]] ELSE b[place[2]].atoms[place[3]]
Put(q, place, node) ==
  LET b == BlockAt(q, place[1]) IN
  WithBlock(q, place[1], IF place[2] = "items" THEN [b EXCEPT !.items[place[3]] = node]
                         ELSE [b EXCEPT ![place[2]].atoms[place[3]] = node])
IsItem(node) == "kind" \in DOMAIN node
IsNode(node, kinds, ops) == IF IsItem(node) THEN node.kind \in kinds ELSE node.op \in ops
\* The n-th such node of the student becomes the n-th of the standard, its
\* name in the result unchanged.
Named(node, old) == IF IsItem(node) /\ IsItem(old) THEN [node EXCEPT !.alias = old.alias] ELSE node
NodePlaces(q, kinds, ops) == SelectSeq(Places(q), LAMBDA place : IsNode(At(q, place), kinds, ops))
NodesOf(q, kinds, ops) ==
  LET found == NodePlaces(q, kinds, ops)
  IN [i \in DOMAIN found |-> LET n == At(q, found[i]) IN IF IsItem(n) THEN Unlabelled(n) ELSE n]
Exchanged(p, q, kinds, ops) ==
  LET from == NodesOf(p, kinds, ops)
      to == NodePlaces(q, kinds, ops)
  IN FoldLeft(LAMBDA x, i : Put(x, to[i], Named(from[i], At(x, to[i]))), q, [i \in Shorter(from, to) |-> i])
NodeTests(p, q, kinds, ops, clause, kp) ==
  LET b == NodesOf(p, kinds, ops)
      c == NodesOf(q, kinds, ops)
  IN If(b # <<>> /\ c # <<>> /\ b # c, Test(clause, kp, Exchanged(p, q, kinds, ops)))

FunctionTests(p, q) ==
  LET b == NodesOf(p, {"call"}, {"REGEXP"})
      c == NodesOf(q, {"call"}, {"REGEXP"})
      changed == {i \in Shorter(b, c) : b[i] # c[i]}
      regex == Cardinality(changed) = 1 /\ \A i \in changed : ~IsItem(b[i]) /\ ~IsItem(c[i])
  IN IF Len(b) # Len(c) THEN <<>>
     ELSE NodeTests(p, q, {"call"}, {"REGEXP"}, IF regex THEN "PREDICATE" ELSE "FUNCTION", IF regex THEN "regex" ELSE "function")
PatternTests(p, q, op, kp) ==
  LET b == NodesOf(p, {}, {op})
      c == NodesOf(q, {}, {op})
  IN IF Len(b) # Len(c) \/ Cardinality({i \in DOMAIN b : b[i] # c[i]}) # 1 THEN <<>>
     ELSE NodeTests(p, q, {}, {op}, "PREDICATE", kp)

\* Aggregates are replaced in the projection and in HAVING alike.
AggregatePlaces(q) ==
  SelectSeq(Places(q), LAMBDA place : LET n == At(q, place) IN IF IsItem(n) THEN n.kind = "agg" ELSE n.fn # "")
AggregateAt(q, place) ==
  LET n == At(q, place) IN [fn |-> n.fn, col |-> n.col, dist |-> IsItem(n) /\ n.dist]
PutAggregate(q, place, g) ==
  LET n == At(q, place) IN
  Put(q, place, IF IsItem(n) THEN [n EXCEPT !.fn = g.fn, !.col = g.col, !.dist = g.dist] ELSE [n EXCEPT !.fn = g.fn, !.col = g.col])
AggregateTests(p, q) ==
  LET all(x) == [i \in DOMAIN AggregatePlaces(x) |-> AggregateAt(x, AggregatePlaces(x)[i])]
      b == all(p)
      c == all(q)
      distinct == (\A i \in DOMAIN b : b[i].fn = c[i].fn) /\ \E i \in DOMAIN b : b[i].dist # c[i].dist
      restored == FoldLeft(LAMBDA x, i : PutAggregate(x, AggregatePlaces(q)[i], b[i]), q, [i \in DOMAIN b |-> i])
  IN IF b = <<>> \/ Len(b) # Len(c) \/ b = c THEN <<>>
     ELSE <<[Test(IF distinct THEN "DISTINCT" ELSE "AGGREGATE", IF distinct THEN "distinct" ELSE "aggregate", restored)
               EXCEPT !.action = "replace_changed_aggregate_functions"]>>

\* A membership key and a correlation are repaired where exactly one difference
\* names them; around an EXISTS its NOT belongs to it.
MembershipTests(p, q) ==
  LET i == CHOOSE i \in DOMAIN p.root.where.atoms : p.root.where.atoms[i] # q.root.where.atoms[i]
  IN IF Cardinality(MembershipDiffs(p, q)) # 1 THEN <<>>
     ELSE <<[Test("IN", "subquery-in", [q EXCEPT !.root.where.atoms[i] = p.root.where.atoms[i]])
               EXCEPT !.action = "restore_subquery_membership_key", !.scope = "nested_membership"]>>
CorrelationTests(p, q) ==
  LET found == CorrelationDiffs(p, q)
      d == CHOOSE d \in found : TRUE
      a == CHOOSE a \in d.std : TRUE
      i == CHOOSE i \in DOMAIN q.sub.where.atoms : q.sub.where.atoms[i] \in d.stu
      k == Holder(q)
      holder == p.root.where.atoms[Holder(p)]
      polarity == holder.op = "EXISTS" /\ q.root.where.atoms[k].op = "EXISTS" /\ holder.neg # q.root.where.atoms[k].neg
      whole == [q EXCEPT !.sub = p.sub, !.root.where.atoms[k].neg = IF polarity THEN holder.neg ELSE @]
      test(mutant, action) ==
        <<[Test("CORRELATED SUBQUERY", "subquery-correlated", mutant) EXCEPT !.action = action, !.scope = "nested_correlation"]>>
  IN IF Cardinality(found) # 1 \/ p.sub = NoBlock \/ q.sub = NoBlock THEN <<>>
     ELSE IF d.scope = "nested_correlation" THEN test([q EXCEPT !.sub.where.atoms[i] = a], "restore_correlated_comparison")
     ELSE test(whole, IF polarity THEN "restore_correlated_predicate" ELSE "restore_correlated_comparison")

----------------------------------------------------------------------------
\* Set operators and WITH definitions.
SetKp(op) == CASE op = "INTERSECT" -> "intersect" [] op = "EXCEPT" -> "except" [] OTHER -> "union"
SetTests(p, q) ==
  LET test(mutant) == Test(p.set.op, SetKp(p.set.op), mutant) IN
  IF p.set.op = "" \/ p = q THEN <<>>
  ELSE IF q.set.op = "" THEN <<[test(p) EXCEPT !.action = "restore_removed_set_operator"]>>
  ELSE IF p.set.op # q.set.op THEN <<test([p EXCEPT !.cte = q.cte, !.recursive = q.recursive])>>
  ELSE IF p.set # q.set THEN <<test([q EXCEPT !.set = p.set])>>
  ELSE If(p.root # q.root \/ p.sub # q.sub, test([q EXCEPT !.root = p.root, !.sub = p.sub]))

CteTests(p, q) ==
  If(~p.recursive /\ ~q.recursive /\ p.cte # q.cte,
     [Test("CTE", "cte", [q EXCEPT !.cte = p.cte, !.root.from = p.root.from])
        EXCEPT !.action = "restore_standard_cte_definitions_and_references", !.bundle = p.root.from # q.root.from])
RecursiveTests(p, q) ==
  LET test(mutant) == Test("RECURSIVE CTE", "cte-recursive", mutant) IN
  IF ~p.recursive /\ ~q.recursive THEN <<>>
  ELSE IF p.cte # NoBlock /\ q.cte # NoBlock /\ p.cte # q.cte THEN <<test([q EXCEPT !.cte = p.cte])>>
  ELSE If(p.recursive # q.recursive, test(p))

Tests(p, q) ==
  ClauseTests(p, q) \o PlacementTests(p, q) \o JoinOnTests(p, q) \o JoinClauseTests(p, q)
  \o EachBlock(p, q, DistinctTest) \o EachBlock(p, q, ProjectionTest)
  \o MembershipTests(p, q) \o CorrelationTests(p, q) \o JoinStructureTests(p, q) \o PlacedAggregateTests(p, q)
  \o GroupingTests(p, q) \o JoinTypeTests(p, q)
  \o NodeTests(p, q, {"case"}, {}, "CASE", "case") \o NodeTests(p, q, {"win"}, {}, "WINDOW", "window-row-number")
  \o FunctionTests(p, q) \o SetTests(p, q) \o CteTests(p, q) \o AggregateTests(p, q) \o RecursiveTests(p, q)
  \o PatternTests(p, q, "LIKE", "like") \o PatternTests(p, q, "GLOB", "glob")
=============================================================================
