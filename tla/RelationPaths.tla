---------------------------- MODULE RelationPaths ---------------------------
(***************************************************************************)
(* The validators that read a witness world for paths across rows: joins,   *)
(* groups, aggregates, windows, orders, duplicates, set operators,          *)
(* recursion.                                                               *)
(***************************************************************************)
EXTENDS PredicatePaths

\* A pair is <<table, column, table, column>>, written from the left table of
\* its join to the right one.
Usable(pair, w) == Table(w, pair[1]) # <<>> /\ Table(w, pair[3]) # <<>>

JoinPresence(o, w) ==
  LET declared == IF o.pairs # {} THEN o.pairs ELSE o.stuPairs
      usable == {p \in declared : Usable(p, w)}
      keys(t, c) == ToSet(Column(Table(w, t), c)) \ {Null}
      matchedAndDangling(p) ==
        LET l == keys(p[1], p[2])  r == keys(p[3], p[4]) IN l \cap r # {} /\ l # r
  IN IF declared = {} THEN ExactlyShown(o, w)
     ELSE \/ \E p \in usable : matchedAndDangling(p)
          \/ usable = {} /\ w.at.std # w.at.stu /\ AtomicallyShown(o, w)
          \/ usable # {} /\ ExactlyShown(o, w)

\* The pairs of an edge all hold on two rows; no pair: every two rows.
BugOnHolds(pairs, l, r) == \A p \in pairs : l[p[2]] = r[p[4]]   \* NULL = NULL
OnHolds(pairs, l, r) == \A p \in pairs : Compared("EQ", l[p[2]], r[p[4]]) = 1
JoinCondition(o, w) ==
  LET edges == {<<p[1], p[3]>> : p \in o.pairs \cup o.stuPairs}
      onEdge(pairs, e) == {p \in pairs : <<p[1], p[3]>> = e}
      drift(e) == \E l \in ToSet(Table(w, e[1])), r \in ToSet(Table(w, e[2])) :
                    OnHolds(onEdge(o.pairs, e), l, r) # OnHolds(onEdge(o.stuPairs, e), l, r)
  IN o.pairs \cup o.stuPairs # {} /\ ((\E e \in edges : drift(e)) \/ ExactlyShown(o, w))

PlacementPath(o, w) == ~SameBag(Result(o.std, w.db), Result(o.student, w.db))

\* Some group of the one layout lies in two groups of the other.
Splits(rows, one, other) ==
  \E i, j \in DOMAIN rows : Key(one, rows[i]) = Key(one, rows[j]) /\ Key(other, rows[i]) # Key(other, rows[j])
GroupGrain(o, w) ==
  LET rows == Table(w, o.rel)
  IN IF rows = <<>> THEN ExactlyShown(o, w)
     ELSE CASE o.type = "grouping_grain_too_fine" -> Splits(rows, o.group, o.stuGroup)
            [] o.type = "grouping_grain_too_coarse" -> Splits(rows, o.stuGroup, o.group)
            [] OTHER -> Splits(rows, o.group, o.stuGroup) \/ Splits(rows, o.stuGroup, o.group)

----------------------------------------------------------------------------
Groups(columns, rows) ==
  LET keys == GroupKeys(columns, rows) IN [i \in DOMAIN keys |-> Group(columns, rows, keys[i])]

\* The aggregate as _validate_aggregate_boundary computes it: the sum of no
\* value is 0.
BoundaryValue(agg, rows) ==
  LET v == AggregateOf(agg, rows) IN IF agg.fn = "SUM" /\ v = Null THEN 0 ELSE v
\* _aggregate_function_value
FunctionValue(agg, rows) == AggregateOf(agg, rows)

JoinedBoundary(o, w) ==
  LET groups == Groups(o.group, Filtered(o.std, w.db))
  IN \E i \in DOMAIN groups : AggregateOf(o.agg, groups[i]) = o.value

BaseBoundary(o, w, rows) ==
  LET values(c) == ToSet(Column(rows, c))
      groups == Groups(o.group, rows)
  IN IF o.agg.fn = "COUNT" /\ o.agg.col = "*" /\ o.stuAgg.col # "*" THEN Null \in values(o.stuAgg.col)
     ELSE IF o.agg.fn = "COUNT" /\ o.agg.col # "*" /\ o.stuAgg.col = "*"
     THEN Null \in values(o.agg.col) /\ values(o.agg.col) # {Null}
     ELSE IF o.agg.fn = "COUNT" /\ o.agg.distinct /\ ~o.stuAgg.distinct
     THEN Len(NonNull(Column(rows, o.agg.col))) > Cardinality(values(o.agg.col) \ {Null})
     ELSE \/ \E i \in DOMAIN groups : BoundaryValue(o.agg, groups[i]) = o.value
          \/ o.agg.fn = "COUNT" /\ o.agg.col = "*" /\ o.value = 0 /\ AtomicallyShown(o, w)

AggregateBoundary(o, w) ==
  LET rows == Table(w, o.rel)
  IN IF o.rel = "" /\ AtomicallyShown(o, w) THEN TRUE
     ELSE IF rows = <<>> THEN ExactlyShown(o, w)
     ELSE IF o.std.from = "join" THEN JoinedBoundary(o, w)
     ELSE BaseBoundary(o, w, rows)

FunctionSeparation(o, w) ==
  LET rows == Table(w, o.rel)  groups == Groups(o.group, rows)
  IN IF rows = <<>> THEN ExactlyShown(o, w)
     ELSE \E i \in DOMAIN groups : FunctionValue(o.agg, groups[i]) # FunctionValue(o.stuAgg, groups[i])

\* The groups that pass each HAVING, with their aggregates.
FilteredBoundary(o, w) ==
  LET groups(q) == GroupKeys(q.group, Filtered(q, w.db))
      counted(q) == [i \in DOMAIN groups(q) |->
                       Append(groups(q)[i], AggregateOf(q.agg, Group(q.group, Filtered(q, w.db), groups(q)[i])))]
      passing(q) == SelectSeq(counted(q), LAMBDA g : IsTrue(Compared(q.having[1], g[Len(g)], q.having[2])))
  IN /\ o.value \in ToSet(Values(w, o.rel, o.col))
     /\ w.db.t # <<>>
     /\ ~SameBag(passing(o.std), passing(o.student))

\* Some row of the outer table is exactly on the scalar the subquery returns.
ScalarBoundary(o, w) ==
  LET xs == NonNull(Column(w.db.u, o.inner))
  IN xs # <<>> /\ Extreme(o.agg.fn, xs) \in ToSet(Column(w.db.t, o.col))

----------------------------------------------------------------------------
RankingFunctions == {"RANK", "DENSE_RANK", "ROW_NUMBER", "NTILE", "PERCENT_RANK", "CUME_DIST"}
OrderColumns(keys) == [k \in DOMAIN keys |-> keys[k].col]

\* The two layouts put some pair of rows together, and apart.
PartitionDiff(rows, one, other) == Splits(rows, one, other) \/ Splits(rows, other, one)

WindowPaths(o, w) ==
  LET rows == Table(w, o.rel)
      over == o.over  student == o.stuOver
      key(i) == Key(over.part, rows[i])
      order(i) == Key(OrderColumns(over.order), rows[i])
      nullsMoved == o.explicitNulls /\ \E k \in DOMAIN over.order \cap DOMAIN student.order :
                      over.order[k].nulls # student.order[k].nulls
      peers == \E i, j \in DOMAIN rows : i # j /\ key(i) = key(j) /\ order(i) = order(j)
      steps == \E i, j \in DOMAIN rows : key(i) = key(j) /\ order(i) # order(j)
      keysRead == UNION {ToSet(Column(rows, c)) : c \in ToSet(OrderColumns(over.order))}
      needsTie == over.order # <<>> /\ ~nullsMoved /\ {over.fn, student.fn} \cap RankingFunctions # {}
      needsSteps == \/ {over.fn, student.fn} \cap {"FIRST_VALUE", "LAST_VALUE"} # {}
                    \/ over.order # student.order
                    \/ over.frame # student.frame
  IN /\ rows # <<>>
     /\ IF over.part # student.part THEN PartitionDiff(rows, over.part, student.part)
        ELSE over.part = <<>> \/ \E i, j \in DOMAIN rows : key(i) # key(j)
     /\ needsTie => peers
     /\ needsSteps /\ over.order # <<>> => steps
     /\ nullsMoved => Null \in keysRead /\ Cardinality(keysRead \ {Null}) >= 2

\* The keys all rows of a pair must share, then the key that must part them.
OrderPath(o) ==
  LET std == o.std.order  stu == o.mutant.order
      first(P(_)) == CHOOSE k \in DOMAIN std : P(k) /\ \A j \in 1 .. k - 1 : ~P(j)
      cut(keys, k) == [prefix |-> SubSeq(keys, 1, k - 1), key |-> keys[k]]
  IN CASE o.type = "order_direction_changed" -> cut(std, first(LAMBDA k : std[k].desc # stu[k].desc))
       [] o.type = "order_nulls_changed" -> cut(std, first(LAMBDA k : std[k].nulls # stu[k].nulls))
       [] o.type = "order_by_tiebreaker_missing" -> cut(std, Len(stu) + 1)
       [] o.type = "order_by_key_added" -> cut(stu, Len(std) + 1)
\* An order without a row to read is judged by the two queries; one by an
\* expression needs the replacement test as well.
ExecutedOrder(o, w) == w.at.std # w.at.stu /\ (Table(w, o.rel) # <<>> /\ o.unbound => AtomicallyShown(o, w))

OrderRows(o, w) ==
  LET rows == Table(w, o.rel)
      path == OrderPath(o)
      prefix(i) == Key(OrderColumns(path.prefix), rows[i])
      v(i) == rows[i][path.key.col]
  IN IF rows = <<>> \/ o.type = "order_by_changed" \/ o.unbound THEN ExecutedOrder(o, w)
     ELSE IF o.type = "order_nulls_changed"
     THEN \E i, j \in DOMAIN rows : v(i) = Null /\ v(j) # Null
     ELSE \E i, j \in DOMAIN rows : prefix(i) = prefix(j) /\ Null \notin {v(i), v(j)} /\ v(i) # v(j)

----------------------------------------------------------------------------
\* The paths on which two operators, or UNION and UNION ALL, are apart.
RequiredPaths(o) ==
  CASE o.std.set.op = o.mutant.set.op -> {"overlap"}
    [] {o.std.set.op, o.mutant.set.op} = {"EXCEPT", "INTERSECT"} -> {"overlap", "left_only"}
    [] OTHER -> {"overlap", "left_only", "right_only"}

OneSideRepeats(r, s) ==
  ToSet(r) = ToSet(s) /\ (Len(r) > Cardinality(ToSet(r))) # (Len(s) > Cardinality(ToSet(s)))

Times(xs, x) == Cardinality({i \in DOMAIN xs : xs[i] = x})
BugCounted(left, right, set) ==   \* ALL forgotten
  LET chosen == {x \in ToSet(left) \cup ToSet(right) : set.op # "EXCEPT" \/ x \notin ToSet(right)} IN [x \in chosen |-> 1]
Counted(left, right, set) ==
  LET times(x) == LET m == Times(left, x)  n == Times(right, x) IN
        CASE set.op = "UNION" -> IF set.all THEN m + n ELSE 1
          [] set.op = "INTERSECT" -> IF set.all THEN (IF m < n THEN m ELSE n) ELSE IF m > 0 /\ n > 0 THEN 1 ELSE 0
          [] set.op = "EXCEPT" -> IF set.all THEN m - n ELSE IF n = 0 THEN 1 ELSE 0
  IN [x \in {x \in ToSet(left) \cup ToSet(right) : times(x) > 0} |-> times(x)]

\* Both operators at hand: the two branches are executed, and must be the same.
SetBranches(o, w) ==
  LET left == Column(w.db.t, "a")  right == Column(w.db.u, "c")
  IN /\ w.db.t # <<>> /\ w.db.u # <<>>
     /\ Counted(left, right, o.std.set) # Counted(left, right, o.student.set)
SetMetadata(o, w) ==
  LET left == ToSet(Values(w, "t", "a"))  right == ToSet(Values(w, "u", "c"))
      present == (IF left \cap right # {} THEN {"overlap"} ELSE {})
                 \cup (IF left \ right # {} THEN {"left_only"} ELSE {})
                 \cup (IF right \ left # {} THEN {"right_only"} ELSE {})
  IN IF left = {} \/ right = {} THEN OneSideRepeats(w.at.std, w.at.stu)
     ELSE RequiredPaths(o) \subseteq present
SetPaths(o, w) == IF o.inCte THEN SetMetadata(o, w) ELSE SetBranches(o, w)

Repeated(xs) == \E i, j \in DOMAIN xs : i # j /\ xs[i] = xs[j]
Duplicate(o, w) ==
  IF o.type # "distinct_changed" THEN Repeated(Values(w, o.rel, o.col))
  ELSE IF o.scope = "root" THEN OneSideRepeats(w.at.std, w.at.stu)
  ELSE OneSideRepeats(Result(o.std, w.db), Result(o.mutant, w.db))

\* A projected column that could be told apart from another.
Discriminator(o, w) == Cardinality(ToSet(Values(w, o.rel, o.col)) \ {Null}) >= 2
ProjectionShape(o, w) ==
  w.at.std # <<>> /\ w.at.stu # <<>> /\ Len(w.at.std[1]) # Len(w.at.stu[1])
ProjectionValues(o, w) == (w.at.std # <<>> \/ w.at.stu # <<>>) /\ w.at.std # w.at.stu
LimitPaths(o, w) == w.at.std # w.at.stu

CteBase(o, w) == w.at.std # <<>> \/ \E t \in DOMAIN w.db : w.db[t] # <<>>
\* a is the key and b the reference to the parent; without such a table, the
\* result of the recursion itself.
Recursion(o, w) ==
  LET rows == Table(w, o.rel)
      ids == ToSet(Column(rows, "a")) \ {Null}
  IN IF rows # <<>> THEN Null \in ToSet(Column(rows, "b")) /\ ids \cap ToSet(Column(rows, "b")) # {}
     ELSE Cardinality(ToSet(w.at.std)) >= 2
=============================================================================
