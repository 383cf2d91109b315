--------------------------- MODULE WitnessQueries ---------------------------
(***************************************************************************)
(* What SQLite returns for a query on the rows of a witness world: the      *)
(* measure against which the path validators are checked.  A world has the  *)
(* tables t (columns a, b) and u (columns c, d), each a sequence of rows.   *)
(* A row of the join has the columns of both.                               *)
(***************************************************************************)
EXTENDS SqlExpressions, FiniteSets, SequencesExt

Holding(p, row) == IsTrue(Eval(p, row))

Bag(rows) == [x \in ToSet(rows) |-> Cardinality({i \in DOMAIN rows : rows[i] = x})]
SameBag(r, s) == ToSet(r) = ToSet(s) /\ \A x \in ToSet(r) : Bag(r)[x] = Bag(s)[x]
Column(rows, c) == [i \in DOMAIN rows |-> rows[i][c]]
NonNull(xs) == SelectSeq(xs, LAMBDA x : x # Null)
Unique(xs) == [i \in 1 .. Cardinality(ToSet(xs)) |->
                 xs[CHOOSE k \in DOMAIN xs :
                      xs[k] \notin ToSet(SubSeq(xs, 1, k - 1)) /\ Cardinality(ToSet(SubSeq(xs, 1, k))) = i]]

Total(xs) == FoldLeft(LAMBDA s, x : s + x, 0, xs)
Extreme(fn, xs) == CHOOSE m \in ToSet(xs) : \A x \in ToSet(xs) : IF fn = "MAX" THEN x =< m ELSE m =< x

Both(x, y) == [a |-> x.a, b |-> x.b, c |-> y.c, d |-> y.d]
Blank == [a |-> Null, b |-> Null, c |-> Null, d |-> Null]

\* FROM t, FROM u, or t JOIN u ON q.on.
Source(q, db) ==
  IF q.from # "join" THEN db[q.from]
  ELSE LET matches(x) == SelectSeq([j \in DOMAIN db.u |-> Both(x, db.u[j])], LAMBDA m : Holding(q.on, m))
           left(x) == IF q.side = "LEFT" /\ matches(x) = <<>> THEN <<Both(x, Blank)>> ELSE matches(x)
       IN FlattenSeq([i \in DOMAIN db.t |-> left(db.t[i])])

\* t.o IN (SELECT i FROM u), or EXISTS with i = t.o; q.member is empty without one.
Member(q, row, db) ==
  LET m == q.member
      inner == ToSet(Column(db.u, m.inner))
      v == IF m.via = "IN" THEN SqlIn(row[m.outer], inner)
           ELSE Bool(row[m.outer] # Null /\ row[m.outer] \in inner)
  IN m.via = "" \/ IsTrue(IF m.negated THEN SqlNot(v) ELSE v)

\* t.col op (SELECT fn(c) FROM u); the comparison of an empty u is not true.
AboveScalar(q, row, db) ==
  LET xs == NonNull(Column(db.u, "c"))
  IN q.scalar = <<>> \/ (xs # <<>> /\ IsTrue(Compared(q.scalar[1], row[q.scalar[2]], Extreme(q.scalar[3], xs))))

\* key: column, descending, NULLs first.
Before(key, x, y) ==
  LET v == x[key.col]  w == y[key.col]
  IN IF v = Null \/ w = Null THEN IF key.nulls THEN v = Null /\ w # Null ELSE v # Null /\ w = Null
     ELSE IF key.desc THEN v > w ELSE v < w
Precedes(keys, x, y) ==
  \E k \in DOMAIN keys : Before(keys[k], x, y) /\ \A j \in 1 .. k - 1 : x[keys[j].col] = y[keys[j].col]
Sorted(rows, keys) ==   \* stable
  LET after(i) == Cardinality({j \in DOMAIN rows :
                     Precedes(keys, rows[j], rows[i]) \/ (j < i /\ ~Precedes(keys, rows[i], rows[j]))})
  IN [n \in DOMAIN rows |-> rows[CHOOSE i \in DOMAIN rows : after(i) = n - 1]]

\* agg: function, column ("*" for none), DISTINCT, FILTER.
AggregateOf(agg, rows) ==
  LET kept == SelectSeq(rows, LAMBDA x : Holding(agg.filter, x))
      raw == NonNull(Column(kept, agg.col))
      xs == IF agg.distinct THEN Unique(raw) ELSE raw
  IN IF agg.col = "*" THEN Len(kept)
     ELSE IF agg.fn = "COUNT" THEN Len(xs)
     ELSE IF xs = <<>> THEN Null
     ELSE IF agg.fn = "SUM" THEN Total(xs) ELSE Extreme(agg.fn, xs)

Key(columns, row) == [i \in DOMAIN columns |-> row[columns[i]]]
GroupKeys(columns, rows) == IF columns = <<>> THEN <<<<>>>> ELSE Unique([i \in DOMAIN rows |-> Key(columns, rows[i])])
Group(columns, rows, key) == SelectSeq(rows, LAMBDA x : Key(columns, x) = key)

\* A window function at row i.
Windowed(over, rows, i) ==
  LET part == {j \in DOMAIN rows : Key(over.part, rows[j]) = Key(over.part, rows[i])}
      ahead == {j \in part : Precedes(over.order, rows[j], rows[i])}
  IN IF over.fn = "RANK" THEN 1 + Cardinality(ahead)
     ELSE 1 + Cardinality(ahead \cup {j \in part : j < i /\ ~Precedes(over.order, rows[i], rows[j])})

Numbers(left, right, op, all) ==
  LET times(x) == LET m == Cardinality({i \in DOMAIN left : left[i] = x})
                      n == Cardinality({i \in DOMAIN right : right[i] = x})
                  IN CASE op = "UNION" -> IF all THEN m + n ELSE 1
                       [] op = "INTERSECT" -> IF m > 0 /\ n > 0 THEN 1 ELSE 0
                       [] op = "EXCEPT" -> IF m > 0 /\ n = 0 THEN 1 ELSE 0
      values == SetToSeq(ToSet(left) \cup ToSet(right))
  IN FlattenSeq([i \in DOMAIN values |-> [k \in 1 .. times(values[i]) |-> <<values[i]>>]])

Filtered(q, db) == SelectSeq(Source(q, db), LAMBDA x : Holding(q.where, x) /\ Member(q, x, db) /\ AboveScalar(q, x, db))

\* The groups that pass HAVING, each with its key and what it shows.
GroupRows(q, rows, groups) ==
  LET value(g) == AggregateOf(q.agg, Group(q.group, rows, g))
      passing == SelectSeq(groups, LAMBDA g : q.having = <<>> \/ IsTrue(Compared(q.having[1], value(g), q.having[2])))
  IN [i \in DOMAIN passing |-> SubSeq(passing[i], 1, q.shown) \o (IF q.counts THEN <<value(passing[i])>> ELSE <<>>)]
ItemRows(q, rows) == [i \in DOMAIN rows |-> [k \in DOMAIN q.items |-> Eval(q.items[k], rows[i])]]
WindowRows(q, rows, items) == [i \in DOMAIN rows |-> Append(items[i], Windowed(q.over, rows, i))]

\* What SELECT lists for the rows of FROM and WHERE.
Listed(q, rows, db) ==
  IF q.set.op # "" THEN Numbers(Column(db.t, "a"), Column(db.u, "c"), q.set.op, q.set.all)
  ELSE IF q.agg.fn # "" THEN GroupRows(q, rows, GroupKeys(q.group, rows))
  ELSE IF q.over.fn # "" THEN WindowRows(q, rows, ItemRows(q, rows))
  ELSE ItemRows(q, Sorted(rows, q.order))

Limited(q, xs) == IF q.limit < 0 THEN xs ELSE SubSeq(xs, 1, IF q.limit < Len(xs) THEN q.limit ELSE Len(xs))
Deduplicated(q, xs) == IF q.distinct THEN Unique(xs) ELSE xs
Result(q, db) == Limited(q, Deduplicated(q, Listed(q, Filtered(q, db), db)))

\* The comparison of two results: by position if the query orders its rows.
SameResult(q, r, s) == IF q.order # <<>> THEN r = s ELSE SameBag(r, s)
=============================================================================
