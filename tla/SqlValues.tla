----------------------------- MODULE SqlValues ------------------------------
(***************************************************************************)
(* The three-valued logic in which the validators evaluate predicates on   *)
(* rows (_sql_and, _sql_or, _evaluate_predicate of validators.py).  TRUE    *)
(* and FALSE are 1 and 0, as SQLite returns them; UNKNOWN is NULL.          *)
(***************************************************************************)
EXTENDS Integers

CONSTANT Null   \* SQL NULL

ASSUME NullAssumption == Null \notin Int

Bool(b) == IF b THEN 1 ELSE 0

\* What a WHERE, HAVING or ON keeps.
IsTrue(v) == v # Null /\ v # 0

SqlNot(v) == IF v = Null THEN Null ELSE Bool(v = 0)

SqlAnd(l, r) ==
  IF (l # Null /\ ~IsTrue(l)) \/ (r # Null /\ ~IsTrue(r)) THEN 0
  ELSE IF Null \in {l, r} THEN Null ELSE 1

SqlOr(l, r) ==
  IF IsTrue(l) \/ IsTrue(r) THEN 1
  ELSE IF Null \in {l, r} THEN Null ELSE 0

\* A comparison of two values that are not NULL.
Holds(op, l, r) ==
  CASE op = "EQ" -> l = r
    [] op = "NEQ" -> l # r
    [] op = "GT" -> l > r
    [] op = "GTE" -> l >= r
    [] op = "LT" -> l < r
    [] op = "LTE" -> l =< r

Comparisons == {"EQ", "NEQ", "GT", "GTE", "LT", "LTE"}

Compared(op, l, r) == IF Null \in {l, r} THEN Null ELSE Bool(Holds(op, l, r))

SqlIn(v, items) ==
  IF v = Null THEN Null
  ELSE IF v \in items THEN 1
  ELSE IF Null \in items THEN Null ELSE 0

SqlBetween(v, low, high) ==
  IF Null \in {v, low, high} THEN Null ELSE Bool(low =< v /\ v =< high)

\* _MIRRORED_COMPARISON_TYPES
Mirrored(op) ==
  CASE op = "GT" -> "LT" [] op = "LT" -> "GT"
    [] op = "GTE" -> "LTE" [] op = "LTE" -> "GTE"
    [] op \in {"EQ", "NEQ"} -> op
=============================================================================
