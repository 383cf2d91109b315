--------------------------- MODULE PredicatePaths ---------------------------
(***************************************************************************)
(* The validators that read the rows of a witness world for a predicate:    *)
(* a world serves an obligation only if the rows take the paths on which    *)
(* the standard and the student query are apart.                            *)
(*                                                                         *)
(* An obligation is a record o; w.db holds the rows, w.at the latest        *)
(* execution: the results std and stu, and the atomic test of o, in which   *)
(* only its difference is replaced.                                         *)
(***************************************************************************)
EXTENDS WitnessQueries

CONSTANT Unsupported   \* _UNSUPPORTED_TRUTH_VALUE

Table(w, rel) == IF rel \in DOMAIN w.db THEN w.db[rel] ELSE <<>>

\* A column without a relation is read from the only table that has it.
Values(w, rel, col) ==
  LET having == {t \in DOMAIN w.db : w.db[t] # <<>> /\ col \in DOMAIN w.db[t][1]}
      owner == IF rel # "" THEN having \cap {rel} ELSE IF Cardinality(having) = 1 THEN having ELSE {}
  IN IF owner = {} THEN <<>> ELSE Column(w.db[CHOOSE t \in owner : TRUE], col)

\* The replacement test of this very difference showed it.
BugAtomicallyShown(o, w) == w.at.differ   \* any difference of the two results
AtomicallyShown(o, w) == w.at.differ /\ w.at.test.supported /\ w.at.test.changed

\* _exact_atomic_execution_distinguished: a replacement that could not be
\* executed counts too, if the two queries differ.
ExactlyShown(o, w) == w.at.differ /\ (w.at.test.supported \/ w.at.test.failed) /\ w.at.test.changed

----------------------------------------------------------------------------
\* The row-level evaluator.
Operand(e, row) == CASE e[1] = "col" -> row[e[2]] [] e[1] = "lit" -> e[2] [] OTHER -> Unsupported

RECURSIVE Truth(_, _)
Truth(p, row) ==
  LET l == Operand(p[2], row)
      rest == [i \in 1 .. Len(p) - 2 |-> Operand(p[i + 2], row)]
      atom(v) == IF Unsupported \in {l} \cup ToSet(rest) THEN Unsupported ELSE v
      left == Truth(p[2], row)
      right == Truth(p[3], row)
  IN CASE p[1] \in {"and", "or"} ->
            IF Unsupported \in {left, right} THEN Unsupported
            ELSE IF p[1] = "and" THEN SqlAnd(left, right) ELSE SqlOr(left, right)
       [] p[1] = "not" -> IF left = Unsupported THEN left ELSE SqlNot(left)
       [] p[1] = "col" -> IF row[p[2]] = Null THEN Null ELSE Bool(row[p[2]] # 0)
       [] p[1] \in Comparisons -> IF Unsupported \in {l, rest[1]} THEN Unsupported ELSE Compared(p[1], l, rest[1])
       [] p[1] = "is" -> atom(Bool(l = rest[1]))
       [] p[1] = "isnt" -> atom(Bool(l # rest[1]))
       [] p[1] = "between" -> IF Unsupported \in {l, rest[1], rest[2]} THEN Unsupported ELSE SqlBetween(l, rest[1], rest[2])
       [] p[1] = "in" -> atom(SqlIn(l, ToSet(rest)))
       [] OTHER -> Unsupported

RECURSIVE Leaves(_)
Leaves(p) == IF p[1] \in {"and", "or"} THEN Leaves(p[2]) \o Leaves(p[3]) ELSE <<p>>
RECURSIVE ColumnsOf(_)
ColumnsOf(e) ==
  IF e[1] = "col" THEN {e[2]} ELSE IF e[1] \in {"lit", "none"} THEN {}
  ELSE UNION {ColumnsOf(e[i]) : i \in 2 .. Len(e)}

Apart(p, q, row) == IsTrue(Truth(p, row)) # IsTrue(Truth(q, row))
Unread(preds, rows) == {i \in DOMAIN rows : \E p \in preds : Truth(p, rows[i]) = Unsupported}
RowsWhere(p, v, rows) == {i \in DOMAIN rows : Truth(p, rows[i]) = v}

Assignments == {<<1, 1>>, <<1, 0>>, <<0, 1>>, <<0, 0>>}
TruthTable(o, w) ==
  LET rows == Table(w, o.rel)
      leaves == Leaves(o.p)
      unread == Unread(ToSet(leaves) \cup {o.p, o.q}, rows)
      read == DOMAIN rows \ unread
      seen == {[k \in DOMAIN leaves |-> Truth(leaves[k], rows[i])] : i \in read}
      binary == Len(leaves) = 2 /\ Cardinality(ColumnsOf(o.p)) = 2
                  /\ \A k \in DOMAIN leaves : Cardinality(ColumnsOf(leaves[k])) = 1
      shown == \E i \in read : Apart(o.p, o.q, rows[i])
  IN rows # <<>> /\ \/ shown /\ (binary => Assignments \subseteq seen)
                    \/ unread # {} /\ AtomicallyShown(o, w)

PredicateRows(o, w) ==
  LET rows == Table(w, o.rel)
      met == RowsWhere(o.p, 1, rows)
  IN /\ met # {} /\ met # DOMAIN rows
     /\ Unread({o.p} \cup (IF o.inContext THEN {o.std.where, o.student.where} ELSE {}), rows) = {}
     /\ o.inContext => \E i \in DOMAIN rows : Apart(o.std.where, o.student.where, rows[i])

\* p, q: the FILTER conditions, or Lit(1) where there is none.
FilterRows(o, w) ==
  LET rows == Table(w, o.rel)
      bothWays(p) == p = Lit(1) \/ (RowsWhere(p, 1, rows) # {} /\ RowsWhere(p, 1, rows) # DOMAIN rows)
  IN /\ Unread({o.p, o.q}, rows) = {}
     /\ \E i \in DOMAIN rows : Apart(o.p, o.q, rows[i])
     /\ bothWays(o.p) /\ bothWays(o.q)

SubqueryPair(o, w) == w.at.std # w.at.stu /\ ExactlyShown(o, w)

\* listed: the standard's list; apart: the members of one list only.
ListMembership(o, w) ==
  LET vs == ToSet(Values(w, o.rel, o.col))
  IN IF o.apart # {} THEN vs \cap o.apart # {}
     ELSE vs \cap o.listed # {} /\ (vs \ o.listed) \ {Null} # {}

\* A pattern is the set of values it matches (LIKE, GLOB, REGEXP).
PatternSeparation(o, w) ==
  LET matches(pattern, negated, v) == (v \in pattern) # negated
  IN \E v \in ToSet(Values(w, o.rel, o.col)) \ {Null} :
       matches(o.pattern, o.negated, v) # matches(o.studentPattern, o.studentNegated, v)

\* stdRight, stuRight: the column compared with, "" for the literal o.value.
NullSafeRows(o, w) ==
  LET rows == Table(w, o.rel)
      rightOf(c, row) == IF c = "" THEN o.value ELSE row[c]
      holds(op, l, r) == IF op = "is" THEN Bool(l = r) ELSE IF op = "isnt" THEN Bool(l # r) ELSE Compared(op, l, r)
      v(i) == rows[i][o.col]
      r(i) == rightOf(o.stdRight, rows[i])
      some(P(_)) == \E i \in DOMAIN rows : P(i)
      apart(i) == IsTrue(holds(o.stdOp, v(i), r(i))) # IsTrue(holds(o.stuOp, v(i), rightOf(o.stuRight, rows[i])))
      null(i) == v(i) = Null
      same == o.stdRight # "" /\ o.stdRight = o.stuRight
  IN /\ some(apart)
     /\ IF same /\ o.stdRight # o.col
        THEN /\ some(LAMBDA i : v(i) = Null /\ r(i) = Null)
             /\ some(LAMBDA i : (v(i) = Null) # (r(i) = Null))
             /\ some(LAMBDA i : v(i) # Null /\ v(i) = r(i))
             /\ some(LAMBDA i : v(i) # Null /\ r(i) # Null /\ v(i) # r(i))
        ELSE /\ some(null)
             /\ some(LAMBDA i : v(i) # Null /\ v(i) # o.value)
             /\ same \/ some(LAMBDA i : v(i) = o.value)

----------------------------------------------------------------------------
MembershipRows(o, w) ==
  LET outer == Values(w, "t", o.outer)
      inner == Values(w, "u", o.inner)
      known(xs) == ToSet(xs) \ {Null}
      overlap == known(outer) \cap known(inner)
      drifted == o.stuOuter # o.outer \/ o.stuInner # o.inner
      student == known(Values(w, "t", o.stuOuter)) \cap known(Values(w, "u", o.stuInner))
  IN /\ outer # <<>> /\ inner # <<>> /\ known(inner) # {}
     /\ IF drifted THEN overlap # student ELSE known(outer) # {}
     /\ o.innerNull => Null \in ToSet(inner)
     /\ o.outerNull => Null \in ToSet(outer)

\* whens: the standard's conditions; required: the branches a row must take
\* (all of them if none is named).  A branch counts as taken by every row
\* that meets its condition, whichever branches come first.
CaseBranches(o, w) ==
  LET rows == Table(w, o.rel)
      whens == ToSet(o.whens)
      unread == Unread(whens, rows)
      read == DOMAIN rows \ unread
      hit(k) == \E i \in read : Truth(o.whens[k], rows[i]) = 1
      missed == {i \in read : \A p \in whens : Truth(p, rows[i]) # 1}
      named == IF o.required = {} THEN DOMAIN o.whens ELSE o.required
  IN IF rows = <<>> THEN o.type = "case_else_missing" /\ ExactlyShown(o, w)
     ELSE \/ missed # {} /\ \A k \in named : hit(k)
          \/ (unread # {} \/ o.qualified) /\ ExactlyShown(o, w)

Boundary(o, w) ==
  LET physical == Values(w, o.rel, o.col)
      narrow == w.at.std # <<>> /\ \A i \in DOMAIN w.at.std : Len(w.at.std[i]) = 1
      vs == IF physical # <<>> THEN ToSet(physical)
            ELSE IF narrow THEN {w.at.std[i][1] : i \in DOMAIN w.at.std} ELSE {}
  IN IF o.computed THEN o.value \notin vs /\ vs \ {Null} # {} /\ w.at.differ
     ELSE o.value \in vs \/ AtomicallyShown(o, w)

NullAndOther(o, w) ==
  LET vs == ToSet(Values(w, o.rel, o.col)) IN Null \in vs /\ vs # {Null}
NullTest(o, w) == Values(w, o.rel, o.col) # <<>> /\ w.at.std # w.at.stu

\* A projected condition p against p IS TRUE, in position o.value.
ProjectedTruth(o, w) ==
  LET rows == Table(w, o.rel)
      nulls(rs) == Cardinality({i \in DOMAIN rs : rs[i][o.value] = Null})
      bare == IF o.stdIsTrue THEN w.at.stu ELSE w.at.std
      test == IF o.stdIsTrue THEN w.at.std ELSE w.at.stu
  IN /\ \A v \in {0, 1, Null} : RowsWhere(o.p, v, rows) # {}
     /\ Unread({o.p}, rows) = {}
     /\ nulls(bare) > nulls(test)
=============================================================================
