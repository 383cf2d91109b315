------------------------------ MODULE SqlNodes -------------------------------
(***************************************************************************)
(* The expressions of a query, and what SQLite makes of the values of the   *)
(* operands of one node.  An expression is a tuple: an operator, then its   *)
(* operands.                                                               *)
(***************************************************************************)
EXTENDS SqlValues, Sequences

None == <<"none">>
Lit(v) == <<"lit", v>>
Col(name) == <<"col", name>>
Leaf(e) == e[1] \in {"none", "lit", "col"}
IsComparison(e) == e[1] \in Comparisons

Operands(e) == {e[i] : i \in 2 .. Len(e)} \ {None}

\* V gives the values of the operands.
NodeValue(e, V) ==
  CASE e[1] = "not" -> SqlNot(V[e[2]])
    [] e[1] = "and" -> SqlAnd(V[e[2]], V[e[3]])
    [] e[1] = "or" -> SqlOr(V[e[2]], V[e[3]])
    [] IsComparison(e) -> Compared(e[1], V[e[2]], V[e[3]])
    [] e[1] = "in" -> SqlIn(V[e[2]], {V[e[i]] : i \in 3 .. Len(e)})
    [] e[1] = "is" -> Bool(V[e[2]] = V[e[3]])
    [] e[1] = "isnt" -> Bool(V[e[2]] # V[e[3]])
    [] e[1] = "istrue" -> Bool(IsTrue(V[e[2]]))
    [] e[1] = "between" -> SqlAnd(Compared("GTE", V[e[2]], V[e[3]]), Compared("LTE", V[e[2]], V[e[4]]))
    [] e[1] = "nullif" -> IF Compared("EQ", V[e[2]], V[e[3]]) = 1 THEN Null ELSE V[e[2]]
    [] e[1] = "coalesce" -> IF V[e[2]] = Null THEN V[e[3]] ELSE V[e[2]]
    [] e[1] = "case" ->    \* <<"case", operand or None, when, then, default>>
         IF (IF e[2] = None THEN IsTrue(V[e[3]]) ELSE Compared("EQ", V[e[2]], V[e[3]]) = 1)
         THEN V[e[4]] ELSE V[e[5]]
=============================================================================
