--------------------------- MODULE SqlExpressions ---------------------------
(***************************************************************************)
(* What SQLite computes for an expression on one row.  A row is a function  *)
(* from columns to values of SqlValues.                                     *)
(***************************************************************************)
EXTENDS SqlNodes

RECURSIVE Eval(_, _)
Eval(e, row) ==
  CASE e[1] = "lit" -> e[2]
    [] e[1] = "col" -> row[e[2]]
    [] OTHER -> NodeValue(e, [operand \in Operands(e) |-> Eval(operand, row)])
=============================================================================
