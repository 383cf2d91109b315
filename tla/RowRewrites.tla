----------------------------- MODULE RowRewrites ----------------------------
(***************************************************************************)
(* The rewrites that _queries_are_supported_equivalent_rewrites recognises  *)
(* inside the expressions of one query: two queries that one of them takes  *)
(* to the same text are called equivalent, and no difference is reported.   *)
(*                                                                         *)
(* A query is its projected expression and its WHERE condition.             *)
(***************************************************************************)
EXTENDS SqlExpressions, NodeRewrites, SequencesExt

\* The projected values of one row: none or one.
Result(q, row) == IF IsTrue(Eval(q.where, row)) THEN <<Eval(q.select, row)>> ELSE <<>>

----------------------------------------------------------------------------
\* The rules of NodeRewrites, and those of IN lists and chains of OR.
RECURSIVE OrTerms(_)
OrTerms(e) == IF e[1] = "or" THEN OrTerms(e[2]) \o OrTerms(e[3]) ELSE <<e>>

LitRank(e) == IF e[2] = Null THEN 99 ELSE e[2]
SortedItems(items) == SetToSortSeq(items, LAMBDA a, b : LitRank(a) < LitRank(b))

EqualityChain(e) ==
  LET terms == OrTerms(e)
  IN IF \A i \in DOMAIN terms :
          terms[i][1] = "EQ" /\ terms[i][3][1] = "lit" /\ terms[i][2] = terms[1][2]
     THEN <<"in", terms[1][2]>> \o SortedItems({terms[i][3] : i \in DOMAIN terms})
     ELSE e

LiteralList(e) ==
  IF \A i \in 3 .. Len(e) : e[i][1] = "lit"
  THEN <<"in", e[2]>> \o SortedItems({e[i] : i \in 3 .. Len(e)}) ELSE e

Replaced(rule, e, filtering) ==
  CASE rule = "in_or" /\ e[1] = "or" -> EqualityChain(e)
    [] rule = "in_or" /\ e[1] = "in" -> LiteralList(e)
    [] OTHER -> Replacement(rule, e, filtering)

\* A replaced node is not searched again, except that pairs of NOT are removed
\* until none is left; a BETWEEN directly under NOT stays.
RECURSIVE Rewritten(_, _, _)
Rewritten(rule, e, filtering) ==
  LET new == Replaced(rule, e, filtering)
  IN IF Leaf(e) THEN e
     ELSE IF rule = "between" /\ e[1] = "not" /\ e[2][1] = "between" THEN e
     ELSE IF new # e
     THEN IF rule = "double_negation" THEN Rewritten(rule, new, filtering) ELSE new
     ELSE [i \in 1 .. Len(e) |-> IF i = 1 THEN e[1] ELSE Rewritten(rule, e[i], filtering)]

----------------------------------------------------------------------------
\* _boolean_dnf_terms and _boolean_dnf_signature
RECURSIVE DnfTerms(_)
DnfTerms(e) ==
  CASE e[1] = "or" -> EitherTerms(DnfTerms(e[2]), DnfTerms(e[3]))
    [] e[1] = "and" -> BothTerms(DnfTerms(e[2]), DnfTerms(e[3]))
    [] OTHER -> {{e}}

Signature(e) == Unabsorbed(DnfTerms(e))

NodeRules == {"nullif_coalesce", "searched_case", "in_or", "singleton_in", "is_true",
              "null_safe", "mirror", "double_negation"}
RowRules == NodeRules \cup {"between", "absorption", "constant_true"}

NoWhere == Lit(1)

\* What a rule compares of a query.
Normal(rule, q) ==
  CASE rule \in NodeRules ->
         [select |-> Rewritten(rule, q.select, FALSE), where |-> Rewritten(rule, q.where, TRUE)]
    [] rule = "between" ->
         [select |-> Rewritten(rule, q.select, FALSE),
          where |-> Signature(Rewritten(rule, q.where, TRUE))]
    [] rule = "absorption" -> [select |-> q.select, where |-> Signature(q.where)]
    [] rule = "constant_true" ->
         IF ConstantTrue(q.where) THEN [q EXCEPT !.where = NoWhere] ELSE q

Changed(rule, q) ==
  CASE rule = "between" ->
         \/ Rewritten(rule, q.select, FALSE) # q.select
         \/ Rewritten(rule, q.where, TRUE) # q.where
    [] rule = "absorption" -> TRUE
    [] OTHER -> Normal(rule, q) # q

Recognised(rule, standard, student) ==
  /\ Normal(rule, standard) = Normal(rule, student)
  /\ CASE rule = "absorption" -> NoWhere \notin {standard.where, student.where}
       [] rule = "between" ->
            /\ NoWhere \notin {standard.where, student.where}
            /\ Changed(rule, standard) # Changed(rule, student)
       [] OTHER -> Changed(rule, standard) \/ Changed(rule, student)

\* The rewrites recognised for a pair: with one of them, nothing is reported.
RewritesOf(standard, student) == {rule \in RowRules : Recognised(rule, standard, student)}

----------------------------------------------------------------------------
\* Conditions that decide the filter themselves, through AND and OR only.
RECURSIVE Deciding(_)
Deciding(e) == {e} \cup (IF e[1] \in {"and", "or"} THEN Deciding(e[2]) \cup Deciding(e[3]) ELSE {})

RECURSIVE Nodes(_)
Nodes(e) == {e} \cup (IF Leaf(e) THEN {} ELSE UNION {Nodes(e[i]) : i \in 2 .. Len(e)})

\* Where a rule that keeps only the truth of a node changes its value, that
\* value decides the filter.
ReplacesOnlyConditions(rule, q) ==
  rule \in TruthOnly =>
    /\ \A e \in Nodes(q.select) : ValueKept(rule, e, FALSE)
    /\ \A e \in Nodes(q.where) \ Deciding(q.where) : ValueKept(rule, e, TRUE)
=============================================================================
