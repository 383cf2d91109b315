----------------------------- MODULE NodeRewrites -----------------------------
(***************************************************************************)
(* The rewrites that look at one node of an expression and its operands,    *)
(* and what the recognisers do with a condition as a set of disjuncts.      *)
(***************************************************************************)
EXTENDS SqlNodes

\* Rules that replace a node where they find it.  filtering: the node has a
\* WHERE among its ancestors.
IsNull(e) == <<"is", e, Lit(Null)>>

BugCaseReplacement(e) ==   \* the default may be anything
  IF e[2] = None /\ e[3][1] = "EQ" /\ e[4] = Lit(Null) THEN <<"nullif", e[3][2], e[3][3]>> ELSE e

CaseReplacement(e) ==
  LET when == e[3]  then == e[4]  default == e[5]
  IN IF e[2] # None THEN e
     ELSE IF when[1] = "EQ" /\ then = Lit(Null) /\ when[2] = default
     THEN <<"nullif", default, when[3]>>
     ELSE IF when[1] = "EQ" /\ then = Lit(Null) /\ when[3] = default
     THEN <<"nullif", default, when[2]>>
     ELSE IF when[1] = "is" /\ when[3] = Lit(Null) /\ when[2] = default
     THEN <<"coalesce", default, then>>
     ELSE e

SearchedCase(e) ==
  IF e[2][1] = "col" /\ e[3][1] = "lit"
  THEN <<"case", None, <<"EQ", e[2], e[3]>>, e[4], e[5]>> ELSE e

\* The operands in the order of their text: a number sorts before a name.
MirroredOperands(e) ==
  IF e[2][1] = "col" /\ e[3][1] = "lit" THEN <<Mirrored(e[1]), e[3], e[2]>> ELSE e

NullSafe(e, filtering) ==
  LET test == IF e[2] = Lit(Null) THEN IsNull(e[3]) ELSE IsNull(e[2])
  IN IF Lit(Null) \in {e[2], e[3]}
     THEN IF e[1] = "is" THEN test ELSE <<"not", test>>
     ELSE IF e[1] = "is" /\ filtering /\ "lit" \in {e[2][1], e[3][1]}
     THEN <<"EQ", e[2], e[3]>> ELSE e

\* BETWEEN is the conjunction of its two inclusive comparisons.
ClosedRange(e) == <<"and", <<"GTE", e[2], e[3]>>, <<"LTE", e[2], e[4]>>>>

Replacement(rule, e, filtering) ==
  CASE rule = "nullif_coalesce" /\ e[1] = "case" -> CaseReplacement(e)
    [] rule = "searched_case" /\ e[1] = "case" -> SearchedCase(e)
    [] rule = "singleton_in" /\ e[1] = "in" ->
         IF Len(e) = 3 /\ e[3][1] = "lit" /\ filtering THEN <<"EQ", e[2], e[3]>> ELSE e
    [] rule = "is_true" /\ e[1] = "istrue" -> IF filtering THEN e[2] ELSE e
    [] rule = "null_safe" /\ e[1] \in {"is", "isnt"} -> NullSafe(e, filtering)
    [] rule = "mirror" /\ IsComparison(e) -> MirroredOperands(e)
    [] rule = "double_negation" /\ e[1] = "not" -> IF e[2][1] = "not" THEN e[2][2] ELSE e
    [] rule = "between" /\ e[1] = "between" -> ClosedRange(e)
    [] OTHER -> e

\* Rules that may change the value of a node, and keep only whether it is TRUE.
TruthOnly == {"is_true", "null_safe", "double_negation"}

BooleanValued(e) == ~Leaf(e) /\ e[1] \notin {"nullif", "coalesce", "case"}

\* Such a rule leaves the value of a node alone.
ValueKept(rule, e, filtering) ==
  \/ Leaf(e)
  \/ Replacement(rule, e, filtering) = e
  \/ rule = "null_safe" /\ Lit(Null) \in {e[2], e[3]}
  \/ rule = "double_negation" /\ BooleanValued(e[2][2])

\* WHERE 1 = 1 and its like.
ConstantTrue(e) ==
  e[1] = "EQ" /\ e[2][1] = "lit" /\ e[3][1] = "lit" /\ e[2] = e[3] /\ e[2] # Lit(Null)

----------------------------------------------------------------------------
\* A condition as its disjuncts, each a set of conditions.
EitherTerms(l, r) == l \cup r
BothTerms(l, r) == {s \cup t : s \in l, t \in r}

\* Without the disjuncts that another one implies.
Unabsorbed(terms) == {term \in terms : ~ \E other \in terms : other # term /\ other \subseteq term}
===============================================================================
