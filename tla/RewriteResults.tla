---------------------------- MODULE RewriteResults ----------------------------
(***************************************************************************)
(* What the rewrites of RowRewrites do to the rows that a query shows: the  *)
(* screen of RewriteScreen, whose recognisers of expressions are those.     *)
(***************************************************************************)
EXTENDS RewriteScreen, RowRewrites

CONSTANT Rows   \* rows: functions from columns to values

\* The row agrees under both queries of a row pair.
AgreeOnRow(row) == Result(standard, row) = Result(student, row)

\* A pair of queries that is called equivalent for its expressions gives the
\* same value on every row, NULLs included, when the rules that only keep the
\* truth of a condition replaced nothing but conditions.
ExpressionRewritesAgree ==
  Screened /\ standard # NoQuery =>
    \A rule \in rewrites :
      ReplacesOnlyConditions(rule, standard) /\ ReplacesOnlyConditions(rule, student) =>
        \A row \in Rows : AgreeOnRow(row)

\* _queries_are_supported_equivalent_rewrites recognises "narrow,
\* semantics-preserving rewrites": whatever it recognises agrees.
RewritesPreserveResults ==
  Screened =>
    IF form = NoForm THEN \A row \in Rows : AgreeOnRow(row)
    ELSE \A t \in Tables : Admissible(form, t[1], t[2]) => AgreeOnTables(t)
=============================================================================
