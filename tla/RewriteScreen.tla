---------------------------- MODULE RewriteScreen ----------------------------
(***************************************************************************)
(* The first step of extract_ast_diffs: a pair that some recogniser calls   *)
(* equivalent has no differences, hence no obligations, no worlds of its    *)
(* own, and no explanation.  A pair is two queries that differ in their     *)
(* expressions, or one form of RelationalRewrites.                          *)
(***************************************************************************)
EXTENDS RelationalRewrites

CONSTANTS
  RowQueries,            \* queries with expressions over the columns of a row
  RowRewritesOf(_, _),   \* the recognisers that accept a pair of them
  SomeForms,             \* forms of whole queries
  Tables                 \* pairs of tables <<r, s>>

Value == Int \cup {Null}
TableRow == [k : Value, v : Value]

\* A table is a sequence of rows: both have the columns the forms are about.
ASSUME TablesAssumption ==
  /\ SomeForms \subseteq Forms
  /\ Tables \subseteq Seq(TableRow) \X Seq(TableRow)

VARIABLES
  pc,
  standard, student,   \* the two queries of a row pair, else NoQuery
  form,                \* the form of another pair, else NoForm
  rewrites             \* the recognisers that called the pair equivalent

NoQuery == [select |-> <<"none">>, where |-> <<"none">>]
NoForm == [rule |-> "none"]

vars == <<pc, standard, student, form, rewrites>>

Init ==
  /\ pc = "screen"
  /\ rewrites = {}
  /\ \/ standard \in RowQueries /\ student = NoQuery /\ form = NoForm
     \/ standard = NoQuery /\ student = NoQuery /\ form \in SomeForms

\* A student query arrives for the reference query, and every recogniser is asked.
ScreenRows ==
  /\ pc = "screen" /\ standard # NoQuery
  /\ \E q \in RowQueries :
       /\ student' = q
       /\ rewrites' = RowRewritesOf(standard, q)
  /\ pc' = "screened"
  /\ UNCHANGED <<standard, form>>

ScreenForm ==
  /\ pc = "screen" /\ form # NoForm
  /\ rewrites' = IF FormAccepted(form) THEN {form.rule} ELSE {}
  /\ pc' = "screened"
  /\ UNCHANGED <<standard, student, form>>

Next == ScreenRows \/ ScreenForm
Spec == Init /\ [][Next]_vars

----------------------------------------------------------------------------
\* Both queries of a form show the same.
AgreeOnTables(t) == LET rows == FormRows(form, t[1], t[2]) IN rows[1] = rows[2]

Screened == pc = "screened" /\ rewrites # {}

\* A pair of queries that is called equivalent for its form, and differs in
\* nothing else than its recogniser looks at (Unseen), gives the same bag of rows,
\* or settles the same order of them, on all tables its schema admits.
FormRewritesAgree ==
  Screened /\ form # NoForm /\ Covered(form) =>
    \A t \in Tables : Admissible(form, t[1], t[2]) => AgreeOnTables(t)
=============================================================================
