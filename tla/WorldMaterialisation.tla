------------------------ MODULE WorldMaterialisation ------------------------
(***************************************************************************)
(* The rows of one witness world from the suite to the learner: built and   *)
(* constrained by generate_witness_suite, built again by                    *)
(* _regenerate_witness_world for every retry, and shown by _extract_witness *)
(* of error_diagnosis.py from the report the constraints left behind.       *)
(*                                                                         *)
(* One table with one column stands for the database: a database is the     *)
(* sequence of its rows' values.  The base rows with all probes, and the    *)
(* final topology pass, may leave any database at all.                      *)
(*                                                                         *)
(* An operator whose name starts with Bug is a defect put in place of a     *)
(* definition to see that a property notices; nothing uses it.              *)
(***************************************************************************)
EXTENDS Integers, Sequences, Functions

CONSTANTS
  Worlds,        \* worlds: [minimum, maximum, constraints, obligations], see WorldsAssumption
  MaxAttempts,   \* _MAX_WITNESS_ATTEMPTS
  BaseValues,    \* the values generation and finalisation write
  Null           \* SQL NULL

ASSUME MaterialisationAssumption == MaxAttempts \in Nat \ {0} /\ 0 # Null

Relations == {"equals", "is_null", "not_null"}

\* What _semantic_cell_constraints declares: equality is declared with a value,
\* and the value is not NULL.
ASSUME WorldsAssumption ==
  \A w \in Worlds :
    /\ w.minimum \in Nat /\ w.maximum \in Nat
    /\ w.constraints \in Seq(Range(w.constraints))
    /\ \A c \in Range(w.constraints) :
         /\ c.relation \in Relations /\ c.window \in BOOLEAN
         /\ c.relation = "equals" => c.value # Null

VARIABLES
  world,      \* the world's declarations
  pc,
  attempt,
  candidate,  \* the database under construction
  targeted,   \* did bounded feedback handle an obligation
  served,     \* obligations bounded feedback has been through
  database,   \* world.database
  report,     \* world.execution["constraint_application"]
  selected,   \* the attempt selected so far, and did it separate the queries
  shownDb     \* the database of that attempt

vars == <<world, pc, attempt, candidate, targeted, served, database, report,
          selected, shownDb>>

----------------------------------------------------------------------------
\* _dynamic_row_count picks the number of rows, at most the world's limit.
Databases ==
  UNION {[1 .. n -> BaseValues] : n \in world.minimum .. world.maximum}

\* _row_index, counting rows from 1; 0 when the table has no such row.
RowIndex(slot, n) ==
  IF n = 0 THEN 0
  ELSE IF slot \in {"first_row", "null_row", "below_boundary"} THEN 1
  ELSE IF slot \in {"second_row", "non_null_row", "boundary_row", "match_row"}
  THEN IF n >= 2 THEN 2 ELSE 1
  ELSE IF slot \in {"last_row", "dangling_row", "unmatched_row"} THEN n
  ELSE CASE slot = "row_slot_0" -> 1
         [] slot = "row_slot_1" -> IF n >= 2 THEN 2 ELSE 0
         [] slot = "row_slot_2" -> IF n >= 3 THEN 3 ELSE 0
         [] OTHER -> 0

\* What a constraint makes of the value it finds.
Constrained(c, before) ==
  CASE c.relation = "equals" -> c.value
    [] c.relation = "is_null" -> Null
    [] c.relation = "not_null" -> IF before = Null THEN 0 ELSE before

NoReport == [applied |-> <<>>, satisfied |-> TRUE]

ApplyOne(state, c) ==
  LET row == RowIndex(c.slot, Len(state.db))
      after == Constrained(c, state.db[row])
  IN IF row = 0
     THEN [db |-> state.db,
           report |-> [applied |-> state.report.applied, satisfied |-> FALSE]]
     ELSE [db |-> [state.db EXCEPT ![row] = after],
           report |-> [applied |-> Append(state.report.applied,
                                     [row |-> row, obligation |-> c.obligation, after |-> after]),
                       satisfied |-> state.report.satisfied]]

\* apply_cell_constraints: the chosen constraints in order, and the report.
ApplyChosen(db, constraints, chosen) ==
  LET done[n \in 0 .. Len(constraints)] ==
        IF n = 0 THEN [db |-> db, report |-> NoReport]
        ELSE IF constraints[n] \in chosen THEN ApplyOne(done[n - 1], constraints[n])
        ELSE done[n - 1]
  IN done[Len(constraints)]

ApplyAll(db, constraints) == ApplyChosen(db, constraints, Range(constraints))

WindowOwned(constraints) == {c \in Range(constraints) : c.window}

\* _finalize_generated_witness_data: materialisers rewrite cells, and a global
\* COUNT(*) boundary also drops rows.
Finalized(db) ==
  UNION {{final \in [1 .. n -> BaseValues \cup Range(db)] :
            \A r \in 1 .. n : final[r] \in BaseValues \cup {db[r]}}
         : n \in world.minimum .. Len(db)}

----------------------------------------------------------------------------
Put(db, values) == [r \in DOMAIN db |-> IF r <= Len(values) THEN values[r] ELSE db[r]]

\* Does apply_bounded_feedback know what to do for the obligation here.
Handles(o, db) ==
  \/ o.kind \in {"boundary_tristate", "null_safe"} /\ Len(db) >= 3
  \/ o.kind = "projection_boolean" /\ o.value # Null /\ Len(db) >= 3
  \/ o.kind \in {"null_tristate", "window_ties"} /\ Len(db) >= 2

\* apply_bounded_feedback for one obligation it handles.
Feedback(o, db) ==
  CASE o.kind = "boundary_tristate" ->
         Put(db, <<o.value - attempt, o.value, o.value + attempt>>)
    [] o.kind = "null_safe" ->
         IF o.value = Null THEN Put(db, <<Null, attempt, attempt + 1>>)
         ELSE Put(db, <<Null, o.value, o.value + attempt>>)
    [] o.kind = "projection_boolean" -> Put(db, <<Null, o.value, o.value - 1>>)
    [] o.kind = "null_tristate" ->
         Put(db, <<Null, IF db[2] = Null THEN attempt ELSE db[2]>>)
    [] o.kind = "window_ties" -> Put(db, <<db[1], db[1]>>)

----------------------------------------------------------------------------
NoneSelected == [attempt |-> -1, separated |-> FALSE]

Init ==
  /\ world \in Worlds
  /\ pc = "generate"
  /\ attempt = 0
  /\ candidate = <<>> /\ database = <<>>
  /\ targeted = FALSE /\ served = 0
  /\ report = NoReport
  /\ selected = NoneSelected /\ shownDb = <<>>

\* generate_test_database, finalised there and then when it serves a retry.
Generate ==
  /\ pc = "generate"
  /\ candidate' \in Databases
  /\ targeted' = FALSE /\ served' = 0
  /\ pc' = IF attempt = 0 THEN "constrain" ELSE "feedback"
  /\ UNCHANGED <<world, attempt, database, report, selected, shownDb>>

BugForgetsReassertion ==
  /\ pc = "constrain"
  /\ LET first == ApplyAll(candidate, world.constraints)
     IN \E final \in Finalized(first.db) :
          /\ database' = final /\ candidate' = <<>>
          /\ report' = first.report
  /\ pc' = "execute"
  /\ UNCHANGED <<world, attempt, targeted, served, selected, shownDb>>

\* generate_witness_suite: constraints, then the final topology pass, then the
\* window's own constraints once more.
MaterializeFirst ==
  /\ pc = "constrain"
  /\ LET first == ApplyAll(candidate, world.constraints)
     IN \E final \in Finalized(first.db) :
          LET again == ApplyChosen(final, world.constraints, WindowOwned(world.constraints))
          IN /\ database' = again.db
             /\ candidate' = <<>>
             /\ report' = [applied |-> first.report.applied \o again.report.applied,
                           satisfied |-> first.report.satisfied /\ again.report.satisfied]
  /\ pc' = "execute"
  /\ UNCHANGED <<world, attempt, targeted, served, selected, shownDb>>

\* apply_bounded_feedback: the next obligation.
ServeObligation ==
  /\ pc = "feedback" /\ served < Len(world.obligations)
  /\ LET o == world.obligations[served + 1]
     IN IF Handles(o, candidate)
        THEN candidate' = Feedback(o, candidate) /\ targeted' = TRUE
        ELSE UNCHANGED <<candidate, targeted>>
  /\ served' = served + 1
  /\ UNCHANGED <<world, pc, attempt, database, report, selected, shownDb>>

\* Feedback that found no target leaves the world as it was and ends its loop.
GiveUpRetry ==
  /\ pc = "feedback" /\ served = Len(world.obligations) /\ ~targeted
  /\ pc' = "show"
  /\ UNCHANGED <<world, attempt, candidate, targeted, served, database, report,
                 selected, shownDb>>

BugConstrainsFirst ==
  /\ pc = "feedback" /\ served = Len(world.obligations) /\ targeted
  /\ LET applied == ApplyAll(candidate, world.constraints)
     IN \E final \in Finalized(applied.db) :
          /\ database' = final /\ candidate' = <<>>
          /\ report' = applied.report
  /\ pc' = "execute"
  /\ UNCHANGED <<world, attempt, targeted, served, selected, shownDb>>

BugKeepsReport ==
  /\ pc = "feedback" /\ served = Len(world.obligations) /\ targeted
  /\ \E final \in Finalized(candidate) :
       LET applied == ApplyAll(final, world.constraints)
       IN database' = applied.db /\ candidate' = <<>>
  /\ pc' = "execute"
  /\ UNCHANGED <<world, attempt, targeted, served, report, selected, shownDb>>

\* The rest of _regenerate_witness_world: the final pass, then the constraints.
MaterializeRetry ==
  /\ pc = "feedback" /\ served = Len(world.obligations) /\ targeted
  /\ \E final \in Finalized(candidate) :
       LET applied == ApplyAll(final, world.constraints)
       IN /\ database' = applied.db /\ candidate' = <<>>
          /\ report' = applied.report
  /\ pc' = "execute"
  /\ UNCHANGED <<world, attempt, targeted, served, selected, shownDb>>

AttemptLimit == IF world.obligations = <<>> THEN 1 ELSE MaxAttempts

\* The comparison executes the database.  It selects the attempt that shows
\* every difference of the world, before that the first that separates the
\* queries, before that the first; it ends the world's attempts when the
\* differences are shown or an execution fails.
ExecuteAttempt ==
  /\ pc = "execute"
  /\ \E executed, separated, shown \in BOOLEAN :
       /\ separated => executed
       /\ IF \/ separated /\ (shown \/ ~selected.separated)
             \/ executed /\ selected = NoneSelected
          THEN /\ selected' = [attempt |-> attempt, separated |-> separated]
               /\ shownDb' = database
          ELSE UNCHANGED <<selected, shownDb>>
       /\ IF shown \/ ~executed \/ attempt + 1 >= AttemptLimit
          THEN pc' = "show" /\ UNCHANGED attempt
          ELSE pc' = "generate" /\ attempt' = attempt + 1
  /\ UNCHANGED <<world, candidate, targeted, served, database, report>>

Next ==
  \/ Generate \/ MaterializeFirst
  \/ ServeObligation \/ GiveUpRetry \/ MaterializeRetry
  \/ ExecuteAttempt

Spec == Init /\ [][Next]_vars

----------------------------------------------------------------------------
\* _extract_witness: the rows the learner may be shown for an obligation are
\* those the world's report says a constraint of it was applied to, read from
\* the selected database, when that has them.
ShownItems(primary) ==
  IF pc = "show" /\ selected.separated
  THEN {item \in Range(report.applied) :
          item.obligation = primary /\ item.row <= Len(shownDb)}
  ELSE {}

Meets(c, value) ==
  CASE c.relation = "equals" -> value = c.value
    [] c.relation = "is_null" -> value = Null
    [] c.relation = "not_null" -> value # Null

Holds(c, db) ==
  LET row == RowIndex(c.slot, Len(db))
  IN row # 0 /\ Meets(c, db[row])

\* Two constraints that one value meets.
Agree(c, d) ==
  /\ c.relation = "is_null" <=> d.relation = "is_null"
  /\ c.relation = "equals" /\ d.relation = "equals" => c.value = d.value

\* The ledger knows slots, not rows: constraints of different slots may end up
\* in one of n rows.
SameRow(c, d, n) == RowIndex(c.slot, n) # 0 /\ RowIndex(c.slot, n) = RowIndex(d.slot, n)

RowsAgree(constraints, n) ==
  \A i, j \in DOMAIN constraints :
    SameRow(constraints[i], constraints[j], n) => Agree(constraints[i], constraints[j])

RowsApart(constraints, n) ==
  \A i, j \in DOMAIN constraints : SameRow(constraints[i], constraints[j], n) => i = j

\* What doc and report promise: a database that goes to the executor with a
\* report of satisfied constraints satisfies every declared constraint.
ReportHolds ==
  report.satisfied =>
    \A i \in DOMAIN world.constraints : Holds(world.constraints[i], database)

\* For a retry it is so, whatever bounded feedback and the final pass did,
\* because the constraints come last; but only if those that end up in one row
\* agree.
RetryReportHolds ==
  pc = "execute" /\ attempt > 0 /\ RowsAgree(world.constraints, Len(database)) => ReportHolds

\* The NULL placement a window difference declares survives the final pass also
\* in the first database, because it is asserted again afterwards.
WindowReportHolds ==
  pc = "execute" /\ report.satisfied /\ RowsAgree(world.constraints, Len(database)) =>
    \A i \in DOMAIN world.constraints :
      world.constraints[i].window => Holds(world.constraints[i], database)

\* A row-level witness is shown only if the row carries what the constraint
\* wrote into it.
RowsTraceToWrites ==
  \A n \in DOMAIN world.obligations :
    \A item \in ShownItems(n) : shownDb[item.row] = item.after

\* It is so when the selected attempt is a retry and no later one followed, in
\* a database where no two constraints wrote to one row.
LatestRowsTraceToWrites ==
  /\ selected.attempt = attempt /\ attempt > 0
  /\ RowsApart(world.constraints, Len(shownDb))
  => RowsTraceToWrites
=============================================================================
