# A verification of the SQLite Phase 1 → Phase 2 pipeline

The program compares a learner's SQL query with a teacher's reference query.
It executes both on small generated SQLite databases ("worlds"), publishes a
bounded verdict, diagnoses one primary error from the evidence, and hands a
learner one hint at a time. These modules model the parts of it that decide
*what is published about whom*: which pairs of queries are called equivalent,
which differences are found and kept, which rows and which tests count as
evidence for a difference, the order of checks and attempts, the evidence that
survives retries, the ownership of generated cells, and the ranking of
explanations.

Paths below are relative to `src/sql-edu-backend/core/`; line numbers of every
definition are in `PROJECT.json` under `map`.

1. [The system](#1-the-system)
2. [Modules and runs](#2-modules-and-runs)
3. [How the modules correspond to the code](#3-how-the-modules-correspond-to-the-code)
4. [Bounds and fairness](#4-bounds-and-fairness)
5. [What is proved](#5-what-is-proved)
6. [Where the code disagrees with its documents](#6-where-the-code-disagrees-with-its-documents)
7. [What is not modelled](#7-what-is-not-modelled)
8. [Plan](#8-plan)

## 1. The system

There are no threads, no network and nothing persistent: one call runs to its
end. What is hard is the sequence of stages that rewrite the same rows and
records, the attempts that go on after a success, the one asynchronous event
(a wall-clock deadline inside SQLite), hard limits everywhere, and the promise
that a failure of the platform is never published as the learner's mistake.

| Component | State it keeps | Operations | What makes it correct |
| --- | --- | --- | --- |
| **Pipeline** `pipeline.py`, front door of `phase1_engine.py` (`generate_and_compare`) | one `SandboxRun`, one `DiagnosticPackage` | a dozen checks with early returns, comparison, diagnosis, `learner_hint(level)` | a faulty reference, schema or platform is never the student's fault; no verdict, no lesson |
| **Verdict projection** `phase1_verdict.py`, `_set_public_verdict`, `_rich_verdict` | none | project a failure; gate Phase 2 | one vocabulary, fails closed |
| **Witness suite planning** `witness_generation/planner.py`, `generate_witness_suite` | worklist of worlds, finished worlds, obligations left uncovered | place obligations, build the composite, split a conflicting world | budget, unique ids, no obligation lost, conflicts only where no room was left |
| **Constraint ledger** `planner.py` (`ConstraintLedger`) | owner of every cell, conflicts | declare one cell or several with priorities | what it accepted stays true; a refused declaration leaves no trace |
| **Probe adapters** `witness_generation/adapters.py` | registry, snapshot of the database, records of the runs | run the adapters of a stage as transactions | all or nothing, within the declared columns |
| **Witness rows and feedback** `apply_cell_constraints`, `apply_bounded_feedback`, `_regenerate_witness_world`, `_finalize_generated_witness_data` | a world's database and its report of applied constraints | generate, constrain, finalise, retry with feedback | the report is true of the rows that are executed, and of those that are shown |
| **Witness comparison** `_complete_comparison` and what it calls | trials, attempts of each world, selected trial, final run, audit | execute, record, validate, retry, select, replay, publish | the verdict is what was observed; the rows published separate the queries |
| **Diagnosis and ranking** `error_diagnosis.py` | candidates, suppressed and unresolved ones, primary | group differences, add signals, link, suppress, rank | the primary is proven and no consequence of another; proofs are not hidden |
| SQLite sandbox `_execute_sqlite` | an in-memory connection | build, insert, execute under limits | bounded work; the connection is closed |
| **Equivalence rewrites** `_queries_are_supported_equivalent_rewrites` and its recognisers (five files) | none | recognise that a pair is one query written twice | what is recognised returns the same rows on every database |
| **AST differences** `extract_ast_diffs` and its detectors | list of differences | compare two queries part by part | every change has a difference that is about it |
| **Obligations and validators** `obligations.py`, `validators.py` | obligations; rows and attempts of a world | drop redundant summaries, choose the constraint of a difference, judge the rows of a world | one change keeps one obligation; rows that serve it show it; some rows do |
| **Mutation tests** `_run_mutation_tests`, its families, `_link_mutation_diff_ids`, `is_atomic_repair` | list of tests with outcomes and links | replace or remove one part of the student's query, execute, link to differences | a repair that counts as proof is about its difference |
| Probe strategies and materialisers (five files) | rows | about two hundred heuristics writing cells | any rows are acceptable; usefulness is measured by execution |
| Schema scope, Phase 2 catalogue | immutable facts | qualify names, shortest foreign-key paths | — |
| Scoped query graph `scoped_query_graph.py` | graph | build, order topologically | total order |
| REGEXP, public sanitiser, evaluation script | none | text processing | — |

**Interactions.** `generate_and_compare` extracts differences, lets
`generate_witness_suite` compile obligations, plan worlds, and fill them
through strategies, adapters and constraints; then `_complete_comparison`
executes each world up to eight times, regenerating rows in between
(`_regenerate_witness_world` mutates the same `WitnessWorld` object the earlier
trials came from). `_attach_witness_evidence` reads attempts, mutation records
and the *latest* rows of each world; `_extract_witness` later reads the world's
*latest* report next to the *selected* database. `diagnose_record` consumes the
run only through its fields. Cells are owned across stages through one shared
ledger. A difference crosses four stages that know each other only by the
names of its type: the detectors emit it, `is_redundant_summary_diff` may drop it,
`_constraint_templates` and `validate_obligation` decide which rows serve it, and
`_link_mutation_diff_ids` credits tests to it. These are the couplings the
properties are about.

**Hard behaviours.** Interleaving: none inside a call. Failure: an adapter or
a query raises at any point; a reference, a student and a platform error mean
different verdicts. Timeouts: the progress handler aborts a query after 0.5 s of
wall clock or a million VM steps, so the same query on the same rows may end
differently when it is executed again. Staleness: reports, copies of tuples and
tags outlive the rows they describe. Limits: worlds 8, attempts 8, rows 32,
recorded rows 256. `PROJECT.json` lists 40 hazards at their lines.

## 2. Modules and runs

| Module | Kind | Models |
| --- | --- | --- |
| `Phase1Verdict` | operators | verdict vocabulary, failure projections, the gate of Phase 2 |
| `WitnessComparison` | state machine | `_complete_comparison` |
| `JudgeContract` | abstract specification | what a comparison promises its caller; `WitnessComparison` implements it (`KeepsContract`) |
| `ConstraintLedger` | operators | the ledger |
| `ProbeAdapters` | state machine over a ledger | `AdapterRegistry`/`run_adapter` over the stages |
| `WitnessSuite` | state machine | `WitnessPlanner.plan` and the splitting loop of `generate_witness_suite` |
| `SuiteLedger` | composition | what a world declares to a fresh ledger, and that splits follow the ledger's conflicts (`SplitsFollowLedger`) |
| `WorldMaterialisation` | state machine | rows, constraints, feedback and reports of one world from its first database to the rows shown |
| `DiagnosisRanking` | state machine | `_detect_candidates` and `_bundle_and_rank` |
| `Pipeline` | state machine | front door, exits of the diagnosis, hints; composes the verdicts of `Phase1Verdict` |
| `SqlValues`, `SqlNodes`, `SqlExpressions` | operators | three-valued logic; the value of a node from its operands'; the value of an expression on a row |
| `NodeRewrites`, `RowRewrites` | operators | the recognisers of equivalent expressions: what each does to one node, and to an expression |
| `RelationalRewrites` | operators | the recognisers of equivalent forms of whole queries, next to the rows SQLite returns |
| `RewriteScreen` | state machine | the first step of `extract_ast_diffs`: a pair some recogniser accepts has no differences |
| `RewriteResults` | composition | the screen with the recognisers of `RowRewrites`: what accepted pairs show |
| `SqlQueries`, `AstDifferences` | operators | a query by its parts; the differences of a pair |
| `DifferenceObligations` | operators | `is_redundant_summary_diff` and what is left of the differences |
| `MutationTests` | operators | the tests of every family and the part of the query each restores |
| `DifferenceEvidence` | state machine | differences → obligations → execution → tests → links → repairs |
| `WitnessQueries` | operators | rows a query returns on a small database: the measure of the validators |
| `PredicatePaths`, `RelationPaths` | operators | the validators of rows, for conditions and for joins, groups, windows, orders, sets, recursion |
| `WitnessPaths` | state machine | constraint template, placed rows, execution with the replacement test, validation |
| `MC…` | instances | constants for TLC |
| `…Proofs` | theorems | `WitnessComparisonProofs`, `ConstraintLedgerProofs`, `WitnessSuiteProofs`, `ProbeAdaptersProofs`, `WorldMaterialisationProofs`, `DiagnosisRankingProofs`, `PipelineProofs`, `RewriteScreenProofs` |

Definitions whose names start with `Bug` are deliberate defects of the
definition that follows; no specification uses them. Each shows that a property
notices the mistake it is there for (`mutants` in `PROJECT.json`).

| Run | Question | Answer |
| --- | --- | --- |
| `CmpRetries` | with repeatable executions, do retries, selection and replay keep verdict and evidence together, and does the call return? | yes: `SelectedIsFirstConflict`, `AttributionPreferred`, `ConflictDecidesVerdict`, `WrongHasSeparatingRows`, `SelectedInSync`, `Returns` |
| `CmpDeadline` | and when the wall clock may abort any execution? | no world is skipped, acceptance has evidence, and the comparison implements `JudgeContract` |
| `CmpTimeoutBlame` | is a timeout never the student's fault? | **violated** (finding 1) |
| `AdapterTransactions` | are adapter runs transactions, with three adapters in two stages sharing a ledger? | yes, the ledger keeps what it promised, and refusals rest on real conflicts |
| `SuiteSplitting` | does splitting respect budget, ids, tags, pins, ledger and obligations, and end? | yes |
| `RowsAndReports` | are reports true of the rows that are executed after feedback, finaliser and constraints? | for retries and for windows, yes, unless constraints that disagree meet in one row |
| `PrimaryError` | is the primary proven, no symptom, and are proofs not hidden? | yes outside the Top-N rules |
| `FrontDoor` | is the student blamed only next to a sound reference, and does a run without a verdict teach nothing? | yes |
| `Rewrites` | do the recognisers accept only pairs that return the same rows, NULLs, duplicates and empty tables included? | yes where only conditions are rewritten, and for forms that differ in nothing their recogniser leaves uncompared (`Covered`); it leaves out much (`Unseen`, section 6) |
| `RewriteHidesDifference` | and without these two provisos? | **violated** (finding 2) |
| `DifferenceEvidence` | does a change keep an obligation that is about it, and do repairs prove what they restore? | yes, with the exceptions the module names (`Overlooked`, `NoSingleRepair`, subqueries) |
| `WitnessPaths` | do rows that serve an obligation show its difference, does a fallback show this very difference, and can every obligation be served? | yes, for the differences not marked `Partial`; each mark says which rows serve without showing anything |

## 3. How the modules correspond to the code

**WitnessComparison.** A trial is named `<<w, a>>` by world and attempt.
`RunTrial` is `_run_witness_world`, `RecordTrial` the recording with atomic
validation and the choice to hold the first conflict, `ValidateWithMutations`
the re-execution with mutation tests that replaces trial *and* held copy,
`Regenerate`/`FeedbackNotTargeted` the retry or its end, `SelectTrial` the four
preference rules after the loops, `ReplaySelected` the last execution, which is
the one published, `AttachEvidence` the audit together with
`_finalize_witness_verdict`. A database is abstracted to the attempt that
generated it and to what the pair does on it (agree, differ, student error,
reference error); the outcomes of the validators and mutants are free within
what the code lets them be. `cause` and `seen` are history: they remember why a
run ended as it did.

**WitnessSuite.** Obligations are numbered in plan order; each wants nothing or
one value in one cell, which is what the only declaring adapter
(`comparison_boundary`) declares. `PlaceObligation` and `ClosePlan` are the
planner, `SplitWorld` and `MaterializeWorld` the worklist of
`generate_witness_suite`. Ids are kept as the code builds them, as paths.

**ConstraintLedger, ProbeAdapters.** `Add` is `ConstraintLedger.add` with
priorities, compatibility and takeover; `AddMany` undoes everything on a
conflict. `BeginAdapter` checks activity, stage and claims, `ApplyAdapter` lets
the adapter do *anything* to the rows, `ValidateWrites` accepts or refuses it,
`RollBack` restores the snapshot. Cells refused to a later declaration stay
owned by a rolled-back adapter, as in the code.

**WorldMaterialisation.** One table, one column, up to four rows, so that
semantic slots (`null_row`, `boundary_row`, …) collapse as in `_row_index`.
`Generate` stands for every strategy: any rows. `MaterializeFirst` applies
constraints, then the final pass, then only the window's constraints again;
`MaterializeRetry` applies feedback, final pass, constraints in that other
order. `ShownItems` is the row selection of `_extract_witness`. Slots of two
obligations may name one row: the ledger compares slots and accepts both, so the
properties say under which condition on a table of n rows they hold (`RowsAgree`:
constraints of one row can hold of one value; `RowsApart`: no row has two).

**DiagnosisRanking.** A difference is a record with kind, scope and grade; the
steps `group … rank` are the statements of `_detect_candidates` and
`_bundle_and_rank` in order. Severities and names as tie-breaks are a free
choice.

**RewriteScreen.** A row pair is two SELECTs with one expression and one
condition over two columns; `RewritesOf` collects the recognisers that accept it,
`Recognised`, `Normal`, `Rewritten` … being what each compares after its
rewriting. `Replacement` of `NodeRewrites` is what a rule puts in place of one node,
and `RowRewrites` has what walks an expression. `Result` is SQLite's answer on one row,
so agreeing on every row is agreeing on every table. A form is one shape of a whole
query that a recogniser matches (`IN` against a join, a CTE against its body, `USING`
against `ON`, …) with the guards it checks; `Admissible` are the tables the declared
keys and NOT NULL columns allow. A form also has what the two queries may differ in
without the recogniser looking: the table of a shown or filtered column, a clause that only
one query has, the context of a membership test. `Unseen` names these differences of
an accepted form one by one, `Covered` says there are none. In `FormRows` the rows of a query are a function from
what identifies a row (its place in a table, the places of the rows it joins), and
what it shows is the bag of them. Of an ORDER BY only the order is compared, as the
pairs of rows whose order it settles: SQLite may place ties either way.

**DifferenceEvidence.** A query is a root block with joins, conditions, groups,
orders and limits, at most one subquery, one CTE and a set operator. `Diffs` is
what the detectors emit, `owned` what `is_redundant_summary_diff` leaves;
`CompareOnWorld` chooses which of the changed parts the world shows. A test names
the parts its replacement restores, so it agrees with the standard exactly when
these cover what is shown. `Linked` binds it to differences as
`_link_mutation_diff_ids` does, by clause and knowledge point, and `RepairVerified`
are the differences `is_atomic_repair` accepts. `AspectsOf` says which parts of the
query a difference is about; it is the only definition that is no code.

**WitnessPaths.** An obligation comes with its two queries, the standard with
this one difference replaced (`mutant`), and the rows its tables may get. `Kind` is
`_constraint_templates`, `Served` the dispatch of `validate_obligation`, and every
validator reads the world as the code does: the columns of one table as sets,
rows through the row-level evaluator with `Unsupported` where that gives up, the
results of the executions, or the atomic replacement test, which may execute, fail
or be impossible (`Execute`). `Place` adds rows, after a failed validation too.

**Pipeline.** A task says which side has which fault; each check is one action
in the order of `generate_and_compare`. The comparison is its set of possible
publications. `LearnerHint` may be asked in any order, repeatedly, out of range.

## 4. Bounds and fairness

| Run | Bounds | Why they suffice |
| --- | --- | --- |
| `CmpRetries` | two differences, two worlds (isolated + composite), two attempts, one recursive-CTE difference | the loops compare trials pairwise: an earlier and a later one, in the same and in another world; a third adds no new pair |
| `CmpDeadline` | the same, one attempt | every execution may be aborted on its own, the replay included, so the interesting orders appear with one attempt |
| `AdapterTransactions` | three adapters, two stages, eight declarations each, up to two rows | a conflict needs two adapters, or one declaration that contradicts itself; a third adapter sees what a rolled-back and a refused one leave behind |
| `SuiteSplitting` | up to four obligations, two cells, three values, budgets 3, 6, 8 | four obligations allow two levels of splits and two independent conflicts; the small budget makes both limits bind |
| `RowsAndReports` | ten kinds of world, three attempts, ≤ 4 rows | all slot collisions occur below four rows, once between constraints that agree and once between two that do not; the third attempt follows a retry |
| `PrimaryError` | up to five differences in two scopes, three families, three grades | every pair of suppression rules meets within a family |
| `FrontDoor` | every combination of faults, catalogue forms and outcomes | the product is finite in the code too |
| `Rewrites` | some 145 queries over two columns with values NULL, 0, 1, 2; some 8 900 forms in twelve families on all pairs of tables of up to two rows | a row-wise rewrite fails on one row or on none; a relational one needs a duplicate, a NULL or an empty side, which two rows give. `GapsAreReal` (TLC evaluates it before the run) shows they are enough to tell two queries apart: for every kind of difference in `Unseen` some form hides only that one and gives other rows |
| `DifferenceEvidence` | nine standards, 547 students that differ in one or two places | summaries are dropped pairwise, and a link is ambiguous as soon as two differences compete |
| `WitnessPaths` | 97 differences of every kind, up to four rows of a table | four rows fill a truth table of two conditions, two groups of two rows and a tie next to a step |

TLC explores, in states: about 149 000 (`CmpRetries`), 25 000 (`CmpDeadline`),
1.9 million (`AdapterTransactions`), 114 000 (`SuiteSplitting`), 29 000
(`RowsAndReports`), 131 000 (`PrimaryError`), 83 000 (`FrontDoor`), 39 000
(`Rewrites`), 31 000 (`DifferenceEvidence`), 344 000 (`WitnessPaths`). Attempts and
worlds are capped by the constants `MaxAttempts`, `MaxWorlds` and the budgets,
which are limits of the code itself, only smaller. No symmetry is used: the
order of obligations and worlds matters.

**Fairness** is `WF_vars(Next)` in `WitnessComparison` (`FairSpec`) and in
`WitnessSuite`: a synchronous call goes on until it returns, because nothing
else runs and every execution ends by its step and time limits. It says nothing
about which outcome a step has, so `Returns` and `SuiteReturned` hold however
SQLite, adapters and validators behave. `CHECK_DEADLOCK FALSE` is set where
the call returns and the model stops; `Pipeline` accepts hints for ever and is
checked for deadlock.

## 5. What is proved

All proofs are checked by TLAPS for **every** value of the constants, under
the named assumptions of the modules, which TLC also evaluates.

* **WitnessComparison** (`ComparisonAssumption`: a suite is a sequence of at most
  `MaxWorlds` worlds of known obligations). The properties are not inductive:
  what is selected must be traced back to the loop. `IInv` adds where the loop
  stands (`LoopPosition`: records are exactly those before the current
  position), that runs mean what their fields say (`RunsMeaningful`), that
  records match runs (`RecordsFaithful`) and that selection decided from
  executed trials (`SelectionExecuted`, `SelectionDecides`). `FinalTraced` and
  `VerdictCarried` then follow the replayed run to the verdict. Fourteen theorems:
  types, first conflict, selection in sync, no world skipped, attribution
  preferred, retries earned, history kept (an action property), conflict decides,
  wrong is witnessed, acceptance has evidence, fails closed — and `ContractKept`:
  every step is a `JudgeContract` step or a stutter. The last two are the safety half
  of termination: by `ComparisonRunsOut` a number (`StepsLeft`: the stage within an
  attempt, three steps for each attempt the worlds still have) goes down with every
  step, whatever SQLite, validators and feedback answer; by `ComparisonGoesOn` no step
  chooses from nothing, because every execution has an outcome and a set of recorded
  trials has a first one.
* **ConstraintLedger**, for declarations of any length and any priorities.
  `AddManyOutcome` says what `add_many` does: it takes a declaration whole, so that each
  of its constraints is kept by the owner of its cell and each owner is of the highest
  priority, or it leaves the owned cells alone and records one clash with an earlier
  constraint. The recursion over the declaration needs an induction; `SetInduction`, at
  the head of the proofs, derives one from the well-foundedness of `<` on the natural
  numbers (`LeastNumber`), with the set of the lengths for which a statement holds in
  place of the statement.
* **WitnessSuite** (`SuiteAssumption`: an order is a permutation of the
  obligations, a limit is positive; `ValuesAssumption`: a pinned cell comes with a
  value, as `planner.py:559` declares a boundary only when `spec.value is not None`).
  `IInv` says every world is sound — its pins
  come from its obligations, the tag counts them — and the budget covers planned,
  pending and finished worlds. `CoverInv` adds that the plan covers the
  obligations placed so far. Ids are distinct because a planned
  world is numbered by its place and the last part of a longer id is the serial of a
  split that has already happened (`IdInv`); isolation is kept because a step
  that places an obligation isolates or reports it, and splitting takes no isolated
  world away. Eleven theorems: types, budget, pins, tag, nothing lost, conflicts only
  at the limit, distinct ids, isolation kept, and `SplitsAreTheLedgers`: a world is
  split exactly when a fresh ledger refuses its declaration, along the two sides
  the ledger names — by following the ledger through the declaration up to the first
  value that differs. The last two are the safety half of termination, for every
  budget: `WorkRunsOut` gives a number (`WorkLeft`: obligations unplaced, worlds
  waiting, twice the places left in the budget) that every step makes smaller, and
  `WorkGoesOn` says that until the suite is returned some action's guard holds — a world
  that conflicts has two sides to split it into (`ConflictHasSides`).
* **ProbeAdapters** (`AdaptersAssumption`, `DatabasesAssumption`: known stages
  and columns, finite rows; `DeclarationsAssumption`: a value comes with exactly the
  relations that need one, as in `_semantic_cell_constraints`, `planner.py:449`). The
  invariant relates the snapshot to the database at every control point, and the
  ledger to the constraints of the adapters accepted so far (`Serves` of
  `ConstraintLedgerProofs`). Five theorems: types, that runs are transactions
  whatever an adapter writes, and the three promises of the shared ledger.
* **WorldMaterialisation** (`WorldsAssumption`: known relations, equality only with a
  value other than NULL), for any number of constraints, rows and attempts and whatever
  generation, feedback and the final pass write. `Applied` says what
  `apply_cell_constraints` has achieved after its first k constraints, and is carried
  through the list by induction: those of them that found a row hold, because a
  later one in the same row agrees, and the report lists what is there. `AttemptInv`
  adds which report belongs to which database: the one about to be executed,
  or the selected one when it is that of the latest retry. Three theorems:
  `RetryReportsHold`, `WindowReportsHold`, `LatestRowsTrace`.
* **DiagnosisRanking** (`EvidenceAssumption`: kinds and grades are among the
  modelled ones). The sets of differences, signals, declared dependencies and
  scopes are arbitrary, so the argument is about candidates one at a time. `IInv`
  says that every candidate is sound — proven only if one of its differences is,
  a join cause and its symptom at the stage where their rules are taught — that
  a suppressed candidate is unproven or has a cause in its scope, and that no root comes
  before the primary. `ProofsSurvive` is then a walk of one step: what suppresses a
  proven generic candidate is itself proven and of a named rule, which nothing but
  an offset suppresses. Four theorems: `PrimaryProven`, `ProofsSurvive`,
  `CauseBeforeSymptom`, while no declared dependency is an amplification
  (`_bundle_and_rank` would take one over unseen; Phase 1 declares none), and
  `HiddenTraceToVisible`, of evidence whose declared dependencies explain nothing away
  (again what Phase 1 hands over today): what silences a named symptom is never
  silenced itself, so two edges always lead back to a candidate that is shown.
* **Pipeline** (`TasksAssumption`). `FrontInv` records what has been established
  past each check; `TeachInv` ties the package to the run. Two theorems:
  `BlameIsFair` and `NoVerdictNoLesson`.
* **RewriteScreen** (`TablesAssumption`: rows of the two columns, integers or NULL).
  `FormsAgree` is `FormRewritesAgree` for tables of any length with any integers: about
  pairs that are accepted and differ in nothing uncompared, not about every pair that is
  accepted. Each family of forms has its lemma. Two queries show the same bag when the rows of
  one can be renamed, one to one, into equal rows of the other (`SameRowsSameBag`): the
  row of an `IN` is the row of its join when the key it is joined on is unique, and
  under DISTINCT it is shown once in any case (`InJoinAgree`); a row without a match is
  the row of the anti-join (`AntiAgree`). Being at least the greatest value is being the
  greatest value, since a column with values has a greatest one (`BoundExists`) and one
  without selects nothing on either side (`ExtremeAgree`).
* **NodeRewrites**, for expressions of any size. A `Valuation` is a set of expressions
  that holds the operands of its own, with the value SQLite gives to each on a row.
  `ReplacementsKeepNodes`: what a rule puts in place of a node has its value, or,
  for the rules of `TruthOnly`, is TRUE where it is. `OperandsDecideNodes`: a rewriting
  that keeps the operands keeps the node, and below AND and OR it is enough to keep
  which operands are TRUE. `AbsorptionKeepsTruth`: leaving out implied disjuncts does
  not change when a condition is TRUE. Together they are the step of an induction over the
  expression; `Rewritten`, which takes the steps, is recursive, so its conclusion
  `ExpressionRewritesAgree` is TLC's, and so is the rule that turns a chain of OR into an
  `IN` list (`EqualityChain`), which is recursive too.

What failed proofs taught about the model: `ConflictsAreReal` used to say that the
accepted side of a conflict belongs to an accepted declaration, which is false of
a joint declaration that contradicts itself (`_comparison_adapter_constraints` makes
one for a composite world without room to split), so the property names that case and
`AdapterTransactions` has such a declaration. `RetryReportHolds` held of the runs only
because no two constraints of their worlds met in a row; the property now says
what it needs, and two worlds were added in which they meet. `SymptomsTraceToVisible`
is not true of every set of declared dependencies (see the end of section 6).
The value of a BETWEEN with one NULL bound used to be that of the validators'
evaluator, NULL, in the queries too; to SQLite it is the conjunction of two comparisons
and may be FALSE, without which `between` could not be proved. `SqlNodes` now says so, and
`Rewrites` has such queries. An ORDER BY used to give one list of rows, which decided
ties that the code leaves to SQLite; with the pairs of rows it settles in their place, the
proof found that a column hidden by an alias is taken for the alias when the catalogue
knows the column.

**Only model-checked**: liveness (`Returns`, `SuiteReturned`), since fairness
and ENABLED are outside the prover (of both all but that is proved);
`SymptomsTraceToVisible` of evidence with declared dependencies that explain
something away, of which the run has one at a time; `ExpressionRewritesAgree`, for
the induction over an expression; and everything of `DifferenceEvidence` and
`WitnessPaths`. `SqlExpressions`, `RowRewrites` and `PredicatePaths` walk expressions
with RECURSIVE operators, which the prover does not take, and what they compute for every
expression is an induction over data. The properties of `DifferenceEvidence` are
about the pairs of queries listed, with the exceptions they name, and do not claim more.

## 6. Where the code disagrees with its documents

Two violation runs show a counterexample each:

1. **A timeout becomes the student's error** (`CmpTimeoutBlame`).
   `_is_execution_timeout` looks for texts like "timed out"; an aborting
   progress handler raises "interrupted", which the student side treats as an
   error of the query. `docs/phase12-complete-implementation.md:258` excludes this.
2. **A recogniser hides a difference** (`RewriteHidesDifference`).
   `_double_negation_equivalent` removes `NOT NOT` in a projection too, where it
   turns 2 into 1; `phase1_witness_strategies.py:1169` speaks of
   "semantics-preserving rewrites".

Met while modelling, without a run of their own (the properties of the passing
runs name these cases and leave them out):

*Equivalence rewrites* accept, besides `NOT NOT` in a projection, pairs that need not
return the same rows. Of expressions: `IS TRUE` and `IS NOT DISTINCT FROM` below a NOT
of a filter. Of whole queries, with the words of `Unseen` in italics (every one is
shown on tables by `GapsAreReal`):

* `USING`/`NATURAL` against `ON` (`phase1_sql_semantics.py:436`): columns shown alone
  and columns of WHERE, GROUP BY, HAVING and ORDER BY are compared without their table,
  so `SELECT r.v … USING (k)` is `SELECT s.v … ON r.k = s.k` (*shown column*) and
  `WHERE r.v = 1` is `WHERE s.v = 1` (*filtered column*); without a catalogue NATURAL
  joins whatever columns ON names (*common columns*); of a set operation only the first
  branch is compared (*branch*, in the next three families too).
* `IN` against a join (`phase1_constraints.py:1759`): the key may repeat (*unique key*);
  the columns of the ON are compared by name, so `ON s.k = s.k` and
  `ON r.k = s.k + 1` pass (*ON*); shown and filtered columns lose their table; *group*,
  *limit* (with HAVING, ORDER BY and OFFSET) and further *join*s of the query with `IN`,
  and the clauses of its list (*inner*), are not looked at.
* `NOT EXISTS` against a LEFT JOIN (`phase1_constraints.py:1817`): any test with NULL of
  any column in WHERE (*test*), `IS NOT NULL` included; another outer table (*FROM*);
  one shared equality of column names is enough for an ON (*ON*) and all
  other conditions in it or in the subquery are ignored (*extra condition*); the rest of
  WHERE (*filter*), *join*, *group* and *limit* are not compared, shown columns lose their table.
* a CTE or derived table against its body (`phase1_constraints.py:1410`, `:1666`): a body with an aggregate
  inlined where only its bare column is read (*aggregate body*); items compared by
  the letters of their text, so `v + k` is `v - k` (*operator*); the table of the
  column that correlates an EXISTS in WHERE (*correlation*, in `SELECT *` against the
  columns too).
* `IN` against EXISTS (`phase1_query_paths.py:1902`): remaining conditions and shown
  columns without their table (*filtered column*, *shown column*); `NOT (x IN …)` and
  `(x IN …) IS NULL` read as positive (*context*); a NULL test that stands below OR or
  inside `NOT (…)` counted as if it held for every row (*test below OR or NOT*,
  `phase1_witness_strategies.py:1440`).
* `(SELECT COUNT(…) … WHERE 0 = 1)` against NULL (*COUNT*), and an ORDER BY of a
  column that an alias hides, against the position of the column, with a catalogue
  (*hidden column*, `phase1_sql_semantics.py:683`).

*Differences and tests.* COUNT against SUM in a projection gives no difference
beside a HAVING that counts the same column (`phase1_sql_semantics.py:1683`,
although `phase1_foundation.py:1875` relies on the focused difference). Tests are
linked without their query scope, so replacing the WHERE that holds a changed
subquery proves a difference of the outer predicate (`phase1_foundation.py:584`
against `error_diagnosis.py:453`). A predicate added beside an unchanged
correlated EXISTS leaves no obligation. A changed FROM has no test, those of
OFFSET, of CASE conditions and of joins that gain or lose their ON are linked to nothing or
count as a bundle, and a comparison of another column leaves three ambiguous
differences. A changed literal in a CASE is filed as a predicate.
`where_changed` is dropped for any `order_by_*` or `aggregate_*` difference anywhere
in the query, and the dropping rules that go by type cross block borders.
`null_equality_changed` is emitted even when both sides hold the same `= NULL`. A
join only the student has gives no join difference, and only the first changed ON is reported.

*Validators* accept rows that need not show the difference: the boundary value
where both operators agree on it (a changed literal, `>` against `<`);
`where_changed` with two values of one column; `IN` against `NOT IN`, or `NOT IN`
against `NOT EXISTS`, with an inner NULL and no overlap (the comment at
`validators.py:2925` says otherwise); membership keys compared as sets of the
whole table; a CASE branch whose rows an earlier WHEN takes; INNER against LEFT
with a dangling row on the right only; groups of equal size; a SUM of no value
read as 0 (by one of two functions); COUNT(DISTINCT) with the duplicates in
different groups or NULL; aggregates that trade values between groups; FILTER
conditions that as many rows pass; window partitions with the same ranks; a NULLS
placement that ignores the keys before it; tie-breaker rows that lie in order
already; results that differ for any other reason (LIMIT, NULL tests, projections);
any base row of a CTE, any two rows of a recursion; a replacement that failed to
execute, if the two queries differ (`validators.py:3894` against
`phase1_evidence.py:350`). A root DISTINCT beside another projection difference is
never served, `COUNT(col)` against `COUNT(*)` rejects the table of only NULLs
that would show it, and IS with a large integer compares identities of Python objects.

*Comparison and diagnosis.* `any_obligation_distinguished` is a disjunction: one
shown difference accepts a query whose other difference was never shown
(`phase1_foundation.py:464`, against line 330 of the implementation document).
Each retry overwrites a world's report while an earlier attempt may stay selected,
so rows of one attempt are shown with the report of another
(`phase1_engine.py:777`, line 403). An unproven offset difference suppresses a
proven Top-N candidate, which suppresses the generic one, and no primary is left
(`error_diagnosis.py:1708`, line 394); a generic candidate with a proof of its own
is suppressed by a specific one of equal grade that shares one of its differences
(`error_diagnosis.py:1722`). A student query that does not parse or names an
unknown table leaves as INCORRECT with `executed` False
(`phase1_engine.py:359`, line 446). Further: an isolated world is not preferred
over the composite in the way `phase1_engine.py:564` and line 273 describe;
`causal_attribution_verified` does not require the output conflict that line 267
names; a rolled-back adapter keeps its cells in the ledger, and its record's
`writes` stays filled; the report of the *first* database may be stale for
strategies other than windows, as `phase1_engine.py:1545` half says; an invalid
schema is not noticed when the student query fails to parse first, although
`contracts/phase12-contract.md` wants every schema fault to be UNDECIDED; three
obligations that conflict pairwise on one cell give duplicate worlds. `planner.py:969` takes
it that "the ledger rejects conflicting writers before materialization", but a
window's `row_slot_1` and a `boundary_row` of the same column pass the ledger, and the report
of the world in which one overwrote the other still counts every constraint as
satisfied. Had Phase 1 declared that a proven order difference causes an unproven
offset difference, the Top-N candidate built from both would suppress the offset
candidate along the declared edge and be suppressed by it along the rule
(`error_diagnosis.py:1694` and `:1714`): both hidden, and no primary.

## 7. What is not modelled

* Probe strategies, materialisers and finaliser rules: some two hundred
  heuristics that write rows. `WorldMaterialisation` and `ProbeAdapters` let them
  write *anything* and `WitnessPaths` places every set of rows, so what is shown
  does not depend on them; whether they find rows that serve is not claimed.
* Parsing and the text of queries. The rewrites stand on expressions, the
  differences on a query by its parts: conditions from left to right, joins only
  in the root block, one subquery, one CTE, of a set operator's second branch only the operator.
* Of the rewrites: text functions, LIKE and dates; named windows and lone literals,
  whose recognisers compare the rest of the queries letter by letter. Of the differences: those of
  `NOT BETWEEN` and `NOT LIKE`, the focused ones of `IN`/EXISTS and anti-joins, joins
  inside subqueries, `_atomic_student_variant`. Of the tests: aggregate FILTER,
  arithmetic operators, precedence trees. Of the validators: caps (64 rows, 32×32
  pairs, LIMIT 65) and numeric strings.
* SQLite itself: `WitnessQueries` gives the answers of the queries the validators
  are about over integers and NULL; affinity, collation, result normalisation and
  the counting of steps in `_execute_sqlite` are left out, an abort is possible in
  any execution of `WitnessComparison`.
* Scope graph, name qualification, catalogue: functions over names without state.
* Sanitiser, wording, REGEXP compiler, evaluation script: text and I/O.
* `equals_column` and `not_equals_column` constraints: they tie two columns of a row,
  and `WorldMaterialisation` has one.

## 8. Plan

Done, in this order, the behaviour that decides verdicts first:
`WitnessComparison` → `JudgeContract` → proofs; `ConstraintLedger`,
`ProbeAdapters`, `WitnessSuite` → proofs; `WorldMaterialisation` → proofs;
`DiagnosisRanking` → proofs; `Pipeline` → proofs; then the evidence the comparison takes
as given: `RewriteScreen` → proofs, `DifferenceEvidence`, `WitnessPaths`.

Next:

1. Proofs: the rules of `IN` lists against chains of OR; a transitive `SymptomsTraceToVisible` for acyclic declared
   dependencies.
2. **ScopeOrder**: `_topological_scope_order` against a reference definition of
   a topological order with cycles cut; **SchemaPaths**: shortest foreign-key
   paths of at most four hops.
3. **SqliteExecution**: progress handler every 10 000 steps, deadline set after
   the inserts, step limit, closing of the connection.
4. Materialisers of single kinds of obligation against their validators.
5. **PublicPackage**: the sanitiser's budgets.
