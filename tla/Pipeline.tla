------------------------------ MODULE Pipeline ------------------------------
(***************************************************************************)
(* run_pipeline and learner_hint of core/pipeline.py: the checks of         *)
(* generate_and_compare in their order, the comparison, the three exits of  *)
(* diagnose_record and the hints a learner can ask for.                     *)
(*                                                                         *)
(* A task says what is the matter with it: for every kind of fault, which    *)
(* of the two queries has it.  The comparison is the one WitnessComparison  *)
(* models, here only the verdicts it can publish.                           *)
(***************************************************************************)
EXTENDS Integers, Phase1Verdict

CONSTANT Tasks  \* what a caller can submit, see Task

Sides == {"reference", "student"}

\* unsupported: uses a construct outside the SQLite contract; unparsable: not
\* exactly one query; reads: names a physical table; foreign: names an attached
\* database; noTable, noColumn: does not qualify against the catalogue.
Task == [unsupported: SUBSET Sides, unparsable: SUBSET Sides,
         catalog: {"text", "structured", "malformed"}, emptyText: BOOLEAN,
         reads: SUBSET Sides, foreign: SUBSET Sides,
         noTable: SUBSET Sides, noColumn: SUBSET Sides]

ASSUME TasksAssumption ==
  \A t \in Tasks :
    /\ t \in Task
    /\ t.noTable \subseteq t.reads
    /\ t.emptyText /\ t.catalog = "text" => t.noTable = t.reads

VARIABLES
  pc,
  task,
  run,      \* the SandboxRun of Phase 1
  package,  \* the DiagnosticPackage of Phase 2
  hint      \* what learner_hint last returned

vars == <<pc, task, run, package, hint>>

NoRun == [executed |-> FALSE, status |-> "KNOWN_GAP", conclusion |-> "UNDECIDED",
          judge |-> "UNDECIDED", boundary |-> FALSE, guard |-> FALSE,
          diffs |-> FALSE, scopes |-> "none"]

NoPackage == [verdict |-> "UNDECIDED", diagnosis |-> "none", primary |-> FALSE,
              witness |-> "none", narrative |-> <<"", "", "">>]

NoHint == [kind |-> "none"]

----------------------------------------------------------------------------
(* Phase 1: the front door *)

\* _failed: the run of a task that stops before the comparison, without
\* differences for Phase 2.
Failed(internal, boundary) ==
  [executed |-> FALSE, status |-> FailureStatus(internal),
   conclusion |-> FailureConclusion(internal), judge |-> internal,
   boundary |-> boundary, guard |-> FALSE, diffs |-> FALSE, scopes |-> "none"]

Init ==
  /\ pc = "features"
  /\ task \in Tasks
  /\ run = NoRun /\ package = NoPackage /\ hint = NoHint

Return(result) == run' = result /\ pc' = "diagnose"

\* A check of the front door: the task fails it or goes on to the next one.
Check(here, next, fails, internal, boundary) ==
  /\ pc = here
  /\ IF fails THEN Return(Failed(internal, boundary)) ELSE pc' = next /\ UNCHANGED run
  /\ UNCHANGED <<task, package, hint>>

\* _detect_unsupported_features scans the text of both queries at once.
CheckFeatures == Check("features", "parse", task.unsupported # {}, "UNSUPPORTED", FALSE)

BugStudentParsedFirst ==
  /\ pc = "parse"
  /\ \/ /\ "student" \in task.unparsable
        /\ Return(Failed("WRONG", FALSE))
     \/ /\ task.unparsable = {"reference"}
        /\ Return(Failed("INPUT_ERROR", TRUE))
     \/ /\ task.unparsable = {}
        /\ pc' = "catalog" /\ UNCHANGED run
  /\ UNCHANGED <<task, package, hint>>

\* parse_sqlite_pair_or_raise looks at the reference first.
ParsePair ==
  /\ pc = "parse"
  /\ \/ /\ "reference" \in task.unparsable
        /\ Return(Failed("INPUT_ERROR", TRUE))
     \/ /\ task.unparsable = {"student"}
        /\ Return(Failed("WRONG", FALSE))
     \/ /\ task.unparsable = {}
        /\ pc' = "catalog" /\ UNCHANGED run
  /\ UNCHANGED <<task, package, hint>>

BuildCatalog ==
  Check("catalog", "schema", task.catalog = "malformed", "ENGINE_ERROR", FALSE)

\* A structured catalogue replaces the schema text, and it is never empty.
CheckSchema ==
  Check("schema", "namespaces",
        task.catalog = "text" /\ task.emptyText /\ task.reads # {}, "INPUT_ERROR", TRUE)

CheckNamespaces ==
  Check("namespaces", "reference", task.foreign # {}, "UNSUPPORTED", TRUE)

QualifyReference ==
  Check("reference", "student",
        "reference" \in task.noTable \cup task.noColumn, "INPUT_ERROR", FALSE)

\* A column that is missing on the student's side is left to the execution.
QualifyStudent ==
  Check("student", "prepare", "student" \in task.noTable, "WRONG", FALSE)

\* Extraction of the differences, the witness suite (WitnessSuite,
\* WorldMaterialisation) and the rendering of both queries, which may fail.
PreparePair ==
  \E rendered \in BOOLEAN : Check("prepare", "compare", ~rendered, "ENGINE_ERROR", FALSE)

Compared(status, conclusion, judge, boundary, guard, diffs) ==
  [executed |-> TRUE, status |-> status, conclusion |-> conclusion, judge |-> judge,
   boundary |-> boundary, guard |-> guard, diffs |-> diffs, scopes |-> "none"]

\* What _complete_comparison can publish, see Finalize of WitnessComparison.
Outcomes ==
  {Failed(i, FALSE) : i \in {"UNSUPPORTED", "ENGINE_ERROR", "TIMEOUT"}}
  \cup {Compared("SUPPORTED", "NOT_EQUIVALENT", "WRONG", FALSE, FALSE, d) : d \in BOOLEAN}
  \cup {Compared("SUPPORTED", "NO_COUNTEREXAMPLE_FOUND", "CORRECT", FALSE, FALSE, d) :
          d \in BOOLEAN}
  \cup {Compared("SEMANTIC_BOUNDARY", "UNDECIDED", "UNDECIDED", TRUE, FALSE, TRUE),
        Compared("KNOWN_GAP", "UNDECIDED", "UNDECIDED", FALSE, TRUE, TRUE)}

\* The comparison, and the scope metadata, whose failure is only recorded.
Compare ==
  /\ pc = "compare"
  /\ \E outcome \in Outcomes, metadata \in {"COMPLETE", "PARTIAL"} :
       Return([outcome EXCEPT !.scopes = metadata])
  /\ UNCHANGED <<task, package, hint>>

----------------------------------------------------------------------------
(* Phase 2 and the hints *)

\* What the audit knows of the primary error's best obligation: nothing, that
\* it was shown in a world other than the selected one, or, in the selected
\* world, that its rows fail, tell the queries apart, or prove the cause.
Effects == {"none", "elsewhere", "weak", "distinguished", "causal"}

\* _extract_witness.  applied: the report names rows for the primary error;
\* linked: at least one of them exists in the database.
Witness(primary, effect, applied, linked) ==
  CASE ~primary \/ effect = "elsewhere" -> "OUTPUT_ONLY"
    [] OTHER ->
       IF ~applied
       THEN IF effect \in {"distinguished", "causal"} THEN "PAIR_DISTINGUISHED" ELSE "OUTPUT_ONLY"
       ELSE IF ~linked THEN "OUTPUT_ONLY"
       ELSE IF effect = "causal" THEN "CAUSAL_VERIFIED" ELSE "PAIR_DISTINGUISHED"

\* _narrative: what the three slots (location, witness, reflection) say.
Narrative(verdict, primary, witness) ==
  CASE verdict = "CORRECT" -> <<"no counterexample", "no conflict", "accepted, not proved">>
    [] verdict = "UNDECIDED" -> <<"insufficient evidence", "no fault", "no update">>
    [] verdict = "INCORRECT" /\ ~primary ->
         <<"execution differs", "not localised", "check the stages">>
    [] OTHER ->
         <<"behaviour of the rule",
           CASE witness = "CAUSAL_VERIFIED" -> "causal witness"
             [] witness = "PAIR_DISTINGUISHED" -> "bounded witness"
             [] OTHER -> "output differs",
           "guidance of the rule">>

Undiagnosed(verdict, diagnosis) ==
  [verdict |-> verdict, diagnosis |-> diagnosis, primary |-> FALSE, witness |-> "none",
   narrative |-> Narrative(verdict, FALSE, "none")]

Diagnosed(primary, witness) ==
  [verdict |-> "INCORRECT", diagnosis |-> IF primary THEN "SUPPORTED" ELSE "PARTIAL",
   primary |-> primary, witness |-> witness,
   narrative |-> Narrative("INCORRECT", primary, witness)]

\* Whether a primary error is found is DiagnosisRanking's business; there is
\* none without a difference.
Packages(verdict, diffs) ==
  CASE verdict = "CORRECT" -> {Undiagnosed("CORRECT", "OPERATIONALLY_ACCEPTED")}
    [] verdict = "UNDECIDED" -> {Undiagnosed("UNDECIDED", "UNDECIDED")}
    [] OTHER ->
       {Diagnosed(p, Witness(p, e, a, l)) :
          p \in (IF diffs THEN BOOLEAN ELSE {FALSE}), e \in Effects,
          a \in BOOLEAN, l \in BOOLEAN}

BugDiagnosesGaps ==
  /\ pc = "diagnose"
  /\ package' \in Packages(IF RichVerdict(run) = "CORRECT" THEN "CORRECT" ELSE "INCORRECT",
                           run.diffs)
  /\ pc' = "ready"
  /\ UNCHANGED <<task, run, hint>>

\* diagnose_record
Diagnose ==
  /\ pc = "diagnose"
  /\ package' \in Packages(RichVerdict(run), run.diffs)
  /\ pc' = "ready"
  /\ UNCHANGED <<task, run, hint>>

Kind(level) == <<"LOCATION", "WITNESS", "REFLECTION">>[level]

\* learner_hint can be asked at any time, in any order and again; a level out
\* of range raises ValueError.
LearnerHint(level) ==
  /\ pc = "ready"
  /\ hint' = IF level \notin 1 .. 3 THEN NoHint
             ELSE [kind |-> Kind(level), verdict |-> package.verdict,
                   focus |-> package.primary, message |-> package.narrative[level],
                   witness |-> IF level = 2 THEN package.witness ELSE "none"]
  /\ UNCHANGED <<pc, task, run, package>>

Next ==
  \/ CheckFeatures \/ ParsePair \/ BuildCatalog \/ CheckSchema \/ CheckNamespaces
  \/ QualifyReference \/ QualifyStudent \/ PreparePair \/ Compare
  \/ Diagnose
  \/ \E level \in 0 .. 4 : LearnerHint(level)

Spec == Init /\ [][Next]_vars

----------------------------------------------------------------------------
(* Properties *)

\* Whatever else is wrong with the student's query, it is blamed only next to
\* a reference that was found in order first: the checks of generate_and_compare
\* run reference before student, and only an unparsable student query is
\* blamed before the schema and the reference's names have been looked at.
BlameNeedsSoundReference ==
  run.conclusion = "NOT_EQUIVALENT" =>
    /\ task.unsupported = {} /\ "reference" \notin task.unparsable
    /\ \/ "student" \in task.unparsable
       \/ /\ task.catalog # "malformed" /\ task.foreign = {}
          /\ "reference" \notin task.noTable \cup task.noColumn
          /\ "student" \in task.noTable \/ run.executed

\* A task without a verdict teaches nothing: however often a learner asks, no
\* error is pointed at, no rows are shown and every text says that no fault is
\* asserted (the UNDECIDED exit of diagnose_record).
GapsTeachNothing ==
  hint # NoHint /\ run.conclusion = "UNDECIDED" =>
    /\ hint.verdict = "UNDECIDED" /\ ~hint.focus /\ hint.witness = "none"
    /\ hint.message \in {"insufficient evidence", "no fault", "no update"}

=============================================================================
