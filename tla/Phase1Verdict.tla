--------------------------- MODULE Phase1Verdict ---------------------------
(***************************************************************************)
(* The vocabulary in which Phase 1 publishes a verdict and the gate through *)
(* which Phase 2 reads it: phase1_verdict.py, the verdict-setting helpers   *)
(* of phase1_foundation.py and _rich_verdict of error_diagnosis.py.         *)
(* A run is any record with the fields executed, status, conclusion, judge, *)
(* boundary (is boundary_evidence non-empty) and guard (is a verdict_guard   *)
(* attached).                                                               *)
(***************************************************************************)

Statuses == {"SUPPORTED", "SUPPORTED_WITH_LIMITS", "SEMANTIC_BOUNDARY",
             "KNOWN_GAP", "ENGINE_GAP", "INPUT_GAP"}

Conclusions == {"NOT_EQUIVALENT", "NO_COUNTEREXAMPLE_FOUND", "UNDECIDED"}

\* Why a task stopped before a comparison: the keys of FAILURE_PROJECTIONS.
FailureStatuses == {"WRONG", "INPUT_ERROR", "UNSUPPORTED", "SECURITY_REJECTED",
                    "ENGINE_GAP", "ENGINE_ERROR", "TIMEOUT", "UNDECIDED"}

JudgeStatuses == FailureStatuses \cup {"CORRECT"}

Verdicts == {"INCORRECT", "CORRECT", "UNDECIDED"}

\* FAILURE_PROJECTIONS: the public status of a low-level failure.
FailureProjections ==
  [WRONG |-> "SUPPORTED", INPUT_ERROR |-> "INPUT_GAP", UNSUPPORTED |-> "KNOWN_GAP",
   SECURITY_REJECTED |-> "KNOWN_GAP", ENGINE_GAP |-> "ENGINE_GAP",
   ENGINE_ERROR |-> "ENGINE_GAP", TIMEOUT |-> "ENGINE_GAP", UNDECIDED |-> "KNOWN_GAP"]

\* project_failure: only "WRONG" carries a determinate conclusion.
FailureStatus(internal) == FailureProjections[internal]

FailureConclusion(internal) ==
  IF internal = "WRONG" THEN "NOT_EQUIVALENT" ELSE "UNDECIDED"

\* _set_public_verdict, its judge field: it follows the conclusion; an unexecuted
\* run keeps the judge status it had when nothing was found.
PublicJudge(run, conclusion) ==
  IF conclusion = "NOT_EQUIVALENT" THEN "WRONG"
  ELSE IF conclusion = "UNDECIDED" THEN "UNDECIDED"
  ELSE IF run.executed THEN "CORRECT" ELSE run.judge

\* _rich_verdict: the only door from Phase 1 evidence to a learner verdict.
ReportsWrong(run) ==
  /\ run.conclusion = "NOT_EQUIVALENT"
  /\ run.status \in {"SUPPORTED", "SUPPORTED_WITH_LIMITS"}
  /\ run.judge = "WRONG"

ReportsAccepted(run) ==
  /\ run.conclusion = "NO_COUNTEREXAMPLE_FOUND"
  /\ run.executed
  /\ run.status \in {"SUPPORTED", "SUPPORTED_WITH_LIMITS"}
  /\ run.judge = "CORRECT"
  /\ ~run.boundary
  /\ ~run.guard

RichVerdict(run) ==
  IF ReportsWrong(run) THEN "INCORRECT"
  ELSE IF ReportsAccepted(run) THEN "CORRECT" ELSE "UNDECIDED"
============================================================================
