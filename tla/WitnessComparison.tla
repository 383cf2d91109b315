------------------------- MODULE WitnessComparison -------------------------
(***************************************************************************)
(* _complete_comparison of phase1_engine.py with the functions it calls: the *)
(* loop that executes every world of a witness suite, retries a world with  *)
(* regenerated rows, validates the atomic differences, selects one trial,   *)
(* replays it with mutation tests and closes the verdict.                   *)
(*                                                                         *)
(* A trial is named by the world and the attempt it belongs to, <<w, a>>.   *)
(* A database is abstracted to the attempt that generated it and to what    *)
(* the query pair does on it when nothing interrupts SQLite.  An atomic     *)
(* difference and the obligation compiled from it share one name.           *)
(*                                                                         *)
(* An operator whose name starts with Bug is a defect put in place of the    *)
(* definition below it to see that a property notices; nothing uses it.      *)
(***************************************************************************)
EXTENDS Integers, Sequences, FiniteSets, Phase1Verdict

CONSTANTS
  AstDiffs,        \* the stable ids of the pair's AST differences
  Obligations,     \* the differences for which an obligation was compiled
  SetDiffs,        \* differences in a set operator or its modifier
  RecursiveDiffs,  \* differences in a recursive CTE
  Suites,          \* the witness suites to compare: sequences of worlds
  MaxWorlds,       \* MAX_WITNESS_WORLDS
  MaxAttempts,     \* _MAX_WITNESS_ATTEMPTS
  DeadlineMayFire  \* may the 0.5 s wall clock abort a query that could finish

World == 1 .. MaxWorlds
Attempt == 0 .. (MaxAttempts - 1)
TrialId == World \X Attempt
NoTrial == <<0, 0>>

\* What the planner hands over: the diffs a world must show, and whether it is
\* the compatibility composite.
WorldPlan == [diffs: SUBSET Obligations, composite: BOOLEAN]

ASSUME ComparisonAssumption ==
  /\ Obligations \subseteq AstDiffs
  /\ SetDiffs \subseteq AstDiffs /\ RecursiveDiffs \subseteq AstDiffs
  /\ MaxWorlds \in Nat \ {0} /\ MaxAttempts \in Nat \ {0}
  /\ DeadlineMayFire \in BOOLEAN
  /\ Suites \subseteq {s \in Seq(WorldPlan) : Len(s) <= MaxWorlds}

Behaviours == {"agree", "differ", "student_error", "reference_error"}
Databases == [gen: Attempt, behaviour: Behaviours]

Causes == {"compared", "student_error", "interrupted", "failed"}
Runs == [executed: BOOLEAN, equal: BOOLEAN, cause: Causes, db: Databases,
         mutations: BOOLEAN, status: Statuses, conclusion: Conclusions,
         judge: JudgeStatuses, boundary: BOOLEAN, guard: BOOLEAN]

AttemptRecords == [distinguished: BOOLEAN, covered: BOOLEAN,
                   atomic: SUBSET Obligations]

VARIABLES
  suite,       \* suite.worlds
  atBoundary,  \* does the pair's LIMIT or DISTINCT/HAVING bound match a diff
  pc,
  w, a,        \* the loop's world and attempt
  db,          \* world.database of every world
  trial,       \* the run of the current attempt
  recorded,    \* the ids in trials
  trials,      \* the run of every recorded id
  attempts,    \* world.execution["attempts"]
  mutated,     \* worlds with a mutation_validation entry
  selected,    \* the selected trial: its id and its run
  final,       \* final_run
  evidence     \* the audit _attach_witness_evidence leaves in data_evidence

vars == <<suite, atBoundary, pc, w, a, db, trial, recorded, trials, attempts,
          mutated, selected, final, evidence>>

----------------------------------------------------------------------------
PairDistinguished(run) == run.executed /\ ~run.equal

BugFailedAsWrong(d, internal) ==
  [executed |-> FALSE, equal |-> FALSE, cause |-> "failed", db |-> d,
   mutations |-> FALSE, status |-> FailureStatus("WRONG"),
   conclusion |-> FailureConclusion("WRONG"), judge |-> "WRONG",
   boundary |-> FALSE, guard |-> FALSE]

\* _failed: a run without a verdict on this database.
FailedRun(d, internal) ==
  [executed |-> FALSE, equal |-> FALSE, cause |-> "failed", db |-> d,
   mutations |-> FALSE, status |-> FailureStatus(internal),
   conclusion |-> FailureConclusion(internal), judge |-> internal,
   boundary |-> FALSE, guard |-> FALSE]

\* _complete_comparison_single past both executions, with the bounded verdict
\* of _classify_bounded_verdict.
ExecutedRun(d, cause, equal, withMutations) ==
  LET limited == equal /\ atBoundary
  IN [executed |-> TRUE, equal |-> equal, cause |-> cause, db |-> d,
      mutations |-> withMutations,
      status |-> IF limited THEN "SEMANTIC_BOUNDARY" ELSE "SUPPORTED",
      conclusion |-> IF ~equal THEN "NOT_EQUIVALENT"
                     ELSE IF limited THEN "UNDECIDED" ELSE "NO_COUNTEREXAMPLE_FOUND",
      judge |-> IF ~equal THEN "WRONG"
                ELSE IF limited THEN "UNDECIDED" ELSE "CORRECT",
      boundary |-> limited, guard |-> FALSE]

\* The runs SQLite can produce on a database when it is not interrupted.
UninterruptedRuns(d, withMutations) ==
  IF d.behaviour = "reference_error"
  THEN {FailedRun(d, internal) : internal \in {"UNSUPPORTED", "ENGINE_ERROR"}}
  ELSE IF d.behaviour = "student_error"
  THEN {ExecutedRun(d, "student_error", FALSE, withMutations)}
  ELSE {ExecutedRun(d, "compared", d.behaviour = "agree", withMutations)}

\* The progress handler's abort reaches Python as "interrupted", which
\* _is_execution_timeout does not know: on the reference side the run fails, on
\* the student side it is taken for an error of the student's query.
InterruptedRuns(d, withMutations) ==
  {FailedRun(d, "ENGINE_ERROR")} \cup
  (IF d.behaviour = "reference_error" THEN {}
   ELSE {ExecutedRun(d, "interrupted", FALSE, withMutations)})

RunsOn(d, withMutations) ==
  UninterruptedRuns(d, withMutations) \cup
  (IF DeadlineMayFire THEN InterruptedRuns(d, withMutations) ELSE {})

\* Trials are appended in loop order, so "the first" is the smallest id.
Precedes(s, t) == s[1] < t[1] \/ (s[1] = t[1] /\ s[2] < t[2])
IsFirst(t, S) == t \in S /\ \A u \in S : u = t \/ Precedes(t, u)

BugOneAttemptTooMany(x) == IF suite[x].diffs # {} THEN MaxAttempts + 1 ELSE 1

AttemptLimit(x) == IF suite[x].diffs # {} THEN MaxAttempts ELSE 1

----------------------------------------------------------------------------
BlankDatabase == [gen |-> 0, behaviour |-> "reference_error"]
BlankRun ==
  [executed |-> FALSE, equal |-> FALSE, cause |-> "failed", db |-> BlankDatabase,
   mutations |-> FALSE, status |-> "ENGINE_GAP", conclusion |-> "UNDECIDED",
   judge |-> "ENGINE_ERROR", boundary |-> FALSE, guard |-> FALSE]
BlankRecord == [distinguished |-> FALSE, covered |-> FALSE, atomic |-> {}]

Init ==
  /\ suite \in Suites
  /\ atBoundary \in (IF AstDiffs = {} THEN {FALSE} ELSE BOOLEAN)
  /\ pc = IF suite = << >> THEN "select" ELSE "run"
  /\ w = 1 /\ a = 0
  /\ db \in {f \in [World -> {d \in Databases : d.gen = 0}] :
               \A x \in World \ (DOMAIN suite) : f[x] = BlankDatabase}
  /\ trial = BlankRun
  /\ recorded = {}
  /\ trials = [t \in TrialId |-> BlankRun]
  /\ attempts = [t \in TrialId |-> BlankRecord]
  /\ mutated = {}
  /\ selected = [id |-> NoTrial, run |-> BlankRun]
  /\ final = BlankRun
  /\ evidence = [anyWorld |-> FALSE, causal |-> {}, world |-> 0]

\* _run_witness_world without mutation tests.
RunTrial ==
  /\ pc = "run"
  /\ trial' \in RunsOn(db[w], FALSE)
  /\ pc' = "record"
  /\ UNCHANGED <<suite, atBoundary, w, a, db, recorded, trials, attempts,
                 mutated, selected, final, evidence>>

BugStopAtConflict ==
  IF w < Len(suite) /\ selected.id = NoTrial
  THEN w' = w + 1 /\ a' = 0 /\ pc' = "run"
  ELSE pc' = "select" /\ UNCHANGED <<w, a>>

\* The world loop's continue: the next world starts at attempt 0.
LeaveWorld ==
  IF w < Len(suite)
  THEN w' = w + 1 /\ a' = 0 /\ pc' = "run"
  ELSE pc' = "select" /\ UNCHANGED <<w, a>>

\* What one attempt still asks for, in the order of the loop body's exits.
Proceed(run, covered) ==
  IF PairDistinguished(run) /\ covered
  THEN pc' = "mutate" /\ UNCHANGED <<w, a>>
  ELSE IF covered \/ ~run.executed \/ a + 1 >= AttemptLimit(w)
  THEN LeaveWorld
  ELSE pc' = "regenerate" /\ UNCHANGED <<w, a>>

\* _validate_world_atomic_diffs: every diff of the world gets one mutant.  A
\* mutant that SQLite rejects counts as distinguished when the pair differs.
MutantOutcomes(run) ==
  {"differs", "same", "unsupported"} \cup
  (IF PairDistinguished(run) THEN {"rejected"} ELSE {})

AtomicValidations(run, x) ==
  IF run.executed THEN [suite[x].diffs -> MutantOutcomes(run)]
  ELSE {[d \in {} |-> "same"]}

ShownDiffs(outcome) ==
  {d \in DOMAIN outcome : outcome[d] \in {"differs", "rejected"}}

AllShown(outcome) ==
  /\ DOMAIN outcome # {}
  /\ \A d \in DOMAIN outcome : outcome[d] = "differs"

BugHoldLast(run) ==
  IF PairDistinguished(run) THEN [id |-> <<w, a>>, run |-> run] ELSE selected

\* The first conflict is held, whatever comes later.
HoldFirst(run) ==
  IF PairDistinguished(run) /\ selected.id = NoTrial
  THEN [id |-> <<w, a>>, run |-> run] ELSE selected

\* _record_world_attempt, trials.append and the first-counterexample rule.
RecordTrial ==
  /\ pc = "record"
  /\ \E outcome \in AtomicValidations(trial, w) :
       /\ attempts' = [attempts EXCEPT ![<<w, a>>] =
            [distinguished |-> PairDistinguished(trial),
             covered |-> AllShown(outcome), atomic |-> ShownDiffs(outcome)]]
       /\ Proceed(trial, AllShown(outcome))
  /\ recorded' = recorded \cup {<<w, a>>}
  /\ trials' = [trials EXCEPT ![<<w, a>>] = trial]
  /\ selected' = HoldFirst(trial)
  /\ UNCHANGED <<suite, atBoundary, db, trial, mutated, final, evidence>>

BugHoldUnvalidated(run) == selected   \* the held tuple forgets the re-run

\* The held tuple follows the trial it was taken from.
HoldValidated(run) ==
  IF selected.id = <<w, a>> THEN [id |-> selected.id, run |-> run] ELSE selected

\* The re-run with mutation tests of a trial that shows both the pair's
\* conflict and every atomic difference; an executed one replaces the trial.
ValidateWithMutations ==
  /\ pc = "mutate"
  /\ \E run \in RunsOn(db[w], TRUE) :
       IF run.executed
       THEN /\ trial' = run
            /\ trials' = [trials EXCEPT ![<<w, a>>] = run]
            /\ mutated' = mutated \cup {w}
            /\ selected' = HoldValidated(run)
       ELSE UNCHANGED <<trial, trials, mutated, selected>>
  /\ LeaveWorld
  /\ UNCHANGED <<suite, atBoundary, db, recorded, attempts, final, evidence>>

BugAttemptNotCounted ==
  /\ pc = "regenerate"
  /\ \E b \in Behaviours :
       db' = [db EXCEPT ![w] = [gen |-> a + 1, behaviour |-> b]]
  /\ pc' = "run"
  /\ UNCHANGED <<suite, atBoundary, w, a, trial, recorded, trials, attempts,
                 mutated, selected, final, evidence>>

\* _regenerate_witness_world: feedback that adjusts a target row replaces the
\* world's database, otherwise the world is left as it is.
Regenerate ==
  /\ pc = "regenerate"
  /\ \E b \in Behaviours :
       db' = [db EXCEPT ![w] = [gen |-> a + 1, behaviour |-> b]]
  /\ a' = a + 1
  /\ pc' = "run"
  /\ UNCHANGED <<suite, atBoundary, w, trial, recorded, trials, attempts,
                 mutated, selected, final, evidence>>

FeedbackNotTargeted ==
  /\ pc = "regenerate"
  /\ LeaveWorld
  /\ UNCHANGED <<suite, atBoundary, db, trial, recorded, trials, attempts,
                 mutated, selected, final, evidence>>

----------------------------------------------------------------------------
\* The selection after the loop.
Candidates ==
  {t \in recorded : PairDistinguished(trials[t]) /\ attempts[t].covered}

Showing(S, diffs) == {t \in S : suite[t[1]].diffs \cap diffs # {}}

BugAnyComposite == {t \in recorded : suite[t[1]].composite}

CompositeConflicts ==
  {t \in recorded : suite[t[1]].composite /\ PairDistinguished(trials[t])}

ExecutedTrials == {t \in recorded : trials[t].executed}

BugCompositeFirst ==
  IF CompositeConflicts # {} THEN CompositeConflicts ELSE Candidates

\* The preferred trials: recursive, then set differences, then any candidate,
\* then the composite's conflicts.
PreferredPool ==
  IF Showing(Candidates, RecursiveDiffs) # {} THEN Showing(Candidates, RecursiveDiffs)
  ELSE IF Showing(Candidates, SetDiffs) # {} THEN Showing(Candidates, SetDiffs)
  ELSE IF Candidates # {} THEN Candidates
  ELSE CompositeConflicts

\* Without a preferred trial: the first conflict, then the first executed trial.
FallbackPool == IF ExecutedTrials # {} THEN ExecutedTrials ELSE recorded

Select(id, run) ==
  /\ selected' = [id |-> id, run |-> run]
  /\ final' = run
  /\ pc' = IF run.executed /\ ~run.mutations THEN "replay" ELSE "attach"

SelectTrial ==
  /\ pc = "select"
  /\ IF PreferredPool # {}
     THEN \E t \in PreferredPool : IsFirst(t, PreferredPool) /\ Select(t, trials[t])
     ELSE IF selected.id # NoTrial THEN Select(selected.id, selected.run)
     ELSE IF recorded # {}
     THEN \E t \in FallbackPool : IsFirst(t, FallbackPool) /\ Select(t, trials[t])
     ELSE /\ final' = FailedRun(BlankDatabase, "ENGINE_ERROR")
          /\ pc' = "attach"
          /\ UNCHANGED selected
  /\ UNCHANGED <<suite, atBoundary, w, a, db, trial, recorded, trials, attempts,
                 mutated, evidence>>

BugReplayNewestRows ==
  /\ pc = "replay"
  /\ \E run \in RunsOn(IF selected.id = NoTrial THEN selected.run.db
                        ELSE db[selected.id[1]], TRUE) :
       final' = IF run.executed THEN run ELSE selected.run
  /\ pc' = "attach"
  /\ UNCHANGED <<suite, atBoundary, w, a, db, trial, recorded, trials, attempts,
                 mutated, selected, evidence>>

\* The replay with mutation tests on the rows of the selected trial.
ReplaySelected ==
  /\ pc = "replay"
  /\ \E run \in RunsOn(selected.run.db, TRUE) :
       final' = IF run.executed THEN run ELSE selected.run
  /\ pc' = "attach"
  /\ UNCHANGED <<suite, atBoundary, w, a, db, trial, recorded, trials, attempts,
                 mutated, selected, evidence>>

----------------------------------------------------------------------------
\* _attach_witness_evidence: one world speaks for each obligation.
AttemptsOf(x) == {t \in recorded : t[1] = x}
Holding(o) == {x \in DOMAIN suite : o \in suite[x].diffs}
Covering(o) ==
  {x \in Holding(o) : \E t \in AttemptsOf(x) : attempts[t].covered}

SpeaksFor(x, o) ==
  LET pool == IF Covering(o) # {} THEN Covering(o) ELSE Holding(o)
  IN x \in pool /\ \A y \in pool : x <= y

\* The atomic tests of every attempt of that world count.
AtomicallyShown(o) ==
  \E t \in recorded : SpeaksFor(t[1], o) /\ o \in attempts[t].atomic

\* _set_public_verdict, and the verdict guard attached along with it.
SetPublicVerdict(run, status, conclusion, guard) ==
  [executed |-> run.executed, equal |-> run.equal, cause |-> run.cause,
   db |-> run.db, mutations |-> run.mutations, status |-> status,
   conclusion |-> conclusion, judge |-> PublicJudge(run, conclusion),
   boundary |-> run.boundary, guard |-> guard]

BugEqualIsCorrect(run, anyObligation) ==
  IF ~run.executed THEN run
  ELSE IF ~run.equal THEN SetPublicVerdict(run, "SUPPORTED", "NOT_EQUIVALENT", FALSE)
  ELSE SetPublicVerdict(run, "SUPPORTED", "NO_COUNTEREXAMPLE_FOUND", FALSE)

\* _finalize_witness_verdict
Finalize(run, anyObligation) ==
  IF ~run.executed THEN run
  ELSE IF ~run.equal THEN SetPublicVerdict(run, "SUPPORTED", "NOT_EQUIVALENT", FALSE)
  ELSE IF AstDiffs = {}
  THEN SetPublicVerdict(run, "SUPPORTED", "NO_COUNTEREXAMPLE_FOUND", FALSE)
  ELSE IF run.status = "SEMANTIC_BOUNDARY"
  THEN SetPublicVerdict(run, "SEMANTIC_BOUNDARY", "UNDECIDED", FALSE)
  ELSE IF anyObligation
  THEN SetPublicVerdict(run, "SUPPORTED", "NO_COUNTEREXAMPLE_FOUND", FALSE)
  ELSE SetPublicVerdict(run, "KNOWN_GAP", "UNDECIDED", TRUE)

\* validate_obligation looks at the rows that the world holds now, so what it
\* finds is independent of the attempt that showed the difference.
AttachEvidence ==
  /\ pc = "attach"
  /\ \E satisfied \in SUBSET {o \in Obligations : AtomicallyShown(o)} :
       /\ evidence' = [anyWorld |-> \E t \in recorded : attempts[t].distinguished,
                       causal |-> satisfied, world |-> selected.id[1]]
       /\ final' = Finalize(final, satisfied # {})
  /\ pc' = "done"
  /\ UNCHANGED <<suite, atBoundary, w, a, db, trial, recorded, trials, attempts,
                 mutated, selected>>

Next ==
  \/ RunTrial
  \/ RecordTrial
  \/ ValidateWithMutations
  \/ Regenerate
  \/ FeedbackNotTargeted
  \/ SelectTrial
  \/ ReplaySelected
  \/ AttachEvidence

Spec == Init /\ [][Next]_vars

\* The comparison is one synchronous call: it keeps going until it returns.
FairSpec == Spec /\ WF_vars(Next)
----------------------------------------------------------------------------
Controls == {"run", "record", "mutate", "regenerate", "select", "replay",
             "attach", "done"}
Looping == pc \in {"run", "record", "mutate", "regenerate"}

\* The type invariant of the comparison's local and per-world state.
TypeOK ==
  /\ suite \in Suites
  /\ atBoundary \in BOOLEAN
  /\ pc \in Controls
  /\ w \in World /\ a \in Attempt
  /\ db \in [World -> Databases]
  /\ trial \in Runs
  /\ recorded \in SUBSET TrialId
  /\ trials \in [TrialId -> Runs]
  /\ attempts \in [TrialId -> AttemptRecords]
  /\ mutated \in SUBSET World
  /\ selected \in [id: TrialId \cup {NoTrial}, run: Runs]
  /\ final \in Runs
  /\ evidence \in [anyWorld: BOOLEAN, causal: SUBSET Obligations, world: 0 .. MaxWorlds]

\* Until the final selection, the tuple held in "selected" is the first trial
\* whose pair conflict was recorded, whatever later worlds and attempts find.
Conflicts == {t \in recorded : attempts[t].distinguished}
SelectedIsFirstConflict ==
  Looping \/ pc = "select" =>
             IF Conflicts = {} THEN selected.id = NoTrial
             ELSE /\ selected.id \in Conflicts
                  /\ \A t \in Conflicts : t = selected.id \/ Precedes(selected.id, t)

\* The selected tuple and the list of trials are two copies of one run: the
\* replacement of a trial by its mutation-validated run reaches both, before the
\* selection compares trials and after it.
SelectedInSync ==
  selected.id # NoTrial =>
    selected.id \in recorded /\ selected.run = trials[selected.id]

\* A world is retried only after an executed attempt that left a difference
\* unshown, and no attempt is skipped.
RetriesAreEarned ==
  \A x \in World : \A k \in Attempt \ {0} :
    <<x, k>> \in recorded =>
      /\ <<x, k - 1>> \in recorded
      /\ trials[<<x, k - 1>>].executed
      /\ ~attempts[<<x, k - 1>>].covered

\* Nothing is selected before every world of the suite was executed at least
\* once: a conflict in an early world must not hide the evidence of a later one.
EveryWorldAttempted ==
  ~Looping => \A x \in DOMAIN suite : <<x, 0>> \in recorded

\* When executions repeat, a recorded conflict in any world and attempt decides
\* the published verdict, and only a recorded conflict does: neither the
\* preference rules nor the two re-runs may lose it or invent one.
ConflictDecidesVerdict ==
  ~DeadlineMayFire /\ pc = "done" =>
    (evidence.anyWorld <=> RichVerdict(final) = "INCORRECT")

\* A learner is told "wrong" only with rows on which the two queries really
\* behave differently, and these are the rows of the selected trial.
WrongHasSeparatingRows ==
  ~DeadlineMayFire /\ pc = "done" /\ RichVerdict(final) = "INCORRECT" =>
    /\ final.db.behaviour \in {"differ", "student_error"}
    /\ final.db = selected.run.db

\* An answer whose query differs from the reference is accepted only when some
\* obligation was shown and validated, off every semantic boundary.
AcceptanceHasEvidence ==
  pc = "done" /\ RichVerdict(final) = "CORRECT" /\ AstDiffs # {} =>
    /\ ~atBoundary
    /\ evidence.causal # {}
    /\ \A o \in evidence.causal : \E t \in recorded : o \in attempts[t].atomic

\* If some trial shows the conflict together with all differences of its world,
\* then such a trial is the one that is selected.
AttributionPreferred ==
  ~Looping /\ pc # "select" /\ Candidates # {} => selected.id \in Candidates

\* Without one executed trial there is no verdict about the student.
FailClosed ==
  pc = "done" /\ RichVerdict(final) # "UNDECIDED" =>
    \E t \in recorded : trials[t].executed

\* Recorded attempts are never rewritten; a recorded trial is only ever replaced
\* by a mutation-tested run on the very same rows.
HistoryKept ==
  [][\A t \in recorded :
       /\ t \in recorded'
       /\ attempts'[t] = attempts[t]
       /\ trials'[t] # trials[t] =>
            trials'[t].executed /\ trials'[t].mutations /\ trials'[t].db = trials[t].db]_vars

\* The comparison returns: worlds and attempts are bounded.
Returns == <>(pc = "done")

----------------------------------------------------------------------------
\* What documents and comments of the repository say and the code does not do.

\* "A reference error, a platform error or a timeout is never wrapped as a
\* semantic error of the student": no verdict "wrong" comes from a query that
\* the progress handler aborted.
TimeoutNeverBlamesStudent ==
  pc = "done" /\ RichVerdict(final) = "INCORRECT" => final.cause # "interrupted"

----------------------------------------------------------------------------
\* The refinement of JudgeContract.
Concluded == pc \in {"attach", "done"}
SeenConflict == Conflicts # {} \/ (Concluded /\ PairDistinguished(final))
SeenAgreement ==
  \/ \E t \in recorded : trials[t].executed /\ ~attempts[t].distinguished
  \/ Concluded /\ final.executed /\ final.equal

SeenObservations ==
  {o \in {"agreement", "conflict"} :
     IF o = "conflict" THEN SeenConflict ELSE SeenAgreement}
PublishedVerdict == IF pc = "done" THEN RichVerdict(final) ELSE "pending"

Judge == INSTANCE JudgeContract WITH
  Reliable <- ~DeadlineMayFire, seen <- SeenObservations, verdict <- PublishedVerdict

\* The comparison keeps the judge's contract.
KeepsContract == Judge!Spec
============================================================================
