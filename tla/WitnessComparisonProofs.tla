---------------------- MODULE WitnessComparisonProofs ----------------------
(***************************************************************************)
(* Proofs about WitnessComparison for every suite, every number of worlds    *)
(* and attempts, and with or without an interrupting wall clock.             *)
(***************************************************************************)
EXTENDS WitnessComparison, ConstraintLedgerProofs

----------------------------------------------------------------------------
\* What a run means, whatever database it ran on.
Meaningful(run) ==
  /\ ~run.executed => run.conclusion = "UNDECIDED"
  /\ run.executed /\ run.equal /\ atBoundary => run.status = "SEMANTIC_BOUNDARY"

\* A run that nothing interrupted says what the pair does on its rows.
Faithful(run) ==
  /\ run.executed <=> run.db.behaviour # "reference_error"
  /\ run.executed => (run.equal <=> run.db.behaviour = "agree")

\* Where the two loops stand, and that the current slot is still to be recorded.
LoopPosition ==
  /\ Looping => w \in DOMAIN suite
  /\ pc = "regenerate" => a + 1 < MaxAttempts
  /\ pc = "record" => trial.db = db[w]
  /\ pc = "mutate" => trials[<<w, a>>].db = db[w]
  /\ a # 0 => <<w, 0>> \in recorded
  /\ pc \in {"mutate", "regenerate"} => <<w, a>> \in recorded
  /\ pc \in {"run", "record"} => \A t \in recorded : Precedes(t, <<w, a>>)
  /\ pc \in {"mutate", "regenerate"} =>
       \A t \in recorded : t = <<w, a>> \/ Precedes(t, <<w, a>>)

WorldsVisited ==
  /\ Looping => \A x \in 1 .. (w - 1) : <<x, 0>> \in recorded
  /\ ~Looping => \A x \in DOMAIN suite : <<x, 0>> \in recorded

RunsMeaningful ==
  /\ Meaningful(trial) /\ Meaningful(selected.run)
  /\ \A t \in TrialId : Meaningful(trials[t])
  /\ pc # "done" => Meaningful(final)

\* A recorded run and its attempt record agree as long as executions repeat.
RecordsFaithful ==
  ~DeadlineMayFire =>
    /\ pc = "record" => Faithful(trial)
    /\ \A t \in recorded :
         /\ Faithful(trials[t])
         /\ attempts[t].distinguished <=> PairDistinguished(trials[t])

\* An empty selection has no run; only an executed one is replayed.
SelectionExecuted ==
  /\ selected.id = NoTrial => ~selected.run.executed
  /\ pc = "replay" => selected.run.executed

\* The selection carries a conflict exactly when one was recorded.
SelectionDecides ==
  ~DeadlineMayFire /\ ~Looping /\ pc # "select" =>
    /\ PairDistinguished(selected.run) <=> Conflicts # {}
    /\ Concluded => (PairDistinguished(final) <=> Conflicts # {})

IInv ==
  /\ TypeOK
  /\ SelectedInSync
  /\ SelectedIsFirstConflict
  /\ LoopPosition
  /\ WorldsVisited
  /\ RunsMeaningful
  /\ RecordsFaithful
  /\ SelectionExecuted
  /\ SelectionDecides

\* Where the returned run comes from, and what its verdict says about it.
FinalTraced ==
  pc \in {"replay", "attach", "done"} /\ final.executed =>
    /\ selected.run.executed
    /\ final.db = selected.run.db
    /\ ~DeadlineMayFire => Faithful(final)

VerdictCarried ==
  pc = "done" =>
    /\ PairDistinguished(final) <=> RichVerdict(final) = "INCORRECT"
    /\ RichVerdict(final) = "CORRECT" => final.executed /\ final.equal
    /\ evidence.anyWorld <=> Conflicts # {}
----------------------------------------------------------------------------
\* Facts about single runs.

LEMMA FailedRunFacts ==
  ASSUME NEW d \in Databases, NEW internal \in {"UNSUPPORTED", "ENGINE_ERROR"}
  PROVE  LET run == FailedRun(d, internal)
         IN /\ run \in Runs /\ run.db = d
            /\ ~run.executed /\ run.conclusion = "UNDECIDED"
BY DEF FailedRun, Runs, Causes, FailureStatus, FailureProjections, FailureConclusion,
       FailureStatuses, Statuses, Conclusions, JudgeStatuses

LEMMA ExecutedRunFacts ==
  ASSUME NEW d \in Databases, NEW cause \in Causes, NEW equal \in BOOLEAN,
         NEW m \in BOOLEAN, atBoundary \in BOOLEAN
  PROVE  LET run == ExecutedRun(d, cause, equal, m)
         IN /\ run \in Runs /\ run.db = d /\ run.executed
            /\ run.equal = equal /\ run.mutations = m /\ run.cause = cause
            /\ equal /\ atBoundary => run.status = "SEMANTIC_BOUNDARY"
BY DEF ExecutedRun, Runs, Statuses, Conclusions, JudgeStatuses, FailureStatuses

\* Every run on a database is typed, keeps the database and means what
\* Meaningful says; an uninterrupted one is faithful.
LEMMA RunsOnFacts ==
  ASSUME NEW d \in Databases, NEW m \in BOOLEAN, atBoundary \in BOOLEAN,
         NEW run \in RunsOn(d, m)
  PROVE  /\ run \in Runs /\ run.db = d
         /\ run.executed => run.mutations = m
         /\ Meaningful(run)
         /\ ~DeadlineMayFire => Faithful(run)
<1>1. CASE \E internal \in {"UNSUPPORTED", "ENGINE_ERROR"} : run = FailedRun(d, internal)
  <2>1. run \in Runs /\ run.db = d /\ ~run.executed /\ run.conclusion = "UNDECIDED"
    BY <1>1, FailedRunFacts
  <2>2. ~DeadlineMayFire => d.behaviour = "reference_error"
    <3>1. SUFFICES ASSUME ~DeadlineMayFire, d.behaviour # "reference_error" PROVE FALSE
      OBVIOUS
    <3>2. run \in UninterruptedRuns(d, m)
      BY <3>1 DEF RunsOn
    <3>3. \E cause \in Causes : \E equal \in BOOLEAN : run = ExecutedRun(d, cause, equal, m)
      BY <3>1, <3>2 DEF UninterruptedRuns, Causes
    <3>4. QED BY <2>1, <3>3, ExecutedRunFacts
  <2>3. QED BY <2>1, <2>2 DEF Meaningful, Faithful
<1>2. CASE /\ d.behaviour # "reference_error"
           /\ \/ run = ExecutedRun(d, "student_error", FALSE, m) /\ d.behaviour = "student_error"
              \/ /\ run = ExecutedRun(d, "compared", d.behaviour = "agree", m)
                 /\ d.behaviour # "student_error"
              \/ run = ExecutedRun(d, "interrupted", FALSE, m) /\ DeadlineMayFire
  <2>1. PICK cause \in Causes, equal \in BOOLEAN :
          /\ run = ExecutedRun(d, cause, equal, m)
          /\ ~DeadlineMayFire => equal = (d.behaviour = "agree")
    BY <1>2 DEF Causes
  <2>2. /\ run \in Runs /\ run.db = d /\ run.executed
        /\ run.equal = equal /\ run.mutations = m
        /\ equal /\ atBoundary => run.status = "SEMANTIC_BOUNDARY"
    BY <2>1, ExecutedRunFacts
  <2>3. QED BY <1>2, <2>1, <2>2 DEF Meaningful, Faithful
<1>3. QED
  BY <1>1, <1>2 DEF RunsOn, UninterruptedRuns, InterruptedRuns

LEMMA BlankRunFacts == BlankRun \in Runs /\ ~BlankRun.executed /\ BlankRun.conclusion = "UNDECIDED"
BY ComparisonAssumption DEF BlankRun, BlankDatabase, Runs, Databases, Behaviours, Causes,
   Attempt, Statuses, Conclusions, JudgeStatuses, FailureStatuses

LEMMA SetPublicVerdictFacts ==
  ASSUME NEW run \in Runs, NEW status \in Statuses, NEW conclusion \in Conclusions,
         NEW guard \in BOOLEAN
  PROVE  LET result == SetPublicVerdict(run, status, conclusion, guard)
         IN /\ result \in Runs
            /\ result.executed = run.executed /\ result.equal = run.equal
            /\ result.db = run.db
<1>1. PublicJudge(run, conclusion) \in JudgeStatuses
  BY DEF PublicJudge, Runs, JudgeStatuses, FailureStatuses
<1>2. QED BY <1>1 DEF SetPublicVerdict, Runs

LEMMA FinalizeFacts ==
  ASSUME NEW run \in Runs, NEW shown \in BOOLEAN
  PROVE  LET result == Finalize(run, shown)
         IN /\ result \in Runs
            /\ result.executed = run.executed /\ result.equal = run.equal
            /\ result.db = run.db
BY SetPublicVerdictFacts DEF Finalize, Statuses, Conclusions

----------------------------------------------------------------------------
\* Facts about the control of the two loops.

LEMMA SuiteFacts ==
  ASSUME suite \in Suites
  PROVE  /\ Len(suite) \in 0 .. MaxWorlds /\ DOMAIN suite = 1 .. Len(suite)
         /\ DOMAIN suite \subseteq World
         /\ suite = << >> <=> DOMAIN suite = {}
         /\ \A x \in DOMAIN suite :
              suite[x].diffs \in SUBSET Obligations /\ suite[x].composite \in BOOLEAN
<1>1. suite \in Seq(WorldPlan) /\ Len(suite) <= MaxWorlds /\ MaxWorlds \in Nat
  BY ComparisonAssumption
<1>2. Len(suite) \in Nat /\ DOMAIN suite = 1 .. Len(suite) /\ suite \in [1 .. Len(suite) -> WorldPlan]
  BY <1>1
<1>3. suite = << >> <=> Len(suite) = 0
  BY <1>1
<1>4. QED BY <1>1, <1>2, <1>3 DEF World, WorldPlan

\* Moving on to the next world, or out of the loop.
LEMMA LeaveWorldFacts ==
  ASSUME TypeOK, LoopPosition, Looping, LeaveWorld
  PROVE  /\ w' \in World /\ a' \in Attempt
         /\ \/ pc' = "run" /\ w' = w + 1 /\ a' = 0 /\ w' \in DOMAIN suite
            \/ pc' = "select" /\ w' = w /\ a' = a /\ w = Len(suite)
<1>1. suite \in Suites /\ w \in DOMAIN suite /\ w \in World /\ a \in Attempt
  BY DEF TypeOK, LoopPosition
<1>2. Len(suite) \in 0 .. MaxWorlds /\ DOMAIN suite = 1 .. Len(suite)
  BY <1>1, SuiteFacts
<1>3. MaxWorlds \in Nat /\ MaxAttempts \in Nat \ {0}
  BY ComparisonAssumption
<1>4. QED BY <1>1, <1>2, <1>3 DEF LeaveWorld, World, Attempt

\* The three ways out of an attempt.
LEMMA ProceedFacts ==
  ASSUME TypeOK, NEW run, NEW covered, Proceed(run, covered)
  PROVE  \/ LeaveWorld
         \/ pc' = "mutate" /\ w' = w /\ a' = a
         \/ pc' = "regenerate" /\ w' = w /\ a' = a /\ a + 1 < MaxAttempts
BY ComparisonAssumption DEF TypeOK, Proceed, AttemptLimit, Attempt

LEMMA PrecedesFacts ==
  /\ \A s, t \in TrialId : s = t \/ Precedes(s, t) \/ Precedes(t, s)
  /\ \A s, t \in TrialId : ~(Precedes(s, t) /\ Precedes(t, s))
  /\ \A s \in TrialId : ~Precedes(s, s) /\ s # NoTrial
  /\ \A r, s, t \in TrialId : Precedes(r, s) /\ Precedes(s, t) => Precedes(r, t)
BY ComparisonAssumption DEF TrialId, World, Attempt, Precedes, NoTrial

\* A mutation-validated run takes the place of a recorded trial.
ReplacedBy(t, run) ==
  /\ t \in TrialId /\ run \in Runs
  /\ run.executed /\ run.mutations /\ run.db = db[t[1]] /\ Meaningful(run)
  /\ ~DeadlineMayFire => Faithful(run)
  /\ trial' = run /\ trials' = [trials EXCEPT ![t] = run]
  /\ mutated' = mutated \cup {t[1]} /\ t[1] \in World
  /\ selected' = IF selected.id = t THEN [id |-> selected.id, run |-> run] ELSE selected

LEMMA ValidateFacts ==
  ASSUME TypeOK, ValidateWithMutations
  PROVE  \/ ReplacedBy(<<w, a>>, trial')
         \/ UNCHANGED <<trial, trials, mutated, selected>>
<1>1. db[w] \in Databases /\ <<w, a>> \in TrialId /\ atBoundary \in BOOLEAN
  BY DEF TypeOK, TrialId
<1>2. PICK run \in RunsOn(db[w], TRUE) :
        \/ /\ run.executed /\ trial' = run
           /\ trials' = [trials EXCEPT ![<<w, a>>] = run]
           /\ mutated' = mutated \cup {w}
           /\ selected' = IF selected.id = <<w, a>>
                          THEN [id |-> selected.id, run |-> run] ELSE selected
        \/ UNCHANGED <<trial, trials, mutated, selected>>
  BY DEF ValidateWithMutations, HoldValidated
<1>3. /\ run \in Runs /\ run.db = db[w] /\ (run.executed => run.mutations)
      /\ Meaningful(run) /\ (~DeadlineMayFire => Faithful(run))
  BY <1>1, RunsOnFacts
<1>4. QED BY <1>1, <1>2, <1>3 DEF ReplacedBy, TypeOK

\* The replay's run, or the selected run when the replay did not execute.
LEMMA ReplayFacts ==
  ASSUME TypeOK, ReplaySelected
  PROVE  /\ final' \in Runs
         /\ \/ /\ final'.executed /\ final'.db = selected.run.db /\ Meaningful(final')
               /\ ~DeadlineMayFire => Faithful(final')
            \/ final' = selected.run
<1>1. selected.run.db \in Databases /\ selected.run \in Runs /\ atBoundary \in BOOLEAN
  BY DEF TypeOK, Runs
<1>2. PICK run \in RunsOn(selected.run.db, TRUE) :
        final' = IF run.executed THEN run ELSE selected.run
  BY DEF ReplaySelected
<1>3. /\ run \in Runs /\ run.db = selected.run.db
      /\ Meaningful(run) /\ (~DeadlineMayFire => Faithful(run))
  BY <1>1, RunsOnFacts
<1>4. QED BY <1>1, <1>2, <1>3

\* What is selected after the loops: a recorded trial, the tuple the loops
\* held, or a failure when nothing was recorded.
LEMMA SelectFacts ==
  ASSUME TypeOK, SelectTrial
  PROVE  \/ /\ selected'.id \in recorded /\ selected'.run = trials[selected'.id]
            /\ final' = selected'.run /\ PreferredPool # {} /\ selected'.id \in PreferredPool
            /\ pc' \in {"replay", "attach"}
         \/ /\ selected' = selected /\ final' = selected.run /\ PreferredPool = {}
            /\ selected.id # NoTrial /\ pc' \in {"replay", "attach"}
         \/ /\ selected'.id \in recorded /\ selected'.run = trials[selected'.id]
            /\ final' = selected'.run /\ PreferredPool = {} /\ selected.id = NoTrial
            /\ pc' \in {"replay", "attach"}
            /\ ExecutedTrials # {} => selected'.run.executed
         \/ /\ selected' = selected /\ final' = FailedRun(BlankDatabase, "ENGINE_ERROR")
            /\ recorded = {} /\ selected.id = NoTrial /\ pc' = "attach"
<1>1. /\ PreferredPool \subseteq recorded /\ FallbackPool \subseteq recorded
      /\ ExecutedTrials # {} => FallbackPool = ExecutedTrials
  BY DEF PreferredPool, FallbackPool, Showing, Candidates, CompositeConflicts, ExecutedTrials
<1>2. selected = [id |-> selected.id, run |-> selected.run]
  BY DEF TypeOK
<1>3. CASE PreferredPool # {}
  BY <1>1, <1>3 DEF SelectTrial, Select, IsFirst
<1>4. CASE PreferredPool = {} /\ selected.id # NoTrial
  BY <1>2, <1>4 DEF SelectTrial, Select
<1>5. CASE PreferredPool = {} /\ selected.id = NoTrial /\ recorded # {}
  <2>1. PICK t \in FallbackPool : Select(t, trials[t])
    BY <1>5 DEF SelectTrial
  <2>2. ExecutedTrials # {} => trials[t].executed
    BY <1>1, <2>1 DEF ExecutedTrials
  <2>3. QED BY <1>1, <1>5, <2>1, <2>2 DEF Select
<1>6. CASE PreferredPool = {} /\ selected.id = NoTrial /\ recorded = {}
  BY <1>6 DEF SelectTrial
<1>7. QED BY <1>3, <1>4, <1>5, <1>6

----------------------------------------------------------------------------
\* The type invariant.

LEMMA TypeInit == Init => TypeOK
<1>1. SUFFICES ASSUME Init PROVE TypeOK
  OBVIOUS
<1>2. w \in World /\ a \in Attempt /\ 0 \in 0 .. MaxWorlds
  BY <1>1, ComparisonAssumption DEF Init, World, Attempt
<1>3. BlankRecord \in AttemptRecords
  BY DEF BlankRecord, AttemptRecords
<1>4. QED BY <1>1, <1>2, <1>3, BlankRunFacts DEF Init, TypeOK, Controls

LEMMA TypeStep == TypeOK /\ LoopPosition /\ [Next]_vars => TypeOK'
<1> SUFFICES ASSUME TypeOK, LoopPosition, [Next]_vars PROVE TypeOK'
  OBVIOUS
<1> USE DEF TypeOK
<1>1. CASE RunTrial
  <2>1. db[w] \in Databases /\ FALSE \in BOOLEAN
    OBVIOUS
  <2>2. trial' \in Runs
    BY <1>1, <2>1, RunsOnFacts DEF RunTrial
  <2>3. QED BY <1>1, <2>2 DEF RunTrial, Controls
<1>2. CASE RecordTrial
  <2>1. <<w, a>> \in TrialId /\ PairDistinguished(trial) \in BOOLEAN
    BY DEF TrialId, PairDistinguished, Runs
  <2>2. w' \in World /\ a' \in Attempt /\ pc' \in Controls
    BY <1>2, ProceedFacts, LeaveWorldFacts DEF RecordTrial, Looping, Controls
  <2>3. attempts' \in [TrialId -> AttemptRecords]
    <3>1. PICK outcome \in AtomicValidations(trial, w) :
            attempts' = [attempts EXCEPT ![<<w, a>>] =
              [distinguished |-> PairDistinguished(trial),
               covered |-> AllShown(outcome), atomic |-> ShownDiffs(outcome)]]
      BY <1>2 DEF RecordTrial
    <3>2. ShownDiffs(outcome) \in SUBSET Obligations
      BY <3>1, <1>2, SuiteFacts DEF AtomicValidations, ShownDiffs, RecordTrial, LoopPosition, Looping
    <3>3. QED BY <2>1, <3>1, <3>2 DEF AttemptRecords, AllShown
  <2>4. recorded' \in SUBSET TrialId /\ trials' \in [TrialId -> Runs]
        /\ selected' \in [id: TrialId \cup {NoTrial}, run: Runs]
    BY <1>2, <2>1 DEF RecordTrial, HoldFirst
  <2>5. QED BY <1>2, <2>2, <2>3, <2>4 DEF RecordTrial
<1>3. CASE ValidateWithMutations
  <2>1. w' \in World /\ a' \in Attempt /\ pc' \in Controls
    BY <1>3, LeaveWorldFacts DEF ValidateWithMutations, Looping, Controls
  <2>2. /\ trial' \in Runs /\ trials' \in [TrialId -> Runs] /\ mutated' \in SUBSET World
        /\ selected' \in [id: TrialId \cup {NoTrial}, run: Runs]
    <3>1. CASE UNCHANGED <<trial, trials, mutated, selected>>
      BY <3>1
    <3>2. CASE ReplacedBy(<<w, a>>, trial')
      BY <3>2 DEF ReplacedBy
    <3>3. QED BY <1>3, <3>1, <3>2, ValidateFacts
  <2>3. QED BY <1>3, <2>1, <2>2 DEF ValidateWithMutations
<1>4. CASE Regenerate
  <2>1. a + 1 \in Attempt
    BY <1>4, ComparisonAssumption DEF Regenerate, LoopPosition, Attempt
  <2>2. db' \in [World -> Databases]
    BY <1>4, <2>1 DEF Regenerate, Databases
  <2>3. QED BY <1>4, <2>1, <2>2 DEF Regenerate, Controls
<1>5. CASE FeedbackNotTargeted
  BY <1>5, LeaveWorldFacts DEF FeedbackNotTargeted, Looping, Controls
<1>6. CASE SelectTrial
  <2>1. /\ PreferredPool \subseteq TrialId /\ FallbackPool \subseteq TrialId
    BY DEF PreferredPool, FallbackPool, Showing, Candidates, CompositeConflicts, ExecutedTrials
  <2>2. FailedRun(BlankDatabase, "ENGINE_ERROR") \in Runs
    BY FailedRunFacts, ComparisonAssumption DEF BlankDatabase, Databases, Behaviours, Attempt
  <2>3. selected' \in [id: TrialId \cup {NoTrial}, run: Runs] /\ final' \in Runs /\ pc' \in Controls
    BY <1>6, <2>1, <2>2 DEF SelectTrial, Select, IsFirst, Controls
  <2>4. QED BY <1>6, <2>3 DEF SelectTrial
<1>7. CASE ReplaySelected
  <2>1. final' \in Runs
    BY <1>7, ReplayFacts
  <2>2. QED BY <1>7, <2>1 DEF ReplaySelected, Controls
<1>8. CASE AttachEvidence
  <2>1. PICK satisfied \in SUBSET {o \in Obligations : AtomicallyShown(o)} :
          /\ evidence' = [anyWorld |-> \E t \in recorded : attempts[t].distinguished,
                          causal |-> satisfied, world |-> selected.id[1]]
          /\ final' = Finalize(final, satisfied # {})
    BY <1>8 DEF AttachEvidence
  <2>2. selected.id[1] \in 0 .. MaxWorlds
    BY ComparisonAssumption DEF TrialId, NoTrial, World
  <2>3. (\E t \in recorded : attempts[t].distinguished) \in BOOLEAN
    OBVIOUS
  <2>4. QED BY <1>8, <2>1, <2>2, <2>3, FinalizeFacts DEF AttachEvidence, Controls
<1>9. CASE UNCHANGED vars
  BY <1>9 DEF vars
<1>10. QED BY <1>1, <1>2, <1>3, <1>4, <1>5, <1>6, <1>7, <1>8, <1>9 DEF Next

----------------------------------------------------------------------------
\* The loops: where they stand, and what they have recorded.

LEMMA LoopInit == Init => LoopPosition /\ WorldsVisited
<1>1. SUFFICES ASSUME Init PROVE LoopPosition /\ WorldsVisited
  OBVIOUS
<1>2. pc = "run" => 1 \in DOMAIN suite
  BY <1>1, SuiteFacts DEF Init
<1>3. pc = "select" => DOMAIN suite = {}
  BY <1>1, SuiteFacts DEF Init
<1>4. QED BY <1>1, <1>2, <1>3 DEF Init, LoopPosition, WorldsVisited, Looping

\* Leaving a world keeps the position consistent with what is recorded.
LEMMA LeavingKeepsPosition ==
  ASSUME TypeOK, LoopPosition, WorldsVisited, Looping, LeaveWorld, suite' = suite,
         recorded' = recorded \/ recorded' = recorded \cup {<<w, a>>},
         <<w, 0>> \in recorded', recorded' \in SUBSET TrialId
  PROVE  LoopPosition' /\ WorldsVisited'
<1>1. w \in World /\ a \in Attempt /\ w \in Nat /\ a \in Nat /\ w \in DOMAIN suite
      /\ DOMAIN suite = 1 .. Len(suite) /\ Len(suite) \in Nat /\ recorded \in SUBSET TrialId
  BY SuiteFacts, ComparisonAssumption DEF TypeOK, LoopPosition, World, Attempt
<1>2. \A x \in 1 .. w : <<x, 0>> \in recorded'
  <2>1. \A x \in 1 .. (w - 1) : <<x, 0>> \in recorded'
    BY DEF WorldsVisited
  <2>2. \A x \in 1 .. w : x = w \/ x \in 1 .. (w - 1)
    BY <1>1
  <2>3. QED BY <2>1, <2>2
<1>3. \A t \in recorded' : t = <<w, a>> \/ Precedes(t, <<w, a>>)
  BY DEF LoopPosition, Looping
<1>4. CASE pc' = "run" /\ w' = w + 1 /\ a' = 0 /\ w' \in DOMAIN suite
  <2>1. \A t \in recorded' : Precedes(t, <<w + 1, 0>>)
    BY <1>1, <1>3, ComparisonAssumption DEF Precedes, TrialId, World, Attempt
  <2>2. QED BY <1>1, <1>2, <1>4, <2>1 DEF LoopPosition, WorldsVisited, Looping, Precedes
<1>5. CASE pc' = "select" /\ w' = w /\ a' = a /\ w = Len(suite)
  BY <1>1, <1>2, <1>5 DEF LoopPosition, WorldsVisited, Looping
<1>6. QED BY <1>4, <1>5, LeaveWorldFacts

LEMMA LoopStep ==
  TypeOK /\ LoopPosition /\ WorldsVisited /\ TypeOK' /\ [Next]_vars
    => LoopPosition' /\ WorldsVisited'
<1> SUFFICES ASSUME TypeOK, LoopPosition, WorldsVisited, TypeOK', [Next]_vars
             PROVE  LoopPosition' /\ WorldsVisited'
  OBVIOUS
<1>1. CASE RunTrial
  <2>1. trial'.db = db[w]
    BY <1>1, RunsOnFacts DEF RunTrial, TypeOK
  <2>2. QED BY <1>1, <2>1 DEF RunTrial, LoopPosition, WorldsVisited, Looping, Precedes
<1>2. CASE RecordTrial
  <2>1. /\ Looping /\ pc = "record" /\ recorded' = recorded \cup {<<w, a>>}
        /\ suite' = suite /\ db' = db /\ trials' = [trials EXCEPT ![<<w, a>>] = trial]
    BY <1>2 DEF RecordTrial, Looping
  <2>2. <<w, 0>> \in recorded' /\ <<w, a>> \in TrialId
    BY <2>1 DEF LoopPosition, TypeOK, TrialId
  <2>3. CASE LeaveWorld
    BY <2>1, <2>2, <2>3, LeavingKeepsPosition DEF TypeOK
  <2>4. CASE /\ pc' \in {"mutate", "regenerate"} /\ w' = w /\ a' = a
             /\ pc' = "regenerate" => a + 1 < MaxAttempts
    <3>1. trials'[<<w, a>>].db = db[w]
      BY <2>1, <2>2 DEF TypeOK, LoopPosition
    <3>2. LoopPosition'
      BY <2>1, <2>2, <2>4, <3>1 DEF LoopPosition, Looping, Precedes
    <3>3. WorldsVisited'
      BY <2>1, <2>4 DEF WorldsVisited, Looping
    <3>4. QED BY <3>2, <3>3
  <2>5. QED BY <1>2, <2>3, <2>4, ProceedFacts DEF RecordTrial
<1>3. CASE ValidateWithMutations
  <2>1. <<w, 0>> \in recorded
    BY <1>3 DEF ValidateWithMutations, LoopPosition
  <2>2. QED BY <1>3, <2>1, LeavingKeepsPosition DEF ValidateWithMutations, Looping, TypeOK
<1>4. CASE Regenerate
  <2>1. \A t \in recorded : Precedes(t, <<w, a + 1>>)
    BY <1>4, ComparisonAssumption
    DEF Regenerate, LoopPosition, TypeOK, Precedes, TrialId, World, Attempt
  <2>2. <<w, 0>> \in recorded
    BY <1>4 DEF Regenerate, LoopPosition
  <2>3. QED BY <1>4, <2>1, <2>2 DEF Regenerate, LoopPosition, WorldsVisited, Looping, Precedes
<1>5. CASE FeedbackNotTargeted
  <2>1. <<w, 0>> \in recorded
    BY <1>5 DEF FeedbackNotTargeted, LoopPosition
  <2>2. QED BY <1>5, <2>1, LeavingKeepsPosition DEF FeedbackNotTargeted, Looping, TypeOK
<1>6. CASE SelectTrial
  <2>1. pc' \in {"replay", "attach"}
    BY <1>6 DEF SelectTrial, Select
  <2>2. QED BY <1>6, <2>1 DEF SelectTrial, LoopPosition, WorldsVisited, Looping
<1>7. CASE ReplaySelected
  BY <1>7 DEF ReplaySelected, LoopPosition, WorldsVisited, Looping
<1>8. CASE AttachEvidence
  BY <1>8 DEF AttachEvidence, LoopPosition, WorldsVisited, Looping
<1>9. CASE UNCHANGED vars
  BY <1>9 DEF vars, LoopPosition, WorldsVisited, Looping, Precedes
<1>10. QED BY <1>1, <1>2, <1>3, <1>4, <1>5, <1>6, <1>7, <1>8, <1>9 DEF Next

----------------------------------------------------------------------------
\* What the runs mean, and the two copies of the selected run.

LEMMA RunsInit ==
  Init => RunsMeaningful /\ RecordsFaithful /\ SelectedInSync /\ SelectionExecuted
BY BlankRunFacts
DEF Init, RunsMeaningful, Meaningful, RecordsFaithful, SelectedInSync, SelectionExecuted

LEMMA RunsMeaningfulStep ==
  TypeOK /\ RunsMeaningful /\ TypeOK' /\ [Next]_vars => RunsMeaningful'
<1> SUFFICES ASSUME TypeOK, RunsMeaningful, TypeOK', [Next]_vars PROVE RunsMeaningful'
  OBVIOUS
<1>0. atBoundary' = atBoundary
  BY DEF Next, vars, RunTrial, RecordTrial, ValidateWithMutations, Regenerate,
         FeedbackNotTargeted, SelectTrial, ReplaySelected, AttachEvidence
<1>1. CASE RunTrial
  <2>1. Meaningful(trial')
    BY <1>1, RunsOnFacts DEF RunTrial, TypeOK
  <2>2. QED BY <1>0, <1>1, <2>1 DEF RunTrial, RunsMeaningful, Meaningful
<1>2. CASE RecordTrial
  <2>1. pc # "done" /\ pc' # "done"
    BY <1>2, ProceedFacts DEF RecordTrial, LeaveWorld
  <2>2. \A t \in TrialId : trials'[t] = trials[t] \/ trials'[t] = trial
    BY <1>2 DEF RecordTrial, TypeOK
  <2>3. selected'.run = selected.run \/ selected'.run = trial
    BY <1>2 DEF RecordTrial, HoldFirst
  <2>4. QED BY <1>0, <1>2, <2>1, <2>2, <2>3 DEF RecordTrial, RunsMeaningful, Meaningful
<1>3. CASE ValidateWithMutations
  <2>1. pc # "done" /\ pc' # "done" /\ final' = final
    BY <1>3 DEF ValidateWithMutations, LeaveWorld
  <2>2. CASE UNCHANGED <<trial, trials, mutated, selected>>
    BY <1>0, <2>1, <2>2 DEF RunsMeaningful, Meaningful
  <2>3. CASE ReplacedBy(<<w, a>>, trial')
    <3>1. Meaningful(trial')
      BY <2>3 DEF ReplacedBy
    <3>2. \A t \in TrialId : trials'[t] = trials[t] \/ trials'[t] = trial'
      BY <2>3 DEF ReplacedBy, TypeOK
    <3>3. selected'.run = selected.run \/ selected'.run = trial'
      BY <2>3 DEF ReplacedBy
    <3>4. QED BY <1>0, <2>1, <3>1, <3>2, <3>3 DEF RunsMeaningful, Meaningful
  <2>4. QED BY <1>3, <2>2, <2>3, ValidateFacts
<1>4. CASE Regenerate
  BY <1>0, <1>4 DEF Regenerate, RunsMeaningful, Meaningful
<1>5. CASE FeedbackNotTargeted
  BY <1>0, <1>5 DEF FeedbackNotTargeted, RunsMeaningful, Meaningful
<1>6. CASE SelectTrial
  <2>1. \A t \in TrialId : Meaningful(trials[t])
    BY DEF RunsMeaningful
  <2>2. Meaningful(FailedRun(BlankDatabase, "ENGINE_ERROR"))
    BY FailedRunFacts, BlankRunFacts DEF Meaningful, BlankRun, Runs
  <2>3. Meaningful(selected'.run) /\ Meaningful(final')
    BY <1>6, <2>1, <2>2, SelectFacts DEF RunsMeaningful, TypeOK
  <2>4. QED BY <1>0, <1>6, <2>3 DEF SelectTrial, RunsMeaningful, Meaningful
<1>7. CASE ReplaySelected
  <2>1. Meaningful(final')
    BY <1>7, ReplayFacts DEF RunsMeaningful, Meaningful
  <2>2. QED BY <1>0, <1>7, <2>1 DEF ReplaySelected, RunsMeaningful, Meaningful
<1>8. CASE AttachEvidence
  BY <1>0, <1>8 DEF AttachEvidence, RunsMeaningful, Meaningful
<1>9. CASE UNCHANGED vars
  BY <1>9 DEF vars, RunsMeaningful, Meaningful
<1>10. QED BY <1>1, <1>2, <1>3, <1>4, <1>5, <1>6, <1>7, <1>8, <1>9 DEF Next

\* The slot of the current attempt is recorded once.
LEMMA FreshSlot == TypeOK /\ LoopPosition /\ pc = "record" => <<w, a>> \notin recorded
BY PrecedesFacts DEF TypeOK, LoopPosition

LEMMA RecordsFaithfulStep ==
  TypeOK /\ LoopPosition /\ RecordsFaithful /\ [Next]_vars => RecordsFaithful'
<1> SUFFICES ASSUME TypeOK, LoopPosition, RecordsFaithful, [Next]_vars, ~DeadlineMayFire
             PROVE  /\ pc' = "record" => Faithful(trial')
                    /\ \A t \in recorded' :
                         /\ Faithful(trials'[t])
                         /\ attempts'[t].distinguished <=> PairDistinguished(trials'[t])
  BY DEF RecordsFaithful, Faithful, PairDistinguished
<1>0. /\ pc = "record" => Faithful(trial)
      /\ \A t \in recorded :
           /\ Faithful(trials[t])
           /\ attempts[t].distinguished <=> PairDistinguished(trials[t])
  BY DEF RecordsFaithful
<1>1. CASE RunTrial
  <2>1. Faithful(trial')
    BY <1>1, RunsOnFacts DEF RunTrial, TypeOK
  <2>2. QED BY <1>0, <1>1, <2>1 DEF RunTrial
<1>2. CASE RecordTrial
  <2>1. /\ recorded' = recorded \cup {<<w, a>>}
        /\ trials' = [trials EXCEPT ![<<w, a>>] = trial]
        /\ \E c, s : attempts' = [attempts EXCEPT ![<<w, a>>] =
             [distinguished |-> PairDistinguished(trial), covered |-> c, atomic |-> s]]
        /\ pc' # "record" /\ pc = "record"
    BY <1>2, ProceedFacts DEF RecordTrial, LeaveWorld
  <2>2. <<w, a>> \in TrialId /\ recorded \subseteq TrialId
    BY DEF TypeOK, TrialId
  <2>3. /\ trials'[<<w, a>>] = trial
        /\ attempts'[<<w, a>>].distinguished = PairDistinguished(trial)
    BY <2>1, <2>2 DEF TypeOK
  <2>4. \A t \in recorded : t # <<w, a>> => trials'[t] = trials[t] /\ attempts'[t] = attempts[t]
    BY <2>1, <2>2 DEF TypeOK
  <2>5. QED BY <1>0, <2>1, <2>3, <2>4
<1>3. CASE ValidateWithMutations
  <2>1. pc' # "record" /\ recorded' = recorded /\ attempts' = attempts
    BY <1>3 DEF ValidateWithMutations, LeaveWorld
  <2>2. CASE UNCHANGED <<trial, trials, mutated, selected>>
    BY <1>0, <2>1, <2>2
  <2>3. CASE ReplacedBy(<<w, a>>, trial')
    <3>1. <<w, a>> \in recorded /\ trials[<<w, a>>].db = trial'.db /\ Faithful(trial')
      BY <1>3, <2>3 DEF ReplacedBy, LoopPosition, ValidateWithMutations
    <3>2. PairDistinguished(trial') <=> PairDistinguished(trials[<<w, a>>])
      BY <1>0, <3>1 DEF Faithful, PairDistinguished, TypeOK, Runs
    <3>3. \A t \in recorded : trials'[t] = IF t = <<w, a>> THEN trial' ELSE trials[t]
      BY <2>3 DEF ReplacedBy, TypeOK
    <3>4. QED BY <1>0, <2>1, <3>1, <3>2, <3>3
  <2>4. QED BY <1>3, <2>2, <2>3, ValidateFacts
<1>4. CASE Regenerate
  BY <1>0, <1>4 DEF Regenerate
<1>5. CASE FeedbackNotTargeted
  BY <1>0, <1>5 DEF FeedbackNotTargeted, LeaveWorld
<1>6. CASE SelectTrial
  BY <1>0, <1>6 DEF SelectTrial, Select
<1>7. CASE ReplaySelected
  BY <1>0, <1>7 DEF ReplaySelected
<1>8. CASE AttachEvidence
  BY <1>0, <1>8 DEF AttachEvidence
<1>9. CASE UNCHANGED vars
  BY <1>0, <1>9 DEF vars
<1>10. QED BY <1>1, <1>2, <1>3, <1>4, <1>5, <1>6, <1>7, <1>8, <1>9 DEF Next

LEMMA SelectedInSyncStep ==
  TypeOK /\ LoopPosition /\ SelectedInSync /\ SelectionExecuted /\ [Next]_vars
    => SelectedInSync' /\ SelectionExecuted'
<1> SUFFICES ASSUME TypeOK, LoopPosition, SelectedInSync, SelectionExecuted, [Next]_vars
             PROVE  SelectedInSync' /\ SelectionExecuted'
  OBVIOUS
<1>1. CASE RecordTrial
  <2>1. /\ <<w, a>> \notin recorded /\ <<w, a>> \in TrialId /\ <<w, a>> # NoTrial
    BY <1>1, FreshSlot, PrecedesFacts DEF RecordTrial, TypeOK, TrialId
  <2>2. /\ recorded' = recorded \cup {<<w, a>>} /\ trials'[<<w, a>>] = trial
        /\ \A t \in recorded : trials'[t] = trials[t]
    BY <1>1, <2>1 DEF RecordTrial, TypeOK
  <2>3. pc' # "replay"
    BY <1>1, ProceedFacts DEF RecordTrial, LeaveWorld
  <2>4. QED BY <1>1, <2>1, <2>2, <2>3 DEF RecordTrial, HoldFirst, SelectedInSync, SelectionExecuted
<1>2. CASE ValidateWithMutations
  <2>1. pc' # "replay" /\ recorded' = recorded
    BY <1>2 DEF ValidateWithMutations, LeaveWorld
  <2>2. CASE UNCHANGED <<trial, trials, mutated, selected>>
    BY <2>1, <2>2 DEF SelectedInSync, SelectionExecuted
  <2>3. CASE ReplacedBy(<<w, a>>, trial')
    <3>1. <<w, a>> # NoTrial /\ <<w, a>> \in recorded
      BY <1>2, PrecedesFacts DEF ValidateWithMutations, LoopPosition, TypeOK
    <3>2. \A t \in recorded : trials'[t] = IF t = <<w, a>> THEN trial' ELSE trials[t]
      BY <2>3 DEF ReplacedBy, TypeOK
    <3>3. QED BY <2>1, <2>3, <3>1, <3>2 DEF ReplacedBy, SelectedInSync, SelectionExecuted
  <2>4. QED BY <1>2, <2>2, <2>3, ValidateFacts
<1>3. CASE SelectTrial
  <2>1. trials' = trials /\ recorded' = recorded /\ recorded \subseteq TrialId
    BY <1>3 DEF SelectTrial, TypeOK
  <2>2. SelectedInSync'
    BY <1>3, <2>1, SelectFacts DEF SelectedInSync
  <2>3. selected'.id = NoTrial => ~selected'.run.executed
    BY <1>3, <2>1, SelectFacts, PrecedesFacts DEF SelectionExecuted
  <2>4. pc' = "replay" => selected'.run.executed
    BY <1>3 DEF SelectTrial, Select
  <2>5. QED BY <2>2, <2>3, <2>4 DEF SelectionExecuted
<1>4. CASE RunTrial \/ Regenerate \/ FeedbackNotTargeted \/ ReplaySelected \/ AttachEvidence
           \/ UNCHANGED vars
  BY <1>4 DEF RunTrial, Regenerate, FeedbackNotTargeted, ReplaySelected, AttachEvidence,
              LeaveWorld, vars, SelectedInSync, SelectionExecuted
<1>5. QED BY <1>1, <1>2, <1>3, <1>4 DEF Next

----------------------------------------------------------------------------
\* The selection.

LEMMA FirstConflictStep ==
  TypeOK /\ LoopPosition /\ SelectedIsFirstConflict /\ [Next]_vars
    => SelectedIsFirstConflict'
<1> SUFFICES ASSUME TypeOK, LoopPosition, SelectedIsFirstConflict, [Next]_vars
             PROVE  SelectedIsFirstConflict'
  OBVIOUS
<1>1. CASE RecordTrial
  <2>1. /\ <<w, a>> \notin recorded /\ <<w, a>> \in TrialId /\ <<w, a>> # NoTrial
        /\ recorded \subseteq TrialId
    BY <1>1, FreshSlot, PrecedesFacts DEF RecordTrial, TypeOK, TrialId
  <2>2. /\ recorded' = recorded \cup {<<w, a>>}
        /\ \E c, s : attempts' = [attempts EXCEPT ![<<w, a>>] =
             [distinguished |-> PairDistinguished(trial), covered |-> c, atomic |-> s]]
        /\ selected' = IF PairDistinguished(trial) /\ selected.id = NoTrial
                       THEN [id |-> <<w, a>>, run |-> trial] ELSE selected
    BY <1>1 DEF RecordTrial, HoldFirst
  <2>3. /\ attempts'[<<w, a>>].distinguished = PairDistinguished(trial)
        /\ \A t \in recorded : attempts'[t] = attempts[t]
    BY <2>1, <2>2 DEF TypeOK
  <2>4. Conflicts' = IF PairDistinguished(trial) THEN Conflicts \cup {<<w, a>>} ELSE Conflicts
    BY <2>1, <2>2, <2>3 DEF Conflicts
  <2>5. /\ IF Conflicts = {} THEN selected.id = NoTrial
           ELSE /\ selected.id \in Conflicts
                /\ \A t \in Conflicts : t = selected.id \/ Precedes(selected.id, t)
        /\ \A t \in Conflicts : Precedes(t, <<w, a>>) /\ t # NoTrial
    BY <1>1, <2>1, PrecedesFacts
    DEF RecordTrial, SelectedIsFirstConflict, Looping, LoopPosition, Conflicts
  <2>6. \A s, t : Precedes(s, t)' <=> Precedes(s, t)
    BY DEF Precedes
  <2>7. QED BY <2>2, <2>4, <2>5, <2>6 DEF SelectedIsFirstConflict, Precedes
<1>2. CASE ValidateWithMutations
  <2>1. Looping /\ Conflicts' = Conflicts
    BY <1>2 DEF ValidateWithMutations, Looping, Conflicts
  <2>2. selected'.id = selected.id
    BY <1>2, ValidateFacts DEF ReplacedBy
  <2>3. QED BY <2>1, <2>2 DEF SelectedIsFirstConflict, Precedes
<1>3. CASE SelectTrial \/ ReplaySelected \/ AttachEvidence
  BY <1>3 DEF SelectTrial, Select, ReplaySelected, AttachEvidence, SelectedIsFirstConflict, Looping
<1>4. CASE RunTrial \/ Regenerate \/ FeedbackNotTargeted \/ UNCHANGED vars
  BY <1>4 DEF RunTrial, Regenerate, FeedbackNotTargeted, LeaveWorld, vars,
              SelectedIsFirstConflict, Looping, Conflicts, Precedes
<1>5. QED BY <1>1, <1>2, <1>3, <1>4 DEF Next

\* The three sources of a selection agree with the record of conflicts.
LEMMA SelectingDecides ==
  ASSUME TypeOK, SelectedInSync, SelectedIsFirstConflict, RecordsFaithful, SelectionExecuted,
         SelectTrial, ~DeadlineMayFire
  PROVE  /\ PairDistinguished(selected'.run) <=> Conflicts # {}
         /\ pc' = "attach" => (PairDistinguished(final') <=> Conflicts # {})
<1>1. \A t \in recorded : attempts[t].distinguished <=> PairDistinguished(trials[t])
  BY DEF RecordsFaithful
<1>2. /\ Conflicts # {} <=> selected.id # NoTrial
      /\ selected.id # NoTrial => selected.id \in Conflicts
  BY PrecedesFacts DEF SelectTrial, SelectedIsFirstConflict, Conflicts, TypeOK
<1>3. \A t \in PreferredPool : PairDistinguished(trials[t])
  BY DEF PreferredPool, Showing, Candidates, CompositeConflicts
<1>4. CASE PreferredPool # {}
  <2>1. /\ selected'.id \in recorded /\ selected'.id \in PreferredPool
        /\ selected'.run = trials[selected'.id] /\ final' = selected'.run
    <3>1. CASE recorded = {}
      BY <1>4, <3>1 DEF PreferredPool, Showing, Candidates, CompositeConflicts
    <3>2. QED BY <1>4, <3>1, SelectFacts
  <2>2. selected'.id \in Conflicts
    BY <1>1, <1>3, <2>1 DEF Conflicts
  <2>3. QED BY <1>3, <2>1, <2>2
<1>5. CASE PreferredPool = {} /\ selected.id # NoTrial
  <2>1. selected' = selected /\ final' = selected.run
    BY <1>2, <1>5, SelectFacts DEF Conflicts
  <2>2. selected.run = trials[selected.id]
    BY <1>5 DEF SelectedInSync
  <2>3. PairDistinguished(selected.run)
    BY <1>1, <1>2, <1>5, <2>2 DEF Conflicts
  <2>4. QED BY <1>2, <1>5, <2>1, <2>3
<1>6. CASE PreferredPool = {} /\ selected.id = NoTrial
  <2>1. \A t \in recorded : ~PairDistinguished(trials[t])
    BY <1>1, <1>2, <1>6 DEF Conflicts
  <2>2. ~FailedRun(BlankDatabase, "ENGINE_ERROR").executed
    BY FailedRunFacts, BlankRunFacts DEF BlankRun, Runs
  <2>3. QED BY <1>2, <1>6, <2>1, <2>2, SelectFacts DEF SelectionExecuted, PairDistinguished
<1>7. QED BY <1>4, <1>5, <1>6

LEMMA SelectionDecidesStep ==
  /\ TypeOK /\ SelectedInSync /\ SelectedIsFirstConflict /\ RecordsFaithful
  /\ SelectionExecuted /\ SelectionDecides /\ [Next]_vars
  => SelectionDecides'
<1> SUFFICES ASSUME TypeOK, SelectedInSync, SelectedIsFirstConflict, RecordsFaithful,
                    SelectionExecuted, SelectionDecides, [Next]_vars, ~DeadlineMayFire,
                    pc' \notin {"run", "record", "mutate", "regenerate", "select"}
             PROVE  /\ PairDistinguished(selected'.run) <=> Conflicts' # {}
                    /\ pc' \in {"attach", "done"} =>
                         (PairDistinguished(final') <=> Conflicts' # {})
  BY DEF SelectionDecides, Concluded, Looping, PairDistinguished
<1>1. CASE RunTrial \/ Regenerate \/ FeedbackNotTargeted \/ ValidateWithMutations \/ RecordTrial
  BY <1>1, ProceedFacts
  DEF RunTrial, Regenerate, FeedbackNotTargeted, ValidateWithMutations, LeaveWorld, RecordTrial
<1>2. CASE SelectTrial
  <2>1. Conflicts' = Conflicts /\ pc' \in {"replay", "attach"}
    BY <1>2 DEF SelectTrial, Select, Conflicts
  <2>2. QED BY <1>2, <2>1, SelectingDecides
<1>3. CASE ReplaySelected
  <2>1. /\ Conflicts' = Conflicts /\ selected' = selected /\ pc = "replay" /\ ~Looping
        /\ selected.run.executed /\ selected.id # NoTrial
    BY <1>3 DEF ReplaySelected, Conflicts, Looping, SelectionExecuted
  <2>2. PairDistinguished(selected.run) <=> Conflicts # {}
    BY <2>1 DEF SelectionDecides
  <2>3. Faithful(selected.run) /\ selected.run \in Runs
    BY <2>1 DEF SelectedInSync, RecordsFaithful, TypeOK
  <2>4. PairDistinguished(final') <=> PairDistinguished(selected.run)
    BY <1>3, <2>1, <2>3, ReplayFacts DEF Faithful, PairDistinguished, Runs
  <2>5. QED BY <2>1, <2>2, <2>4
<1>4. CASE AttachEvidence
  <2>1. /\ Conflicts' = Conflicts /\ selected' = selected /\ pc = "attach" /\ ~Looping
    BY <1>4 DEF AttachEvidence, Conflicts, Looping
  <2>2. /\ PairDistinguished(selected.run) <=> Conflicts # {}
        /\ PairDistinguished(final) <=> Conflicts # {}
    BY <2>1 DEF SelectionDecides, Concluded
  <2>3. PICK shown \in BOOLEAN : final' = Finalize(final, shown)
    BY <1>4 DEF AttachEvidence
  <2>4. final'.executed = final.executed /\ final'.equal = final.equal
    <3>1. final \in Runs
      BY DEF TypeOK
    <3>2. QED BY <2>3, <3>1, FinalizeFacts
  <2>5. QED BY <2>1, <2>2, <2>4 DEF PairDistinguished
<1>5. CASE UNCHANGED vars
  BY <1>5 DEF vars, SelectionDecides, Concluded, Looping, Conflicts, PairDistinguished
<1>6. QED BY <1>1, <1>2, <1>3, <1>4, <1>5 DEF Next

----------------------------------------------------------------------------
\* The inductive invariant.

LEMMA IInvInit == Init => IInv
<1>1. SUFFICES ASSUME Init PROVE IInv
  OBVIOUS
<1>2. SelectedIsFirstConflict /\ SelectionDecides
  BY <1>1 DEF Init, SelectedIsFirstConflict, Conflicts, SelectionDecides, Looping
<1>3. QED BY <1>1, <1>2, TypeInit, LoopInit, RunsInit DEF IInv

LEMMA IInvStep == IInv /\ [Next]_vars => IInv'
BY TypeStep, LoopStep, RunsMeaningfulStep, RecordsFaithfulStep, SelectedInSyncStep,
   FirstConflictStep, SelectionDecidesStep
DEF IInv

LEMMA IInvHolds == Spec => []IInv
BY IInvInit, IInvStep, PTL DEF Spec

\* The variables of a comparison keep their types.
THEOREM TypeCorrect == Spec => []TypeOK
BY IInvHolds, PTL DEF IInv

\* The loops hold on to the first recorded conflict of any suite.
THEOREM FirstConflictIsSelected == Spec => []SelectedIsFirstConflict
BY IInvHolds, PTL DEF IInv

\* The two copies of the selected run never diverge.
THEOREM SelectionInSync == Spec => []SelectedInSync
BY IInvHolds, PTL DEF IInv

\* No world of any suite is skipped before the selection.
THEOREM WorldsAllAttempted == Spec => []EveryWorldAttempted
<1>1. IInv => EveryWorldAttempted
  BY DEF IInv, WorldsVisited, EveryWorldAttempted
<1>2. QED BY <1>1, IInvHolds, PTL

----------------------------------------------------------------------------
\* The published verdict.

\* What _finalize_witness_verdict and _rich_verdict make of a run together.
LEMMA FinalizeVerdict ==
  ASSUME NEW run \in Runs, NEW shown \in BOOLEAN, Meaningful(run)
  PROVE  LET verdict == RichVerdict(Finalize(run, shown))
         IN /\ verdict = "INCORRECT" <=> PairDistinguished(run)
            /\ verdict = "CORRECT" =>
                 /\ run.executed /\ run.equal
                 /\ AstDiffs # {} => shown /\ ~atBoundary
            /\ verdict \in Verdicts
<1>1. CASE ~run.executed
  BY <1>1 DEF Finalize, RichVerdict, ReportsWrong, ReportsAccepted, PairDistinguished,
              Meaningful, Verdicts
<1>2. CASE run.executed /\ ~run.equal
  BY <1>2 DEF Finalize, SetPublicVerdict, PublicJudge, RichVerdict, ReportsWrong,
              PairDistinguished, Verdicts
<1>3. CASE run.executed /\ run.equal
  BY <1>3 DEF Finalize, SetPublicVerdict, PublicJudge, RichVerdict, ReportsWrong,
              ReportsAccepted, PairDistinguished, Meaningful, Verdicts
<1>4. QED BY <1>1, <1>2, <1>3 DEF Runs

LEMMA FinalTracedStep == IInv /\ FinalTraced /\ [Next]_vars => FinalTraced'
<1> SUFFICES ASSUME IInv, FinalTraced, [Next]_vars PROVE FinalTraced'
  OBVIOUS
<1> USE DEF IInv
<1>1. CASE RunTrial \/ Regenerate \/ FeedbackNotTargeted \/ ValidateWithMutations \/ RecordTrial
  BY <1>1, ProceedFacts
  DEF RunTrial, Regenerate, FeedbackNotTargeted, ValidateWithMutations, LeaveWorld,
      RecordTrial, FinalTraced
<1>2. CASE SelectTrial
  <2>1. CASE final' = selected'.run
    <3>1. SelectedInSync' /\ SelectionExecuted' /\ recorded' = recorded /\ trials' = trials
      BY <1>2, SelectedInSyncStep DEF SelectTrial
    <3>2. ~DeadlineMayFire /\ final'.executed => Faithful(final')
      BY <2>1, <3>1 DEF SelectedInSync, SelectionExecuted, RecordsFaithful
    <3>3. QED BY <2>1, <3>2 DEF FinalTraced, Faithful
  <2>2. CASE final' = FailedRun(BlankDatabase, "ENGINE_ERROR")
    BY <2>2 DEF FailedRun, FinalTraced
  <2>3. QED BY <1>2, <2>1, <2>2, SelectFacts
<1>3. CASE ReplaySelected
  <2>1. /\ selected' = selected /\ selected.run.executed /\ selected.id # NoTrial
    BY <1>3 DEF ReplaySelected, SelectionExecuted
  <2>2. ~DeadlineMayFire => Faithful(selected.run)
    BY <2>1 DEF SelectedInSync, RecordsFaithful
  <2>3. QED BY <1>3, <2>1, <2>2, ReplayFacts DEF FinalTraced, Faithful
<1>4. CASE AttachEvidence
  <2>1. selected' = selected /\ pc = "attach" /\ final \in Runs
    BY <1>4 DEF AttachEvidence, TypeOK
  <2>2. PICK shown \in BOOLEAN : final' = Finalize(final, shown)
    BY <1>4 DEF AttachEvidence
  <2>3. final'.executed = final.executed /\ final'.equal = final.equal /\ final'.db = final.db
    BY <2>1, <2>2, FinalizeFacts
  <2>4. QED BY <2>1, <2>3 DEF FinalTraced, Faithful
<1>5. CASE UNCHANGED vars
  BY <1>5 DEF vars, FinalTraced, Faithful
<1>6. QED BY <1>1, <1>2, <1>3, <1>4, <1>5 DEF Next

LEMMA VerdictCarriedStep ==
  IInv /\ VerdictCarried /\ AcceptanceHasEvidence /\ [Next]_vars
    => VerdictCarried' /\ AcceptanceHasEvidence'
<1> SUFFICES ASSUME IInv, VerdictCarried, AcceptanceHasEvidence, [Next]_vars
             PROVE  VerdictCarried' /\ AcceptanceHasEvidence'
  OBVIOUS
<1>1. CASE AttachEvidence
  <2>1. PICK satisfied \in SUBSET {o \in Obligations : AtomicallyShown(o)} :
          /\ evidence'.anyWorld = (\E t \in recorded : attempts[t].distinguished)
          /\ evidence'.causal = satisfied
          /\ final' = Finalize(final, satisfied # {})
    BY <1>1 DEF AttachEvidence
  <2>2. /\ recorded' = recorded /\ attempts' = attempts /\ atBoundary' = atBoundary
    BY <1>1 DEF AttachEvidence
  <2>3. final \in Runs /\ Meaningful(final) /\ (satisfied # {}) \in BOOLEAN
    BY <1>1 DEF IInv, TypeOK, RunsMeaningful, AttachEvidence
  <2>4. final'.executed = final.executed /\ final'.equal = final.equal
    BY <2>1, <2>3, FinalizeFacts
  <2>5. /\ RichVerdict(final') = "INCORRECT" <=> PairDistinguished(final)
        /\ RichVerdict(final') = "CORRECT" =>
             /\ final.executed /\ final.equal
             /\ AstDiffs # {} => satisfied # {} /\ ~atBoundary
    BY <2>1, <2>3, FinalizeVerdict
  <2>6. VerdictCarried'
    BY <2>1, <2>2, <2>4, <2>5 DEF VerdictCarried, PairDistinguished, Conflicts
  <2>7. \A o \in satisfied : \E t \in recorded : o \in attempts[t].atomic
    BY DEF AtomicallyShown
  <2>8. AcceptanceHasEvidence'
    BY <2>1, <2>2, <2>5, <2>7 DEF AcceptanceHasEvidence
  <2>9. QED BY <2>6, <2>8
<1>2. CASE UNCHANGED vars
  BY <1>2 DEF vars, VerdictCarried, AcceptanceHasEvidence, PairDistinguished, Conflicts
<1>3. CASE pc' # "done"
  BY <1>3 DEF VerdictCarried, AcceptanceHasEvidence
<1>4. QED
  BY <1>1, <1>2, <1>3, ProceedFacts
  DEF Next, IInv, RunTrial, RecordTrial, ValidateWithMutations, Regenerate,
      FeedbackNotTargeted, SelectTrial, Select, ReplaySelected, LeaveWorld

LEMMA VerdictInvariant == Spec => [](IInv /\ FinalTraced /\ VerdictCarried /\ AcceptanceHasEvidence)
<1>1. Init => FinalTraced /\ VerdictCarried /\ AcceptanceHasEvidence
  BY DEF Init, FinalTraced, VerdictCarried, AcceptanceHasEvidence
<1>2. QED BY <1>1, IInvInit, IInvStep, FinalTracedStep, VerdictCarriedStep, PTL DEF Spec

\* When executions repeat, the verdict "wrong" is published exactly when some
\* attempt of some world recorded a conflict.
THEOREM ConflictDecides == Spec => []ConflictDecidesVerdict
<1>1. IInv /\ VerdictCarried => ConflictDecidesVerdict
  BY DEF IInv, SelectionDecides, VerdictCarried, ConflictDecidesVerdict, Concluded, Looping
<1>2. QED BY <1>1, VerdictInvariant, PTL

\* A "wrong" verdict is published with the selected trial's rows, and the two
\* queries behave differently on them.
THEOREM WrongIsWitnessed == Spec => []WrongHasSeparatingRows
<1>1. IInv /\ FinalTraced /\ VerdictCarried => WrongHasSeparatingRows
  BY DEF IInv, TypeOK, Runs, Databases, Behaviours, FinalTraced, VerdictCarried,
         WrongHasSeparatingRows, PairDistinguished, Faithful
<1>2. QED BY <1>1, VerdictInvariant, PTL

\* A different query is accepted only with validated evidence.
THEOREM AcceptanceIsWitnessed == Spec => []AcceptanceHasEvidence
BY VerdictInvariant, PTL

\* No executed trial, no verdict about the student.
THEOREM FailsClosed == Spec => []FailClosed
<1>1. IInv /\ FinalTraced /\ VerdictCarried => FailClosed
  BY DEF IInv, FinalTraced, VerdictCarried, FailClosed, SelectedInSync, SelectionExecuted,
         PairDistinguished, RichVerdict
<1>2. QED BY <1>1, VerdictInvariant, PTL

----------------------------------------------------------------------------
\* The history of the trials, and the rules that read it.

\* A step of the comparison never rewrites an attempt, and replaces a recorded
\* trial only by a mutation-tested run on the same rows.
THEOREM HistoryIsKept == Spec => HistoryKept
<1> DEFINE Kept == \A t \in recorded :
                     /\ t \in recorded'
                     /\ attempts'[t] = attempts[t]
                     /\ trials'[t] # trials[t] =>
                          trials'[t].executed /\ trials'[t].mutations /\ trials'[t].db = trials[t].db
<1>1. IInv /\ [Next]_vars => [Kept]_vars
  <2> SUFFICES ASSUME IInv, Next PROVE Kept
    BY DEF vars
  <2> USE DEF IInv
  <2>1. CASE RecordTrial
    <3>1. <<w, a>> \notin recorded /\ recorded \subseteq TrialId
      BY <2>1, FreshSlot DEF RecordTrial, TypeOK
    <3>2. QED BY <2>1, <3>1 DEF RecordTrial, TypeOK
  <2>2. CASE ValidateWithMutations
    <3>1. recorded' = recorded /\ attempts' = attempts /\ trials[<<w, a>>].db = db[w]
      BY <2>2 DEF ValidateWithMutations, LoopPosition
    <3>2. QED BY <2>2, <3>1, ValidateFacts DEF ReplacedBy, TypeOK
  <2>3. QED
    BY <2>1, <2>2
    DEF Next, RunTrial, Regenerate, FeedbackNotTargeted, SelectTrial, ReplaySelected, AttachEvidence
<1>2. QED BY <1>1, IInvHolds, PTL DEF HistoryKept, Spec

\* Attempts are counted from an executed attempt that left something unshown.
RetryPosition ==
  /\ pc \in {"run", "record"} /\ a # 0 =>
       /\ <<w, a - 1>> \in recorded
       /\ trials[<<w, a - 1>>].executed
       /\ ~attempts[<<w, a - 1>>].covered
  /\ pc = "regenerate" => trials[<<w, a>>].executed /\ ~attempts[<<w, a>>].covered

LEMMA RetriesStep ==
  IInv /\ RetryPosition /\ RetriesAreEarned /\ [Next]_vars => RetryPosition' /\ RetriesAreEarned'
<1> SUFFICES ASSUME IInv, RetryPosition, RetriesAreEarned, [Next]_vars
             PROVE  RetryPosition' /\ RetriesAreEarned'
  OBVIOUS
<1> USE DEF IInv
<1>0. w \in Nat /\ a \in Nat /\ w \in World /\ a \in Attempt /\ <<w, a>> \in TrialId
      /\ recorded \subseteq TrialId
      /\ \A x \in World : \A k \in Attempt \ {0} : k - 1 \in Attempt /\ k \in Int
  BY ComparisonAssumption DEF TypeOK, World, Attempt, TrialId
<1>1. CASE RecordTrial
  <2>1. <<w, a>> \notin recorded /\ recorded' = recorded \cup {<<w, a>>} /\ pc = "record"
    BY <1>1, FreshSlot DEF RecordTrial
  <2>2. PICK covered \in BOOLEAN :
          /\ attempts'[<<w, a>>].covered = covered
          /\ Proceed(trial, covered)
    <3>1. PICK outcome \in AtomicValidations(trial, w) :
            /\ attempts' = [attempts EXCEPT ![<<w, a>>] =
                 [distinguished |-> PairDistinguished(trial),
                  covered |-> AllShown(outcome), atomic |-> ShownDiffs(outcome)]]
            /\ Proceed(trial, AllShown(outcome))
      BY <1>1 DEF RecordTrial
    <3>2. attempts'[<<w, a>>].covered = AllShown(outcome) /\ AllShown(outcome) \in BOOLEAN
      BY <1>0, <3>1 DEF TypeOK, AllShown
    <3>3. QED BY <3>1, <3>2
  <2>3. /\ trials'[<<w, a>>] = trial
        /\ \A t \in recorded : trials'[t] = trials[t] /\ attempts'[t] = attempts[t]
    BY <1>0, <1>1, <2>1 DEF RecordTrial, TypeOK
  <2>4. RetryPosition'
    <3>1. CASE pc' = "regenerate"
      BY <2>2, <2>3, <3>1 DEF Proceed, LeaveWorld, RetryPosition
    <3>2. CASE pc' # "regenerate"
      <4>1. ~(pc' = "record") /\ (pc' = "run" => a' = 0)
        BY <2>2 DEF Proceed, LeaveWorld
      <4>2. QED BY <3>2, <4>1 DEF RetryPosition
    <3>3. QED BY <3>1, <3>2
  <2>5. RetriesAreEarned'
    BY <1>0, <2>1, <2>3 DEF RetriesAreEarned, RetryPosition
  <2>6. QED BY <2>4, <2>5
<1>2. CASE ValidateWithMutations
  <2>1. /\ recorded' = recorded /\ attempts' = attempts
        /\ pc' # "record" /\ pc' # "regenerate" /\ (pc' = "run" => a' = 0)
    BY <1>2 DEF ValidateWithMutations, LeaveWorld
  <2>2. \A t \in recorded : trials[t].executed => trials'[t].executed
    BY <1>0, <1>2, ValidateFacts DEF ReplacedBy, TypeOK
  <2>3. QED BY <2>1, <2>2 DEF RetryPosition, RetriesAreEarned
<1>3. CASE Regenerate
  <2>1. <<w, a>> \in recorded /\ a' - 1 = a /\ w' = w /\ pc' = "run"
    BY <1>0, <1>3 DEF Regenerate, LoopPosition
  <2>2. QED BY <1>3, <2>1 DEF Regenerate, RetryPosition, RetriesAreEarned
<1>4. CASE FeedbackNotTargeted
  BY <1>4 DEF FeedbackNotTargeted, LeaveWorld, RetryPosition, RetriesAreEarned
<1>5. CASE RunTrial \/ SelectTrial \/ ReplaySelected \/ AttachEvidence \/ UNCHANGED vars
  BY <1>5 DEF RunTrial, SelectTrial, Select, ReplaySelected, AttachEvidence, vars,
              RetryPosition, RetriesAreEarned
<1>6. QED BY <1>1, <1>2, <1>3, <1>4, <1>5 DEF Next

\* No world of any suite is retried without a reason.
THEOREM RetriesEarned == Spec => []RetriesAreEarned
<1>1. Init => RetryPosition /\ RetriesAreEarned
  BY DEF Init, RetryPosition, RetriesAreEarned
<1>2. QED BY <1>1, IInvHolds, RetriesStep, PTL DEF Spec

\* A trial with complete attribution evidence is selected whenever there is one.
THEOREM AttributionIsPreferred == Spec => []AttributionPreferred
<1>1. Init => AttributionPreferred
  BY DEF Init, AttributionPreferred, Looping
<1>2. IInv /\ AttributionPreferred /\ [Next]_vars => AttributionPreferred'
  <2> SUFFICES ASSUME IInv, AttributionPreferred, [Next]_vars PROVE AttributionPreferred'
    OBVIOUS
  <2>1. CASE SelectTrial
    <3>1. Candidates' = Candidates /\ (Candidates # {} => recorded # {})
      BY <2>1 DEF SelectTrial, Candidates, PairDistinguished
    <3>2. Candidates # {} => PreferredPool # {} /\ PreferredPool \subseteq Candidates
      BY DEF PreferredPool, Showing
    <3>3. QED BY <2>1, <3>1, <3>2, SelectFacts DEF AttributionPreferred, IInv
  <2>2. CASE ReplaySelected \/ AttachEvidence \/ UNCHANGED vars
    BY <2>2 DEF ReplaySelected, AttachEvidence, vars, AttributionPreferred, Candidates,
                PairDistinguished, Looping
  <2>3. CASE RunTrial \/ Regenerate \/ FeedbackNotTargeted \/ ValidateWithMutations \/ RecordTrial
    <3>1. pc' \in {"run", "record", "mutate", "regenerate", "select"}
      BY <2>3, ProceedFacts
      DEF IInv, RunTrial, Regenerate, FeedbackNotTargeted, ValidateWithMutations, RecordTrial, LeaveWorld
    <3>2. QED BY <3>1 DEF AttributionPreferred, Looping
  <2>4. QED BY <2>1, <2>2, <2>3 DEF Next
<1>3. QED BY <1>1, <1>2, IInvHolds, PTL DEF Spec

----------------------------------------------------------------------------
\* The comparison implements JudgeContract.

LEMMA SeenGrows ==
  ASSUME IInv, Next
  PROVE  /\ Conflicts # {} => Conflicts' # {}
         /\ (\E t \in recorded : trials[t].executed /\ ~attempts[t].distinguished)
              => (\E t \in recorded' : trials'[t].executed /\ ~attempts'[t].distinguished)
<1>1. CASE RecordTrial
  <2>1. <<w, a>> \notin recorded /\ recorded \subseteq TrialId
    BY <1>1, FreshSlot DEF IInv, RecordTrial, TypeOK
  <2>2. /\ recorded \subseteq recorded'
        /\ \A t \in recorded : trials'[t] = trials[t] /\ attempts'[t] = attempts[t]
    BY <1>1, <2>1 DEF IInv, RecordTrial, TypeOK
  <2>3. QED BY <2>2 DEF Conflicts
<1>2. CASE ValidateWithMutations
  <2>1. recorded' = recorded /\ attempts' = attempts
    BY <1>2 DEF ValidateWithMutations
  <2>2. \A t \in recorded : trials[t].executed => trials'[t].executed
    BY <1>2, ValidateFacts DEF IInv, ReplacedBy, TypeOK
  <2>3. QED BY <2>1, <2>2 DEF Conflicts
<1>3. QED
  BY <1>1, <1>2
  DEF Next, RunTrial, Regenerate, FeedbackNotTargeted, SelectTrial, ReplaySelected,
      AttachEvidence, Conflicts

\* Every step of a comparison is a step of the contract: it observes more, or it
\* publishes a verdict that the observations carry.
THEOREM ContractKept == Spec => KeepsContract
<1> DEFINE Inv == IInv /\ FinalTraced /\ VerdictCarried /\ AcceptanceHasEvidence
<1>1. Init => Judge!Init
  BY DEF Init, Judge!Init, SeenObservations, SeenConflict, SeenAgreement, Concluded,
         Conflicts, PublishedVerdict
<1>2. Inv /\ Inv' /\ [Next]_vars => [Judge!Next]_<<SeenObservations, PublishedVerdict>>
  <2> SUFFICES ASSUME Inv, Inv', Next PROVE [Judge!Next]_<<SeenObservations, PublishedVerdict>>
    BY DEF vars, SeenObservations, SeenConflict, SeenAgreement, Concluded, Conflicts,
           PublishedVerdict, PairDistinguished
  <2>1. CASE AttachEvidence
    <3>1. /\ pc = "attach" /\ pc' = "done" /\ recorded' = recorded /\ attempts' = attempts
          /\ trials' = trials
      BY <2>1 DEF AttachEvidence
    <3>2. PICK shown \in BOOLEAN : final' = Finalize(final, shown)
      BY <2>1 DEF AttachEvidence
    <3>3. final \in Runs /\ Meaningful(final)
      BY <3>1 DEF IInv, TypeOK, RunsMeaningful
    <3>4. final'.executed = final.executed /\ final'.equal = final.equal
      BY <3>2, <3>3, FinalizeFacts
    <3>5. /\ RichVerdict(final') \in {"INCORRECT", "CORRECT", "UNDECIDED"}
          /\ RichVerdict(final') = "INCORRECT" <=> PairDistinguished(final)
          /\ RichVerdict(final') = "CORRECT" => final.executed /\ final.equal
      BY <3>2, <3>3, FinalizeVerdict DEF Verdicts
    <3>6. (SeenConflict' <=> SeenConflict) /\ (SeenAgreement' <=> SeenAgreement)
      BY <3>1, <3>4 DEF SeenConflict, SeenAgreement, Concluded, Conflicts, PairDistinguished
    <3>7. SeenObservations' = SeenObservations
      BY <3>6 DEF SeenObservations
    <3>8. Judge!Justified(RichVerdict(final'))
      <4>1. PairDistinguished(final) => SeenConflict
        BY <3>1 DEF SeenConflict, Concluded
      <4>2. final.executed /\ final.equal => SeenAgreement
        BY <3>1 DEF SeenAgreement, Concluded
      <4>3. ~DeadlineMayFire => (SeenConflict <=> PairDistinguished(final))
        BY <3>1 DEF IInv, SelectionDecides, SeenConflict, Concluded, Looping
      <4>4. QED BY <3>5, <4>1, <4>2, <4>3 DEF Judge!Justified, SeenObservations
    <3>9. Judge!Publish
      BY <3>1, <3>5, <3>7, <3>8 DEF Judge!Publish, Judge!Published, PublishedVerdict
    <3>10. QED BY <3>9 DEF Judge!Next
  <2>2. CASE ~AttachEvidence
    <3>1. pc # "done" /\ pc' # "done" /\ pc # "attach"
      BY <2>2, ProceedFacts
      DEF Next, IInv, RunTrial, Regenerate, FeedbackNotTargeted, ValidateWithMutations,
          RecordTrial, LeaveWorld, SelectTrial, Select, ReplaySelected
    <3>2. (SeenConflict => SeenConflict') /\ (SeenAgreement => SeenAgreement')
      BY <3>1, SeenGrows DEF SeenConflict, SeenAgreement, Concluded
    <3>3. /\ SeenObservations \subseteq SeenObservations'
          /\ SeenObservations' \in SUBSET {"agreement", "conflict"}
      BY <3>2 DEF SeenObservations
    <3>4. \E new \in SUBSET {"agreement", "conflict"} :
            SeenObservations' = SeenObservations \cup new
      BY <3>3
    <3>5. Judge!Observe
      BY <3>1, <3>4 DEF Judge!Observe, Judge!Observations, PublishedVerdict
    <3>6. QED BY <3>5 DEF Judge!Next
  <2>3. QED BY <2>1, <2>2
<1>3. QED BY <1>1, <1>2, VerdictInvariant, PTL DEF Spec, KeepsContract, Judge!Spec

----------------------------------------------------------------------------
\* The comparison comes to an end.

\* The attempts that the loops may still make, the current one included.
AttemptsLeft == (Len(suite) - w) * MaxAttempts + (MaxAttempts - a)

\* The steps that one attempt, and that the code after the loops, still takes.
StageLeft ==
  CASE pc = "run" -> 2 [] pc = "record" -> 1 [] pc \in {"mutate", "regenerate"} -> 0
    [] pc = "select" -> 3 [] pc = "replay" -> 2 [] pc = "attach" -> 1 [] OTHER -> 0
StepsLeft == StageLeft + (IF Looping THEN 3 * AttemptsLeft + 1 ELSE 0)

\* Another world has all its attempts to make.
LEMMA AttemptsCount ==
  ASSUME NEW n \in Nat, NEW max \in Nat \ {0}
  PROVE  n * max \in Nat /\ (n + 1) * max = n * max + max
OBVIOUS

LEMMA AttemptsAreLeft ==
  ASSUME TypeOK, LoopPosition, Looping
  PROVE  /\ AttemptsLeft \in Nat \ {0}
         /\ LeaveWorld /\ suite' = suite =>
              \/ pc' = "select"
              \/ pc' = "run" /\ AttemptsLeft' \in Nat /\ AttemptsLeft' < AttemptsLeft
<1>1. /\ w \in DOMAIN suite /\ w \in Nat /\ a \in Nat /\ a < MaxAttempts
      /\ Len(suite) \in Nat /\ w <= Len(suite) /\ MaxAttempts \in Nat \ {0}
  BY SuiteFacts, ComparisonAssumption DEF TypeOK, LoopPosition, World, Attempt
<1>2. (Len(suite) - w) * MaxAttempts \in Nat
  BY <1>1, AttemptsCount
<1>3. AttemptsLeft \in Nat \ {0}
  BY <1>1, <1>2 DEF AttemptsLeft
<1>4. ASSUME LeaveWorld, suite' = suite, pc' # "select"
      PROVE  pc' = "run" /\ AttemptsLeft' \in Nat /\ AttemptsLeft' < AttemptsLeft
  <2>1. pc' = "run" /\ w' = w + 1 /\ a' = 0 /\ w + 1 <= Len(suite)
    BY <1>1, <1>4 DEF LeaveWorld
  <2> DEFINE n == Len(suite) - (w + 1)
  <2>2. n \in Nat /\ Len(suite) - w = n + 1
    BY <1>1, <2>1
  <2>3. n * MaxAttempts \in Nat /\ (n + 1) * MaxAttempts = n * MaxAttempts + MaxAttempts
    BY <1>1, <2>2, AttemptsCount
  <2>4. AttemptsLeft' = n * MaxAttempts + MaxAttempts
    BY <1>1, <1>4, <2>1 DEF AttemptsLeft
  <2>5. AttemptsLeft = (n * MaxAttempts + MaxAttempts) + (MaxAttempts - a)
    BY <2>2, <2>3 DEF AttemptsLeft
  <2> HIDE DEF n
  <2>6. QED BY <1>1, <2>1, <2>3, <2>4, <2>5
<1>5. QED BY <1>3, <1>4

LEMMA StepsAreLeft == TypeOK /\ LoopPosition => StepsLeft \in Nat
BY AttemptsAreLeft DEF TypeOK, Controls, StepsLeft, StageLeft

LEMMA StepsAreTaken == TypeOK /\ LoopPosition /\ Next => StepsLeft' < StepsLeft
<1> SUFFICES ASSUME TypeOK, LoopPosition, Next PROVE StepsLeft' < StepsLeft
  OBVIOUS
<1>1. Looping => AttemptsLeft \in Nat \ {0}
  BY AttemptsAreLeft
\* A step within an attempt.
<1>2. ASSUME Looping, suite' = suite, w' = w, a' = a, Looping', StageLeft' < StageLeft
      PROVE  StepsLeft' < StepsLeft
  <2>1. AttemptsLeft' = AttemptsLeft
    BY <1>2 DEF AttemptsLeft
  <2>2. StageLeft \in Int /\ StageLeft' \in Int
    BY DEF StageLeft
  <2>3. QED BY <1>1, <1>2, <2>1, <2>2 DEF StepsLeft
\* The end of an attempt.
<1>3. ASSUME Looping, suite' = suite,
             pc' = "select" \/ (pc' = "run" /\ AttemptsLeft' \in Nat /\ AttemptsLeft' < AttemptsLeft)
      PROVE  StepsLeft' < StepsLeft
  <2>1. StageLeft \in Nat
    BY DEF StageLeft
  <2>2. CASE pc' = "select"
    BY <1>1, <1>3, <2>1, <2>2 DEF StepsLeft, StageLeft, Looping
  <2>3. CASE pc' = "run" /\ AttemptsLeft' \in Nat /\ AttemptsLeft' < AttemptsLeft
    BY <1>1, <1>3, <2>1, <2>3 DEF StepsLeft, StageLeft, Looping
  <2>4. QED BY <1>3, <2>2, <2>3
<1>4. CASE RunTrial
  BY <1>2, <1>4 DEF RunTrial, Looping, StageLeft
<1>5. CASE RecordTrial
  <2>1. Looping /\ suite' = suite /\ \E covered \in BOOLEAN : Proceed(trial, covered)
    BY <1>5 DEF RecordTrial, Looping, AllShown
  <2>2. CASE LeaveWorld
    BY <1>3, <2>1, <2>2, AttemptsAreLeft
  <2>3. CASE pc' \in {"mutate", "regenerate"} /\ w' = w /\ a' = a
    BY <1>2, <1>5, <2>1, <2>3 DEF RecordTrial, Looping, StageLeft
  <2>4. QED BY <2>1, <2>2, <2>3, ProceedFacts
<1>6. CASE ValidateWithMutations
  BY <1>3, <1>6, AttemptsAreLeft DEF ValidateWithMutations, Looping
<1>7. CASE Regenerate
  <2>1. Looping /\ suite' = suite /\ w' = w /\ a' = a + 1 /\ a + 1 < MaxAttempts /\ pc' = "run"
    BY <1>7 DEF Regenerate, Looping, LoopPosition
  <2>2. w \in DOMAIN suite /\ Len(suite) \in Nat /\ w \in Nat /\ w <= Len(suite) /\ a \in Nat /\ MaxAttempts \in Nat
    BY <2>1, SuiteFacts, ComparisonAssumption DEF TypeOK, LoopPosition, World, Attempt
  <2>3. (Len(suite) - w) * MaxAttempts \in Nat
    BY <2>2, ComparisonAssumption, AttemptsCount
  <2>4. AttemptsLeft' \in Nat /\ AttemptsLeft' < AttemptsLeft
    BY <2>1, <2>2, <2>3 DEF AttemptsLeft
  <2>5. QED BY <1>3, <2>1, <2>4
<1>8. CASE FeedbackNotTargeted
  BY <1>3, <1>8, AttemptsAreLeft DEF FeedbackNotTargeted, Looping
<1>9. CASE SelectTrial
  <2>1. pc = "select" /\ pc' \in {"replay", "attach"}
    BY <1>9, SelectFacts DEF SelectTrial
  <2>2. QED BY <2>1 DEF StepsLeft, StageLeft, Looping
<1>10. CASE ReplaySelected
  BY <1>10 DEF ReplaySelected, StepsLeft, StageLeft, Looping
<1>11. CASE AttachEvidence
  BY <1>11 DEF AttachEvidence, StepsLeft, StageLeft, Looping
<1>12. QED BY <1>4, <1>5, <1>6, <1>7, <1>8, <1>9, <1>10, <1>11 DEF Next

\* _complete_comparison comes to an end whatever SQLite and the feedback answer:
\* the steps left are a number, and every step that is taken makes it less.
THEOREM ComparisonRunsOut == Spec => [](StepsLeft \in Nat) /\ [][StepsLeft' < StepsLeft]_vars
<1>1. IInv => StepsLeft \in Nat
  BY StepsAreLeft DEF IInv
<1>2. IInv /\ [Next]_vars => [StepsLeft' < StepsLeft]_vars
  BY StepsAreTaken DEF IInv
<1>3. QED BY IInvHolds, <1>1, <1>2, PTL DEF Spec

\* What the step that is due picks from has something to pick.  The remaining
\* steps, a regeneration and the attachment, pick from constant sets.
PicksExist ==
  /\ pc \in {"run", "mutate"} => \A m \in BOOLEAN : RunsOn(db[w], m) # {}
  /\ pc = "record" => AtomicValidations(trial, w) # {}
  /\ pc \in {"mutate", "regenerate"} => w \in DOMAIN suite
  /\ PreferredPool # {} => \E t \in PreferredPool : IsFirst(t, PreferredPool)
  /\ recorded # {} => \E t \in FallbackPool : IsFirst(t, FallbackPool)
  /\ pc = "replay" => RunsOn(selected.run.db, TRUE) # {}

LEMMA RunsExist == \A d \in Databases, m \in BOOLEAN : RunsOn(d, m) # {}
BY DEF RunsOn, UninterruptedRuns

\* Of the trials of a non-empty set one was appended first.
LEMMA FirstExists ==
  ASSUME NEW S \in SUBSET TrialId, S # {}
  PROVE  \E t \in S : IsFirst(t, S)
<1>1. \A t \in TrialId : t = <<t[1], t[2]>> /\ t[1] \in Nat /\ t[2] \in Nat
  BY ComparisonAssumption DEF TrialId, World, Attempt
<1> DEFINE worlds == {t[1] : t \in S}
<1>2. PICK x \in worlds : \A y \in worlds : x <= y
  <2>1. worlds \in SUBSET Nat /\ worlds # {}
    BY <1>1
  <2> HIDE DEF worlds
  <2>2. QED BY <2>1, LeastNumber
<1> DEFINE tries == {t[2] : t \in {u \in S : u[1] = x}}
<1>3. PICK b \in tries : \A c \in tries : b <= c
  <2>1. tries \in SUBSET Nat /\ tries # {}
    BY <1>1, <1>2
  <2> HIDE DEF tries
  <2>2. QED BY <2>1, LeastNumber
<1>4. PICK t \in S : t[1] = x /\ t[2] = b
  BY <1>3
<1>5. ASSUME NEW u \in S PROVE u = t \/ Precedes(t, u)
  <2>1. x <= u[1] /\ (u[1] = x => b <= u[2])
    BY <1>2, <1>3
  <2>2. /\ t = <<t[1], t[2]>> /\ u = <<u[1], u[2]>>
        /\ t[1] \in Nat /\ t[2] \in Nat /\ u[1] \in Nat /\ u[2] \in Nat
    BY <1>1
  <2>3. CASE t[1] = u[1] /\ t[2] = u[2]
    BY <2>2, <2>3
  <2>4. CASE ~(t[1] = u[1] /\ t[2] = u[2])
    BY <1>4, <2>1, <2>2, <2>4 DEF Precedes
  <2>5. QED BY <2>3, <2>4
<1>6. QED BY <1>4, <1>5 DEF IsFirst

LEMMA PicksAreThere == TypeOK /\ LoopPosition => PicksExist
<1> SUFFICES ASSUME TypeOK, LoopPosition PROVE PicksExist
  OBVIOUS
<1>1. db[w] \in Databases /\ selected.run.db \in Databases
  BY DEF TypeOK, Runs
<1>2. AtomicValidations(trial, w) # {}
  <2>1. [d \in suite[w].diffs |-> "same"] \in [suite[w].diffs -> MutantOutcomes(trial)]
    BY DEF MutantOutcomes
  <2>2. QED BY <2>1 DEF AtomicValidations
<1>3. /\ PreferredPool \subseteq TrialId /\ FallbackPool \subseteq TrialId
      /\ recorded # {} => FallbackPool # {}
  BY DEF TypeOK, PreferredPool, FallbackPool, Showing, Candidates, CompositeConflicts,
         ExecutedTrials
<1>4. /\ PreferredPool # {} => \E t \in PreferredPool : IsFirst(t, PreferredPool)
      /\ recorded # {} => \E t \in FallbackPool : IsFirst(t, FallbackPool)
  BY <1>3, FirstExists
<1>5. QED BY <1>1, <1>2, <1>4, RunsExist DEF PicksExist, LoopPosition, Looping

\* _complete_comparison never stands before an empty choice: every execution,
\* validation and selection it turns to has an outcome, among them the first of
\* the trials it prefers or falls back on.
THEOREM ComparisonGoesOn == Spec => []PicksExist
<1>1. IInv => PicksExist
  BY PicksAreThere DEF IInv
<1>2. QED BY IInvHolds, <1>1, PTL
============================================================================
