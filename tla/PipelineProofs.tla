--------------------------- MODULE PipelineProofs ---------------------------
(***************************************************************************)
(* For every set of tasks: the student is blamed only next to a sound       *)
(* reference, and a task without a verdict teaches nothing.                 *)
(***************************************************************************)
EXTENDS Pipeline, TLAPS

\* What the front door knows once a task is past a check.
PastFeatures == {"parse", "catalog", "schema", "namespaces", "reference", "student",
                 "prepare", "compare"}
PastParse == PastFeatures \ {"parse"}
PastCatalog == PastParse \ {"catalog"}
PastNamespaces == PastCatalog \ {"schema", "namespaces"}
PastReference == PastNamespaces \ {"reference"}

Checked ==
  /\ pc \in PastFeatures => task.unsupported = {}
  /\ pc \in PastParse => task.unparsable = {}
  /\ pc \in PastCatalog => task.catalog # "malformed"
  /\ pc \in PastNamespaces => task.foreign = {}
  /\ pc \in PastReference => "reference" \notin task.noTable \cup task.noColumn

NothingPublished == pc \in PastFeatures \cup {"features"} => run = NoRun

\* Phase 1's part of the invariant.
FrontInv ==
  /\ task \in Task
  /\ Checked
  /\ NothingPublished
  /\ BlameNeedsSoundReference

\* The package is one of those that the run allows, and nobody has a hint
\* before there is a package.
TeachInv ==
  /\ pc = "ready" => package \in Packages(RichVerdict(run), run.diffs)
  /\ pc # "ready" => hint = NoHint
  /\ GapsTeachNothing

\* The student is blamed only next to a reference that was found in order: for
\* every set of tasks and whatever else is wrong with them.
THEOREM BlameIsFair == Spec => []BlameNeedsSoundReference
<1>1. Init => FrontInv
  <2> SUFFICES ASSUME Init PROVE FrontInv
    OBVIOUS
  <2>1. task \in Task
    BY TasksAssumption DEF Init
  <2>2. Checked /\ NothingPublished
    BY DEF Init, Checked, NothingPublished, PastFeatures, PastParse, PastCatalog,
           PastNamespaces, PastReference
  <2>3. BlameNeedsSoundReference
    BY DEF Init, NoRun, BlameNeedsSoundReference
  <2> QED
    BY <2>1, <2>2, <2>3 DEF FrontInv
<1>2. FrontInv /\ [Next]_vars => FrontInv'
  <2> SUFFICES ASSUME FrontInv, [Next]_vars PROVE FrontInv'
    OBVIOUS
  <2> USE DEF FrontInv, Checked, NothingPublished, PastFeatures, PastParse, PastCatalog,
              PastNamespaces, PastReference
  <2>1. CASE CheckFeatures
    BY <2>1 DEF CheckFeatures, Check, Return, Failed, FailureConclusion, NoRun,
                BlameNeedsSoundReference
  <2>2. CASE ParsePair
    <3>1. CASE "reference" \in task.unparsable
      BY <2>2, <3>1 DEF ParsePair, Return, Failed, FailureConclusion, BlameNeedsSoundReference
    <3>2. CASE task.unparsable = {"student"}
      BY <2>2, <3>2 DEF ParsePair, Return, Failed, FailureConclusion, BlameNeedsSoundReference
    <3>3. CASE task.unparsable = {}
      BY <2>2, <3>3 DEF ParsePair, Return, NoRun, BlameNeedsSoundReference
    <3> QED
      BY <2>2, <3>1, <3>2, <3>3 DEF ParsePair
  <2>3. CASE BuildCatalog
    BY <2>3 DEF BuildCatalog, Check, Return, Failed, FailureConclusion, NoRun,
                BlameNeedsSoundReference
  <2>4. CASE CheckSchema
    BY <2>4 DEF CheckSchema, Check, Return, Failed, FailureConclusion, NoRun,
                BlameNeedsSoundReference
  <2>5. CASE CheckNamespaces
    BY <2>5 DEF CheckNamespaces, Check, Return, Failed, FailureConclusion, NoRun,
                BlameNeedsSoundReference
  <2>6. CASE QualifyReference
    BY <2>6 DEF QualifyReference, Check, Return, Failed, FailureConclusion, NoRun,
                BlameNeedsSoundReference
  <2>7. CASE QualifyStudent
    BY <2>7 DEF QualifyStudent, Check, Return, Failed, FailureConclusion, NoRun,
                BlameNeedsSoundReference
  <2>8. CASE PreparePair
    BY <2>8 DEF PreparePair, Check, Return, Failed, FailureConclusion, NoRun,
                BlameNeedsSoundReference
  <2>9. CASE Compare
    <3>1. PICK outcome \in Outcomes, metadata \in {"COMPLETE", "PARTIAL"} :
            run' = [outcome EXCEPT !.scopes = metadata] /\ pc' = "diagnose"
      BY <2>9 DEF Compare, Return
    <3>2. /\ run'.conclusion = outcome.conclusion
          /\ run'.executed = outcome.executed
      BY <3>1 DEF Outcomes, Failed, Compared
    <3>3. outcome.conclusion = "NOT_EQUIVALENT" => outcome.executed
      BY DEF Outcomes, Failed, Compared, FailureConclusion
    <3> QED
      BY <2>9, <3>1, <3>2, <3>3 DEF Compare, BlameNeedsSoundReference
  <2>10. CASE Diagnose
    BY <2>10 DEF Diagnose, BlameNeedsSoundReference
  <2>11. CASE \E level \in 0 .. 4 : LearnerHint(level)
    BY <2>11 DEF LearnerHint, BlameNeedsSoundReference
  <2>12. CASE UNCHANGED vars
    BY <2>12 DEF vars, BlameNeedsSoundReference
  <2> QED
    BY <2>1, <2>2, <2>3, <2>4, <2>5, <2>6, <2>7, <2>8, <2>9, <2>10, <2>11, <2>12 DEF Next
<1>3. FrontInv => BlameNeedsSoundReference
  BY DEF FrontInv
<1> QED
  BY <1>1, <1>2, <1>3, PTL DEF Spec

----------------------------------------------------------------------------
\* Without a conclusion Phase 2 takes its UNDECIDED exit.
LEMMA UndecidedExit ==
  run.conclusion = "UNDECIDED" => RichVerdict(run) = "UNDECIDED"
  BY DEF RichVerdict, ReportsWrong, ReportsAccepted

\* The one package of that exit points at nothing.
LEMMA UndecidedPackage ==
  ASSUME NEW p, NEW diffs, p \in Packages("UNDECIDED", diffs)
  PROVE  /\ p.verdict = "UNDECIDED" /\ p.primary = FALSE /\ p.witness = "none"
         /\ p.narrative = <<"insufficient evidence", "no fault", "no update">>
<1>1. p = Undiagnosed("UNDECIDED", "UNDECIDED")
  BY DEF Packages
<1>2. Narrative("UNDECIDED", FALSE, "none") =
        <<"insufficient evidence", "no fault", "no update">>
  BY DEF Narrative
<1> QED
  BY <1>1, <1>2 DEF Undiagnosed

\* Every slot of the exit's narrative is one of its three texts.
LEMMA SlotTexts ==
  ASSUME NEW level \in 1 .. 3
  PROVE  <<"insufficient evidence", "no fault", "no update">>[level]
           \in {"insufficient evidence", "no fault", "no update"}
<1> DEFINE texts == <<"insufficient evidence", "no fault", "no update">>
<1>1. level = 1 \/ level = 2 \/ level = 3
  OBVIOUS
<1>2. /\ texts[1] = "insufficient evidence" /\ texts[2] = "no fault"
      /\ texts[3] = "no update"
  OBVIOUS
<1> HIDE DEF texts
<1>3. texts[level] \in {"insufficient evidence", "no fault", "no update"}
  BY <1>1, <1>2
<1> QED
  BY <1>3 DEF texts

\* A task without a verdict teaches nothing, whatever the learner asks for and
\* however often.
THEOREM NoVerdictNoLesson == Spec => []GapsTeachNothing
<1>1. Init => TeachInv
  BY DEF Init, TeachInv, GapsTeachNothing
<1>2. TeachInv /\ [Next]_vars => TeachInv'
  <2> SUFFICES ASSUME TeachInv, [Next]_vars PROVE TeachInv'
    OBVIOUS
  <2>1. CASE Diagnose
    BY <2>1 DEF Diagnose, TeachInv, GapsTeachNothing
  <2>2. CASE \E level \in 0 .. 4 : LearnerHint(level)
    <3>1. PICK level \in 0 .. 4 : LearnerHint(level)
      BY <2>2
    <3>2. pc = "ready" /\ UNCHANGED <<pc, run, package>>
      BY <3>1 DEF LearnerHint
    <3>3. package \in Packages(RichVerdict(run), run.diffs)
      BY <3>2 DEF TeachInv
    <3>4. ASSUME run.conclusion = "UNDECIDED", level \in 1 .. 3
          PROVE  /\ hint'.verdict = "UNDECIDED" /\ ~hint'.focus /\ hint'.witness = "none"
                 /\ hint'.message \in {"insufficient evidence", "no fault", "no update"}
      <4>1. /\ package.verdict = "UNDECIDED" /\ package.primary = FALSE
            /\ package.witness = "none"
            /\ package.narrative = <<"insufficient evidence", "no fault", "no update">>
        BY <3>3, <3>4, UndecidedExit, UndecidedPackage
      <4>2. /\ hint'.verdict = package.verdict /\ hint'.focus = package.primary
            /\ hint'.message = package.narrative[level]
            /\ hint'.witness \in {"none", package.witness}
        BY <3>1, <3>4 DEF LearnerHint
      <4>3. package.narrative[level] \in {"insufficient evidence", "no fault", "no update"}
        BY <4>1, <3>4, SlotTexts
      <4>4. hint'.focus = FALSE /\ hint'.verdict = "UNDECIDED" /\ hint'.witness = "none"
        BY <4>1, <4>2
      <4> QED
        BY <4>2, <4>3, <4>4
    <3>5. level \notin 1 .. 3 => hint' = NoHint
      BY <3>1 DEF LearnerHint
    <3> QED
      BY <3>2, <3>3, <3>4, <3>5 DEF TeachInv, GapsTeachNothing
  <2>3. CASE /\ pc # "ready" /\ pc' # "ready" /\ UNCHANGED hint
    BY <2>3 DEF TeachInv, GapsTeachNothing
  <2>4. CASE UNCHANGED vars
    BY <2>4 DEF vars, TeachInv, GapsTeachNothing
  <2>5. ASSUME \/ CheckFeatures \/ ParsePair \/ BuildCatalog \/ CheckSchema
               \/ CheckNamespaces \/ QualifyReference \/ QualifyStudent \/ PreparePair
               \/ Compare
        PROVE  pc # "ready" /\ pc' # "ready" /\ UNCHANGED hint
    <3> USE DEF Check, Return
    <3>1. CASE CheckFeatures \/ BuildCatalog \/ CheckSchema \/ CheckNamespaces
      BY <3>1 DEF CheckFeatures, BuildCatalog, CheckSchema, CheckNamespaces
    <3>2. CASE QualifyReference \/ QualifyStudent \/ PreparePair
      BY <3>2 DEF QualifyReference, QualifyStudent, PreparePair
    <3>3. CASE ParsePair \/ Compare
      BY <3>3 DEF ParsePair, Compare
    <3> QED
      BY <2>5, <3>1, <3>2, <3>3
  <2> QED
    BY <2>1, <2>2, <2>3, <2>4, <2>5 DEF Next
<1>3. TeachInv => GapsTeachNothing
  BY DEF TeachInv
<1> QED
  BY <1>1, <1>2, <1>3, PTL DEF Spec
=============================================================================
