----------------------- MODULE DiagnosisRankingProofs -----------------------
(***************************************************************************)
(* Proofs about DiagnosisRanking for whatever Phase 1 hands over: any set   *)
(* of differences of the known kinds and grades, any signals, any declared  *)
(* dependencies and any order of the scopes.                                *)
(***************************************************************************)
EXTENDS DiagnosisRanking, TLAPS

----------------------------------------------------------------------------
(* The inductive invariant *)

\* What _make_candidate guarantees of every candidate, whatever its rule: a
\* proven one holds a proven difference, and the rules of the amplified
\* symptom and its causes are ranked at the stage where they are taught.
Sound(c) ==
  /\ c.grade \in EvidenceGrades
  /\ c.blocking <=> Verified(c.grade)
  /\ c.blocking => \E d \in evidence.diffs : d.id \in c.diffs /\ Rank(d.grade) >= 3
  /\ c.rule \in {"S1_MISSING_BRIDGE", "S1_CARTESIAN_PRODUCT"} => c.stage = "SOURCE_JOIN"
  /\ c.rule = "S5_FANOUT_AGGREGATE" => c.stage \in {"WINDOW", "PROJECTION"}

CandidatesSound == evidence \in Evidences /\ \A c \in candidates : Sound(c)

\* No dependency is known, and nothing is suppressed, until all candidates are.
Detecting == pc \in {"group", "relocate", "cartesian", "fanout", "topn", "placement"}
NothingSuppressedYet == Detecting => suppressed = {} /\ edges = {}

\* A declared dependency suppresses no proven candidate, and a rule only one
\* that a candidate of the same scope causes.
SuppressionJustified ==
  \A c \in suppressed :
    \/ ~c.blocking
    \/ \E p \in candidates : p.scope = c.scope /\ Causes(p, c)

\* The primary is a root that no other root comes before, once there is a root.
PrimaryFirst ==
  /\ pc /= "done" => primary = {}
  /\ pc = "done" /\ Roots /= {} => primary /= {}
  /\ \A c \in primary : c \in Roots /\ \A o \in Roots : ~Precedes(o, c)

IInv == CandidatesSound /\ NothingSuppressedYet /\ SuppressionJustified /\ PrimaryFirst

\* An amplified candidate and its cause belong to the same scope.
AmplificationsLocal ==
  \A x \in edges : x.type = "AMPLIFIES" => Amplifies(x.from, x.to) /\ x.from.scope = x.to.scope

----------------------------------------------------------------------------
(* Candidates *)

LEMMA BestIsGrade ==
  ASSUME NEW diffs, diffs # {}, \A d \in diffs : d.grade \in EvidenceGrades
  PROVE  \E d \in diffs : Best(diffs) = d.grade
<1> DEFINE grades == {d.grade : d \in diffs}
<1>1. \E g \in grades : \A d \in diffs : Rank(d.grade) =< Rank(g)
  <2>1. CASE "CAUSAL_VERIFIED" \in grades
    BY <2>1 DEF EvidenceGrades, Rank
  <2>2. CASE "CAUSAL_VERIFIED" \notin grades /\ "REPAIR_VERIFIED" \in grades
    BY <2>2 DEF EvidenceGrades, Rank
  <2>3. CASE {"CAUSAL_VERIFIED", "REPAIR_VERIFIED"} \cap grades = {} /\ "PAIR_DISTINGUISHED" \in grades
    BY <2>3 DEF EvidenceGrades, Rank
  <2>4. CASE {"CAUSAL_VERIFIED", "REPAIR_VERIFIED", "PAIR_DISTINGUISHED"} \cap grades = {} /\ "OUTPUT_ONLY" \in grades
    BY <2>4 DEF EvidenceGrades, Rank
  <2>5. CASE \A d \in diffs : d.grade = "AST_ONLY"
    BY <2>5 DEF Rank
  <2>6. QED BY <2>1, <2>2, <2>3, <2>4, <2>5 DEF EvidenceGrades
<1>2. Best(diffs) \in grades
  BY <1>1 DEF Best
<1>3. QED BY <1>2

Stages == {"SOURCE_JOIN", "ROW_FILTER", "GROUP_FILTER", "WINDOW", "PROJECTION", "ROOT_ORDER", "PAGINATION"}

LEMMA StageKnown ==
  ASSUME NEW d, d.kind \in DiffKinds
  PROVE  Stage(d) \in Stages
BY DEF Stage, Stages, DiffKinds

LEMMA EarliestExists ==
  ASSUME NEW diffs, diffs # {}, \A d \in diffs : d.kind \in DiffKinds
  PROVE  \E d \in diffs : \A o \in diffs : StageRank(Stage(d)) =< StageRank(Stage(o))
<1>1. \A d \in diffs : Stage(d) \in Stages
  BY StageKnown
<1> DEFINE at(n) == \E d \in diffs : StageRank(Stage(d)) = n
<1>2. \A d \in diffs : StageRank(Stage(d)) \in {2, 3, 5, 6, 7, 10, 11}
  BY <1>1 DEF StageRank, Stages
<1>3. CASE at(2)
  BY <1>2, <1>3
<1>4. CASE ~at(2) /\ at(3)
  BY <1>2, <1>4
<1>5. CASE ~at(2) /\ ~at(3) /\ at(5)
  BY <1>2, <1>5
<1>6. CASE ~at(2) /\ ~at(3) /\ ~at(5) /\ at(6)
  BY <1>2, <1>6
<1>7. CASE ~at(2) /\ ~at(3) /\ ~at(5) /\ ~at(6) /\ at(7)
  BY <1>2, <1>7
<1>8. CASE ~at(2) /\ ~at(3) /\ ~at(5) /\ ~at(6) /\ ~at(7) /\ at(10)
  BY <1>2, <1>8
<1>9. CASE ~at(2) /\ ~at(3) /\ ~at(5) /\ ~at(6) /\ ~at(7) /\ ~at(10)
  BY <1>2, <1>9
<1>10. QED BY <1>3, <1>4, <1>5, <1>6, <1>7, <1>8, <1>9

LEMMA CandidateSound ==
  ASSUME evidence \in Evidences, NEW rule, NEW scope,
         NEW diffs \in SUBSET evidence.diffs, diffs # {}
  PROVE  Sound(Candidate(rule, scope, diffs))
<1> DEFINE first == CHOOSE d \in diffs : \A o \in diffs : StageRank(Stage(d)) =< StageRank(Stage(o))
           c == Candidate(rule, scope, diffs)
<1>1. \A d \in diffs : d.grade \in EvidenceGrades /\ d.kind \in DiffKinds
  BY EvidenceAssumption
<1>2. PICK best \in diffs : Best(diffs) = best.grade
  BY <1>1, BestIsGrade
<1>3. first \in diffs
  BY <1>1, EarliestExists
<1>4. Stage(first) \in Stages
  BY <1>1, <1>3, StageKnown
<1>5. /\ c.rule = rule /\ c.grade = Best(diffs) /\ c.blocking = Verified(Best(diffs))
      /\ c.diffs = {d.id : d \in diffs}
      /\ c.stage = IF CatalogueStage(rule) \in {None, Teaching(Stage(first))} THEN Stage(first)
                   ELSE Home(CatalogueStage(rule))
  BY DEF Candidate
<1>6. Verified(best.grade) => Rank(best.grade) >= 3
  BY DEF Verified, Rank
<1>7. c.blocking => \E d \in evidence.diffs : d.id \in c.diffs /\ Rank(d.grade) >= 3
  BY <1>2, <1>5, <1>6
<1>8. rule \in {"S1_MISSING_BRIDGE", "S1_CARTESIAN_PRODUCT"} => c.stage = "SOURCE_JOIN"
  <2> HAVE rule \in {"S1_MISSING_BRIDGE", "S1_CARTESIAN_PRODUCT"}
  <2>1. CatalogueStage(rule) = "S1"
    BY DEF CatalogueStage, Generic, Unclassified
  <2>2. Home("S1") = "SOURCE_JOIN" /\ (Teaching(Stage(first)) = "S1" => Stage(first) = "SOURCE_JOIN")
    BY <1>4 DEF Home, Teaching, Stages
  <2>3. QED BY <1>5, <2>1, <2>2 DEF None
<1>9. rule = "S5_FANOUT_AGGREGATE" => c.stage \in {"WINDOW", "PROJECTION"}
  <2> HAVE rule = "S5_FANOUT_AGGREGATE"
  <2>1. CatalogueStage(rule) = "S5"
    BY DEF CatalogueStage, Generic, Unclassified
  <2>2. Home("S5") = "PROJECTION" /\ (Teaching(Stage(first)) = "S5" => Stage(first) \in {"WINDOW", "PROJECTION"})
    BY <1>4 DEF Home, Teaching, Stages
  <2>3. QED BY <1>5, <2>1, <2>2 DEF None
<1>10. QED BY <1>1, <1>2, <1>5, <1>7, <1>8, <1>9 DEF Sound

LEMMA PerScopeSound ==
  ASSUME evidence \in Evidences, NEW rule, NEW diffs \in SUBSET evidence.diffs
  PROVE  \A c \in PerScope(rule, diffs) : Sound(c)
<1> SUFFICES ASSUME NEW s \in Scopes(diffs) PROVE Sound(Candidate(rule, s, In(s, diffs)))
  BY DEF PerScope
<1>1. In(s, diffs) # {} /\ In(s, diffs) \subseteq evidence.diffs
  BY DEF In, Scopes
<1>2. QED BY <1>1, CandidateSound

LEMMA PairSound ==
  ASSUME evidence \in Evidences, NEW rule, NEW p \in evidence.diffs \X evidence.diffs
  PROVE  Sound(Candidate(rule, p[1].scope, {p[1], p[2]}))
BY CandidateSound

LEMMA BareSound ==
  Sound(BareCandidate("S2_AGGREGATE_IN_WHERE"))
BY DEF Sound, BareCandidate, Verified, EvidenceGrades

----------------------------------------------------------------------------
(* The steps that add candidates *)

LEMMA DetectAdds ==
  ASSUME IInv, NEW here, NEW next, NEW found, Detect(here, next, found),
         here \in {"group", "relocate", "cartesian", "fanout", "topn", "placement"},
         next \in {"relocate", "cartesian", "fanout", "topn", "placement", "link"},
         \A c \in found : Sound(c)
  PROVE  IInv'
<1> USE DEF IInv, Detect
<1>1. suppressed' = {} /\ edges' = {} /\ primary' = {}
  BY DEF NothingSuppressedYet, Detecting, PrimaryFirst
<1>2. CandidatesSound'
  BY DEF CandidatesSound, Sound
<1>3. NothingSuppressedYet' /\ SuppressionJustified'
  BY <1>1 DEF NothingSuppressedYet, SuppressionJustified
<1>4. PrimaryFirst'
  BY <1>1 DEF PrimaryFirst
<1>5. QED BY <1>2, <1>3, <1>4

LEMMA GroupDiffsKeeps == IInv /\ GroupDiffs => IInv'
<1> SUFFICES ASSUME IInv, GroupDiffs PROVE IInv'
  OBVIOUS
<1> DEFINE usable == Usable(evidence)
           at(k) == {d \in usable : <<d.scope, Rule(evidence, d)>> = k}
           keys == {<<d.scope, Rule(evidence, d)>> : d \in usable}
           found == {Candidate(k[2], k[1], at(k)) : k \in keys}
<1>1. evidence \in Evidences /\ usable \subseteq evidence.diffs
  BY DEF IInv, CandidatesSound, Usable
<1>2. \A k \in keys : at(k) # {} /\ at(k) \subseteq evidence.diffs
  BY <1>1
<1> HIDE DEF usable, at, keys
<1>3. \A c \in found : Sound(c)
  BY <1>1, <1>2, CandidateSound
<1>4. Detect("group", "relocate", found)
  BY DEF GroupDiffs, usable, at, keys
<1>5. QED BY <1>3, <1>4, DetectAdds

LEMMA PairRelocationKeeps == IInv /\ PairRelocation => IInv'
<1> SUFFICES ASSUME IInv, PairRelocation PROVE IInv'
  OBVIOUS
<1>1. evidence \in Evidences /\ Usable(evidence) \subseteq evidence.diffs
  BY DEF IInv, CandidatesSound, Usable
<1>2. PICK pairs \in SUBSET (evidence.diffs \X evidence.diffs) :
        Detect("relocate", "cartesian",
               {Candidate("S4_ROW_FILTER_IN_HAVING", p[1].scope, {p[1], p[2]}) : p \in pairs})
  BY <1>1 DEF PairRelocation
<1> DEFINE found == {Candidate("S4_ROW_FILTER_IN_HAVING", p[1].scope, {p[1], p[2]}) : p \in pairs}
<1>3. \A c \in found : Sound(c)
  BY <1>1, PairSound
<1>4. Detect("relocate", "cartesian", found)
  BY <1>2
<1> HIDE DEF found
<1>5. QED BY <1>3, <1>4, DetectAdds

LEMMA SuspectCartesianKeeps == IInv /\ SuspectCartesian => IInv'
<1> SUFFICES ASSUME IInv, SuspectCartesian PROVE IInv'
  OBVIOUS
<1>1. evidence \in Evidences /\ Joins(evidence) \subseteq evidence.diffs
  BY DEF IInv, CandidatesSound, Joins, Usable
<1>2. \A c \in PerScope("S1_CARTESIAN_PRODUCT", Joins(evidence)) : Sound(c)
  BY <1>1, PerScopeSound
<1>3. QED BY <1>2, DetectAdds DEF SuspectCartesian

LEMMA SuspectFanoutKeeps == IInv /\ SuspectFanout => IInv'
<1> SUFFICES ASSUME IInv, SuspectFanout PROVE IInv'
  OBVIOUS
<1> DEFINE joins == Joins(evidence)
           aggregates == {d \in Usable(evidence) :
                            \/ d.kind = "aggregate_condition_in_where"
                            \/ Stage(d) = "PROJECTION"}
           both == Scopes(joins) \cap Scopes(aggregates)
           wide(s) == In(s, joins \cup aggregates)
           found == IF evidence.duplicates /\ ~Found("S5_FANOUT_AGGREGATE")
                    THEN {Candidate("S5_FANOUT_AGGREGATE", s, wide(s)) : s \in both} ELSE {}
<1>1. evidence \in Evidences
  BY DEF IInv, CandidatesSound
<1>2. \A s \in both : wide(s) # {} /\ wide(s) \subseteq evidence.diffs
  BY DEF Scopes, In, Joins, Usable
<1>3. Detect("fanout", "topn", found)
  BY DEF SuspectFanout
<1> HIDE DEF joins, aggregates, both, wide
<1>4. \A c \in found : Sound(c)
  BY <1>1, <1>2, CandidateSound
<1>5. QED BY <1>3, <1>4, DetectAdds

LEMMA SuspectTopNKeeps == IInv /\ SuspectTopN => IInv'
<1> SUFFICES ASSUME IInv, SuspectTopN PROVE IInv'
  OBVIOUS
<1> DEFINE shaping == {d \in Usable(evidence) : Stage(d) \in {"ROOT_ORDER", "PAGINATION"}}
<1>1. evidence \in Evidences /\ shaping \subseteq evidence.diffs
  BY DEF IInv, CandidatesSound, Usable
<1>2. \A c \in PerScope("S6_TOPN_WITHOUT_ORDER", shaping) : Sound(c)
  BY <1>1, PerScopeSound
<1>3. QED BY <1>2, DetectAdds DEF SuspectTopN

LEMMA SuspectPlacementKeeps == IInv /\ SuspectPlacement => IInv'
<1> SUFFICES ASSUME IInv, SuspectPlacement PROVE IInv'
  OBVIOUS
<1> DEFINE placement == {d \in Usable(evidence) :
                           d.kind \in {"where_changed", "aggregate_condition_in_where"}}
<1>1. evidence \in Evidences /\ placement \subseteq evidence.diffs
  BY DEF IInv, CandidatesSound, Usable
<1>2. \A c \in PerScope("S2_AGGREGATE_IN_WHERE", placement) : Sound(c)
  BY <1>1, PerScopeSound
<1>3. QED BY <1>2, BareSound, DetectAdds DEF SuspectPlacement

----------------------------------------------------------------------------
(* Suppression and ranking *)

LEMMA FollowLinksKeeps == IInv /\ FollowLinks => IInv'
<1> SUFFICES ASSUME IInv, FollowLinks PROVE IInv'
  OBVIOUS
<1> USE DEF IInv, FollowLinks
<1>1. CandidatesSound' /\ NothingSuppressedYet'
  BY DEF CandidatesSound, NothingSuppressedYet, Detecting, Sound
<1>2. \A c \in suppressed' : c \in suppressed \/ ~c.blocking
  OBVIOUS
<1>3. SuppressionJustified'
  BY <1>2 DEF SuppressionJustified
<1>4. PrimaryFirst'
  BY DEF PrimaryFirst
<1>5. QED BY <1>1, <1>3, <1>4

LEMMA SuppressSymptomsKeeps == IInv /\ SuppressSymptoms => IInv'
<1> SUFFICES ASSUME IInv, SuppressSymptoms PROVE IInv'
  OBVIOUS
<1> USE DEF IInv, SuppressSymptoms
<1>1. CandidatesSound' /\ NothingSuppressedYet'
  BY DEF CandidatesSound, NothingSuppressedYet, Detecting, Sound
<1>2. \A c \in suppressed' :
        \/ c \in suppressed
        \/ \E p \in candidates : p.scope = c.scope /\ Silences(p, c)
  OBVIOUS
<1>3. SuppressionJustified'
  BY <1>2 DEF SuppressionJustified, Silences
<1>4. PrimaryFirst'
  BY DEF PrimaryFirst
<1>5. QED BY <1>1, <1>3, <1>4

LEMMA RankRootsKeeps == IInv /\ RankRoots => IInv'
<1> SUFFICES ASSUME IInv, RankRoots PROVE IInv'
  OBVIOUS
<1> USE DEF IInv, RankRoots
<1>1. CandidatesSound' /\ NothingSuppressedYet' /\ SuppressionJustified'
  BY DEF CandidatesSound, NothingSuppressedYet, Detecting, SuppressionJustified, Sound
<1>2. Roots' = Roots
  BY DEF Roots
<1>3. PrimaryFirst'
  BY <1>2 DEF PrimaryFirst
<1>4. QED BY <1>1, <1>3

\* IInv holds of every behaviour: candidates keep their shape, what is
\* suppressed has a reason, and the primary comes first.
THEOREM IInvHolds == Spec => []IInv
<1>1. Init => IInv
  BY DEF Init, IInv, CandidatesSound, NothingSuppressedYet, SuppressionJustified, PrimaryFirst
<1>2. IInv /\ UNCHANGED vars => IInv'
  BY DEF vars, IInv, CandidatesSound, NothingSuppressedYet, Detecting, SuppressionJustified,
         PrimaryFirst, Roots, Sound
<1>3. IInv /\ [Next]_vars => IInv'
  BY <1>2, GroupDiffsKeeps, PairRelocationKeeps, SuspectCartesianKeeps, SuspectFanoutKeeps,
     SuspectTopNKeeps, SuspectPlacementKeeps, FollowLinksKeeps, SuppressSymptomsKeeps,
     RankRootsKeeps DEF Next
<1>4. QED BY <1>1, <1>3, PTL DEF Spec

----------------------------------------------------------------------------
(* What the learner is shown *)

\* The primary error rests on a difference that was itself proven, whatever
\* _candidate_from_group grouped with it.
THEOREM PrimaryProven == Spec => []PrimaryIsProven
<1>1. IInv => PrimaryIsProven
  BY DEF IInv, CandidatesSound, PrimaryFirst, Sound, Roots, PrimaryIsProven
<1>2. QED BY <1>1, IInvHolds, PTL

\* A candidate with proof is suppressed only by one at least as strong, which
\* nothing suppresses in its turn: _bundle_and_rank keeps a proven candidate
\* visible in the scope, and names a primary.
THEOREM ProofsSurvive == Spec => []ProofSurvives
<1>1. ASSUME IInv, Ranked, NEW c \in candidates, c.blocking,
             \A o \in candidates : ~(o.scope = c.scope /\ o.rule = "S6_ORDER_OFFSET")
      PROVE  \E r \in Roots : r.scope = c.scope
  <2>1. CASE c \notin suppressed
    BY <1>1, <2>1 DEF Roots
  <2>2. CASE c \in suppressed
    <3>1. PICK p \in candidates : p.scope = c.scope /\ Causes(p, c)
      BY <1>1, <2>2 DEF IInv, SuppressionJustified
    <3>2. Subsumes(p, c)
      BY <1>1, <3>1 DEF Causes
    <3>3. p.blocking
      <4>1. Sound(c) /\ Sound(p)
        BY <1>1, <3>1 DEF IInv, CandidatesSound
      <4>2. Rank(p.grade) >= Rank(c.grade) /\ Verified(c.grade)
        BY <1>1, <3>2, <4>1 DEF Subsumes, Sound
      <4>3. Verified(p.grade)
        BY <4>1, <4>2 DEF Sound, Verified, Rank, EvidenceGrades
      <4>4. QED BY <4>1, <4>3 DEF Sound
    <3>4. p \notin suppressed
      <4> SUFFICES ASSUME p \in suppressed PROVE FALSE
        OBVIOUS
      <4>1. PICK q \in candidates : q.scope = p.scope /\ Causes(q, p)
        BY <1>1, <3>3 DEF IInv, SuppressionJustified
      <4>2. p.rule \notin Generic
        BY <3>2 DEF Subsumes
      <4>3. QED BY <1>1, <3>1, <4>1, <4>2 DEF Causes, Subsumes
    <3>5. QED BY <3>1, <3>3, <3>4 DEF Roots
  <2>3. QED BY <2>1, <2>2
<1>2. ASSUME IInv, Ranked, Roots /= {} PROVE primary /= {}
  BY <1>2 DEF IInv, PrimaryFirst, Ranked
<1>3. IInv => ProofSurvives
  BY <1>1, <1>2 DEF ProofSurvives
<1>4. QED BY <1>3, IInvHolds, PTL

\* Phase 1 may declare any dependency but an amplification; it declares none
\* today.
NoDeclaredAmplification == \A e \in Evidences : \A l \in e.links : l.type /= "AMPLIFIES"

LEMMA AmplificationsStayLocal ==
  ASSUME NoDeclaredAmplification
  PROVE  Spec => []AmplificationsLocal
<1>1. Init => AmplificationsLocal
  BY DEF Init, AmplificationsLocal
<1>2. ASSUME IInv, AmplificationsLocal, [Next]_vars PROVE AmplificationsLocal'
  <2>1. CASE edges' = edges
    BY <1>2, <2>1 DEF AmplificationsLocal, Amplifies
  <2>2. CASE FollowLinks
    <3>1. \A x \in edges' : x.type = "AMPLIFIES" => x \in edges
      BY <2>2, <1>2 DEF FollowLinks, IInv, CandidatesSound, NoDeclaredAmplification, Edge
    <3>2. QED BY <1>2, <3>1 DEF AmplificationsLocal
  <2>3. CASE SuppressSymptoms
    <3>1. \A x \in edges' :
            \/ x \in edges
            \/ x.type = "CAUSES"
            \/ Amplifies(x.from, x.to) /\ x.from.scope = x.to.scope
      BY <2>3 DEF SuppressSymptoms, Edge
    <3>2. QED BY <1>2, <3>1 DEF AmplificationsLocal
  <2>4. QED
    BY <1>2, <2>1, <2>2, <2>3
    DEF Next, vars, Detect, GroupDiffs, PairRelocation, SuspectCartesian, SuspectFanout,
        SuspectTopN, SuspectPlacement, RankRoots
<1>3. QED BY <1>1, <1>2, IInvHolds, PTL DEF Spec

\* No inflated aggregate is shown while the proven join that inflates it waits
\* behind it: _candidate_from_group places the join at an earlier stage of the
\* same scope, and _candidate_sort_key looks at the stage before the grade.
THEOREM CauseBeforeSymptom ==
  ASSUME NoDeclaredAmplification
  PROVE  Spec => []PrimaryIsNoSymptom
<1>1. ASSUME IInv, AmplificationsLocal PROVE PrimaryIsNoSymptom
  <2> SUFFICES ASSUME NEW x \in edges, x.type = "AMPLIFIES", x.to \in primary, x.from \in Roots
               PROVE  FALSE
    BY DEF PrimaryIsNoSymptom
  <2>1. Amplifies(x.from, x.to) /\ x.from.scope = x.to.scope
    BY <1>1 DEF AmplificationsLocal
  <2>2. Sound(x.from) /\ Sound(x.to) /\ ~Precedes(x.from, x.to)
    BY <1>1 DEF IInv, CandidatesSound, PrimaryFirst, Roots
  <2>3. StageRank(x.from.stage) = 2 /\ StageRank(x.to.stage) \in {6, 7}
    <3>1. x.from.stage = "SOURCE_JOIN" /\ x.to.stage \in {"WINDOW", "PROJECTION"}
      BY <2>1, <2>2 DEF Amplifies, Sound
    <3>2. QED BY <3>1 DEF StageRank
  <2>4. Precedes(x.from, x.to)
    BY <2>1, <2>3 DEF Precedes
  <2>5. QED BY <2>2, <2>4
<1>2. QED BY <1>1, IInvHolds, AmplificationsStayLocal, PTL

----------------------------------------------------------------------------
(* What is hidden *)

\* No dependency Phase 1 declared for the two queries explains a candidate
\* away; with one that does, an offset candidate and a Top-N symptom can hide
\* each other, and chains of any length arise.
NothingDeclared == \A l \in evidence.links : l.type \notin {"CAUSES", "MASKS", "RELOCATES_TO"}

\* A candidate of the same scope silences it, along an edge.
Silenced(c) ==
  \E p \in candidates :
    Silences(p, c) /\ \E x \in edges : x.from = p /\ x.to = c

\* Before the rules of suppression have run nothing is hidden; afterwards each
\* hidden candidate is silenced by another.
HiddenAreSilenced ==
  NothingDeclared =>
    /\ pc \notin {"rank", "done"} => suppressed = {}
    /\ \A c \in suppressed : Silenced(c)

LEMMA SilencesAlongEdges ==
  ASSUME SuppressSymptoms, suppressed = {}
  PROVE  \A c \in suppressed' : Silenced(c)'
<1> DEFINE pairs == {x \in candidates \X candidates : x[1] /= x[2] /\ x[1].scope = x[2].scope}
<1>1. suppressed' = {x[2] : x \in {y \in pairs : Silences(y[1], y[2])}} /\ candidates' = candidates
  BY DEF SuppressSymptoms
<1>2. \A y \in pairs : Silences(y[1], y[2]) => \E e \in edges' : e.from = y[1] /\ e.to = y[2]
  <2> SUFFICES ASSUME NEW y \in pairs, Silences(y[1], y[2])
               PROVE  \E e \in edges' : e.from = y[1] /\ e.to = y[2]
    OBVIOUS
  <2>1. CASE Amplifies(y[1], y[2])
    <3>1. Edge(y[1], y[2], "AMPLIFIES") \in edges'
      BY <2>1 DEF SuppressSymptoms
    <3>2. QED BY <3>1 DEF Edge
  <2>2. CASE Causes(y[1], y[2])
    <3>1. Edge(y[1], y[2], "CAUSES") \in edges'
      BY <2>2 DEF SuppressSymptoms
    <3>2. QED BY <3>1 DEF Edge
  <2>3. QED BY <2>1, <2>2 DEF Silences
<1>3. QED BY <1>1, <1>2 DEF Silenced, Silences, Shares, Amplifies, Causes, Subsumes

LEMMA NextKeepsEvidence == [Next]_vars => evidence' = evidence
<1>1. GroupDiffs \/ PairRelocation \/ SuspectCartesian => evidence' = evidence
  BY DEF Detect, GroupDiffs, PairRelocation, SuspectCartesian
<1>2. SuspectFanout \/ SuspectTopN \/ SuspectPlacement => evidence' = evidence
  BY DEF Detect, SuspectFanout, SuspectTopN, SuspectPlacement
<1>3. FollowLinks \/ SuppressSymptoms \/ RankRoots => evidence' = evidence
  BY DEF FollowLinks, SuppressSymptoms, RankRoots
<1>4. QED BY <1>1, <1>2, <1>3 DEF Next, vars

LEMMA HiddenStaySilenced == Spec => []HiddenAreSilenced
<1>1. Init => HiddenAreSilenced
  BY DEF Init, HiddenAreSilenced
<1>2. ASSUME HiddenAreSilenced, IInv, [Next]_vars PROVE HiddenAreSilenced'
  <2> SUFFICES ASSUME NothingDeclared' PROVE HiddenAreSilenced'
    BY DEF HiddenAreSilenced
  <2>1. NothingDeclared
    <3>1. evidence' = evidence
      BY <1>2, NextKeepsEvidence
    <3>2. QED BY <3>1 DEF NothingDeclared
  <2>2. CASE Detecting /\ suppressed' = {} /\ pc' \notin {"rank", "done"}
    BY <2>2 DEF HiddenAreSilenced
  <2>3. CASE FollowLinks
    <3>1. suppressed = {}
      BY <1>2, <2>1, <2>3 DEF FollowLinks, HiddenAreSilenced
    <3>2. suppressed' = {}
      BY <2>1, <2>3, <3>1 DEF FollowLinks, NothingDeclared
    <3>3. QED BY <2>3, <3>2 DEF FollowLinks, HiddenAreSilenced
  <2>4. CASE SuppressSymptoms
    <3>1. suppressed = {}
      BY <1>2, <2>1, <2>4 DEF SuppressSymptoms, HiddenAreSilenced
    <3>2. QED BY <2>4, <3>1, SilencesAlongEdges DEF SuppressSymptoms, HiddenAreSilenced
  <2>5. CASE UNCHANGED <<candidates, edges, suppressed>> /\ (pc' = pc \/ pc' = "done")
    <3>1. \A c \in suppressed : Silenced(c)' = Silenced(c)
      BY <2>5 DEF Silenced, Silences, Shares, Amplifies, Causes, Subsumes
    <3>2. QED BY <1>2, <2>1, <2>5, <3>1 DEF HiddenAreSilenced
  <2>6. CASE \/ GroupDiffs \/ PairRelocation \/ SuspectCartesian
             \/ SuspectFanout \/ SuspectTopN \/ SuspectPlacement
    <3>1. Detecting /\ suppressed' = suppressed /\ pc' \notin {"rank", "done"}
      BY <2>6 DEF Detecting, Detect, GroupDiffs, PairRelocation, SuspectCartesian, SuspectFanout,
         SuspectTopN, SuspectPlacement
    <3>2. QED BY <1>2, <2>2, <3>1 DEF IInv, NothingSuppressedYet
  <2>7. CASE RankRoots
    BY <2>5, <2>7 DEF RankRoots
  <2>8. CASE UNCHANGED vars
    BY <2>5, <2>8 DEF vars
  <2>9. QED BY <1>2, <2>3, <2>4, <2>6, <2>7, <2>8 DEF Next
<1>3. QED BY <1>1, <1>2, IInvHolds, PTL DEF Spec

\* While no declared dependency explains a candidate away, what
\* _bundle_and_rank hides is explained by a candidate it shows: a silencing
\* candidate is itself hidden only when it is a symptom named by a rule, and
\* what silences a named symptom is never hidden.
THEOREM HiddenTraceToVisible == Spec => [](NothingDeclared => SymptomsTraceToVisible)
<1>1. ASSUME HiddenAreSilenced, NothingDeclared PROVE SymptomsTraceToVisible
  <2> SUFFICES ASSUME NEW c \in suppressed
               PROVE  \E x \in edges :
                        /\ x.to = c
                        /\ \/ x.from \notin suppressed
                           \/ \E y \in edges : y.to = x.from /\ y.from \notin suppressed
    BY DEF SymptomsTraceToVisible
  <2>1. \A h \in suppressed : Silenced(h)
    BY <1>1 DEF HiddenAreSilenced
  <2>2. PICK p \in candidates : Silences(p, c) /\ \E x \in edges : x.from = p /\ x.to = c
    BY <2>1 DEF Silenced
  <2>3. CASE p \notin suppressed
    BY <2>2, <2>3
  <2>4. CASE p \in suppressed
    <3>1. PICK q \in candidates : Silences(q, p) /\ \E y \in edges : y.from = q /\ y.to = p
      BY <2>1, <2>4 DEF Silenced
    <3>2. p.rule \notin Generic
      BY <2>2 DEF Silences, Amplifies, Causes, Subsumes, Generic, Unclassified
    <3>3. q.rule \in {"S1_MISSING_BRIDGE", "S1_CARTESIAN_PRODUCT", "S6_ORDER_OFFSET"}
      BY <3>1, <3>2 DEF Silences, Amplifies, Causes, Subsumes
    <3>4. \A o : ~Silences(o, q)
      BY <3>3 DEF Silences, Amplifies, Causes, Subsumes, Generic, Unclassified
    <3>5. q \notin suppressed
      BY <2>1, <3>4 DEF Silenced
    <3>6. QED BY <2>2, <3>1, <3>5
  <2>5. QED BY <2>3, <2>4
<1>2. QED BY <1>1, HiddenStaySilenced, PTL

=============================================================================
