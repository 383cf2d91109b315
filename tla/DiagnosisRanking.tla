-------------------------- MODULE DiagnosisRanking --------------------------
(***************************************************************************)
(* Phase 2, from differences to one primary error: _detect_candidates and  *)
(* _bundle_and_rank of core/error_diagnosis.py.  Differences are grouped   *)
(* into candidates by scope and rule, five signals add candidates that     *)
(* span several differences, dependent candidates are suppressed, and the  *)
(* first of the proven ones that are left, if any, is the primary error.   *)
(*                                                                         *)
(* A difference is a record [id, kind, scope, grade, std, stu,             *)
(* obligation]: std and stu are tags for the two SQL fragments, "" when a  *)
(* side has none, equal exactly when the fragments are.  A candidate is    *)
(* known by its scope and rule.  Severity and the final tie-break by name  *)
(* are abstracted to a free choice among equals.                           *)
(***************************************************************************)
EXTENDS Integers, FiniteSets

CONSTANTS Evidences,   \* what Phase 1 can hand over, see Init
          ScopeOrder   \* the topological position of each scope of the query

EvidenceGrades ==
  {"AST_ONLY", "OUTPUT_ONLY", "PAIR_DISTINGUISHED", "REPAIR_VERIFIED", "CAUSAL_VERIFIED"}

\* The kinds of difference modelled here.
DiffKinds ==
  {"join_missing", "join_type_changed", "where_changed", "comparison_operator_changed",
   "aggregate_condition_in_where", "having_changed", "window_changed", "aggregate_distinct_changed",
   "order_by_changed", "top_n_ordering_missing", "limit_changed"}

ASSUME EvidenceAssumption ==
  \A e \in Evidences : \A d \in e.diffs : d.grade \in EvidenceGrades /\ d.kind \in DiffKinds

VARIABLES pc, evidence, candidates, edges, suppressed, primary

vars == <<pc, evidence, candidates, edges, suppressed, primary>>

Unclassified == "UNCLASSIFIED_SUPPORTED_DIFF"
Generic == {Unclassified, "S2_ROW_FILTER_MISMATCH", "S4_GROUP_FILTER_MISMATCH",
            "S6_RESULT_SHAPING_MISMATCH"}
NoScope == "unscoped:signal:aggregate-in-where"
None == "none"

-----------------------------------------------------------------------------
(* Differences *)

Rank(grade) ==
  CASE grade = "AST_ONLY" -> 0
    [] grade = "OUTPUT_ONLY" -> 1
    [] grade = "PAIR_DISTINGUISHED" -> 2
    [] grade = "REPAIR_VERIFIED" -> 3
    [] grade = "CAUSAL_VERIFIED" -> 4

\* Mutation: what told the pair apart stands for a verified repair.
BugPairIsProof(grade) == Rank(grade) >= 2

Verified(grade) == grade \in {"REPAIR_VERIFIED", "CAUSAL_VERIFIED"}

Stage(d) ==
  CASE d.kind \in {"join_missing", "join_type_changed"} -> "SOURCE_JOIN"
    [] d.kind \in {"where_changed", "comparison_operator_changed",
                   "aggregate_condition_in_where"} -> "ROW_FILTER"
    [] d.kind = "having_changed" -> "GROUP_FILTER"
    [] d.kind = "window_changed" -> "WINDOW"
    [] d.kind = "aggregate_distinct_changed" -> "PROJECTION"
    [] d.kind \in {"order_by_changed", "top_n_ordering_missing"} -> "ROOT_ORDER"
    [] d.kind = "limit_changed" -> "PAGINATION"

StageRank(stage) ==
  CASE stage = "SOURCE_JOIN" -> 2
    [] stage = "ROW_FILTER" -> 3
    [] stage = "GROUP_FILTER" -> 5
    [] stage = "WINDOW" -> 6
    [] stage = "PROJECTION" -> 7
    [] stage = "ROOT_ORDER" -> 10
    [] stage = "PAGINATION" -> 11

Summaries == {"where_changed", "having_changed", "order_by_changed", "limit_changed"}

\* A summary is dropped for a detail of its own scope and stage over the same
\* SQL pair, or for one with an obligation where the summary has none.
Redundant(d, all) ==
  /\ d.kind \in Summaries
  /\ \E other \in all :
       /\ other.id /= d.id
       /\ other.scope = d.scope
       /\ other.kind \notin Summaries
       /\ Stage(other) = Stage(d)
       /\ \/ d.std /= "" /\ d.stu /= "" /\ other.std = d.std /\ other.stu = d.stu
          \/ ~d.obligation /\ other.obligation

Usable(e) == {d \in e.diffs : ~Redundant(d, e.diffs)}

Joins(e) == {d \in Usable(e) : Stage(d) = "SOURCE_JOIN"}

\* The multiplicity delta is global: it counts for a root aggregate, or for a
\* scope with a join difference of its own.
FanoutSignal(e, d) ==
  \/ e.duplicates /\ e.joined /\ (d.scope = "root" \/ \E j \in Joins(e) : j.scope = d.scope)
  \/ e.declaredFanout

Rule(e, d) ==
  CASE d.kind = "join_missing" -> IF e.bridge THEN "S1_MISSING_BRIDGE" ELSE Unclassified
    [] d.kind = "join_type_changed" ->
         IF d.stu = "CROSS" /\ d.std /= "CROSS" THEN "S1_CARTESIAN_PRODUCT"
         ELSE IF {d.std, d.stu} \cap {"LEFT", "RIGHT", "FULL"} /= {}
         THEN "S1_OUTER_JOIN_MISUSE" ELSE Unclassified
    [] d.kind = "comparison_operator_changed" ->
         IF {d.std, d.stu} \in {{"GT", "GTE"}, {"LT", "LTE"}}
         THEN "S2_BOUNDARY" ELSE Unclassified
    [] d.kind = "aggregate_condition_in_where" -> "S2_AGGREGATE_IN_WHERE"
    [] d.kind = "having_changed" ->
         IF d.std /= "" /\ d.stu = "" THEN "S4_HAVING_MISSING" ELSE "S4_GROUP_FILTER_MISMATCH"
    [] d.kind = "aggregate_distinct_changed" ->
         IF FanoutSignal(e, d) /\ d.std = "DISTINCT" /\ d.stu /= "DISTINCT"
         THEN "S5_FANOUT_AGGREGATE" ELSE Unclassified
    [] d.kind = "limit_changed" ->
         IF "OFFSET" \in {d.std, d.stu} THEN "S6_ORDER_OFFSET" ELSE "S6_RESULT_SHAPING_MISMATCH"
    [] d.kind = "top_n_ordering_missing" -> "S6_TOPN_WITHOUT_ORDER"
    [] d.kind = "where_changed" -> "S2_ROW_FILTER_MISMATCH"
    [] d.kind = "order_by_changed" -> "S6_RESULT_SHAPING_MISMATCH"
    [] d.kind = "window_changed" -> Unclassified

-----------------------------------------------------------------------------
(* Candidates *)

Teaching(stage) ==
  CASE stage = "SOURCE_JOIN" -> "S1"
    [] stage = "ROW_FILTER" -> "S2"
    [] stage = "GROUP_FILTER" -> "S4"
    [] stage \in {"WINDOW", "PROJECTION"} -> "S5"
    [] stage \in {"ROOT_ORDER", "PAGINATION"} -> "S6"

\* The teaching stage of a rule of the catalogue; the generic rules have none.
CatalogueStage(rule) ==
  CASE rule \in Generic -> None
    [] rule \in {"S1_MISSING_BRIDGE", "S1_CARTESIAN_PRODUCT", "S1_OUTER_JOIN_MISUSE"} -> "S1"
    [] rule \in {"S2_BOUNDARY", "S2_AGGREGATE_IN_WHERE"} -> "S2"
    [] rule \in {"S4_HAVING_MISSING", "S4_ROW_FILTER_IN_HAVING"} -> "S4"
    [] rule = "S5_FANOUT_AGGREGATE" -> "S5"
    [] rule \in {"S6_ORDER_OFFSET", "S6_TOPN_WITHOUT_ORDER"} -> "S6"

Home(teaching) ==
  CASE teaching = "S1" -> "SOURCE_JOIN"
    [] teaching = "S2" -> "ROW_FILTER"
    [] teaching = "S4" -> "GROUP_FILTER"
    [] teaching = "S5" -> "PROJECTION"
    [] teaching = "S6" -> "ROOT_ORDER"

Best(diffs) ==
  CHOOSE g \in {d.grade : d \in diffs} : \A d \in diffs : Rank(d.grade) =< Rank(g)

\* A candidate takes the best grade of its differences, and the stage of the
\* earliest of them unless its rule is taught at another stage.
Candidate(rule, scope, diffs) ==
  LET first == CHOOSE d \in diffs : \A o \in diffs : StageRank(Stage(d)) =< StageRank(Stage(o))
      taught == CatalogueStage(rule)
      grade == Best(diffs)
  IN [rule |-> rule, scope |-> scope, diffs |-> {d.id : d \in diffs}, grade |-> grade,
      stage |-> IF taught \in {None, Teaching(Stage(first))} THEN Stage(first) ELSE Home(taught),
      blocking |-> Verified(grade),
      verified |-> {d.id : d \in {x \in diffs : Verified(x.grade)}}]

\* A signal with no difference behind it.
BareCandidate(rule) ==
  [rule |-> rule, scope |-> NoScope, diffs |-> {}, grade |-> "OUTPUT_ONLY",
   stage |-> "EXTENSION", blocking |-> FALSE, verified |-> {}]

Scopes(diffs) == {d.scope : d \in diffs}
In(scope, diffs) == {d \in diffs : d.scope = scope}
PerScope(rule, diffs) == {Candidate(rule, s, In(s, diffs)) : s \in Scopes(diffs)}

Found(rule) == \E c \in candidates : c.rule = rule

Init ==
  /\ pc = "group"
  /\ evidence \in Evidences
  /\ candidates = {}
  /\ edges = {}
  /\ suppressed = {}
  /\ primary = {}

Detect(here, next, found) ==
  /\ pc = here
  /\ pc' = next
  /\ candidates' = candidates \cup found
  /\ UNCHANGED <<evidence, edges, suppressed, primary>>

\* One candidate for each scope and rule.
GroupDiffs ==
  LET usable == Usable(evidence)
      keys == {<<d.scope, Rule(evidence, d)>> : d \in usable}
  IN Detect("group", "relocate",
            {Candidate(k[2], k[1], {d \in usable : <<d.scope, Rule(evidence, d)>> = k}) :
               k \in keys})

\* A WHERE condition the student lost and the same condition in HAVING.
PairRelocation ==
  LET usable == Usable(evidence)
      lost == {d \in usable : d.kind = "where_changed" /\ d.std /= "" /\ d.stu = ""}
      added == {d \in usable : d.kind = "having_changed" /\ d.std = "" /\ d.stu /= ""}
      pairs == {p \in lost \X added : p[1].std = p[2].stu /\ p[1].scope = p[2].scope}
  IN Detect("relocate", "cartesian",
            {Candidate("S4_ROW_FILTER_IN_HAVING", p[1].scope, {p[1], p[2]}) : p \in pairs})

SuspectCartesian ==
  Detect("cartesian", "fanout",
         IF evidence.cartesian /\ ~Found("S1_CARTESIAN_PRODUCT")
         THEN PerScope("S1_CARTESIAN_PRODUCT", Joins(evidence)) ELSE {})

SuspectFanout ==
  LET aggregates == {d \in Usable(evidence) :
                       \/ d.kind = "aggregate_condition_in_where"
                       \/ Stage(d) = "PROJECTION"}
      joins == Joins(evidence)
      both == Scopes(joins) \cap Scopes(aggregates)
  IN Detect("fanout", "topn",
            IF evidence.duplicates /\ ~Found("S5_FANOUT_AGGREGATE")
            THEN {Candidate("S5_FANOUT_AGGREGATE", s, In(s, joins \cup aggregates)) : s \in both}
            ELSE {})

SuspectTopN ==
  LET shaping == {d \in Usable(evidence) : Stage(d) \in {"ROOT_ORDER", "PAGINATION"}}
  IN Detect("topn", "placement",
            IF evidence.limit /\ ~evidence.order /\ ~Found("S6_TOPN_WITHOUT_ORDER")
            THEN PerScope("S6_TOPN_WITHOUT_ORDER", shaping) ELSE {})

SuspectPlacement ==
  LET placement == {d \in Usable(evidence) :
                      d.kind \in {"where_changed", "aggregate_condition_in_where"}}
  IN Detect("placement", "link",
            IF ~evidence.aggregateInWhere \/ Found("S2_AGGREGATE_IN_WHERE") THEN {}
            ELSE IF placement = {} THEN {BareCandidate("S2_AGGREGATE_IN_WHERE")}
            ELSE PerScope("S2_AGGREGATE_IN_WHERE", placement))

-----------------------------------------------------------------------------
(* Suppression and ranking *)

Edge(parent, child, type) == [from |-> parent, to |-> child, type |-> type]

\* The dependencies Phase 1 declared.  Only a proven parent suppresses, and
\* only a child without proof of its own.
FollowLinks ==
  LET linked == {Edge(p, c, l.type) : p \in candidates, c \in candidates, l \in evidence.links}
      declared == {x \in linked :
                     /\ x.from /= x.to
                     /\ \E l \in evidence.links :
                          l.type = x.type /\ l.from \in x.from.diffs /\ l.to \in x.to.diffs}
      explained == {x \in declared :
                      /\ x.type \in {"CAUSES", "MASKS", "RELOCATES_TO"}
                      /\ x.from.blocking
                      /\ ~x.to.blocking}
  IN /\ pc = "link"
     /\ pc' = "suppress"
     /\ edges' = edges \cup declared
     /\ suppressed' = suppressed \cup {x.to : x \in explained}
     /\ UNCHANGED <<evidence, candidates, primary>>

Shares(p, c) == p.diffs \cap c.diffs /= {}

Amplifies(p, c) ==
  /\ p.rule \in {"S1_MISSING_BRIDGE", "S1_CARTESIAN_PRODUCT"}
  /\ c.rule = "S5_FANOUT_AGGREGATE"

\* Mutation: any named candidate subsumes, the weaker one too.
BugSubsumesStronger(p, c) == p.rule \notin Generic /\ c.rule \in Generic

Subsumes(p, c) ==
  /\ p.rule \notin Generic
  /\ c.rule \in Generic
  /\ Rank(p.grade) >= Rank(c.grade)

\* Mutation: an offset and a Top-N symptom explain each other.
BugEitherCauses(p, c) ==
  /\ Shares(p, c)
  /\ \/ {p.rule, c.rule} = {"S6_ORDER_OFFSET", "S6_TOPN_WITHOUT_ORDER"}
     \/ Subsumes(p, c)

\* The rule from S3 to an unclassified symptom is left out: S3 candidates share
\* no difference with any other, so it never applies.
Causes(p, c) ==
  /\ Shares(p, c)
  /\ \/ p.rule = "S6_ORDER_OFFSET" /\ c.rule = "S6_TOPN_WITHOUT_ORDER"
     \/ Subsumes(p, c)

\* A shared proof of its own keeps an amplified symptom visible.
Silences(p, c) ==
  \/ Amplifies(p, c) /\ Shares(p, c) /\ ~c.blocking
  \/ Causes(p, c)

SuppressSymptoms ==
  LET pairs == {x \in candidates \X candidates : x[1] /= x[2] /\ x[1].scope = x[2].scope}
  IN /\ pc = "suppress"
     /\ pc' = "rank"
     /\ edges' = edges
          \cup {Edge(x[1], x[2], "AMPLIFIES") : x \in {y \in pairs : Amplifies(y[1], y[2])}}
          \cup {Edge(x[1], x[2], "CAUSES") : x \in {y \in pairs : Causes(y[1], y[2])}}
     /\ suppressed' = suppressed \cup {x[2] : x \in {y \in pairs : Silences(y[1], y[2])}}
     /\ UNCHANGED <<evidence, candidates, primary>>

Roots == {c \in candidates \ suppressed : c.blocking}

\* Mutation: the stage is left out of the order.
BugIgnoresStage(a, b) ==
  \/ ScopeOrder[a.scope] < ScopeOrder[b.scope]
  \/ ScopeOrder[a.scope] = ScopeOrder[b.scope] /\ Rank(a.grade) > Rank(b.grade)

\* Earlier scope, then earlier stage, then the stronger grade.
Precedes(a, b) ==
  \/ ScopeOrder[a.scope] < ScopeOrder[b.scope]
  \/ /\ ScopeOrder[a.scope] = ScopeOrder[b.scope]
     /\ \/ StageRank(a.stage) < StageRank(b.stage)
        \/ a.stage = b.stage /\ Rank(a.grade) > Rank(b.grade)

RankRoots ==
  /\ pc = "rank"
  /\ pc' = "done"
  /\ \/ Roots = {} /\ primary' = {}
     \/ \E c \in Roots : (\A o \in Roots : ~Precedes(o, c)) /\ primary' = {c}
  /\ UNCHANGED <<evidence, candidates, edges, suppressed>>

Next ==
  \/ GroupDiffs \/ PairRelocation \/ SuspectCartesian \/ SuspectFanout \/ SuspectTopN
  \/ SuspectPlacement \/ FollowLinks \/ SuppressSymptoms \/ RankRoots

Spec == Init /\ [][Next]_vars

-----------------------------------------------------------------------------
(* Properties *)

Ranked == pc = "done"

\* What is suppressed is explained by what is not: from every suppressed
\* candidate the edges lead back to one that stays visible.
SymptomsTraceToVisible ==
  Ranked => \A c \in suppressed :
    \E x \in edges :
      /\ x.to = c
      /\ \/ x.from \notin suppressed
         \/ \E y \in edges : y.to = x.from /\ y.from \notin suppressed

\* A proof is not lost to a weaker explanation: outside the scopes with an
\* order or offset candidate, a scope with a proven candidate keeps a proven
\* one visible, so there is a primary.
ProofSurvives ==
  Ranked => \A c \in candidates :
    (c.blocking /\ ~\E o \in candidates : o.scope = c.scope /\ o.rule = "S6_ORDER_OFFSET")
      => primary /= {} /\ \E r \in Roots : r.scope = c.scope

\* The error shown rests on a difference that was itself proven, not on
\* neighbours grouped with it.
PrimaryIsProven ==
  \A c \in primary : \E d \in evidence.diffs : d.id \in c.diffs /\ Rank(d.grade) >= 3

\* The learner is not shown an inflated aggregate while the proven join that
\* inflates it waits behind it.
PrimaryIsNoSymptom ==
  \A x \in edges : (x.type = "AMPLIFIES" /\ x.to \in primary) => x.from \notin Roots

=============================================================================
