--------------------------- MODULE ProbeAdapters ---------------------------
(***************************************************************************)
(* The probe stages of generate_test_database in phase1_engine.py: the     *)
(* adapters that match the world's differences run stage by stage, each as  *)
(* a transaction of run_adapter in witness_generation/adapters.py: it       *)
(* claims its cells in the shared ledger, writes rows, and is rolled back   *)
(* when it raises or has written outside the columns it declared.  Between  *)
(* two stages other probes rewrite the rows without any such protocol.      *)
(*                                                                         *)
(* One table stands for the database: a sequence of rows, which are         *)
(* functions from columns to values.                                       *)
(*                                                                         *)
(* An operator whose name starts with Bug is a defect put in place of a     *)
(* definition to see that a property notices; nothing uses it.              *)
(***************************************************************************)
EXTENDS ConstraintLedger, FiniteSets

CONSTANTS
  Adapters,      \* registered adapters: [name, stage, phase, writes]
  Declarations,  \* what an adapter may declare for the obligations of a world
  Databases,     \* the row sets probes may leave behind
  NoAdapter

Stages == 1 .. 4   \* "main", "post_main", "post_repair", "final"

ASSUME AdaptersAssumption ==
  /\ NoAdapter \notin Adapters
  /\ \A x \in Adapters : x.stage \in Stages /\ x.phase \in Nat /\ x.name \in Nat

ASSUME DeclarationsAssumption ==
  \A d \in Declarations :
    /\ Len(d) \in Nat /\ DOMAIN d = 1 .. Len(d)
    /\ \A n \in DOMAIN d : IsConstraint(d[n])

ASSUME DatabasesAssumption ==
  \A d \in Databases : Len(d) \in Nat /\ d = [r \in 1 .. Len(d) |-> d[r]]

VARIABLES
  pc,
  stage,
  waiting,    \* active adapters that have not run
  declared,   \* the constraints each adapter declares for this world
  current,    \* the adapter that runs, or ran last in this stage
  data,       \* the rows
  before,     \* the snapshot taken when the current adapter began
  ledger,     \* adapter_ledger
  accepted, refused,  \* declarations the ledger took and turned down
  outcome     \* adapter_runs: how the run of each adapter ended

vars == <<pc, stage, waiting, declared, current, data, before, ledger,
          accepted, refused, outcome>>

----------------------------------------------------------------------------
\* LegacyProbeRegistry.active sorts by (phase, name).
RunsBefore(x, y) == x.phase < y.phase \/ (x.phase = y.phase /\ x.name < y.name)

OfStage(n) == {x \in waiting : x.stage = n}

\* _database_writes: the net difference between two row sets.
TopologyChanged(old, new) == Len(old) # Len(new)
SameCell(old, new, c) == c \in DOMAIN old /\ c \in DOMAIN new /\ old[c] = new[c]
ChangedColumns(old, new) ==
  UNION {{c \in DOMAIN old[r] \cup DOMAIN new[r] : ~SameCell(old[r], new[r], c)}
         : r \in DOMAIN old \cap DOMAIN new}

BugIgnoresTopology(x, old, new) ==
  x.writes = {} \/ ChangedColumns(old, new) \subseteq x.writes

\* _validate_adapter_writes: an adapter without declared columns may write all.
StaysInWriteSet(x, old, new) ==
  \/ x.writes = {}
  \/ /\ ~TopologyChanged(old, new)
     /\ ChangedColumns(old, new) \subseteq x.writes

\* _restore_database: missing rows come back, added rows go, and every row gets
\* its old cells.
Restored(old, new) ==
  LET padded == IF Len(new) < Len(old)
                THEN [r \in DOMAIN old |-> IF r \in DOMAIN new THEN new[r] ELSE <<>>]
                ELSE SubSeq(new, 1, Len(old))
  IN [r \in DOMAIN padded |-> old[r]]

----------------------------------------------------------------------------
Init ==
  /\ pc = "choose" /\ stage = 1
  /\ waiting \in SUBSET Adapters
  /\ declared \in [Adapters -> Declarations]
  /\ current = NoAdapter
  /\ data \in Databases /\ before = data
  /\ ledger = EmptyLedger
  /\ accepted = {} /\ refused = {}
  /\ outcome = [x \in {} |-> "none"]

Record(x, result) ==
  outcome' = [y \in DOMAIN outcome \cup {x} |-> IF y = x THEN result ELSE outcome[y]]

Claimed(x) == AddMany(ledger, declared[x])

\* The constraints of the adapter conflict: it returns at once, with the
\* conflict for its report.
TurnDown(x) ==
  /\ Len(Claimed(x).conflicts) > Len(ledger.conflicts)
  /\ ledger' = Claimed(x)
  /\ refused' = refused \cup {declared[x]}
  /\ Record(x, "conflict")
  /\ pc' = "choose"
  /\ UNCHANGED accepted

\* The ledger takes all of its constraints: it will be applied.
Admit(x) ==
  /\ Len(Claimed(x).conflicts) = Len(ledger.conflicts)
  /\ ledger' = Claimed(x)
  /\ accepted' = accepted \cup {declared[x]}
  /\ pc' = "apply"
  /\ UNCHANGED <<refused, outcome>>

\* run_adapter begins for the next active adapter of the stage.
BeginAdapter ==
  /\ pc = "choose"
  /\ \E x \in OfStage(stage) :
       /\ \A y \in OfStage(stage) : y = x \/ RunsBefore(x, y)
       /\ current' = x /\ waiting' = waiting \ {x}
       /\ before' = data
       /\ TurnDown(x) \/ Admit(x)
  /\ UNCHANGED <<stage, declared, data>>

\* adapter.apply has come to its end or to an exception; the rows are what its
\* writes so far have made of them.
ApplyAdapter ==
  /\ pc = "apply"
  /\ data' \in Databases
  /\ pc' \in {"raised", "applied"}
  /\ UNCHANGED <<stage, waiting, declared, current, before, ledger, accepted,
                 refused, outcome>>

\* The exception handlers of run_adapter: the rows go back to the snapshot, the
\* claims stay in the ledger.
RollBack ==
  /\ pc = "raised"
  /\ Record(current, "failed")
  /\ data' = Restored(before, data)
  /\ pc' = "choose"
  /\ UNCHANGED <<stage, waiting, declared, current, before, ledger, accepted,
                 refused>>

\* The writes are compared with the declared columns; a stray one is raised as
\* a PermissionError.
ValidateWrites ==
  /\ pc = "applied"
  /\ IF StaysInWriteSet(current, before, data)
     THEN Record(current, "applied") /\ pc' = "choose"
     ELSE pc' = "raised" /\ UNCHANGED outcome
  /\ UNCHANGED <<stage, waiting, declared, current, data, before, ledger,
                 accepted, refused>>

\* The stage's adapters have run; the probes between this stage and the next
\* write what they like.
NextStage ==
  /\ pc = "choose" /\ OfStage(stage) = {} /\ stage < 4
  /\ data' \in Databases /\ before' = data'
  /\ stage' = stage + 1 /\ current' = NoAdapter
  /\ UNCHANGED <<pc, waiting, declared, ledger, accepted, refused, outcome>>

FinishStages ==
  /\ pc = "choose" /\ OfStage(stage) = {} /\ stage = 4
  /\ pc' = "done"
  /\ UNCHANGED <<stage, waiting, declared, current, data, before, ledger,
                 accepted, refused, outcome>>

Next ==
  \/ BeginAdapter \/ ApplyAdapter \/ RollBack \/ ValidateWrites
  \/ NextStage \/ FinishStages

Spec == Init /\ [][Next]_vars

----------------------------------------------------------------------------
Outcomes == {"applied", "conflict", "failed"}

TypeOK ==
  /\ pc \in {"choose", "apply", "raised", "applied", "done"}
  /\ stage \in Stages
  /\ waiting \subseteq Adapters
  /\ declared \in [Adapters -> Declarations]
  /\ current \in Adapters \cup {NoAdapter}
  /\ data \in Databases /\ before \in Databases
  /\ DOMAIN outcome \subseteq Adapters
  /\ \A x \in DOMAIN outcome : outcome[x] \in Outcomes

\* A run that is not reported as applied has left the rows exactly as it found
\* them, however far apply had come when it raised; and a run that is reported
\* as applied has changed no row count and no column beyond those it declared.
RunsAreTransactions ==
  pc = "choose" /\ current # NoAdapter =>
    /\ current \in DOMAIN outcome
    /\ outcome[current] # "applied" => data = before
    /\ outcome[current] = "applied" /\ current.writes # {} =>
         /\ Len(data) = Len(before)
         /\ \A r \in DOMAIN data : \A c \in DOMAIN data[r] \cup DOMAIN before[r] :
              SameCell(before[r], data[r], c) \/ c \in current.writes

\* Over the runs of all adapters of a world, every cell of the ledger belongs to
\* a declaration that was taken whole, of the highest priority asked for.
OwnersWereAccepted == OwnedBy(ledger, accepted)

\* An adapter that was let through keeps what it asked for: later declarations
\* may take a cell over, never for another relation or value.
PromisesKept == Keeps(ledger, accepted)

\* An adapter is turned down exactly once, and only for a cell that an accepted
\* declaration or an earlier part of its own wants differently.
ConflictsAreReal ==
  /\ Len(ledger.conflicts) = Cardinality({x \in DOMAIN outcome : outcome[x] = "conflict"})
  /\ ExplainsRefusals(ledger, accepted, refused)
============================================================================
