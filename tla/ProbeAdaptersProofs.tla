------------------------ MODULE ProbeAdaptersProofs ------------------------
(***************************************************************************)
(* Proofs about ProbeAdapters for every registry of adapters, every set of  *)
(* declarations and every set of databases probes may leave behind.         *)
(***************************************************************************)
EXTENDS ProbeAdapters, ConstraintLedgerProofs, FiniteSetTheorems

----------------------------------------------------------------------------
\* An adapter is under way between its admission and the end of its run.
UnderWay == pc \in {"apply", "raised", "applied"} => current \in Adapters

IInv == TypeOK /\ UnderWay /\ RunsAreTransactions

\* _restore_database undoes whatever was done to the rows: added rows go,
\* removed rows come back, and each row has its old cells.
LEMMA RestoredIsBefore ==
  ASSUME NEW old \in Databases, NEW new \in Databases
  PROVE  Restored(old, new) = old
<1>1. Len(old) \in Nat /\ old = [r \in 1 .. Len(old) |-> old[r]]
  BY DatabasesAssumption
<1>2. Len(new) \in Nat /\ new = [r \in 1 .. Len(new) |-> new[r]]
  BY DatabasesAssumption
<1>3. DOMAIN old = 1 .. Len(old)
  BY <1>1
<1>4. CASE Len(new) < Len(old)
  BY <1>1, <1>3, <1>4 DEF Restored
<1>5. CASE ~(Len(new) < Len(old))
  <2>1. DOMAIN SubSeq(new, 1, Len(old)) = 1 .. Len(old)
    BY <1>1, <1>2, <1>5
  <2>2. QED BY <1>1, <1>5, <2>1 DEF Restored
<1>6. QED BY <1>4, <1>5

\* What _validate_adapter_writes lets through is confined to the declaration.
LEMMA ValidatedWritesConfined ==
  ASSUME NEW x, x.writes # {}, NEW old, NEW new,
         DOMAIN old = 1 .. Len(old), DOMAIN new = 1 .. Len(new),
         StaysInWriteSet(x, old, new)
  PROVE  /\ Len(new) = Len(old)
         /\ \A r \in DOMAIN new : \A c \in DOMAIN new[r] \cup DOMAIN old[r] :
              SameCell(old[r], new[r], c) \/ c \in x.writes
<1>1. Len(new) = Len(old) /\ ChangedColumns(old, new) \subseteq x.writes
  BY DEF StaysInWriteSet, TopologyChanged
<1>2. DOMAIN old = DOMAIN new
  BY <1>1
<1>3. ASSUME NEW r \in DOMAIN new, NEW c \in DOMAIN new[r] \cup DOMAIN old[r],
             ~SameCell(old[r], new[r], c)
      PROVE  c \in x.writes
  <2>1. c \in {d \in DOMAIN old[r] \cup DOMAIN new[r] : ~SameCell(old[r], new[r], d)}
    BY <1>3
  <2>2. c \in ChangedColumns(old, new)
    BY <1>2, <2>1 DEF ChangedColumns
  <2>3. QED BY <1>1, <2>2
<1>4. QED BY <1>1, <1>3

LEMMA InitIInv == Init => IInv
<1> SUFFICES ASSUME Init PROVE IInv
  OBVIOUS
<1>1. TypeOK
  BY DEF Init, TypeOK, Stages
<1>2. QED BY <1>1 DEF Init, IInv, UnderWay, RunsAreTransactions

LEMMA NextIInv == IInv /\ [Next]_vars => IInv'
<1> SUFFICES ASSUME IInv, [Next]_vars PROVE IInv'
  OBVIOUS
<1> USE DEF IInv
<1>1. CASE BeginAdapter
  <2>1. PICK x \in OfStage(stage) :
          /\ current' = x /\ waiting' = waiting \ {x}
          /\ before' = data
          /\ TurnDown(x) \/ Admit(x)
    BY <1>1 DEF BeginAdapter
  <2>2. x \in Adapters /\ x # NoAdapter
    BY AdaptersAssumption DEF OfStage, TypeOK
  <2>3. UNCHANGED <<stage, declared, data>>
    BY <1>1 DEF BeginAdapter
  <2>4. CASE TurnDown(x)
    <3>1. DOMAIN outcome' = DOMAIN outcome \cup {x} /\ outcome'[x] = "conflict"
      BY <2>4 DEF TurnDown, Record
    <3>2. \A y \in DOMAIN outcome' : outcome'[y] \in Outcomes
      BY <2>4 DEF TurnDown, Record, TypeOK, Outcomes
    <3>3. TypeOK'
      BY <2>1, <2>2, <2>3, <2>4, <3>1, <3>2 DEF TurnDown, TypeOK
    <3>4. RunsAreTransactions'
      BY <2>1, <2>3, <3>1 DEF RunsAreTransactions
    <3>5. QED BY <2>4, <3>3, <3>4 DEF TurnDown, UnderWay
  <2>5. CASE Admit(x)
    <3>1. TypeOK'
      BY <2>1, <2>2, <2>3, <2>5 DEF Admit, TypeOK
    <3>2. QED BY <2>1, <2>2, <2>5, <3>1 DEF Admit, UnderWay, RunsAreTransactions
  <2>6. QED BY <2>1, <2>4, <2>5
<1>2. CASE ApplyAdapter
  <2>1. TypeOK'
    BY <1>2 DEF ApplyAdapter, TypeOK
  <2>2. QED BY <1>2, <2>1 DEF ApplyAdapter, UnderWay, RunsAreTransactions
<1>3. CASE RollBack
  <2>1. current \in Adapters
    BY <1>3 DEF RollBack, UnderWay
  <2>2. data' = before
    BY <1>3, RestoredIsBefore DEF RollBack, TypeOK
  <2>3. DOMAIN outcome' = DOMAIN outcome \cup {current} /\ outcome'[current] = "failed"
    BY <1>3 DEF RollBack, Record
  <2>4. \A y \in DOMAIN outcome' : outcome'[y] \in Outcomes
    BY <1>3 DEF RollBack, Record, TypeOK, Outcomes
  <2>5. TypeOK'
    BY <1>3, <2>1, <2>2, <2>3, <2>4 DEF RollBack, TypeOK
  <2>6. QED BY <1>3, <2>2, <2>3, <2>5 DEF RollBack, UnderWay, RunsAreTransactions
<1>4. CASE ValidateWrites
  <2>1. current \in Adapters
    BY <1>4 DEF ValidateWrites, UnderWay
  <2>2. CASE StaysInWriteSet(current, before, data)
    <3>1. DOMAIN outcome' = DOMAIN outcome \cup {current} /\ outcome'[current] = "applied"
      BY <1>4, <2>2 DEF ValidateWrites, Record
    <3>2. \A y \in DOMAIN outcome' : outcome'[y] \in Outcomes
      BY <1>4, <2>2 DEF ValidateWrites, Record, TypeOK, Outcomes
    <3>3. TypeOK'
      BY <1>4, <2>1, <2>2, <3>1, <3>2 DEF ValidateWrites, TypeOK
    <3>4. DOMAIN before = 1 .. Len(before) /\ DOMAIN data = 1 .. Len(data)
      BY DatabasesAssumption DEF TypeOK
    <3>5. current.writes # {} =>
            /\ Len(data) = Len(before)
            /\ \A r \in DOMAIN data : \A c \in DOMAIN data[r] \cup DOMAIN before[r] :
                 SameCell(before[r], data[r], c) \/ c \in current.writes
      BY <2>2, <3>4, ValidatedWritesConfined
    <3>6. QED
      BY <1>4, <2>2, <3>1, <3>3, <3>5
      DEF ValidateWrites, UnderWay, RunsAreTransactions
  <2>3. CASE ~StaysInWriteSet(current, before, data)
    <3>1. TypeOK'
      BY <1>4, <2>3 DEF ValidateWrites, TypeOK
    <3>2. QED BY <1>4, <2>1, <2>3, <3>1 DEF ValidateWrites, UnderWay, RunsAreTransactions
  <2>4. QED BY <2>2, <2>3
<1>5. CASE NextStage
  <2>1. TypeOK'
    BY <1>5 DEF NextStage, TypeOK, Stages
  <2>2. QED BY <1>5, <2>1 DEF NextStage, UnderWay, RunsAreTransactions
<1>6. CASE FinishStages
  <2>1. TypeOK'
    BY <1>6 DEF FinishStages, TypeOK
  <2>2. QED BY <1>6, <2>1 DEF FinishStages, UnderWay, RunsAreTransactions
<1>7. CASE UNCHANGED vars
  BY <1>7 DEF vars, TypeOK, UnderWay, RunsAreTransactions
<1>8. QED BY <1>1, <1>2, <1>3, <1>4, <1>5, <1>6, <1>7 DEF Next

\* Types, and each run of an adapter is a transaction: it reports what it did to
\* the rows, and leaves nothing behind when it does not report success.
THEOREM AdapterTypes == Spec => []TypeOK
<1>1. IInv => TypeOK
  BY DEF IInv
<1>2. QED BY InitIInv, NextIInv, <1>1, PTL DEF Spec

\* run_adapter is all or nothing, for any adapter, declaration and database.
THEOREM AdapterRunsAreTransactions == Spec => []RunsAreTransactions
<1>1. IInv => RunsAreTransactions
  BY DEF IInv
<1>2. QED BY InitIInv, NextIInv, <1>1, PTL DEF Spec

----------------------------------------------------------------------------
(* The shared ledger *)

AllConstraints == ConstraintsOf(Declarations)

TurnedDown == {x \in DOMAIN outcome : outcome[x] = "conflict"}

\* An adapter has one run: before it waits, and then its outcome is recorded.
RunsOnce ==
  /\ \A x \in waiting : x \notin DOMAIN outcome
  /\ pc \in {"apply", "raised", "applied"} => current \notin waiting \cup DOMAIN outcome

LedgerInv ==
  /\ accepted \subseteq Declarations /\ refused \subseteq Declarations
  /\ IsLedger(ledger, AllConstraints)
  /\ Serves(ledger, ConstraintsOf(accepted))
  /\ ExplainsRefusals(ledger, accepted, refused)
  /\ IsFiniteSet(DOMAIN outcome) /\ Len(ledger.conflicts) = Cardinality(TurnedDown)
  /\ RunsOnce

\* Recording a run that was not turned down.
LEMMA RecordKeepsCount ==
  ASSUME IsFiniteSet(DOMAIN outcome), NEW x, x \notin DOMAIN outcome, NEW result,
         result # "conflict", Record(x, result)
  PROVE  /\ DOMAIN outcome' = DOMAIN outcome \cup {x} /\ IsFiniteSet(DOMAIN outcome')
         /\ TurnedDown' = TurnedDown
<1>1. /\ DOMAIN outcome' = DOMAIN outcome \cup {x} /\ outcome'[x] = result
      /\ \A y \in DOMAIN outcome : outcome'[y] = outcome[y]
  BY DEF Record
<1>2. IsFiniteSet(DOMAIN outcome')
  BY <1>1, FS_AddElement
<1>3. QED BY <1>1, <1>2 DEF TurnedDown

\* The same for one that was.
LEMMA RecordCounts ==
  ASSUME IsFiniteSet(DOMAIN outcome), NEW x, x \notin DOMAIN outcome, Record(x, "conflict")
  PROVE  /\ DOMAIN outcome' = DOMAIN outcome \cup {x} /\ IsFiniteSet(DOMAIN outcome')
         /\ Cardinality(TurnedDown') = Cardinality(TurnedDown) + 1
<1>1. /\ DOMAIN outcome' = DOMAIN outcome \cup {x} /\ outcome'[x] = "conflict"
      /\ \A y \in DOMAIN outcome : outcome'[y] = outcome[y]
  BY DEF Record
<1>2. IsFiniteSet(DOMAIN outcome')
  BY <1>1, FS_AddElement
<1>3. TurnedDown' = TurnedDown \cup {x} /\ x \notin TurnedDown
  BY <1>1 DEF TurnedDown
<1>4. IsFiniteSet(TurnedDown)
  BY FS_Subset DEF TurnedDown
<1>5. QED BY <1>1, <1>2, <1>3, <1>4, FS_AddElement

\* What add_many does for the declaration of an adapter that is chosen.
LEMMA ClaimOutcome ==
  ASSUME IInv, LedgerInv, NEW x \in Adapters
  PROVE  LET d == declared[x]
         IN /\ d \in Declarations
            /\ IsLedger(Claimed(x), AllConstraints)
            /\ \/ /\ Claimed(x).conflicts = ledger.conflicts
                  /\ Serves(Claimed(x), ConstraintsOf(accepted \cup {d}))
               \/ /\ Claimed(x).owned = ledger.owned
                  /\ \E m \in DOMAIN d : \E e \in ConstraintsOf(accepted) \cup {d[k] : k \in 1 .. m - 1} :
                       /\ Claimed(x).conflicts =
                            Append(ledger.conflicts, [existing |-> e, incoming |-> d[m]])
                       /\ Clash(e, d[m])
<1> DEFINE d == declared[x]
           asked == ConstraintsOf(accepted)
<1>1. d \in Declarations
  BY DEF IInv, TypeOK
<1>2. Len(d) \in Nat /\ DOMAIN d = 1 .. Len(d)
  BY <1>1, DeclarationsAssumption
<1>3. asked \in SUBSET AllConstraints /\ \A n \in 1 .. Len(d) : d[n] \in AllConstraints
  BY <1>1, <1>2 DEF LedgerInv, AllConstraints, ConstraintsOf
<1>4. ConstraintsOf(accepted \cup {d}) = asked \cup Prefix(d, Len(d))
  BY <1>2 DEF ConstraintsOf, Prefix
<1>5. IsLedger(ledger, AllConstraints) /\ Serves(ledger, asked)
  BY DEF LedgerInv
<1> HIDE DEF d, asked
<1>6. TakesOrRefuses(AddMany(ledger, d), ledger, AllConstraints, asked, d)
  BY <1>2, <1>3, <1>5, AddManyOutcome
<1>7. Claimed(x) = AddMany(ledger, d)
  BY DEF Claimed, d
<1>8. QED BY <1>1, <1>2, <1>4, <1>6, <1>7 DEF TakesOrRefuses, d, asked, Prefix

LEMMA TurnDownKeepsLedger ==
  ASSUME IInv, LedgerInv, NEW x \in waiting, waiting' = waiting \ {x}, TurnDown(x)
  PROVE  LedgerInv'
<1> DEFINE d == declared[x]
<1>1. x \in Adapters /\ x \notin DOMAIN outcome
  BY DEF IInv, TypeOK, LedgerInv, RunsOnce
<1>2. /\ Len(Claimed(x).conflicts) > Len(ledger.conflicts) /\ ledger' = Claimed(x)
      /\ refused' = refused \cup {d} /\ accepted' = accepted /\ pc' = "choose"
      /\ Record(x, "conflict")
  BY DEF TurnDown
<1>3. ledger.conflicts \in Seq([existing : AllConstraints, incoming : AllConstraints])
  BY DEF LedgerInv, IsLedger
<1>4. Claimed(x).conflicts # ledger.conflicts
  BY <1>2, <1>3
<1>5. /\ d \in Declarations /\ IsLedger(ledger', AllConstraints) /\ ledger'.owned = ledger.owned
      /\ \E m \in DOMAIN d : \E e \in ConstraintsOf(accepted) \cup {d[k] : k \in 1 .. m - 1} :
           /\ ledger'.conflicts = Append(ledger.conflicts, [existing |-> e, incoming |-> d[m]])
           /\ Clash(e, d[m])
  BY <1>1, <1>2, <1>4, ClaimOutcome
<1>6. PICK m \in DOMAIN d : \E e \in ConstraintsOf(accepted) \cup {d[k] : k \in 1 .. m - 1} :
        /\ ledger'.conflicts = Append(ledger.conflicts, [existing |-> e, incoming |-> d[m]])
        /\ Clash(e, d[m])
  BY <1>5
<1>7. PICK e \in ConstraintsOf(accepted) \cup {d[k] : k \in 1 .. m - 1} :
        /\ ledger'.conflicts = Append(ledger.conflicts, [existing |-> e, incoming |-> d[m]])
        /\ Clash(e, d[m])
  BY <1>6
<1> HIDE DEF d
<1>8. /\ Len(ledger.conflicts) \in Nat /\ Len(ledger'.conflicts) = Len(ledger.conflicts) + 1
      /\ DOMAIN ledger'.conflicts = 1 .. (Len(ledger.conflicts) + 1)
      /\ ledger'.conflicts[Len(ledger.conflicts) + 1] = [existing |-> e, incoming |-> d[m]]
      /\ \A i \in DOMAIN ledger.conflicts : ledger'.conflicts[i] = ledger.conflicts[i]
      /\ DOMAIN ledger.conflicts = 1 .. Len(ledger.conflicts)
  BY <1>3, <1>7
<1>9. Serves(ledger, ConstraintsOf(accepted))'
  BY <1>2, <1>5 DEF LedgerInv, Serves
<1>10. ExplainsRefusals(ledger, accepted, refused)'
  <2> SUFFICES ASSUME NEW i \in DOMAIN ledger'.conflicts
               PROVE  LET f == ledger'.conflicts[i].existing
                          c == ledger'.conflicts[i].incoming
                      IN /\ f.cell = c.cell
                         /\ f.relation # c.relation \/ f.value # c.value
                         /\ \E r \in refused' : \E n \in DOMAIN r :
                              /\ c = r[n]
                              /\ f \in ConstraintsOf(accepted') \/ \E k \in 1 .. n - 1 : f = r[k]
    BY DEF ExplainsRefusals
  <2>1. CASE i = Len(ledger.conflicts) + 1
    <3>1. ledger'.conflicts[i].existing = e /\ ledger'.conflicts[i].incoming = d[m]
      BY <1>8, <2>1
    <3>2. d \in refused'
      BY <1>2
    <3>3. e \in ConstraintsOf(accepted') \/ \E k \in 1 .. m - 1 : e = d[k]
      BY <1>2
    <3>4. QED BY <1>7, <3>1, <3>2, <3>3 DEF Clash
  <2>2. CASE i # Len(ledger.conflicts) + 1
    <3>1. i \in DOMAIN ledger.conflicts /\ ledger'.conflicts[i] = ledger.conflicts[i]
      BY <1>8, <2>2
    <3>2. ExplainsRefusals(ledger, accepted, refused)
      BY DEF LedgerInv
    <3>3. QED BY <1>2, <3>1, <3>2 DEF ExplainsRefusals
  <2>3. QED BY <2>1, <2>2
<1>11. /\ DOMAIN outcome' = DOMAIN outcome \cup {x} /\ IsFiniteSet(DOMAIN outcome')
       /\ Cardinality(TurnedDown') = Cardinality(TurnedDown) + 1
  BY <1>1, <1>2, RecordCounts DEF LedgerInv
<1>12. RunsOnce'
  BY <1>2, <1>11 DEF RunsOnce, LedgerInv
<1>13. QED BY <1>2, <1>5, <1>8, <1>9, <1>10, <1>11, <1>12 DEF LedgerInv

LEMMA AdmitKeepsLedger ==
  ASSUME IInv, LedgerInv, NEW x \in waiting, waiting' = waiting \ {x}, current' = x, Admit(x)
  PROVE  LedgerInv'
<1> DEFINE d == declared[x]
<1>1. x \in Adapters /\ x \notin DOMAIN outcome
  BY DEF IInv, TypeOK, LedgerInv, RunsOnce
<1>2. /\ Len(Claimed(x).conflicts) = Len(ledger.conflicts) /\ ledger' = Claimed(x)
      /\ accepted' = accepted \cup {d} /\ refused' = refused /\ outcome' = outcome
      /\ pc' = "apply"
  BY DEF Admit
<1>3. ledger.conflicts \in Seq([existing : AllConstraints, incoming : AllConstraints])
  BY DEF LedgerInv, IsLedger
<1>4. \A r : Claimed(x).conflicts # Append(ledger.conflicts, r)
  BY <1>2, <1>3
<1>5. /\ d \in Declarations /\ IsLedger(ledger', AllConstraints)
      /\ ledger'.conflicts = ledger.conflicts
      /\ Serves(ledger', ConstraintsOf(accepted'))
  BY <1>1, <1>2, <1>4, ClaimOutcome
<1> HIDE DEF d
<1>6. ConstraintsOf(accepted) \subseteq ConstraintsOf(accepted')
  BY <1>2 DEF ConstraintsOf
<1>7. ExplainsRefusals(ledger, accepted, refused)'
  <2>1. ExplainsRefusals(ledger, accepted, refused)
    BY DEF LedgerInv
  <2> DEFINE old == ConstraintsOf(accepted)
             now == ConstraintsOf(accepted')
  <2>2. old \subseteq now
    BY <1>6
  <2> HIDE DEF old, now
  <2>3. \A i \in DOMAIN ledger'.conflicts :
          LET e == ledger'.conflicts[i].existing
              c == ledger'.conflicts[i].incoming
          IN /\ e.cell = c.cell
             /\ e.relation # c.relation \/ e.value # c.value
             /\ \E r \in refused' : \E n \in DOMAIN r :
                  c = r[n] /\ (e \in now \/ \E k \in 1 .. n - 1 : e = r[k])
    BY <1>2, <1>5, <2>1, <2>2 DEF ExplainsRefusals, old
  <2>4. QED BY <2>3 DEF ExplainsRefusals, now
<1>8. RunsOnce'
  BY <1>1, <1>2 DEF RunsOnce, LedgerInv
<1>9. QED BY <1>2, <1>5, <1>7, <1>8 DEF LedgerInv, TurnedDown

LEMMA InitLedgerInv == Init => LedgerInv
<1> SUFFICES ASSUME Init PROVE LedgerInv
  OBVIOUS
<1>1. ledger = [owned |-> <<>>, conflicts |-> <<>>] /\ accepted = {} /\ refused = {}
  BY DEF Init, EmptyLedger
<1>2. \A c \in AllConstraints : IsConstraint(c)
  BY DeclarationsAssumption DEF AllConstraints, ConstraintsOf
<1>3. IsLedger(ledger, AllConstraints)
  BY <1>1, <1>2 DEF IsLedger
<1>4. ConstraintsOf(accepted) = {}
  BY <1>1 DEF ConstraintsOf
<1>5. Serves(ledger, ConstraintsOf(accepted)) /\ ExplainsRefusals(ledger, accepted, refused)
  BY <1>1, <1>4 DEF Serves, OwnsFor, KeepsFor, ExplainsRefusals
<1>6. DOMAIN outcome = {} /\ TurnedDown = {}
  BY DEF Init, TurnedDown
<1>7. QED BY <1>1, <1>3, <1>5, <1>6, FS_EmptySet DEF LedgerInv, RunsOnce, Init

LEMMA NextLedgerInv == IInv /\ LedgerInv /\ [Next]_vars => LedgerInv'
<1> SUFFICES ASSUME IInv, LedgerInv, [Next]_vars PROVE LedgerInv'
  OBVIOUS
<1>1. CASE BeginAdapter
  <2>1. PICK x \in OfStage(stage) :
          current' = x /\ waiting' = waiting \ {x} /\ (TurnDown(x) \/ Admit(x))
    BY <1>1 DEF BeginAdapter
  <2>2. x \in waiting
    BY DEF OfStage
  <2>3. QED BY <2>1, <2>2, TurnDownKeepsLedger, AdmitKeepsLedger
<1>2. CASE RollBack \/ (ValidateWrites /\ StaysInWriteSet(current, before, data))
  <2>1. current \notin waiting /\ current \notin DOMAIN outcome
    BY <1>2 DEF RollBack, ValidateWrites, LedgerInv, RunsOnce
  <2>2. Record(current, "failed") \/ Record(current, "applied")
    BY <1>2 DEF RollBack, ValidateWrites
  <2>3. /\ DOMAIN outcome' = DOMAIN outcome \cup {current} /\ IsFiniteSet(DOMAIN outcome')
        /\ TurnedDown' = TurnedDown
    BY <2>1, <2>2, RecordKeepsCount DEF LedgerInv
  <2>4. UNCHANGED <<waiting, current, ledger, accepted, refused>> /\ pc' = "choose"
    BY <1>2 DEF RollBack, ValidateWrites
  <2>5. RunsOnce'
    BY <2>1, <2>3, <2>4 DEF LedgerInv, RunsOnce
  <2>6. QED BY <2>3, <2>4, <2>5 DEF LedgerInv
<1>3. CASE \/ ApplyAdapter \/ NextStage \/ FinishStages \/ UNCHANGED vars
           \/ (ValidateWrites /\ ~StaysInWriteSet(current, before, data))
  <2>1. /\ UNCHANGED <<waiting, ledger, accepted, refused, outcome>>
        /\ \/ pc' \in {"choose", "done"}
           \/ pc' \in {"apply", "raised", "applied"} /\ pc \in {"apply", "raised", "applied"} /\ current' = current
           \/ pc' = pc /\ current' = current
    BY <1>3 DEF ApplyAdapter, NextStage, FinishStages, ValidateWrites, vars
  <2>2. RunsOnce'
    BY <2>1 DEF LedgerInv, RunsOnce
  <2>3. QED BY <2>1, <2>2 DEF LedgerInv, TurnedDown
<1>4. QED BY <1>1, <1>2, <1>3 DEF Next

LEMMA LedgerProperties == LedgerInv => OwnersWereAccepted /\ PromisesKept /\ ConflictsAreReal
<1> SUFFICES ASSUME LedgerInv PROVE OwnersWereAccepted /\ PromisesKept /\ ConflictsAreReal
  OBVIOUS
<1>1. OwnersWereAccepted
  BY DEF LedgerInv, Serves, OwnsFor, OwnersWereAccepted, OwnedBy
<1>2. PromisesKept
  BY DEF LedgerInv, Serves, KeepsFor, PromisesKept, Keeps
<1>3. ConflictsAreReal
  BY DEF LedgerInv, ConflictsAreReal, TurnedDown
<1>4. QED BY <1>1, <1>2, <1>3

\* The ledger that the adapters of a world share never belongs in part to a
\* declaration it refused, and priority decides between those it took.
THEOREM OwnersAreAccepted == Spec => []OwnersWereAccepted
<1>1. IInv /\ LedgerInv /\ [Next]_vars => IInv' /\ LedgerInv'
  BY NextIInv, NextLedgerInv
<1>2. QED BY InitIInv, InitLedgerInv, <1>1, LedgerProperties, PTL DEF Spec

\* An adapter that add_many let through keeps each cell with the relation and
\* the value it declared, whatever the adapters after it declare.
THEOREM AdapterPromisesKept == Spec => []PromisesKept
<1>1. IInv /\ LedgerInv /\ [Next]_vars => IInv' /\ LedgerInv'
  BY NextIInv, NextLedgerInv
<1>2. QED BY InitIInv, InitLedgerInv, <1>1, LedgerProperties, PTL DEF Spec

\* Each adapter that run_adapter reports as conflicting has one recorded
\* conflict, and that conflict names two constraints that cannot share the cell.
THEOREM AdapterConflictsAreReal == Spec => []ConflictsAreReal
<1>1. IInv /\ LedgerInv /\ [Next]_vars => IInv' /\ LedgerInv'
  BY NextIInv, NextLedgerInv
<1>2. QED BY InitIInv, InitLedgerInv, <1>1, LedgerProperties, PTL DEF Spec
============================================================================
