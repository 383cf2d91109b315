--------------------- MODULE WorldMaterialisationProofs ---------------------
(***************************************************************************)
(* Proofs about WorldMaterialisation for worlds with any number of          *)
(* constraints and obligations, tables of any length and any number of      *)
(* attempts, whatever generation, feedback and the final pass write.        *)
(***************************************************************************)
EXTENDS WorldMaterialisation, ConstraintLedgerProofs

----------------------------------------------------------------------------
(* Rows and slots *)

\* A table of n rows.
IsRows(db, n) == n \in Nat /\ db \in [1 .. n -> Range(db)]

LEMMA RowsShape ==
  ASSUME NEW n \in Nat, NEW S, NEW db \in [1 .. n -> S]
  PROVE  IsRows(db, n) /\ Len(db) = n
<1>1. db \in [1 .. n -> Range(db)]
  BY DEF Range
<1>2. db \in Seq(S) /\ DOMAIN db = 1 .. n
  OBVIOUS
<1>3. Len(db) = n
  BY <1>2
<1>4. QED BY <1>1, <1>3 DEF IsRows

\* Writing a cell keeps the other rows.
Written(new, db, n, r, v) ==
  IsRows(new, n) /\ \A q \in 1 .. n : new[q] = IF q = r THEN v ELSE db[q]

LEMMA WriteRow ==
  ASSUME NEW n, NEW db, IsRows(db, n), NEW r \in 1 .. n, NEW v
  PROVE  Written([db EXCEPT ![r] = v], db, n, r, v)
<1> DEFINE new == [db EXCEPT ![r] = v]
<1>1. new \in [1 .. n -> Range(db) \cup {v}] /\ \A q \in 1 .. n : new[q] = IF q = r THEN v ELSE db[q]
  BY DEF IsRows
<1> HIDE DEF new
<1>2. IsRows(new, n)
  BY <1>1, RowsShape DEF IsRows
<1>3. QED BY <1>1, <1>2 DEF new, Written

LEMMA RowIndexInTable ==
  ASSUME NEW slot, NEW n \in Nat
  PROVE  RowIndex(slot, n) \in 0 .. n
BY DEF RowIndex

LEMMA AppendedItems ==
  ASSUME NEW s, s \in Seq(Range(s)), NEW x
  PROVE  /\ Append(s, x) \in Seq(Range(Append(s, x)))
         /\ Range(Append(s, x)) = Range(s) \cup {x}
<1> DEFINE t == Append(s, x)
<1>1. /\ t \in Seq(Range(s) \cup {x}) /\ DOMAIN s = 1 .. Len(s) /\ Len(s) \in Nat
      /\ DOMAIN t = 1 .. (Len(s) + 1) /\ t[Len(s) + 1] = x
      /\ \A i \in 1 .. Len(s) : t[i] = s[i]
  OBVIOUS
<1> HIDE DEF t
<1>2. DOMAIN t = DOMAIN s \cup {Len(s) + 1}
  BY <1>1
<1>3. Range(t) = Range(s) \cup {x}
  BY <1>1, <1>2 DEF Range
<1>4. QED BY <1>1, <1>3 DEF t

----------------------------------------------------------------------------
(* Constraints *)

IsCellConstraint(c) == c.relation \in Relations /\ (c.relation = "equals" => c.value # Null)

\* What a constraint writes meets it, and whatever an agreeing one demanded of
\* the value it found.
LEMMA WritesMeet ==
  ASSUME NEW c, NEW d, IsCellConstraint(c), IsCellConstraint(d), NEW v
  PROVE  /\ Meets(d, Constrained(d, v))
         /\ Agree(c, d) /\ Meets(c, v) => Meets(c, Constrained(d, v))
BY MaterialisationAssumption DEF IsCellConstraint, Relations, Meets, Constrained, Agree

\* After the first k constraints of a world: the chosen ones of them hold, when
\* the report says that all found their row and those of one row agree; and
\* what the report lists is in the table, when no two share a row.
Applied(state, constraints, chosen, n, k) ==
  /\ IsRows(state.db, n)
  /\ state.report.applied \in Seq(Range(state.report.applied))
  /\ state.report.satisfied =>
       \A i \in 1 .. k : constraints[i] \in chosen => RowIndex(constraints[i].slot, n) # 0
  /\ RowsAgree(constraints, n) =>
       \A i \in 1 .. k :
         constraints[i] \in chosen /\ RowIndex(constraints[i].slot, n) # 0
           => Meets(constraints[i], state.db[RowIndex(constraints[i].slot, n)])
  /\ RowsApart(constraints, n) =>
       \A item \in Range(state.report.applied) :
         \E i \in 1 .. k :
           /\ item.row = RowIndex(constraints[i].slot, n) /\ item.row \in 1 .. n
           /\ state.db[item.row] = item.after

LEMMA ApplyOneKeeps ==
  ASSUME NEW constraints, constraints \in Seq(Range(constraints)),
         \A c \in Range(constraints) : IsCellConstraint(c),
         NEW chosen, NEW n, NEW k \in Nat, k < Len(constraints), NEW state,
         Applied(state, constraints, chosen, n, k), constraints[k + 1] \in chosen
  PROVE  Applied(ApplyOne(state, constraints[k + 1]), constraints, chosen, n, k + 1)
<1> DEFINE c == constraints[k + 1]
           row == RowIndex(c.slot, n)
           after == Constrained(c, state.db[row])
           new == ApplyOne(state, c)
<1> SUFFICES Applied(new, constraints, chosen, n, k + 1)
  OBVIOUS
<1>1. n \in Nat /\ Len(state.db) = n /\ IsRows(state.db, n)
  BY RowsShape DEF Applied, IsRows
<1>2. row \in 0 .. n
  BY <1>1, RowIndexInTable
<1>3. /\ DOMAIN constraints = 1 .. Len(constraints) /\ k + 1 \in DOMAIN constraints
      /\ \A i \in 1 .. (k + 1) : i \in DOMAIN constraints /\ (i # k + 1 => i \in 1 .. k)
      /\ \A i \in 1 .. k : i \in DOMAIN constraints /\ i # k + 1 /\ i \in 1 .. (k + 1)
  <2>1. DOMAIN constraints = 1 .. Len(constraints) /\ Len(constraints) \in Nat
    OBVIOUS
  <2>2. QED BY <2>1
<1>4. \A i \in DOMAIN constraints : constraints[i] \in Range(constraints)
  BY DEF Range
<1>5. IsCellConstraint(c)
  BY <1>3, <1>4
<1>6. RowsApart(constraints, n) =>
        \A x \in Range(state.report.applied) :
          \E i \in 1 .. k :
            /\ x.row = RowIndex(constraints[i].slot, n) /\ x.row \in 1 .. n
            /\ state.db[x.row] = x.after
  BY DEF Applied
<1>7. CASE row = 0
  <2>1. new = [db |-> state.db, report |-> [applied |-> state.report.applied, satisfied |-> FALSE]]
    BY <1>1, <1>7 DEF ApplyOne
  <2>2. /\ new.db = state.db /\ new.report.applied = state.report.applied
        /\ ~new.report.satisfied
    BY <2>1
  <2> HIDE DEF new
  <2>3. ASSUME RowsAgree(constraints, n), NEW i \in 1 .. (k + 1),
               constraints[i] \in chosen, RowIndex(constraints[i].slot, n) # 0
        PROVE  Meets(constraints[i], new.db[RowIndex(constraints[i].slot, n)])
    <3>1. i \in 1 .. k
      BY <1>3, <1>7, <2>3
    <3>2. QED BY <2>2, <2>3, <3>1 DEF Applied
  <2>4. ASSUME RowsApart(constraints, n), NEW x \in Range(new.report.applied)
        PROVE  \E i \in 1 .. (k + 1) :
                 /\ x.row = RowIndex(constraints[i].slot, n) /\ x.row \in 1 .. n
                 /\ new.db[x.row] = x.after
    BY <1>3, <1>6, <2>2, <2>4
  <2>5. QED BY <2>2, <2>3, <2>4 DEF Applied
<1>8. CASE row # 0
  <2> DEFINE db == [state.db EXCEPT ![row] = after]
             item == [row |-> row, obligation |-> c.obligation, after |-> after]
             applied == Append(state.report.applied, item)
  <2>1. new = [db |-> db, report |-> [applied |-> applied, satisfied |-> state.report.satisfied]]
    BY <1>1, <1>8 DEF ApplyOne
  <2>2. row \in 1 .. n
    BY <1>1, <1>2, <1>8
  <2>3. IsRows(db, n) /\ \A q \in 1 .. n : db[q] = IF q = row THEN after ELSE state.db[q]
    <3> HIDE DEF row, after
    <3>1. Written(db, state.db, n, row, after)
      BY <1>1, <2>2, WriteRow
    <3> HIDE DEF db
    <3>2. QED BY <3>1 DEF Written
  <2>4. /\ applied \in Seq(Range(applied))
        /\ Range(applied) = Range(state.report.applied) \cup {item}
    BY AppendedItems DEF Applied
  <2>5. item.row = row /\ item.after = after
    OBVIOUS
  <2> HIDE DEF db, item, applied, after
  <2>6. /\ new.db = db /\ new.report.applied = applied
         /\ new.report.satisfied = state.report.satisfied
    BY <2>1
  <2> HIDE DEF new
  <2>7. state.report.satisfied =>
          \A i \in 1 .. (k + 1) : constraints[i] \in chosen => RowIndex(constraints[i].slot, n) # 0
    BY <1>3, <1>8 DEF Applied
  <2>8. ASSUME RowsAgree(constraints, n), NEW i \in 1 .. (k + 1),
               constraints[i] \in chosen, RowIndex(constraints[i].slot, n) # 0
        PROVE  Meets(constraints[i], db[RowIndex(constraints[i].slot, n)])
    <3> DEFINE b == constraints[i]
               q == RowIndex(b.slot, n)
    <3>1. IsCellConstraint(b) /\ i \in DOMAIN constraints
      BY <1>3, <1>4
    <3>2. q \in 1 .. n
      BY <1>1, <2>8, RowIndexInTable
    <3>3. CASE i = k + 1
      <4>1. Meets(c, after)
        BY <1>5, WritesMeet DEF after
      <4>2. QED BY <2>2, <2>3, <3>3, <4>1
    <3>4. CASE i # k + 1
      <4>1. Meets(b, state.db[q])
        BY <1>3, <2>8, <3>4 DEF Applied
      <4>2. CASE q # row
        BY <2>3, <3>2, <4>1, <4>2
      <4>3. CASE q = row
        <5>1. Agree(b, c)
          BY <1>3, <2>8, <3>1, <4>3 DEF RowsAgree, SameRow
        <5>2. Meets(b, after)
          BY <1>5, <3>1, <4>1, <4>3, <5>1, WritesMeet DEF after
        <5>3. QED BY <2>3, <3>2, <4>3, <5>2
      <4>4. QED BY <4>2, <4>3
    <3>5. QED BY <3>3, <3>4
  <2>9. ASSUME RowsApart(constraints, n), NEW x \in Range(applied)
        PROVE  \E i \in 1 .. (k + 1) :
                 /\ x.row = RowIndex(constraints[i].slot, n) /\ x.row \in 1 .. n
                 /\ db[x.row] = x.after
    <3>1. CASE x = item
      BY <1>3, <2>2, <2>3, <2>5, <3>1
    <3>2. CASE x \in Range(state.report.applied)
      <4>1. PICK i \in 1 .. k : /\ x.row = RowIndex(constraints[i].slot, n) /\ x.row \in 1 .. n
                                /\ state.db[x.row] = x.after
        BY <1>6, <2>9, <3>2
      <4>2. i \in DOMAIN constraints /\ i # k + 1 /\ i \in 1 .. (k + 1)
        BY <1>3
      <4>3. x.row # row
        BY <1>1, <1>3, <1>8, <2>9, <4>1, <4>2 DEF RowsApart, SameRow
      <4>4. db[x.row] = x.after
        BY <2>3, <4>1, <4>3
      <4>5. QED BY <4>1, <4>2, <4>4
    <3>3. QED BY <2>4, <2>9, <3>1, <3>2
  <2>10. QED BY <2>3, <2>4, <2>7, <2>8, <2>9, <2>6 DEF Applied
<1>9. QED BY <1>7, <1>8

\* The recursion of ApplyChosen over the constraints of a world.
Steps(g, db, constraints, chosen, N) ==
  g = [n \in 0 .. N |->
         IF n = 0 THEN [db |-> db, report |-> NoReport]
         ELSE IF constraints[n] \in chosen THEN ApplyOne(g[n - 1], constraints[n])
         ELSE g[n - 1]]

LEMMA StepsExist ==
  ASSUME NEW db, NEW constraints, NEW chosen, NEW N \in Nat
  PROVE  \E g : Steps(g, db, constraints, chosen, N)
<1> DEFINE S == {m \in Nat : \E g : Steps(g, db, constraints, chosen, m)}
           start == [db |-> db, report |-> NoReport]
<1>1. 0 \in S
  <2> DEFINE g == [n \in 0 .. 0 |-> start]
  <2>1. Steps(g, db, constraints, chosen, 0)
    BY DEF Steps
  <2>2. QED BY <2>1
<1>2. ASSUME NEW m \in Nat, m \in S PROVE m + 1 \in S
  <2>1. PICK g : Steps(g, db, constraints, chosen, m)
    BY <1>2
  <2> DEFINE last == IF constraints[m + 1] \in chosen THEN ApplyOne(g[m], constraints[m + 1])
                     ELSE g[m]
             h == [n \in 0 .. (m + 1) |-> IF n = m + 1 THEN last ELSE g[n]]
  <2>2. \A n \in 0 .. m : h[n] = g[n]
    OBVIOUS
  <2>3. h[m + 1] = last
    OBVIOUS
  <2>4. ASSUME NEW n \in 0 .. (m + 1)
        PROVE  h[n] = IF n = 0 THEN start
                      ELSE IF constraints[n] \in chosen THEN ApplyOne(h[n - 1], constraints[n])
                      ELSE h[n - 1]
    <3>1. CASE n = m + 1
      <4>1. n - 1 = m /\ h[n - 1] = g[m] /\ n # 0
        BY <2>2, <3>1
      <4> HIDE DEF h
      <4>2. QED BY <2>3, <3>1, <4>1
    <3>2. CASE n # m + 1
      <4>1. n \in 0 .. m
        BY <3>2
      <4>2. n # 0 => n - 1 \in 0 .. m
        BY <4>1
      <4>3. h[n] = g[n] /\ (n # 0 => h[n - 1] = g[n - 1])
        BY <2>2, <4>1, <4>2
      <4> HIDE DEF h
      <4>4. QED BY <2>1, <4>1, <4>3 DEF Steps
    <3>3. QED BY <3>1, <3>2
  <2>5. Steps(h, db, constraints, chosen, m + 1)
    <3>1. h = [n \in 0 .. (m + 1) |-> h[n]]
      OBVIOUS
    <3> HIDE DEF h
    <3>2. QED BY <2>4, <3>1 DEF Steps
  <2>6. QED BY <2>5
<1> HIDE DEF S
<1>3. N \in S
  BY <1>1, <1>2, SetInduction
<1>4. QED BY <1>3 DEF S

\* What apply_cell_constraints leaves behind when it is through with a world.
LEMMA ApplyChosenApplies ==
  ASSUME NEW constraints, constraints \in Seq(Range(constraints)),
         \A c \in Range(constraints) : IsCellConstraint(c),
         NEW chosen, NEW n, NEW db, IsRows(db, n)
  PROVE  Applied(ApplyChosen(db, constraints, chosen), constraints, chosen, n, Len(constraints))
<1> DEFINE N == Len(constraints)
           g == CHOOSE f : Steps(f, db, constraints, chosen, N)
<1>1. N \in Nat
  OBVIOUS
<1>2. Steps(g, db, constraints, chosen, N)
  BY <1>1, StepsExist
<1>3. ApplyChosen(db, constraints, chosen) = g[N]
  BY DEF ApplyChosen, Steps
<1> HIDE DEF g, N
<1> DEFINE S == {k \in Nat : Applied(g[k], constraints, chosen, n, k)}
<1>4. 0 \in S
  <2>1. g[0] = [db |-> db, report |-> NoReport]
    BY <1>1, <1>2 DEF Steps
  <2>2. g[0].db = db /\ g[0].report = [applied |-> <<>>, satisfied |-> TRUE]
    BY <2>1 DEF NoReport
  <2>3. g[0].report.applied = <<>> /\ Range(<<>>) = {} /\ <<>> \in Seq({})
    BY <2>2 DEF Range
  <2>4. \A i \in 1 .. 0 : FALSE
    OBVIOUS
  <2>5. Applied(g[0], constraints, chosen, n, 0)
    BY <2>2, <2>3, <2>4 DEF Applied
  <2>6. QED BY <2>5
<1>5. ASSUME NEW k \in Nat, k < N, k \in S PROVE k + 1 \in S
  <2> SUFFICES Applied(g[k + 1], constraints, chosen, n, k + 1)
    OBVIOUS
  <2>1. g[k + 1] = IF constraints[k + 1] \in chosen THEN ApplyOne(g[k], constraints[k + 1])
                   ELSE g[k]
    BY <1>1, <1>2, <1>5 DEF Steps
  <2>2. Applied(g[k], constraints, chosen, n, k)
    BY <1>5
  <2>3. CASE constraints[k + 1] \in chosen
    BY <1>5, <2>1, <2>2, <2>3, ApplyOneKeeps DEF N
  <2>4. CASE constraints[k + 1] \notin chosen
    <3>1. \A i \in 1 .. (k + 1) : constraints[i] \in chosen => i \in 1 .. k
      BY <2>4
    <3>2. \A i \in 1 .. k : i \in 1 .. (k + 1)
      OBVIOUS
    <3>3. g[k + 1] = g[k]
      BY <2>1, <2>4
    <3>4. QED BY <2>2, <3>1, <3>2, <3>3 DEF Applied
  <2>5. QED BY <2>3, <2>4
<1> HIDE DEF S
<1>6. 0 .. N \subseteq S
  BY <1>1, <1>4, <1>5, SetInductionTo
<1>7. N \in S
  BY <1>1, <1>6
<1>8. QED BY <1>3, <1>7 DEF S, N

----------------------------------------------------------------------------
(* The database that is executed *)

Constraints == world.constraints

\* Every constraint of a set holds when the report is favourable and those that
\* end up in one row agree.
Kept(chosen, n) ==
  report.satisfied /\ RowsAgree(Constraints, n) =>
    \A i \in DOMAIN Constraints : Constraints[i] \in chosen => Holds(Constraints[i], database)

\* What the report lists is in a table of n rows, when no two constraints share
\* one of them.
Listed(db, n) ==
  RowsApart(Constraints, n) =>
    \A item \in Range(report.applied) : db[item.row] = item.after

\* A first database has the constraints of the window, one made for a retry has
\* all of them, and then the report of that retry lists what it holds.
Materialised(n) ==
  /\ IsRows(database, n) /\ Len(database) = n
  /\ Kept(WindowOwned(Constraints), n)
  /\ attempt > 0 => Kept(Range(Constraints), n) /\ Listed(database, n)

\* The attempts are counted, one is selected after it was executed, and
\* the report is that of the database executed last.
AttemptInv ==
  /\ world \in Worlds /\ attempt \in Nat /\ selected.attempt \in Int
  /\ pc \in {"generate", "constrain", "feedback", "execute", "show"}
  /\ pc = "constrain" => attempt = 0
  /\ pc = "feedback" => attempt > 0
  /\ pc # "show" => selected.attempt < attempt
  /\ pc = "execute" => \E n : Materialised(n)
  /\ pc = "show" /\ selected.attempt = attempt /\ attempt > 0 =>
       \E n : Len(shownDb) = n /\ Listed(shownDb, n)

LEMMA WorldShape ==
  ASSUME NEW w \in Worlds
  PROVE  /\ w.constraints \in Seq(Range(w.constraints)) /\ w.minimum \in Nat
         /\ \A c \in Range(w.constraints) : IsCellConstraint(c)
BY WorldsAssumption DEF IsCellConstraint

\* The final pass leaves a table.
LEMMA FinalizedRows ==
  ASSUME world \in Worlds, NEW db, NEW final \in Finalized(db)
  PROVE  \E n : IsRows(final, n)
<1>1. PICK n \in world.minimum .. Len(db) : final \in [1 .. n -> BaseValues \cup Range(db)]
  BY DEF Finalized
<1>2. n \in Nat
  BY <1>1, WorldShape
<1>3. QED BY <1>1, <1>2, RowsShape

\* After apply_cell_constraints: what the report says of the chosen constraints
\* is true of the rows.
LEMMA ApplyHolds ==
  ASSUME world \in Worlds, NEW chosen, NEW n, NEW db, IsRows(db, n),
         NEW done, done = ApplyChosen(db, Constraints, chosen)
  PROVE  /\ IsRows(done.db, n) /\ Len(done.db) = n
         /\ done.report.satisfied /\ RowsAgree(Constraints, n) =>
              \A i \in DOMAIN Constraints :
                Constraints[i] \in chosen => Holds(Constraints[i], done.db)
         /\ RowsApart(Constraints, n) =>
              \A item \in Range(done.report.applied) : done.db[item.row] = item.after
<1>1. /\ Constraints \in Seq(Range(Constraints))
      /\ \A c \in Range(Constraints) : IsCellConstraint(c)
  BY WorldShape DEF Constraints
<1>2. Applied(done, Constraints, chosen, n, Len(Constraints))
  BY <1>1, ApplyChosenApplies
<1>3. DOMAIN Constraints = 1 .. Len(Constraints)
  BY <1>1
<1>4. IsRows(done.db, n) /\ Len(done.db) = n
  BY <1>2, RowsShape DEF Applied, IsRows
<1>5. ASSUME done.report.satisfied, RowsAgree(Constraints, n),
             NEW i \in DOMAIN Constraints, Constraints[i] \in chosen
      PROVE  Holds(Constraints[i], done.db)
  <2>1. RowIndex(Constraints[i].slot, n) # 0
    BY <1>2, <1>3, <1>5 DEF Applied
  <2>2. Meets(Constraints[i], done.db[RowIndex(Constraints[i].slot, n)])
    BY <1>2, <1>3, <1>5, <2>1 DEF Applied
  <2>3. QED BY <1>4, <2>1, <2>2 DEF Holds
<1>6. RowsApart(Constraints, n) =>
        \A item \in Range(done.report.applied) : done.db[item.row] = item.after
  BY <1>2 DEF Applied
<1>7. QED BY <1>4, <1>5, <1>6

LEMMA MaterializeFirstKeeps ==
  ASSUME AttemptInv, MaterializeFirst
  PROVE  AttemptInv'
<1> DEFINE first == ApplyAll(candidate, world.constraints)
           second(db) == ApplyChosen(db, world.constraints, WindowOwned(world.constraints))
<1>1. PICK final \in Finalized(first.db) :
        /\ database' = second(final).db
        /\ report' = [applied |-> first.report.applied \o second(final).report.applied,
                      satisfied |-> first.report.satisfied /\ second(final).report.satisfied]
  BY DEF MaterializeFirst
<1> DEFINE again == second(final)
<1>2. /\ world' = world /\ attempt' = attempt /\ selected' = selected
      /\ pc = "constrain" /\ pc' = "execute"
  BY DEF MaterializeFirst
<1>3. database' = again.db /\ (report'.satisfied => again.report.satisfied)
  <2> HIDE DEF first, second
  <2>1. QED BY <1>1
<1>4. world \in Worlds /\ attempt = 0
  BY <1>2 DEF AttemptInv
<1>5. PICK n : IsRows(final, n)
  BY <1>4, FinalizedRows
<1>6. /\ IsRows(again.db, n) /\ Len(again.db) = n
      /\ again.report.satisfied /\ RowsAgree(Constraints, n) =>
           \A i \in DOMAIN Constraints :
             Constraints[i] \in WindowOwned(Constraints) => Holds(Constraints[i], again.db)
  BY <1>4, <1>5, ApplyHolds DEF Constraints
<1> HIDE DEF again
<1>7. Constraints' = Constraints
  BY <1>2 DEF Constraints
<1>8. Materialised(n)'
  BY <1>2, <1>3, <1>4, <1>6, <1>7 DEF Materialised, Kept
<1>9. QED BY <1>2, <1>4, <1>8 DEF AttemptInv

LEMMA MaterializeRetryKeeps ==
  ASSUME AttemptInv, MaterializeRetry
  PROVE  AttemptInv'
<1>1. PICK final \in Finalized(candidate) :
        /\ database' = ApplyAll(final, world.constraints).db
        /\ report' = ApplyAll(final, world.constraints).report
  BY DEF MaterializeRetry
<1> DEFINE done == ApplyChosen(final, Constraints, Range(Constraints))
<1>2. /\ world' = world /\ attempt' = attempt /\ selected' = selected
      /\ pc = "feedback" /\ pc' = "execute"
  BY DEF MaterializeRetry
<1>3. database' = done.db /\ report' = done.report
  BY <1>1 DEF Constraints, ApplyAll
<1>4. world \in Worlds
  BY DEF AttemptInv
<1>5. PICK n : IsRows(final, n)
  BY <1>4, FinalizedRows
<1>6. /\ IsRows(done.db, n) /\ Len(done.db) = n
      /\ done.report.satisfied /\ RowsAgree(Constraints, n) =>
           \A i \in DOMAIN Constraints :
             Constraints[i] \in Range(Constraints) => Holds(Constraints[i], done.db)
      /\ RowsApart(Constraints, n) =>
           \A item \in Range(done.report.applied) : done.db[item.row] = item.after
  BY <1>4, <1>5, ApplyHolds
<1> HIDE DEF done
<1>7. Constraints' = Constraints
  BY <1>2 DEF Constraints
<1>8. Kept(Range(Constraints), n)' /\ Listed(database, n)'
  BY <1>3, <1>6, <1>7 DEF Kept, Listed
<1>9. Kept(WindowOwned(Constraints), n)'
  <2>1. \A c \in WindowOwned(Constraints) : c \in Range(Constraints)
    BY DEF WindowOwned
  <2>2. QED BY <1>3, <1>6, <1>7, <2>1 DEF Kept
<1>10. Materialised(n)'
  BY <1>3, <1>6, <1>8, <1>9 DEF Materialised
<1>11. QED BY <1>2, <1>10 DEF AttemptInv

LEMMA ExecuteAttemptKeeps ==
  ASSUME AttemptInv, ExecuteAttempt
  PROVE  AttemptInv'
<1>1. /\ world' = world /\ report' = report /\ pc = "execute"
      /\ \/ /\ pc' = "show" /\ attempt' = attempt
         \/ /\ pc' = "generate" /\ attempt' = attempt + 1
      /\ \/ selected'.attempt = attempt /\ shownDb' = database
         \/ selected' = selected /\ shownDb' = shownDb
  BY DEF ExecuteAttempt
<1>2. attempt \in Nat /\ selected.attempt \in Int /\ selected.attempt < attempt
  BY <1>1 DEF AttemptInv
<1>3. PICK n : Materialised(n)
  BY <1>1 DEF AttemptInv
<1>4. selected'.attempt \in Int /\ selected'.attempt <= attempt /\ attempt' \in Nat
  BY <1>1, <1>2
<1>5. ASSUME pc' = "show", selected'.attempt = attempt', attempt' > 0
      PROVE  Len(shownDb') = n /\ Listed(shownDb, n)'
  <2>1. attempt' = attempt /\ attempt > 0
    BY <1>1, <1>5
  <2>2. shownDb' = database
    BY <1>1, <1>2, <1>5, <2>1
  <2>3. Len(database) = n /\ Listed(database, n)
    BY <1>3, <2>1 DEF Materialised
  <2>4. QED BY <1>1, <2>2, <2>3 DEF Listed, Constraints
<1>6. pc' # "show" => selected'.attempt < attempt'
  BY <1>1, <1>2
<1>7. QED BY <1>1, <1>4, <1>5, <1>6 DEF AttemptInv

\* AttemptInv holds of every behaviour.
THEOREM AttemptInvHolds == Spec => []AttemptInv
<1>1. Init => AttemptInv
  BY DEF Init, AttemptInv, NoneSelected
<1>2. ASSUME AttemptInv, [Next]_vars PROVE AttemptInv'
  <2>1. CASE Generate
    BY <1>2, <2>1 DEF Generate, AttemptInv
  <2>2. CASE MaterializeFirst
    BY <1>2, <2>2, MaterializeFirstKeeps
  <2>3. CASE ServeObligation
    BY <1>2, <2>3 DEF ServeObligation, AttemptInv
  <2>4. CASE GiveUpRetry
    BY <1>2, <2>4 DEF GiveUpRetry, AttemptInv
  <2>5. CASE MaterializeRetry
    BY <1>2, <2>5, MaterializeRetryKeeps
  <2>6. CASE ExecuteAttempt
    BY <1>2, <2>6, ExecuteAttemptKeeps
  <2>7. CASE UNCHANGED vars
    BY <1>2, <2>7 DEF vars, AttemptInv, Materialised, Kept, Listed, Constraints
  <2>8. QED BY <1>2, <2>1, <2>2, <2>3, <2>4, <2>5, <2>6, <2>7 DEF Next
<1>3. QED BY <1>1, <1>2, PTL DEF Spec

----------------------------------------------------------------------------
(* What the reports are worth *)

\* Whatever bounded feedback and the final pass of _regenerate_witness_world
\* did to the rows of a retry, a report without an unsatisfied constraint means
\* that all of the world's constraints hold of the database executed, as long
\* as those whose slots meet in a row can hold of one value.
THEOREM RetryReportsHold == Spec => []RetryReportHolds
<1>1. AttemptInv => RetryReportHolds
  <2> SUFFICES ASSUME AttemptInv, pc = "execute", attempt > 0,
                      RowsAgree(world.constraints, Len(database)), report.satisfied,
                      NEW i \in DOMAIN world.constraints
               PROVE  Holds(world.constraints[i], database)
    BY DEF RetryReportHolds, ReportHolds
  <2>1. PICK n : Materialised(n)
    BY DEF AttemptInv
  <2>2. Constraints[i] \in Range(Constraints)
    BY DEF Range, Constraints
  <2>3. QED BY <2>1, <2>2 DEF Materialised, Kept, Constraints
<1>2. QED BY <1>1, AttemptInvHolds, PTL

\* The window's own constraints hold of every database that is executed, the
\* first included: generate_witness_suite asserts them again after the final
\* pass.
THEOREM WindowReportsHold == Spec => []WindowReportHolds
<1>1. AttemptInv => WindowReportHolds
  <2> SUFFICES ASSUME AttemptInv, pc = "execute", report.satisfied,
                      RowsAgree(world.constraints, Len(database)),
                      NEW i \in DOMAIN world.constraints, world.constraints[i].window
               PROVE  Holds(world.constraints[i], database)
    BY DEF WindowReportHolds
  <2>1. PICK n : Materialised(n)
    BY DEF AttemptInv
  <2>2. Constraints[i] \in WindowOwned(Constraints)
    BY DEF WindowOwned, Range, Constraints
  <2>3. QED BY <2>1, <2>2 DEF Materialised, Kept, Constraints
<1>2. QED BY <1>1, AttemptInvHolds, PTL

\* The rows _extract_witness shows for the latest attempt, when that is a
\* retry, carry what the constraints wrote into them.
THEOREM LatestRowsTrace == Spec => []LatestRowsTraceToWrites
<1>1. AttemptInv => LatestRowsTraceToWrites
  <2> SUFFICES ASSUME AttemptInv, selected.attempt = attempt, attempt > 0,
                      RowsApart(world.constraints, Len(shownDb)),
                      NEW o \in DOMAIN world.obligations, NEW item \in ShownItems(o)
               PROVE  shownDb[item.row] = item.after
    BY DEF LatestRowsTraceToWrites, RowsTraceToWrites
  <2>1. pc = "show" /\ item \in Range(report.applied)
    BY DEF ShownItems
  <2>2. PICK n : Len(shownDb) = n /\ Listed(shownDb, n)
    BY <2>1 DEF AttemptInv
  <2>3. QED BY <2>1, <2>2 DEF Listed, Constraints
<1>2. QED BY <1>1, AttemptInvHolds, PTL
=============================================================================
