------------------------- MODULE WitnessSuiteProofs -------------------------
(***************************************************************************)
(* Proofs about WitnessSuite for every number of obligations, every order,  *)
(* every wish for cells and values, and every budget of worlds, and about   *)
(* the ledger behind the splits of SuiteLedger.                             *)
(***************************************************************************)
EXTENDS SuiteLedger, ConstraintLedgerProofs, FiniteSetTheorems

----------------------------------------------------------------------------
WorldRecord ==
  [id : Seq(Nat), obligations : SUBSET Obligation, pins : SUBSET Obligation,
   composite : BOOLEAN, limited : BOOLEAN]

\* What splitting keeps of each single world.
Sound(world) ==
  /\ world.id # <<>>
  /\ world.obligations = {} => pair.count = 0
  /\ world.pins \subseteq world.obligations
  /\ \A p, q \in world.pins : SameCell(p, q) => p = q
  /\ world.composite <=> Cardinality(world.obligations) > 1

Shapes ==
  /\ IsPair(pair)
  /\ pc \in {"plan", "materialize", "returned"}
  /\ placed \in 0 .. pair.count
  /\ pending \in Seq(WorldRecord)
  /\ done \in Seq(WorldRecord)
  /\ serial \in Nat
  /\ uncovered \subseteq Obligation

\* While planning, only isolated worlds exist and one place is kept free.
PlanningBudget == pc = "plan" => Len(done) = 0 /\ Len(pending) <= IsolatedLimit

IInv ==
  /\ Shapes
  /\ PlanningBudget
  /\ WorldBudget
  /\ \A world \in Worlds : Sound(world)

----------------------------------------------------------------------------
LEMMA LimitFits ==
  ASSUME IsPair(pair)
  PROVE  IsolatedLimit \in Nat /\ IsolatedLimit <= pair.limit
BY DEF IsPair, IsolatedLimit

\* A finite set of obligations loses one: how many are left.
LEMMA ObligationsFinite ==
  ASSUME IsPair(pair), NEW S \in SUBSET Obligation
  PROVE  IsFiniteSet(S) /\ Cardinality(S) \in Nat
<1>1. IsFiniteSet(Obligation)
  BY FS_Interval DEF Obligation, IsPair
<1>2. IsFiniteSet(S)
  BY <1>1, FS_Subset
<1>3. QED BY <1>2, FS_CardinalityType

\* A side of a split is sound and not empty: the other obligation of the
\* conflict is left out, the kept one is pinned.
LEMMA SideSound ==
  ASSUME IsPair(pair),
         NEW world \in WorldRecord, Sound(world),
         NEW id \in Seq(Nat), id # <<>>,
         NEW kept \in world.obligations, NEW rejected \in world.obligations,
         kept # rejected, SameCell(kept, rejected)
  PROVE  Side(world, id, kept, rejected) \in WorldRecord /\ Sound(Side(world, id, kept, rejected))
<1> DEFINE rest == world.obligations \ {rejected}
<1> DEFINE side == Side(world, id, kept, rejected)
<1>1. IsFiniteSet(world.obligations) /\ Cardinality(world.obligations) \in Nat
  BY ObligationsFinite DEF WorldRecord
<1>2. Cardinality(rest) = Cardinality(world.obligations) - 1
  BY <1>1, FS_RemoveElement
<1>3. kept \in rest
  OBVIOUS
<1>4. IsFiniteSet(rest) /\ Cardinality(rest) \in Nat
  BY <1>1, FS_RemoveElement, FS_CardinalityType
<1>5. Cardinality(rest) # 0
  BY <1>3, <1>4, FS_EmptySet
<1>6. side.composite <=> Cardinality(side.obligations) > 1
  <2>1. side.obligations = rest /\ side.composite = (world.composite /\ Cardinality(rest) # 1)
    BY DEF Side
  <2>2. Cardinality(world.obligations) > 1
    BY <1>1, <1>2, <1>4, <1>5
  <2>3. world.composite
    BY <2>2 DEF Sound
  <2>4. Cardinality(rest) # 1 <=> Cardinality(rest) > 1
    BY <1>4, <1>5
  <2>5. side.composite <=> Cardinality(rest) # 1
    BY <2>1, <2>3
  <2> HIDE DEF rest, side
  <2>6. QED BY <2>1, <2>4, <2>5
<1>7. side.pins \subseteq side.obligations
  <2>1. ASSUME NEW p \in side.pins PROVE p \in side.obligations
    <3>1. CASE p = kept
      BY <1>3, <3>1 DEF Side
    <3>2. CASE p \in world.pins /\ ~SameCell(p, kept)
      BY <3>2 DEF Side, Sound, SameCell
    <3>3. QED BY <2>1, <3>1, <3>2 DEF Side
  <2>2. QED BY <2>1
<1>8. \A p, q \in side.pins : SameCell(p, q) => p = q
  BY DEF Side, Sound, SameCell
<1>9. side \in WorldRecord
  <2>1. side.pins \subseteq Obligation
    BY <1>7 DEF Side, WorldRecord
  <2>2. QED BY <2>1 DEF Side, WorldRecord
<1>10. QED BY <1>3, <1>6, <1>7, <1>8, <1>9 DEF Side, Sound

LEMMA InitIInv == Init => IInv
<1> SUFFICES ASSUME Init PROVE IInv
  OBVIOUS
<1>1. IsPair(pair)
  BY SuiteAssumption DEF Init
<1>2. Shapes
  <2>1. placed = 0 /\ pair.count \in Nat
    BY <1>1 DEF Init, IsPair
  <2>2. placed \in 0 .. pair.count
    BY <2>1
  <2>3. pending \in Seq(WorldRecord) /\ done \in Seq(WorldRecord)
    BY DEF Init
  <2>4. pc \in {"plan", "materialize", "returned"} /\ serial \in Nat /\ uncovered \subseteq Obligation
    BY DEF Init
  <2>5. QED BY <1>1, <2>2, <2>3, <2>4 DEF Shapes
<1>3. PlanningBudget /\ WorldBudget
  <2>1. pair.limit \in Nat /\ IsolatedLimit \in Nat
    BY <1>1, LimitFits DEF IsPair
  <2>2. Len(pending) = 0 /\ Len(done) = 0
    BY DEF Init
  <2>3. QED BY <2>1, <2>2 DEF PlanningBudget, WorldBudget
<1>4. Worlds = {}
  BY DEF Init, Worlds
<1>5. QED BY <1>2, <1>3, <1>4 DEF IInv

\* The next obligation is placed: one world more while there is room.
LEMMA PlaceKeeps == IInv /\ PlaceObligation => IInv'
<1> SUFFICES ASSUME IInv, PlaceObligation PROVE IInv'
  OBVIOUS
<1> DEFINE o == pair.order[placed + 1]
<1> DEFINE new == World(<<Len(pending) + 1>>, {o}, PinOf(o), FALSE)
<1>1. IsPair(pair) /\ pair' = pair /\ pc' = "plan" /\ pc = "plan" /\ done' = done /\ serial' = serial
  BY DEF IInv, Shapes, PlaceObligation
<1>2. o \in Obligation
  <2>1. pair.count \in Nat /\ placed + 1 \in 1 .. pair.count
    BY DEF IInv, Shapes, PlaceObligation, IsPair
  <2>2. pair.order \in [1 .. pair.count -> 1 .. pair.count]
    BY <1>1 DEF IsPair
  <2>3. QED BY <2>1, <2>2 DEF Obligation
<1>3. placed' \in 0 .. pair.count
  BY DEF IInv, Shapes, PlaceObligation, IsPair
<1>4. CASE Len(pending) < IsolatedLimit
  <2>1. pending' = Append(pending, new) /\ uncovered' = uncovered
    BY <1>4 DEF PlaceObligation
  <2>2. Len(pending) \in Nat /\ pending \in Seq(WorldRecord)
    BY DEF IInv, Shapes
  <2>3. new \in WorldRecord
    BY <1>2, <2>2 DEF World, PinOf, WorldRecord
  <2>4. Cardinality({o}) = 1
    BY FS_Singleton
  <2>5. Sound(new)
    BY <2>4 DEF World, PinOf, Sound
  <2> HIDE DEF new
  <2>6. pending' \in Seq(WorldRecord) /\ Len(pending') = Len(pending) + 1
    BY <2>1, <2>2, <2>3
  <2>7. \A world \in Worlds' : world \in Worlds \/ world = new
    BY <1>1, <2>1, <2>2 DEF Worlds
  <2>8. Shapes'
    BY <1>1, <1>3, <2>1, <2>6 DEF IInv, Shapes, WorldRecord, Obligation
  <2>9. PlanningBudget' /\ WorldBudget'
    BY <1>1, <1>4, <2>2, <2>6, LimitFits
    DEF IInv, Shapes, PlanningBudget, WorldBudget, IsolatedLimit, IsPair
  <2>10. \A world \in Worlds' : Sound(world)'
    BY <1>1, <2>5, <2>7 DEF IInv, Sound, SameCell
  <2>11. QED BY <2>8, <2>9, <2>10 DEF IInv
<1>5. CASE ~(Len(pending) < IsolatedLimit)
  <2>1. pending' = pending /\ uncovered' = uncovered \cup {o}
    BY <1>5 DEF PlaceObligation
  <2>2. Shapes'
    BY <1>1, <1>2, <1>3, <2>1 DEF IInv, Shapes, WorldRecord, Obligation
  <2>3. QED
    BY <1>1, <2>1, <2>2
    DEF IInv, PlanningBudget, WorldBudget, IsolatedLimit, Worlds, Sound, SameCell
<1>6. QED BY <1>4, <1>5

\* The composite takes a place only while one is free.
LEMMA CloseKeeps == IInv /\ ClosePlan => IInv'
<1> SUFFICES ASSUME IInv, ClosePlan PROVE IInv'
  OBVIOUS
<1>1. /\ IsPair(pair) /\ pair' = pair /\ pc' = "materialize" /\ done' = done
      /\ Len(done) = 0 /\ placed' = placed /\ serial' = serial /\ uncovered' = uncovered
  BY DEF IInv, Shapes, PlanningBudget, ClosePlan
<1>2. Len(pending) \in Nat /\ pending \in Seq(WorldRecord) /\ done \in Seq(WorldRecord)
  BY DEF IInv, Shapes
<1>3. pair.count \in Nat /\ pair.limit \in Nat \ {0}
  BY <1>1 DEF IsPair
<1>4. CASE pair.count = 0
  <2>1. pending' = <<BaseWorld>>
    BY <1>4 DEF ClosePlan
  <2>2. Cardinality({}) = 0
    BY FS_EmptySet
  <2>3. BaseWorld \in WorldRecord /\ Sound(BaseWorld)
    BY <1>4, <2>2 DEF BaseWorld, World, WorldRecord, Sound
  <2>4. pending' \in Seq(WorldRecord) /\ Len(pending') = 1
    BY <2>1, <2>3
  <2>5. \A world \in Worlds' : world \in Worlds \/ world = BaseWorld
    BY <1>1, <2>1 DEF Worlds
  <2>6. Shapes'
    BY <1>1, <2>4 DEF IInv, Shapes, WorldRecord, Obligation
  <2>7. PlanningBudget' /\ WorldBudget'
    BY <1>1, <1>3, <2>4 DEF PlanningBudget, WorldBudget
  <2>8. \A world \in Worlds' : Sound(world)'
    BY <1>1, <2>3, <2>5 DEF IInv, Sound, SameCell
  <2>9. QED BY <2>6, <2>7, <2>8 DEF IInv
<1>5. CASE pair.count > 1 /\ Len(pending) < pair.limit
  <2>1. pending' = Append(pending, Composite)
    BY <1>3, <1>5 DEF ClosePlan
  <2>2. Cardinality(Obligation) = pair.count
    BY <1>3, FS_Interval DEF Obligation
  <2>3. 1 \in Obligation
    BY <1>3, <1>5 DEF Obligation
  <2>4. Composite \in WorldRecord
    BY <1>2 DEF Composite, World, WorldRecord
  <2>5. Sound(Composite)
    BY <1>3, <1>5, <2>2, <2>3 DEF Composite, World, Sound
  <2>6. pending' \in Seq(WorldRecord) /\ Len(pending') = Len(pending) + 1
    BY <1>2, <2>1, <2>4
  <2>7. \A world \in Worlds' : world \in Worlds \/ world = Composite
    BY <1>1, <1>2, <2>1 DEF Worlds
  <2>8. Shapes'
    BY <1>1, <2>6 DEF IInv, Shapes, WorldRecord, Obligation
  <2>9. PlanningBudget' /\ WorldBudget'
    BY <1>1, <1>2, <1>3, <1>5, <2>6 DEF PlanningBudget, WorldBudget
  <2>10. \A world \in Worlds' : Sound(world)'
    BY <1>1, <2>5, <2>7 DEF IInv, Sound, SameCell
  <2>11. QED BY <2>8, <2>9, <2>10 DEF IInv
<1>6. CASE pair.count # 0 /\ ~(pair.count > 1 /\ Len(pending) < pair.limit)
  <2>1. pending' = pending
    BY <1>6 DEF ClosePlan
  <2>2. Shapes'
    BY <1>1, <2>1 DEF IInv, Shapes, WorldRecord, Obligation
  <2>3. QED
    BY <1>1, <2>1, <2>2 DEF IInv, PlanningBudget, WorldBudget, Worlds, Sound, SameCell
<1>7. QED BY <1>4, <1>5, <1>6

\* A split adds one world and only while the budget has room for both sides.
LEMMA SplitKeeps == IInv /\ SplitWorld => IInv'
<1> SUFFICES ASSUME IInv, SplitWorld PROVE IInv'
  OBVIOUS
<1> DEFINE world == Head(pending)
<1>1. /\ IsPair(pair) /\ pair' = pair /\ pc' = "materialize" /\ done' = done
      /\ placed' = placed /\ serial' = serial + 1 /\ uncovered' = uncovered
      /\ serial \in Nat /\ pending \in Seq(WorldRecord) /\ done \in Seq(WorldRecord)
      /\ pending # <<>>
  BY DEF IInv, Shapes, SplitWorld
<1>2. world \in WorldRecord /\ world \in Worlds
  BY <1>1 DEF Worlds
<1>3. Sound(world)
  BY <1>2 DEF IInv
<1>4. PICK i, j \in world.obligations :
        /\ IsConflict(world.obligations, i, j)
        /\ pending' = <<Side(world, world.id, i, j),
                        Side(world, RightId(world), j, i)>> \o Tail(pending)
  BY DEF SplitWorld
<1>5. i \in Nat /\ j \in Nat /\ i < j /\ i # j /\ SameCell(i, j) /\ SameCell(j, i)
  <2>1. pair.count \in Nat
    BY <1>1 DEF IsPair
  <2>2. i \in 1 .. pair.count /\ j \in 1 .. pair.count
    BY <1>2 DEF WorldRecord, Obligation
  <2>3. i < j /\ SameCell(i, j)
    BY <1>4 DEF IsConflict
  <2>4. QED BY <2>1, <2>2, <2>3 DEF SameCell
<1> DEFINE left == Side(world, world.id, i, j)
<1> DEFINE right == Side(world, RightId(world), j, i)
<1>6. RightId(world) \in Seq(Nat) /\ RightId(world) # <<>>
  <2>1. world.id \in Seq(Nat) /\ serial + 1 \in Nat
    BY <1>1, <1>2 DEF WorldRecord
  <2> HIDE DEF world
  <2>2. QED BY <2>1 DEF RightId
<1>7. left \in WorldRecord /\ Sound(left)
  BY <1>1, <1>2, <1>3, <1>4, <1>5, SideSound DEF Sound, WorldRecord
<1>8. right \in WorldRecord /\ Sound(right)
  BY <1>1, <1>2, <1>3, <1>4, <1>5, <1>6, SideSound
<1>9. pending' = <<left, right>> \o Tail(pending)
  BY <1>4
<1> HIDE DEF left, right, world
<1>10. Tail(pending) \in Seq(WorldRecord) /\ Len(Tail(pending)) = Len(pending) - 1 /\ Len(pending) \in Nat
  BY <1>1
<1>11. <<left, right>> \in Seq(WorldRecord) /\ Len(<<left, right>>) = 2
  BY <1>7, <1>8
<1>12. pending' \in Seq(WorldRecord) /\ Len(pending') = Len(pending) + 1
  BY <1>9, <1>10, <1>11
<1>13. \A x \in Worlds' : x \in Worlds \/ x = left \/ x = right
  <2>1. ASSUME NEW n \in DOMAIN pending'
        PROVE  pending'[n] = left \/ pending'[n] = right \/ \E m \in DOMAIN pending : pending'[n] = pending[m]
    <3>1. n \in 1 .. (Len(pending) + 1)
      BY <1>12
    <3>2. CASE n > 2
      <4>1. pending'[n] = Tail(pending)[n - 2]
        BY <1>9, <1>10, <1>11, <3>1, <3>2
      <4>2. Tail(pending)[n - 2] = pending[n - 1] /\ n - 1 \in DOMAIN pending
        BY <1>1, <1>10, <3>1, <3>2
      <4>3. QED BY <4>1, <4>2
    <3>3. CASE n = 1 \/ n = 2
      BY <1>9, <1>10, <1>11, <3>1, <3>3
    <3>4. QED BY <3>1, <3>2, <3>3
  <2>2. QED BY <1>1, <2>1 DEF Worlds
<1>14. Shapes'
  BY <1>1, <1>12 DEF IInv, Shapes, WorldRecord, Obligation
<1>15. Len(done) \in Nat /\ pair.limit \in Nat
  BY <1>1 DEF IsPair
<1>16. PlanningBudget' /\ WorldBudget'
  BY <1>1, <1>10, <1>12, <1>15 DEF PlanningBudget, WorldBudget, SplitWorld, RoomForSplit
<1>17. \A x \in Worlds' : Sound(x)'
  BY <1>1, <1>7, <1>8, <1>13 DEF IInv, Sound, SameCell
<1>18. QED BY <1>14, <1>16, <1>17 DEF IInv

\* A materialised world is the head of the worklist, with one diagnostic set.
LEMMA MaterializeKeeps == IInv /\ MaterializeWorld => IInv'
<1> SUFFICES ASSUME IInv, MaterializeWorld PROVE IInv'
  OBVIOUS
<1> DEFINE world == Head(pending)
<1> DEFINE kept == [world EXCEPT !.limited = Conflicting(world.obligations)]
<1>1. /\ IsPair(pair) /\ pair' = pair /\ pc = "materialize" /\ pc' = "materialize"
      /\ placed' = placed /\ serial' = serial /\ uncovered' = uncovered
      /\ pending \in Seq(WorldRecord) /\ done \in Seq(WorldRecord) /\ pending # <<>>
      /\ pending' = Tail(pending) /\ done' = Append(done, kept)
  BY DEF IInv, Shapes, MaterializeWorld
<1>2. world \in WorldRecord /\ world \in Worlds
  BY <1>1 DEF Worlds
<1>3. Conflicting(world.obligations) \in BOOLEAN
  BY DEF Conflicting
<1>4. kept \in WorldRecord
  BY <1>2, <1>3 DEF WorldRecord
<1>5. Sound(world)
  BY <1>2 DEF IInv
<1>6. Sound(kept)
  BY <1>2, <1>5 DEF Sound, WorldRecord
<1> HIDE DEF kept, world
<1>7. /\ Tail(pending) \in Seq(WorldRecord) /\ Len(Tail(pending)) = Len(pending) - 1
      /\ Append(done, kept) \in Seq(WorldRecord) /\ Len(Append(done, kept)) = Len(done) + 1
      /\ Len(pending) \in Nat /\ Len(done) \in Nat
  BY <1>1, <1>4
<1>8. \A x \in Worlds' : x \in Worlds \/ x = kept
  BY <1>1, <1>7 DEF Worlds
<1>9. Shapes'
  BY <1>1, <1>7 DEF IInv, Shapes, WorldRecord, Obligation
<1>10. PlanningBudget' /\ WorldBudget'
  BY <1>1, <1>7 DEF IInv, PlanningBudget, WorldBudget
<1>11. \A x \in Worlds' : Sound(x)'
  BY <1>1, <1>6, <1>8 DEF IInv, Sound, SameCell
<1>12. QED BY <1>9, <1>10, <1>11 DEF IInv

LEMMA NextIInv == IInv /\ [Next]_vars => IInv'
<1> SUFFICES ASSUME IInv, [Next]_vars PROVE IInv'
  OBVIOUS
<1>1. CASE ReturnSuite
  <2>1. Shapes'
    BY <1>1 DEF IInv, Shapes, ReturnSuite, WorldRecord, Obligation
  <2>2. QED
    BY <1>1, <2>1 DEF IInv, ReturnSuite, PlanningBudget, WorldBudget, Worlds, Sound, SameCell
<1>2. CASE UNCHANGED vars
  <2>1. Shapes'
    BY <1>2 DEF IInv, Shapes, vars, WorldRecord, Obligation
  <2>2. QED
    BY <1>2, <2>1 DEF IInv, vars, PlanningBudget, WorldBudget, IsolatedLimit, Worlds, Sound, SameCell
<1>3. QED BY <1>1, <1>2, PlaceKeeps, CloseKeeps, SplitKeeps, MaterializeKeeps DEF Next

LEMMA SuiteInvariant == Spec => []IInv
BY InitIInv, NextIInv, PTL DEF Spec

\* Every world is well formed, and none is about nothing once there is an
\* obligation.
THEOREM SuiteTypes == Spec => []TypeOK
<1>1. IInv => TypeOK
  <2> SUFFICES ASSUME IInv PROVE TypeOK
    OBVIOUS
  <2>1. Worlds \subseteq WorldRecord
    BY DEF IInv, Shapes, Worlds
  <2>2. QED BY <2>1 DEF IInv, Shapes, TypeOK, Sound, WorldRecord
<1>2. QED BY SuiteInvariant, <1>1, PTL

\* generate_witness_suite never has more than max_worlds worlds, however often
\* worlds are split.
THEOREM SuiteWithinBudget == Spec => []WorldBudget
<1>1. IInv => WorldBudget
  BY DEF IInv
<1>2. QED BY SuiteInvariant, <1>1, PTL

\* After any sequence of splits a world carries constraints of its own
\* obligations only, and at most one for a cell.
THEOREM SplitsKeepPins == Spec => []PinsOwned
<1>1. IInv => PinsOwned
  BY DEF IInv, PinsOwned, Sound
<1>2. QED BY SuiteInvariant, <1>1, PTL

\* The composite tag survives a split exactly where several obligations do.
THEOREM SplitsKeepTag == Spec => []CompositeIffSeveral
<1>1. IInv => CompositeIffSeveral
  BY DEF IInv, CompositeIffSeveral, Sound
<1>2. QED BY SuiteInvariant, <1>1, PTL

----------------------------------------------------------------------------
\* Every planned obligation is at stake somewhere or reported as uncovered.
PlanCovers ==
  pc = "plan" =>
    \A n \in 1 .. placed :
      pair.order[n] \in uncovered \/ \E world \in Worlds : pair.order[n] \in world.obligations

\* An obligation is left uncovered only when all places are taken.
PlanCounts ==
  pc = "plan" =>
    /\ Len(pending) <= placed
    /\ uncovered # {} => IsolatedLimit <= Len(pending) /\ Len(pending) < placed

CoverInv == IInv /\ PlanCovers /\ PlanCounts /\ NothingLost /\ ConflictOnlyAtLimit

LEMMA PlaceCovers == IInv /\ PlanCovers /\ PlanCounts /\ PlaceObligation => PlanCovers' /\ PlanCounts'
<1> SUFFICES ASSUME IInv, PlanCovers, PlanCounts, PlaceObligation
             PROVE  PlanCovers' /\ PlanCounts'
  OBVIOUS
<1> DEFINE o == pair.order[placed + 1]
<1> DEFINE new == World(<<Len(pending) + 1>>, {o}, PinOf(o), FALSE)
<1>1. /\ pair' = pair /\ pc = "plan" /\ pc' = "plan" /\ done' = done /\ placed' = placed + 1
      /\ placed \in Nat /\ pending \in Seq(WorldRecord) /\ Len(pending) \in Nat /\ IsPair(pair)
  <2>1. pair' = pair /\ pc = "plan" /\ pc' = pc /\ done' = done /\ placed' = placed + 1
    BY DEF PlaceObligation
  <2>2. IsPair(pair) /\ placed \in 0 .. pair.count /\ pending \in Seq(WorldRecord)
    BY DEF IInv, Shapes
  <2>3. pair.count \in Nat
    BY <2>2 DEF IsPair
  <2>4. placed \in Nat /\ Len(pending) \in Nat
    BY <2>2, <2>3
  <2>5. QED BY <2>1, <2>2, <2>4
<1>2. IsolatedLimit \in Nat /\ IsolatedLimit' = IsolatedLimit
  BY <1>1, LimitFits DEF IsolatedLimit
<1>3. new.obligations = {o}
  BY DEF World
<1>4. CASE Len(pending) < IsolatedLimit
  <2>1. pending' = Append(pending, new) /\ uncovered' = uncovered
    BY <1>4 DEF PlaceObligation
  <2> HIDE DEF new
  <2>2. /\ Len(pending') = Len(pending) + 1
        /\ pending'[Len(pending) + 1] = new /\ Len(pending) + 1 \in DOMAIN pending'
        /\ \A m \in DOMAIN pending : m \in DOMAIN pending' /\ pending'[m] = pending[m]
    BY <1>1, <2>1
  <2>3. new \in Worlds' /\ \A world \in Worlds : world \in Worlds'
    BY <1>1, <2>2 DEF Worlds
  <2> HIDE DEF o
  <2>4. PlanCounts'
    BY <1>1, <1>2, <1>4, <2>1, <2>2 DEF PlanCounts
  <2>5. ASSUME NEW n \in 1 .. placed'
        PROVE  pair.order[n] \in uncovered \/ \E world \in Worlds' : pair.order[n] \in world.obligations
    <3>1. CASE n = placed + 1
      BY <1>3, <2>3, <3>1 DEF o
    <3>2. CASE n \in 1 .. placed
      BY <1>1, <2>3, <3>2 DEF PlanCovers
    <3>3. QED BY <1>1, <2>5, <3>1, <3>2
  <2>6. PlanCovers'
    BY <1>1, <2>1, <2>5 DEF PlanCovers
  <2>7. QED BY <2>4, <2>6
<1>5. CASE ~(Len(pending) < IsolatedLimit)
  <2>1. pending' = pending /\ uncovered' = uncovered \cup {o}
    BY <1>5 DEF PlaceObligation
  <2>2. Worlds' = Worlds
    BY <1>1, <2>1 DEF Worlds
  <2>3. PlanCounts'
    BY <1>1, <1>2, <1>5, <2>1 DEF PlanCounts
  <2>4. ASSUME NEW n \in 1 .. placed'
        PROVE  pair.order[n] \in uncovered' \/ \E world \in Worlds : pair.order[n] \in world.obligations
    <3>1. CASE n = placed + 1
      BY <2>1, <3>1
    <3>2. CASE n \in 1 .. placed
      BY <1>1, <2>1, <3>2 DEF PlanCovers
    <3>3. QED BY <1>1, <2>4, <3>1, <3>2
  <2>5. PlanCovers'
    BY <1>1, <2>2, <2>4 DEF PlanCovers
  <2>6. QED BY <2>3, <2>5
<1>6. QED BY <1>4, <1>5

\* Closing the plan: with the composite everything is at stake; without it the
\* budget is one world, or there is at most one obligation.
LEMMA CloseCovers == IInv /\ PlanCovers /\ PlanCounts /\ ClosePlan => NothingLost'
<1> SUFFICES ASSUME IInv, PlanCovers, PlanCounts, ClosePlan PROVE NothingLost'
  OBVIOUS
<1>1. /\ IsPair(pair) /\ pair' = pair /\ done' = done /\ pc = "plan" /\ placed = pair.count
      /\ uncovered' = uncovered /\ pending \in Seq(WorldRecord) /\ Len(pending) <= IsolatedLimit
  BY DEF IInv, Shapes, PlanningBudget, ClosePlan
<1>2. pair.count \in Nat /\ pair.limit \in Nat \ {0} /\ Len(pending) \in Nat
  BY <1>1 DEF IsPair
<1> SUFFICES ASSUME NEW o \in Obligation
             PROVE  \/ \E world \in Worlds' : o \in world.obligations
                    \/ pair.limit = 1 /\ o \in uncovered
  BY <1>1 DEF NothingLost, Obligation
<1>3. o \in 1 .. pair.count /\ pair.count # 0
  BY <1>2 DEF Obligation
<1>4. CASE pair.count > 1 /\ Len(pending) < pair.limit
  <2>1. pending' = Append(pending, Composite)
    BY <1>2, <1>4 DEF ClosePlan
  <2>2. Composite.obligations = Obligation
    BY DEF Composite, World
  <2> HIDE DEF Composite
  <2>3. Len(pending) + 1 \in DOMAIN pending' /\ pending'[Len(pending) + 1] = Composite
    BY <1>1, <1>2, <2>1
  <2>4. Composite \in Worlds'
    BY <2>3 DEF Worlds
  <2>5. QED BY <2>2, <2>4
<1>5. CASE ~(pair.count > 1 /\ Len(pending) < pair.limit)
  <2>1. pending' = pending
    BY <1>3, <1>5 DEF ClosePlan
  <2>2. Worlds' = Worlds
    BY <1>1, <2>1 DEF Worlds
  <2>3. PICK n \in 1 .. pair.count : pair.order[n] = o
    BY <1>1, <1>3 DEF IsPair
  <2>4. o \in uncovered \/ \E world \in Worlds : o \in world.obligations
    BY <1>1, <2>3 DEF PlanCovers
  <2>5. CASE pair.count > 1
    <3>1. pair.limit = 1
      BY <1>1, <1>2, <1>5, <2>5 DEF IsolatedLimit
    <3>2. QED BY <2>2, <2>4, <3>1
  <2>6. CASE pair.count = 1
    <3>1. IsolatedLimit = pair.limit
      BY <2>6 DEF IsolatedLimit
    <3>2. uncovered = {}
      BY <1>1, <1>2, <2>6, <3>1 DEF PlanCounts
    <3>3. QED BY <2>2, <2>4, <3>2
  <2>7. QED BY <1>2, <1>3, <2>5, <2>6
<1>6. QED BY <1>4, <1>5

\* Both sides together keep what the split world had at stake.
LEMMA SplitCovers == IInv /\ NothingLost /\ SplitWorld => NothingLost'
<1> SUFFICES ASSUME IInv, NothingLost, SplitWorld PROVE NothingLost'
  OBVIOUS
<1> DEFINE world == Head(pending)
<1>1. /\ pair' = pair /\ pc = "materialize" /\ done' = done /\ uncovered' = uncovered
      /\ pending \in Seq(WorldRecord) /\ pending # <<>>
  BY DEF IInv, Shapes, SplitWorld
<1>2. PICK i, j \in world.obligations :
        /\ IsConflict(world.obligations, i, j)
        /\ pending' = <<Side(world, world.id, i, j),
                        Side(world, RightId(world), j, i)>> \o Tail(pending)
  BY DEF SplitWorld
<1> DEFINE left == Side(world, world.id, i, j)
<1> DEFINE right == Side(world, RightId(world), j, i)
<1>3. left.obligations = world.obligations \ {j} /\ right.obligations = world.obligations \ {i}
  BY DEF Side
<1>4. world \in WorldRecord /\ i \in Nat /\ j \in Nat /\ i < j
  <2>1. pair.count \in Nat
    BY DEF IInv, Shapes, IsPair
  <2>2. world \in WorldRecord
    BY <1>1
  <2>3. i \in 1 .. pair.count /\ j \in 1 .. pair.count
    BY <2>2 DEF WorldRecord, Obligation
  <2>4. i < j
    BY <1>2 DEF IsConflict
  <2>5. QED BY <2>1, <2>2, <2>3, <2>4
<1>5. pending' = <<left, right>> \o Tail(pending)
  BY <1>2
<1>6. /\ Tail(pending) \in Seq(WorldRecord) /\ Len(Tail(pending)) = Len(pending) - 1
      /\ Len(pending) \in Nat /\ world = pending[1]
      /\ \A m \in 1 .. Len(Tail(pending)) : Tail(pending)[m] = pending[m + 1]
  BY <1>1
<1> HIDE DEF left, right, world
<1>7. /\ 1 \in DOMAIN pending' /\ pending'[1] = left
      /\ 2 \in DOMAIN pending' /\ pending'[2] = right
  BY <1>5, <1>6
<1>8. \A m \in 1 .. Len(Tail(pending)) : m + 2 \in DOMAIN pending' /\ pending'[m + 2] = Tail(pending)[m]
  BY <1>5, <1>6
<1>9. left \in Worlds' /\ right \in Worlds'
  BY <1>7 DEF Worlds
<1>10. ASSUME NEW x \in Worlds PROVE x = world \/ x \in Worlds'
  <2>1. CASE x \in {done[n] : n \in DOMAIN done}
    BY <1>1, <2>1 DEF Worlds
  <2>2. CASE x \in {pending[n] : n \in DOMAIN pending}
    <3>1. PICK n \in DOMAIN pending : x = pending[n]
      BY <2>2
    <3>2. CASE n = 1
      BY <1>6, <3>1, <3>2
    <3>3. CASE n # 1
      <4>1. n - 1 \in 1 .. Len(Tail(pending)) /\ (n - 1) + 1 = n /\ (n - 1) + 2 = n + 1
        BY <1>1, <1>6, <3>1, <3>3
      <4>2. n + 1 \in DOMAIN pending' /\ pending'[n + 1] = x
        BY <1>6, <1>8, <3>1, <4>1
      <4>3. QED BY <4>2 DEF Worlds
    <3>4. QED BY <3>2, <3>3
  <2>3. QED BY <1>10, <2>1, <2>2 DEF Worlds
<1> SUFFICES ASSUME NEW o \in Obligation
             PROVE  \/ \E x \in Worlds' : o \in x.obligations
                    \/ pair.limit = 1 /\ o \in uncovered
  BY <1>1 DEF NothingLost, Obligation
<1>11. CASE \E x \in Worlds : o \in x.obligations
  <2>1. PICK x \in Worlds : o \in x.obligations
    BY <1>11
  <2>2. CASE x = world
    <3>1. o \in left.obligations \/ o \in right.obligations
      BY <1>3, <1>4, <2>1, <2>2
    <3>2. QED BY <1>9, <3>1
  <2>3. CASE x \in Worlds'
    BY <2>1, <2>3
  <2>4. QED BY <1>10, <2>1, <2>2, <2>3
<1>12. CASE pair.limit = 1 /\ o \in uncovered
  BY <1>12
<1>13. QED BY <1>1, <1>11, <1>12 DEF NothingLost

LEMMA MaterializeCovers == IInv /\ NothingLost /\ MaterializeWorld => NothingLost'
<1> SUFFICES ASSUME IInv, NothingLost, MaterializeWorld PROVE NothingLost'
  OBVIOUS
<1> DEFINE world == Head(pending)
<1> DEFINE kept == [world EXCEPT !.limited = Conflicting(world.obligations)]
<1>1. /\ pair' = pair /\ pc = "materialize" /\ uncovered' = uncovered
      /\ pending \in Seq(WorldRecord) /\ pending # <<>> /\ done \in Seq(WorldRecord)
      /\ pending' = Tail(pending) /\ done' = Append(done, kept)
  BY DEF IInv, Shapes, MaterializeWorld
<1>2. world \in WorldRecord
  BY <1>1
<1>3. kept.obligations = world.obligations
  BY <1>2 DEF WorldRecord
<1>4. /\ Len(Tail(pending)) = Len(pending) - 1 /\ Len(pending) \in Nat /\ world = pending[1]
      /\ Tail(pending) \in Seq(WorldRecord)
      /\ \A m \in 1 .. Len(Tail(pending)) : Tail(pending)[m] = pending[m + 1]
  BY <1>1
<1> HIDE DEF world, kept
<1>5. /\ Len(done) + 1 \in DOMAIN done' /\ done'[Len(done) + 1] = kept
      /\ \A n \in DOMAIN done : n \in DOMAIN done' /\ done'[n] = done[n]
  BY <1>1
<1>6. kept \in Worlds'
  BY <1>5 DEF Worlds
<1>7. ASSUME NEW x \in Worlds PROVE x = world \/ x \in Worlds'
  <2>1. CASE x \in {done[n] : n \in DOMAIN done}
    BY <1>5, <2>1 DEF Worlds
  <2>2. CASE x \in {pending[n] : n \in DOMAIN pending}
    <3>1. PICK n \in DOMAIN pending : x = pending[n]
      BY <2>2
    <3>2. CASE n = 1
      BY <1>4, <3>1, <3>2
    <3>3. CASE n # 1
      <4>1. n - 1 \in 1 .. Len(Tail(pending)) /\ (n - 1) + 1 = n
        BY <1>1, <1>4, <3>1, <3>3
      <4>2. n - 1 \in DOMAIN pending' /\ pending'[n - 1] = x
        BY <1>1, <1>4, <3>1, <4>1
      <4>3. QED BY <4>2 DEF Worlds
    <3>4. QED BY <3>2, <3>3
  <2>3. QED BY <1>7, <2>1, <2>2 DEF Worlds
<1> SUFFICES ASSUME NEW o \in Obligation
             PROVE  \/ \E x \in Worlds' : o \in x.obligations
                    \/ pair.limit = 1 /\ o \in uncovered
  BY <1>1 DEF NothingLost, Obligation
<1>8. CASE \E x \in Worlds : o \in x.obligations
  BY <1>3, <1>6, <1>7, <1>8
<1>9. CASE pair.limit = 1 /\ o \in uncovered
  BY <1>9
<1>10. QED BY <1>1, <1>8, <1>9 DEF NothingLost

\* A world says that it was limited only when nothing can be added any more.
LEMMA LimitsKept ==
  IInv /\ ConflictOnlyAtLimit /\ (SplitWorld \/ MaterializeWorld) => ConflictOnlyAtLimit'
<1> SUFFICES ASSUME IInv, ConflictOnlyAtLimit, SplitWorld \/ MaterializeWorld
             PROVE  ConflictOnlyAtLimit'
  OBVIOUS
<1>1. /\ pair' = pair /\ pair.limit \in Nat /\ pending \in Seq(WorldRecord) /\ pending # <<>>
      /\ done \in Seq(WorldRecord) /\ Len(done) \in Nat /\ Len(pending) \in Nat
      /\ Len(pending) + Len(done) <= pair.limit
  BY DEF IInv, Shapes, IsPair, WorldBudget, SplitWorld, MaterializeWorld
<1>2. CASE SplitWorld
  <2>1. done' = done /\ Len(pending) + Len(done) < pair.limit
    BY <1>1, <1>2 DEF SplitWorld, RoomForSplit
  <2>2. \A n \in DOMAIN done : ~done[n].limited /\ ~Conflicting(done[n].obligations)
    BY <1>1, <2>1 DEF ConflictOnlyAtLimit
  <2>3. \A n \in DOMAIN done' : ~done'[n].limited /\ ~Conflicting(done'[n].obligations)
    BY <2>1, <2>2
  <2>4. QED BY <1>1, <2>3 DEF ConflictOnlyAtLimit, Conflicting, Refused, SameCell
<1>3. CASE MaterializeWorld
  <2> DEFINE world == Head(pending)
  <2> DEFINE kept == [world EXCEPT !.limited = Conflicting(world.obligations)]
  <2>1. /\ pending' = Tail(pending) /\ done' = Append(done, kept)
        /\ ~Conflicting(world.obligations) \/ Len(done) + Len(pending) + 1 > pair.limit
    BY <1>1, <1>3 DEF MaterializeWorld, RoomForSplit
  <2>2. world \in WorldRecord
    BY <1>1
  <2>3. kept.obligations = world.obligations /\ (kept.limited <=> Conflicting(world.obligations))
    BY <2>2 DEF WorldRecord
  <2> HIDE DEF world, kept
  <2>4. /\ Len(pending') = Len(pending) - 1 /\ Len(done') = Len(done) + 1
        /\ DOMAIN done' = 1 .. (Len(done) + 1)
        /\ done'[Len(done) + 1] = kept
        /\ \A n \in DOMAIN done : done'[n] = done[n]
    BY <1>1, <2>1
  <2>5. ASSUME NEW n \in DOMAIN done'
        PROVE  /\ Conflicting(done'[n].obligations) <=> done'[n].limited
               /\ done'[n].limited => Len(pending') + Len(done') = pair.limit
    <3>1. CASE n = Len(done) + 1
      <4>1. Conflicting(done'[n].obligations) <=> done'[n].limited
        BY <2>3, <2>4, <3>1
      <4>2. ASSUME Conflicting(world.obligations) PROVE Len(pending') + Len(done') = pair.limit
        <5>1. Len(done) + Len(pending) + 1 > pair.limit
          BY <2>1, <4>2
        <5>2. pair.limit \in Nat /\ Len(done) \in Nat /\ Len(pending) \in Nat
          BY <1>1
        <5>3. Len(pending) + Len(done) <= pair.limit
          BY <1>1
        <5>4. Len(pending') + Len(done') = Len(pending) + Len(done)
          BY <2>4, <5>2
        <5>5. QED BY <5>1, <5>2, <5>3, <5>4
      <4>3. QED BY <2>3, <2>4, <3>1, <4>1, <4>2
    <3>2. CASE n \in DOMAIN done
      BY <1>1, <2>4, <3>2 DEF ConflictOnlyAtLimit
    <3>3. QED BY <1>1, <2>4, <2>5, <3>1, <3>2
  <2>6. QED BY <1>1, <2>5 DEF ConflictOnlyAtLimit, Conflicting, Refused, SameCell
<1>4. QED BY <1>2, <1>3

LEMMA InitCoverInv == Init => CoverInv
<1> SUFFICES ASSUME Init PROVE CoverInv
  OBVIOUS
<1>1. IInv
  BY InitIInv
<1>2. QED BY <1>1 DEF Init, CoverInv, PlanCovers, PlanCounts, NothingLost, ConflictOnlyAtLimit

LEMMA NextCoverInv == CoverInv /\ [Next]_vars => CoverInv'
<1> SUFFICES ASSUME CoverInv, [Next]_vars PROVE CoverInv'
  OBVIOUS
<1>1. IInv'
  BY NextIInv DEF CoverInv
<1>2. CASE PlaceObligation
  <2>1. pc' = "plan" /\ Len(done') = 0 /\ done' \in Seq(WorldRecord)'
    BY <1>1, <1>2 DEF PlaceObligation, IInv, PlanningBudget, Shapes
  <2>2. NothingLost' /\ ConflictOnlyAtLimit'
    BY <2>1 DEF NothingLost, ConflictOnlyAtLimit
  <2>3. QED BY <1>1, <1>2, <2>2, PlaceCovers DEF CoverInv
<1>3. CASE ClosePlan
  <2>1. pc' = "materialize" /\ done' = done /\ Len(done) = 0 /\ done \in Seq(WorldRecord)
    BY <1>3 DEF ClosePlan, CoverInv, IInv, PlanningBudget, Shapes
  <2>2. ConflictOnlyAtLimit' /\ PlanCovers' /\ PlanCounts'
    BY <2>1 DEF ConflictOnlyAtLimit, PlanCovers, PlanCounts
  <2>3. QED BY <1>1, <1>3, <2>2, CloseCovers DEF CoverInv
<1>4. CASE SplitWorld
  <2>1. PlanCovers' /\ PlanCounts'
    BY <1>4 DEF SplitWorld, PlanCovers, PlanCounts
  <2>2. QED BY <1>1, <1>4, <2>1, SplitCovers, LimitsKept DEF CoverInv
<1>5. CASE MaterializeWorld
  <2>1. PlanCovers' /\ PlanCounts'
    BY <1>5 DEF MaterializeWorld, PlanCovers, PlanCounts
  <2>2. QED BY <1>1, <1>5, <2>1, MaterializeCovers, LimitsKept DEF CoverInv
<1>6. CASE ReturnSuite
  <2>1. /\ UNCHANGED <<pair, placed, pending, done, serial, uncovered>>
        /\ pc = "materialize" /\ pc' = "returned"
    BY <1>6 DEF ReturnSuite
  <2>2. QED
    BY <1>1, <2>1
    DEF CoverInv, PlanCovers, PlanCounts, NothingLost, ConflictOnlyAtLimit, Worlds,
        Obligation, Conflicting, Refused, SameCell
<1>7. CASE UNCHANGED vars
  BY <1>1, <1>7
  DEF vars, CoverInv, PlanCovers, PlanCounts, NothingLost, ConflictOnlyAtLimit, Worlds,
      Obligation, IsolatedLimit, Conflicting, Refused, SameCell
<1>8. QED BY <1>2, <1>3, <1>4, <1>5, <1>6, <1>7 DEF Next

\* Splitting and a short budget lose no obligation: each stays at stake in some
\* world, unless max_worlds is one.
THEOREM ObligationsStayAtStake == Spec => []NothingLost
<1>1. CoverInv => NothingLost
  BY DEF CoverInv
<1>2. QED BY InitCoverInv, NextCoverInv, <1>1, PTL DEF Spec

\* A conflict is left in a world only when the budget is used up, and is then
\* reported.
THEOREM ConflictsOnlyAtLimit == Spec => []ConflictOnlyAtLimit
<1>1. CoverInv => ConflictOnlyAtLimit
  BY DEF CoverInv
<1>2. QED BY InitCoverInv, NextCoverInv, <1>1, PTL DEF Spec

----------------------------------------------------------------------------
(* How the two lists of worlds change in a step of the splitting loop *)

\* The sides of a split stand for the world at the front, one of them under its
\* id, the other under a new one.
LEMMA SplitShape ==
  ASSUME IInv, SplitWorld
  PROVE  \E i, j \in pending[1].obligations :
           /\ i # j
           /\ pending'[1] = Side(pending[1], pending[1].id, i, j)
           /\ pending'[2] = Side(pending[1], RightId(pending[1]), j, i)
           /\ DOMAIN pending' = 1 .. (Len(pending) + 1)
           /\ Len(pending) \in Nat \ {0} /\ DOMAIN pending = 1 .. Len(pending)
           /\ \A n \in DOMAIN pending' : n > 2 => pending'[n] = pending[n - 1]
<1> DEFINE world == Head(pending)
<1>1. pending \in Seq(WorldRecord) /\ pending # <<>>
  BY DEF IInv, Shapes, SplitWorld
<1>2. /\ Len(pending) \in Nat \ {0} /\ DOMAIN pending = 1 .. Len(pending)
      /\ world = pending[1] /\ Len(Tail(pending)) = Len(pending) - 1
      /\ Tail(pending) \in Seq(WorldRecord)
      /\ \A m \in 1 .. Len(Tail(pending)) : Tail(pending)[m] = pending[m + 1]
  BY <1>1
<1>3. PICK i, j \in world.obligations :
        /\ IsConflict(world.obligations, i, j)
        /\ pending' = <<Side(world, world.id, i, j),
                        Side(world, RightId(world), j, i)>> \o Tail(pending)
  BY DEF SplitWorld
<1>4. i # j
  <2>1. pair.count \in Nat
    BY DEF IInv, Shapes, IsPair
  <2>2. world \in WorldRecord
    BY <1>1, <1>2
  <2>3. world.obligations \subseteq 1 .. pair.count
    BY <2>2 DEF WorldRecord, Obligation
  <2>4. i < j
    BY <1>3 DEF IsConflict
  <2>5. QED BY <2>1, <2>3, <2>4
<1> DEFINE left == Side(world, world.id, i, j)
           right == Side(world, RightId(world), j, i)
<1>5. pending' = <<left, right>> \o Tail(pending)
  BY <1>3
<1> HIDE DEF left, right
<1>6. /\ DOMAIN pending' = 1 .. (Len(pending) + 1)
      /\ pending'[1] = left /\ pending'[2] = right
      /\ \A n \in DOMAIN pending' : n > 2 => pending'[n] = Tail(pending)[n - 2]
  <2> HIDE DEF world
  <2>1. QED BY <1>2, <1>5
<1>7. \A n \in DOMAIN pending' : n > 2 => pending'[n] = pending[n - 1]
  BY <1>2, <1>6
<1>8. QED BY <1>2, <1>4, <1>6, <1>7 DEF left, right

\* The world at the front goes to the end of the finished ones.
LEMMA MaterializeShape ==
  ASSUME IInv, MaterializeWorld
  PROVE  /\ Len(done) \in Nat /\ Len(pending) \in Nat \ {0}
         /\ DOMAIN done = 1 .. Len(done) /\ DOMAIN pending = 1 .. Len(pending)
         /\ DOMAIN done' = 1 .. (Len(done) + 1) /\ DOMAIN pending' = 1 .. (Len(pending) - 1)
         /\ \A n \in DOMAIN done : done'[n] = done[n]
         /\ \A n \in DOMAIN pending' : pending'[n] = pending[n + 1]
         /\ done'[Len(done) + 1] =
              [pending[1] EXCEPT !.limited = Conflicting(pending[1].obligations)]
<1> DEFINE world == Head(pending)
           kept == [world EXCEPT !.limited = Conflicting(world.obligations)]
<1>1. /\ pending \in Seq(WorldRecord) /\ pending # <<>> /\ done \in Seq(WorldRecord)
      /\ pending' = Tail(pending) /\ done' = Append(done, kept)
  BY DEF IInv, Shapes, MaterializeWorld
<1>2. world = pending[1]
  BY <1>1
<1> HIDE DEF kept, world
<1>3. QED BY <1>1, <1>2 DEF kept

----------------------------------------------------------------------------
(* Ids *)

\* The ids of the two lists are different, within each and between them.
IdsApart ==
  /\ \A m, n \in DOMAIN done : done[m].id = done[n].id => m = n
  /\ \A m, n \in DOMAIN pending : pending[m].id = pending[n].id => m = n
  /\ \A m \in DOMAIN done, n \in DOMAIN pending : done[m].id # pending[n].id

\* A planned world has a one-part id; the last part of a longer one is the
\* serial of a split that has already happened.
IdsFromPast ==
  \A world \in Worlds : Len(world.id) > 1 => world.id[Len(world.id)] <= serial

\* While planning, a world is numbered by its place.
PlannedIds == pc = "plan" => \A n \in DOMAIN pending : pending[n].id = <<n>>

IdInv == IInv /\ IdsApart /\ IdsFromPast /\ PlannedIds

LEMMA ApartDistinct == IInv /\ IdsApart => IdsDistinct
<1> SUFFICES ASSUME IInv, IdsApart PROVE IdsDistinct
  OBVIOUS
<1> DEFINE all == done \o pending
<1>1. pending \in Seq(WorldRecord) /\ done \in Seq(WorldRecord)
  BY DEF IInv, Shapes
<1>2. /\ DOMAIN all = 1 .. (Len(done) + Len(pending)) /\ Len(done) \in Nat /\ Len(pending) \in Nat
      /\ DOMAIN done = 1 .. Len(done) /\ DOMAIN pending = 1 .. Len(pending)
      /\ \A n \in DOMAIN all : all[n] = IF n <= Len(done) THEN done[n] ELSE pending[n - Len(done)]
  BY <1>1
<1> HIDE DEF all
<1>3. ASSUME NEW m \in DOMAIN all, NEW n \in DOMAIN all, all[m].id = all[n].id PROVE m = n
  <2>1. CASE m <= Len(done) /\ n <= Len(done)
    BY <1>2, <1>3, <2>1 DEF IdsApart
  <2>2. CASE m > Len(done) /\ n > Len(done)
    <3>1. m - Len(done) \in DOMAIN pending /\ n - Len(done) \in DOMAIN pending
      BY <1>2, <2>2
    <3>2. m - Len(done) = n - Len(done)
      BY <1>2, <1>3, <2>2, <3>1 DEF IdsApart
    <3>3. QED BY <1>2, <3>2
  <2>3. CASE m <= Len(done) /\ n > Len(done)
    BY <1>2, <1>3, <2>3 DEF IdsApart
  <2>4. CASE m > Len(done) /\ n <= Len(done)
    BY <1>2, <1>3, <2>4 DEF IdsApart
  <2>5. QED BY <1>2, <2>1, <2>2, <2>3, <2>4
<1>4. QED BY <1>3 DEF IdsDistinct, all

\* In planning the ids of the worlds placed so far are their places.
LEMMA PlanIds ==
  ASSUME IInv, IdInv, pc = "plan", NEW new, new.id = <<Len(pending) + 1>>,
         pending' = Append(pending, new), done' = done, serial' = serial
  PROVE  /\ IdsApart' /\ IdsFromPast'
         /\ \A n \in DOMAIN pending' : pending'[n].id = <<n>>
<1>1. /\ pending \in Seq(WorldRecord) /\ done \in Seq(WorldRecord) /\ Len(done) = 0
      /\ \A n \in DOMAIN pending : pending[n].id = <<n>>
  BY DEF IInv, IdInv, Shapes, PlanningBudget, PlannedIds
<1>2. DOMAIN done' = {} /\ Len(pending) \in Nat /\ DOMAIN pending = 1 .. Len(pending)
  BY <1>1
<1>3. DOMAIN pending' = 1 .. (Len(pending) + 1)
  BY <1>1
<1>4. \A n \in DOMAIN pending' : pending'[n] = IF n = Len(pending) + 1 THEN new ELSE pending[n]
  BY <1>1
<1>5. \A n \in DOMAIN pending' : pending'[n].id = <<n>>
  BY <1>1, <1>2, <1>3, <1>4
<1>6. IdsApart'
  BY <1>2, <1>5 DEF IdsApart
<1>7. \A n \in DOMAIN pending' : Len(pending'[n].id) = 1
  <2>1. \A n : Len(<<n>>) = 1
    OBVIOUS
  <2>2. QED BY <1>5, <2>1
<1>8. \A world \in Worlds' : Len(world.id) = 1
  BY <1>2, <1>7 DEF Worlds
<1>9. QED BY <1>5, <1>6, <1>8 DEF IdsFromPast

LEMMA PlaceIds == IdInv /\ PlaceObligation => IdInv'
<1> SUFFICES ASSUME IdInv, PlaceObligation PROVE IdInv'
  OBVIOUS
<1>1. IInv /\ IInv'
  BY PlaceKeeps DEF IdInv
<1>2. pc = "plan" /\ done' = done /\ serial' = serial
  BY DEF PlaceObligation
<1> DEFINE o == pair.order[placed + 1]
           new == World(<<Len(pending) + 1>>, {o}, PinOf(o), FALSE)
<1>3. CASE Len(pending) < IsolatedLimit
  <2>1. pending' = Append(pending, new) /\ new.id = <<Len(pending) + 1>>
    BY <1>3 DEF PlaceObligation, World
  <2> HIDE DEF new
  <2>2. QED BY <1>1, <1>2, <2>1, PlanIds DEF IdInv, PlannedIds
<1>4. CASE ~(Len(pending) < IsolatedLimit)
  <2>1. pending' = pending /\ pc' = pc
    BY <1>4 DEF PlaceObligation
  <2>2. QED BY <1>1, <1>2, <2>1 DEF IdInv, IdsApart, IdsFromPast, PlannedIds, Worlds
<1>5. QED BY <1>3, <1>4

LEMMA CloseIds == IdInv /\ ClosePlan => IdInv'
<1> SUFFICES ASSUME IdInv, ClosePlan PROVE IdInv'
  OBVIOUS
<1>1. IInv /\ IInv'
  BY CloseKeeps DEF IdInv
<1>2. pc = "plan" /\ pc' = "materialize" /\ done' = done /\ serial' = serial
  BY DEF ClosePlan
<1>3. CASE pair.count = 0
  <2>1. pending' = <<BaseWorld>> /\ Len(done) = 0 /\ done \in Seq(WorldRecord)
    BY <1>1, <1>2, <1>3 DEF ClosePlan, IInv, Shapes, PlanningBudget
  <2>2. DOMAIN done' = {} /\ DOMAIN pending' = {1} /\ pending'[1] = BaseWorld
    BY <1>2, <2>1
  <2>3. BaseWorld.id = <<1>>
    BY DEF BaseWorld, World
  <2>4. \A n \in DOMAIN pending' : Len(pending'[n].id) = 1
    BY <2>2, <2>3
  <2>5. \A world \in Worlds' : Len(world.id) = 1
    BY <2>2, <2>4 DEF Worlds
  <2>6. QED BY <1>1, <1>2, <2>2, <2>5 DEF IdInv, IdsApart, IdsFromPast, PlannedIds
<1>4. CASE pair.count # 0 /\ pair.count > 1 /\ Len(pending) < pair.limit
  <2>1. pending' = Append(pending, Composite) /\ Composite.id = <<Len(pending) + 1>>
    BY <1>4 DEF ClosePlan, Composite, World
  <2> HIDE DEF Composite
  <2>2. QED BY <1>1, <1>2, <2>1, PlanIds DEF IdInv, PlannedIds
<1>5. CASE pair.count # 0 /\ ~(pair.count > 1 /\ Len(pending) < pair.limit)
  <2>1. pending' = pending
    BY <1>5 DEF ClosePlan
  <2>2. QED BY <1>1, <1>2, <2>1 DEF IdInv, IdsApart, IdsFromPast, PlannedIds, Worlds
<1>6. QED BY <1>3, <1>4, <1>5

\* The incoming side's id ends in a serial no id has ended in before.
LEMMA SplitIds == IdInv /\ SplitWorld => IdInv'
<1> SUFFICES ASSUME IdInv, SplitWorld PROVE IdInv'
  OBVIOUS
<1>1. IInv /\ IInv'
  BY SplitKeeps DEF IdInv
<1>2. /\ pc = "materialize" /\ pc' = pc /\ done' = done /\ serial' = serial + 1 /\ serial \in Nat
      /\ pending \in Seq(WorldRecord) /\ done \in Seq(WorldRecord)
  BY <1>1 DEF SplitWorld, IInv, Shapes
<1>3. PICK i, j \in pending[1].obligations :
        /\ pending'[1] = Side(pending[1], pending[1].id, i, j)
        /\ pending'[2] = Side(pending[1], RightId(pending[1]), j, i)
        /\ DOMAIN pending' = 1 .. (Len(pending) + 1)
        /\ Len(pending) \in Nat \ {0} /\ DOMAIN pending = 1 .. Len(pending)
        /\ \A n \in DOMAIN pending' : n > 2 => pending'[n] = pending[n - 1]
  BY <1>1, SplitShape
<1> DEFINE new == RightId(pending[1])
<1>4. pending'[1].id = pending[1].id /\ pending'[2].id = new
  BY <1>3 DEF Side
<1>5. 1 \in DOMAIN pending /\ pending[1] \in WorldRecord /\ pending[1].id \in Seq(Nat) /\ pending[1].id # <<>>
  <2>1. 1 \in DOMAIN pending /\ pending[1] \in WorldRecord
    BY <1>2, <1>3
  <2>2. pending[1] \in Worlds
    BY <2>1 DEF Worlds
  <2>3. QED BY <1>1, <2>1, <2>2 DEF IInv, Sound, WorldRecord
<1>6. Len(new) > 1 /\ new[Len(new)] = serial + 1
  BY <1>2, <1>5 DEF RightId
<1> HIDE DEF new
<1>7. \A world \in Worlds : world.id # new
  BY <1>2, <1>6 DEF IdInv, IdsFromPast
<1>8. \A n \in DOMAIN pending : pending[n].id # new
  BY <1>7 DEF Worlds
<1>9. \A n \in DOMAIN done : done[n].id # new
  BY <1>7 DEF Worlds
<1> DEFINE old(n) == IF n = 1 THEN 1 ELSE n - 1
<1>10. \A n \in DOMAIN pending' : n # 2 => old(n) \in DOMAIN pending /\ pending'[n].id = pending[old(n)].id
  BY <1>3, <1>4
<1>11. \A m, n \in DOMAIN pending' : m # 2 /\ n # 2 /\ old(m) = old(n) => m = n
  BY <1>3
<1> HIDE DEF old
<1>12. \A m, n \in DOMAIN pending' : pending'[m].id = pending'[n].id => m = n
  BY <1>4, <1>8, <1>10, <1>11 DEF IdInv, IdsApart
<1>13. \A m \in DOMAIN done', n \in DOMAIN pending' : done'[m].id # pending'[n].id
  BY <1>2, <1>4, <1>9, <1>10 DEF IdInv, IdsApart
<1>14. IdsApart'
  BY <1>2, <1>12, <1>13 DEF IdInv, IdsApart
<1>15. \A x \in Worlds' : x.id = new \/ \E y \in Worlds : x.id = y.id
  <2>1. \A n \in DOMAIN pending' : pending'[n].id = new \/ \E y \in Worlds : pending'[n].id = y.id
    BY <1>4, <1>10 DEF Worlds
  <2>2. QED BY <1>2, <2>1 DEF Worlds
<1>16. ASSUME NEW x \in Worlds', Len(x.id) > 1 PROVE x.id[Len(x.id)] <= serial + 1
  <2>1. CASE x.id = new
    BY <1>2, <1>6, <2>1
  <2>2. CASE \E y \in Worlds : x.id = y.id
    <3>1. PICK y \in Worlds : x.id = y.id
      BY <2>2
    <3>2. y \in WorldRecord
      BY <1>2 DEF Worlds
    <3>3. y.id \in Seq(Nat) /\ y.id[Len(y.id)] <= serial
      BY <1>16, <3>1, <3>2 DEF IdInv, IdsFromPast, WorldRecord
    <3>4. y.id[Len(y.id)] \in Nat
      BY <1>16, <3>1, <3>3
    <3>5. QED BY <1>2, <3>1, <3>3, <3>4
  <2>3. QED BY <1>15, <2>1, <2>2
<1>17. QED BY <1>1, <1>2, <1>14, <1>16 DEF IdInv, IdsFromPast, PlannedIds

LEMMA MaterializeIds == IdInv /\ MaterializeWorld => IdInv'
<1> SUFFICES ASSUME IdInv, MaterializeWorld PROVE IdInv'
  OBVIOUS
<1>1. IInv /\ IInv'
  BY MaterializeKeeps DEF IdInv
<1>2. pc = "materialize" /\ pc' = pc /\ serial' = serial /\ pending \in Seq(WorldRecord)
  BY <1>1 DEF MaterializeWorld, IInv, Shapes
<1>3. /\ Len(done) \in Nat /\ Len(pending) \in Nat \ {0}
      /\ DOMAIN done = 1 .. Len(done) /\ DOMAIN pending = 1 .. Len(pending)
      /\ DOMAIN done' = 1 .. (Len(done) + 1) /\ DOMAIN pending' = 1 .. (Len(pending) - 1)
      /\ \A n \in DOMAIN done : done'[n] = done[n]
      /\ \A n \in DOMAIN pending' : pending'[n] = pending[n + 1]
      /\ done'[Len(done) + 1] =
           [pending[1] EXCEPT !.limited = Conflicting(pending[1].obligations)]
  BY <1>1, MaterializeShape
<1>4. 1 \in DOMAIN pending /\ pending[1] \in WorldRecord
  BY <1>2, <1>3
<1>5. done'[Len(done) + 1].id = pending[1].id
  BY <1>3, <1>4 DEF WorldRecord
<1>6. \A n \in DOMAIN done' :
        \/ n \in DOMAIN done /\ done'[n].id = done[n].id
        \/ n = Len(done) + 1 /\ n \notin DOMAIN done /\ done'[n].id = pending[1].id
  <2> SUFFICES ASSUME NEW n \in DOMAIN done'
               PROVE  \/ n \in DOMAIN done /\ done'[n].id = done[n].id
                      \/ n = Len(done) + 1 /\ n \notin DOMAIN done /\ done'[n].id = pending[1].id
    OBVIOUS
  <2>1. n \in DOMAIN done \/ (n = Len(done) + 1 /\ n \notin DOMAIN done)
    BY <1>3
  <2>2. CASE n \in DOMAIN done
    BY <1>3, <2>2
  <2>3. CASE n = Len(done) + 1 /\ n \notin DOMAIN done
    BY <1>5, <2>3
  <2>4. QED BY <2>1, <2>2, <2>3
<1>7. \A n \in DOMAIN pending' :
        n + 1 \in DOMAIN pending /\ n + 1 # 1 /\ pending'[n].id = pending[n + 1].id
  BY <1>3
<1>8. \A m, n \in DOMAIN done' : done'[m].id = done'[n].id => m = n
  BY <1>4, <1>6 DEF IdInv, IdsApart
<1>9. \A m, n \in DOMAIN pending' : pending'[m].id = pending'[n].id => m = n
  <2> SUFFICES ASSUME NEW m \in DOMAIN pending', NEW n \in DOMAIN pending', pending'[m].id = pending'[n].id
               PROVE  m = n
    OBVIOUS
  <2>1. m + 1 = n + 1
    BY <1>3, <1>7 DEF IdInv, IdsApart
  <2>2. QED BY <1>3, <2>1
<1>10. \A m \in DOMAIN done', n \in DOMAIN pending' : done'[m].id # pending'[n].id
  BY <1>4, <1>6, <1>7 DEF IdInv, IdsApart
<1>11. \A x \in Worlds' : \E y \in Worlds : x.id = y.id
  <2>1. \A n \in DOMAIN done' : \E y \in Worlds : done'[n].id = y.id
    BY <1>4, <1>6 DEF Worlds
  <2>2. \A n \in DOMAIN pending' : \E y \in Worlds : pending'[n].id = y.id
    BY <1>7 DEF Worlds
  <2>3. QED BY <2>1, <2>2 DEF Worlds
<1>12. IdsFromPast'
  BY <1>2, <1>11 DEF IdInv, IdsFromPast
<1>13. QED BY <1>1, <1>2, <1>8, <1>9, <1>10, <1>12 DEF IdInv, IdsApart, PlannedIds

\* Mutation evidence, attempts and the selected witness are looked up by world
\* id: generate_witness_suite never gives one id to two worlds, however often it
\* splits sides of sides.
THEOREM WorldIdsDistinct == Spec => []IdsDistinct
<1>1. Init => IdInv
  <2> SUFFICES ASSUME Init PROVE IdInv
    OBVIOUS
  <2>1. DOMAIN pending = {} /\ DOMAIN done = {}
    BY DEF Init
  <2>2. QED BY <2>1, InitIInv DEF IdInv, IdsApart, IdsFromPast, PlannedIds, Worlds
<1>2. IdInv /\ [Next]_vars => IdInv'
  <2> SUFFICES ASSUME IdInv, [Next]_vars PROVE IdInv'
    OBVIOUS
  <2>1. IInv'
    BY NextIInv DEF IdInv
  <2>2. CASE ReturnSuite
    BY <2>1, <2>2 DEF ReturnSuite, IdInv, IdsApart, IdsFromPast, PlannedIds, Worlds
  <2>3. CASE UNCHANGED vars
    BY <2>1, <2>3 DEF vars, IdInv, IdsApart, IdsFromPast, PlannedIds, Worlds
  <2>4. QED BY <2>2, <2>3, PlaceIds, CloseIds, SplitIds, MaterializeIds DEF Next
<1>3. IdInv => IdsDistinct
  BY ApartDistinct DEF IdInv
<1>4. QED BY <1>1, <1>2, <1>3, PTL DEF Spec

----------------------------------------------------------------------------
(* Isolation *)

\* The world in which one obligation is alone at stake.
Isolates(world, o) ==
  world.obligations = {o} /\ world.pins = PinOf(o) /\ ~world.composite

\* A step that adds an obligation to the placed ones isolates it or reports it,
\* and takes no isolated world away.
LEMMA IsolationStep ==
  ASSUME IsPair(pair), pair' = pair, IsolationKept, uncovered \subseteq uncovered',
         placed \in Nat,
         \/ placed' = placed
         \/ /\ placed' = placed + 1
            /\ LET o == pair.order[placed + 1]
               IN o \in uncovered' \/ \E world \in Worlds' : Isolates(world, o),
         \A o : \A world \in Worlds : Isolates(world, o) => \E kept \in Worlds' : Isolates(kept, o)
  PROVE  IsolationKept'
<1>1. \A o : PinOf(o)' = PinOf(o)
  BY DEF PinOf
<1>2. ASSUME NEW n \in 1 .. placed'
      PROVE  \/ pair.order[n] \in uncovered'
             \/ \E world \in Worlds' : Isolates(world, pair.order[n])
  <2>1. CASE n \in 1 .. placed
    <3> DEFINE o == pair.order[n]
    <3>1. o \in uncovered \/ \E world \in Worlds : Isolates(world, o)
      BY <2>1 DEF IsolationKept, Isolates
    <3> HIDE DEF o
    <3>2. o \in uncovered' \/ \E world \in Worlds' : Isolates(world, o)
      BY <3>1
    <3>3. QED BY <3>2 DEF o
  <2>2. CASE n \notin 1 .. placed
    <3>1. placed' = placed + 1 /\ n = placed + 1
      BY <1>2, <2>2
    <3>2. QED BY <3>1
  <2>3. QED BY <2>1, <2>2
<1>3. QED BY <1>1, <1>2 DEF IsolationKept, Isolates

LEMMA PlaceIsolates == IInv /\ IsolationKept /\ PlaceObligation => IsolationKept'
<1> SUFFICES ASSUME IInv, IsolationKept, PlaceObligation PROVE IsolationKept'
  OBVIOUS
<1> DEFINE o == pair.order[placed + 1]
           new == World(<<Len(pending) + 1>>, {o}, PinOf(o), FALSE)
<1>1. /\ IsPair(pair) /\ pair' = pair /\ placed' = placed + 1 /\ done' = done
      /\ pending \in Seq(WorldRecord) /\ placed \in Nat
  BY DEF IInv, Shapes, PlaceObligation, IsPair
<1>2. uncovered \subseteq uncovered'
  BY DEF PlaceObligation
<1>3. CASE Len(pending) < IsolatedLimit
  <2>1. pending' = Append(pending, new) /\ Isolates(new, o)
    BY <1>3 DEF PlaceObligation, World, Isolates
  <2> HIDE DEF new, o
  <2>2. /\ Len(pending) + 1 \in DOMAIN pending' /\ pending'[Len(pending) + 1] = new
        /\ \A n \in DOMAIN pending : n \in DOMAIN pending' /\ pending'[n] = pending[n]
    BY <1>1, <2>1
  <2>3. new \in Worlds' /\ Worlds \subseteq Worlds'
    BY <1>1, <2>2 DEF Worlds
  <2>4. QED BY <1>1, <1>2, <2>1, <2>3, IsolationStep DEF o
<1>4. CASE ~(Len(pending) < IsolatedLimit)
  <2>1. o \in uncovered' /\ Worlds' = Worlds
    BY <1>1, <1>4 DEF PlaceObligation, Worlds
  <2>2. QED BY <1>1, <1>2, <2>1, IsolationStep
<1>5. QED BY <1>3, <1>4

LEMMA CloseIsolates == IInv /\ IsolationKept /\ ClosePlan => IsolationKept'
<1> SUFFICES ASSUME IInv, IsolationKept, ClosePlan PROVE IsolationKept'
  OBVIOUS
<1>1. /\ IsPair(pair) /\ pair' = pair /\ placed' = placed /\ done' = done
      /\ pending \in Seq(WorldRecord) /\ uncovered' = uncovered /\ placed \in Nat
  BY DEF IInv, Shapes, ClosePlan
<1>2. CASE pair.count = 0
  <2>1. placed' = 0
    BY <1>2 DEF ClosePlan
  <2>2. QED BY <2>1 DEF IsolationKept
<1>3. CASE pair.count # 0
  <2>1. pending' = pending \/ \E new : pending' = Append(pending, new)
    BY <1>3 DEF ClosePlan
  <2>2. \A n \in DOMAIN pending : n \in DOMAIN pending' /\ pending'[n] = pending[n]
    BY <1>1, <2>1
  <2>3. Worlds \subseteq Worlds'
    BY <1>1, <2>2 DEF Worlds
  <2>4. QED BY <1>1, <2>3, IsolationStep
<1>4. QED BY <1>2, <1>3

\* A world with one obligation has no conflict, so it is never the one split.
LEMMA SplitIsolates == IInv /\ IsolationKept /\ SplitWorld => IsolationKept'
<1> SUFFICES ASSUME IInv, IsolationKept, SplitWorld PROVE IsolationKept'
  OBVIOUS
<1>1. /\ IsPair(pair) /\ pair' = pair /\ placed' = placed /\ done' = done
      /\ uncovered' = uncovered /\ placed \in Nat
  BY DEF IInv, Shapes, SplitWorld
<1>2. PICK i, j \in pending[1].obligations :
        /\ i # j
        /\ DOMAIN pending' = 1 .. (Len(pending) + 1)
        /\ Len(pending) \in Nat \ {0} /\ DOMAIN pending = 1 .. Len(pending)
        /\ \A n \in DOMAIN pending' : n > 2 => pending'[n] = pending[n - 1]
  BY SplitShape
<1>3. ASSUME NEW o, NEW n \in DOMAIN pending, Isolates(pending[n], o)
      PROVE  n + 1 \in DOMAIN pending' /\ pending'[n + 1] = pending[n]
  <2>1. n # 1
    BY <1>2, <1>3 DEF Isolates
  <2>2. n \in Nat /\ n > 1 /\ n + 1 \in DOMAIN pending' /\ n + 1 > 2 /\ (n + 1) - 1 = n
    BY <1>2, <2>1
  <2>3. QED BY <1>2, <2>2
<1>4. \A o : \A world \in Worlds : Isolates(world, o) => world \in Worlds'
  BY <1>1, <1>3 DEF Worlds
<1>5. QED BY <1>1, <1>4, IsolationStep

LEMMA MaterializeIsolates == IInv /\ IsolationKept /\ MaterializeWorld => IsolationKept'
<1> SUFFICES ASSUME IInv, IsolationKept, MaterializeWorld PROVE IsolationKept'
  OBVIOUS
<1>1. /\ IsPair(pair) /\ pair' = pair /\ placed' = placed
      /\ uncovered' = uncovered /\ placed \in Nat /\ pending \in Seq(WorldRecord)
  BY DEF IInv, Shapes, MaterializeWorld
<1>2. /\ Len(done) \in Nat /\ Len(pending) \in Nat \ {0}
      /\ DOMAIN done = 1 .. Len(done) /\ DOMAIN pending = 1 .. Len(pending)
      /\ DOMAIN done' = 1 .. (Len(done) + 1) /\ DOMAIN pending' = 1 .. (Len(pending) - 1)
      /\ \A n \in DOMAIN done : done'[n] = done[n]
      /\ \A n \in DOMAIN pending' : pending'[n] = pending[n + 1]
      /\ done'[Len(done) + 1] =
           [pending[1] EXCEPT !.limited = Conflicting(pending[1].obligations)]
  BY MaterializeShape
<1>3. ASSUME NEW o, NEW n \in DOMAIN pending, Isolates(pending[n], o)
      PROVE  \E kept \in Worlds' : Isolates(kept, o)
  <2>1. CASE n = 1
    <3>1. pending[1] \in WorldRecord
      BY <1>1, <1>3, <2>1
    <3>2. Isolates(done'[Len(done) + 1], o)
      BY <1>2, <1>3, <2>1, <3>1 DEF Isolates, WorldRecord
    <3>3. Len(done) + 1 \in DOMAIN done'
      BY <1>2
    <3>4. QED BY <3>2, <3>3 DEF Worlds
  <2>2. CASE n # 1
    <3>1. n - 1 \in DOMAIN pending' /\ (n - 1) + 1 = n
      BY <1>2, <2>2
    <3>2. pending'[n - 1] = pending[n]
      BY <1>2, <3>1
    <3>3. QED BY <1>3, <3>1, <3>2 DEF Worlds
  <2>3. QED BY <2>1, <2>2
<1>4. ASSUME NEW n \in DOMAIN done PROVE done[n] \in Worlds'
  <2>1. n \in DOMAIN done' /\ done'[n] = done[n]
    BY <1>2
  <2>2. QED BY <2>1 DEF Worlds
<1>5. \A o : \A world \in Worlds : Isolates(world, o) => \E kept \in Worlds' : Isolates(kept, o)
  BY <1>3, <1>4 DEF Worlds
<1>6. QED BY <1>1, <1>5, IsolationStep

\* WitnessPlanner gives a difference it covers a world of its own, and
\* split_world_on_conflict never takes that world away: the isolated witness of
\* one difference survives however many conflicts the others cause.
THEOREM IsolatedWorldsSurvive == Spec => []IsolationKept
<1>1. Init => IsolationKept
  <2>1. \A n : n \notin 1 .. 0
    OBVIOUS
  <2>2. QED BY <2>1 DEF Init, IsolationKept
<1>2. IInv /\ IsolationKept /\ [Next]_vars => IsolationKept'
  <2> SUFFICES ASSUME IInv, IsolationKept, [Next]_vars PROVE IsolationKept'
    OBVIOUS
  <2>1. CASE ReturnSuite \/ UNCHANGED vars
    <3>1. /\ pair' = pair /\ placed' = placed /\ uncovered' = uncovered
          /\ pending' = pending /\ done' = done
      BY <2>1 DEF ReturnSuite, vars
    <3>2. Worlds' = Worlds /\ IsPair(pair) /\ placed \in Nat
      BY <3>1 DEF Worlds, IInv, Shapes, IsPair
    <3>3. QED BY <3>1, <3>2, IsolationStep
  <2>2. QED
    BY <2>1, PlaceIsolates, CloseIsolates, SplitIsolates, MaterializeIsolates DEF Next
<1>3. QED BY <1>1, <1>2, InitIInv, NextIInv, PTL DEF Spec

----------------------------------------------------------------------------
(* What comparison_boundary declares *)

Pins == {Pin(o) : o \in Obligation}

Pinned(obligations, n) == {o \in obligations : o \in 1 .. n /\ pair.cell[o] # NoCell}

\* The pins of the obligations up to n, in increasing order.
Lists(d, obligations, n) ==
  /\ d \in Seq(Pins)
  /\ \A k \in DOMAIN d : d[k] = Pin(d[k].obligation) /\ d[k].obligation \in Pinned(obligations, n)
  /\ \A k, l \in DOMAIN d : k < l => d[k].obligation < d[l].obligation
  /\ \A o \in Pinned(obligations, n) : \E k \in DOMAIN d : d[k].obligation = o

\* The recursion of Declared.
Declares(g, obligations, N) ==
  g = [n \in 0 .. N |->
         IF n = 0 THEN <<>>
         ELSE IF n \in obligations /\ pair.cell[n] # NoCell
         THEN Append(g[n - 1], Pin(n))
         ELSE g[n - 1]]

LEMMA ListsOneMore ==
  ASSUME IsPair(pair), NEW obligations \in SUBSET Obligation, NEW n \in Nat, n < pair.count,
         NEW d, Lists(d, obligations, n)
  PROVE  Lists(IF n + 1 \in obligations /\ pair.cell[n + 1] # NoCell
               THEN Append(d, Pin(n + 1)) ELSE d, obligations, n + 1)
<1>1. n + 1 \in Obligation /\ pair.count \in Nat
  BY DEF Obligation, IsPair
<1>2. CASE n + 1 \in obligations /\ pair.cell[n + 1] # NoCell
  <2> DEFINE more == Append(d, Pin(n + 1))
  <2>1. d \in Seq(Pins) /\ Pin(n + 1) \in Pins /\ Pin(n + 1).obligation = n + 1
    BY <1>1 DEF Lists, Pins, Pin
  <2>2. Pinned(obligations, n + 1) = Pinned(obligations, n) \cup {n + 1}
    BY <1>2 DEF Pinned
  <2>3. /\ more \in Seq(Pins) /\ Len(d) \in Nat /\ DOMAIN d = 1 .. Len(d)
        /\ DOMAIN more = 1 .. (Len(d) + 1) /\ more[Len(d) + 1] = Pin(n + 1)
        /\ \A k \in DOMAIN d : more[k] = d[k]
    <3> DEFINE pin == Pin(n + 1)
    <3> HIDE DEF pin
    <3>1. pin \in Pins
      BY <2>1 DEF pin
    <3>2. QED BY <2>1, <3>1 DEF pin
  <2> HIDE DEF more
  <2>4. \A k \in DOMAIN more : k = Len(d) + 1 \/ k \in DOMAIN d
    BY <2>3
  <2>5. \A k \in DOMAIN more : more[k] = Pin(more[k].obligation) /\ more[k].obligation \in Pinned(obligations, n + 1)
    BY <2>1, <2>2, <2>3, <2>4 DEF Lists
  <2>6. ASSUME NEW k \in DOMAIN more, NEW l \in DOMAIN more, k < l
        PROVE  more[k].obligation < more[l].obligation
    <3>1. k \in DOMAIN d
      BY <2>3, <2>4, <2>6
    <3>2. more[k].obligation \in 1 .. n
      BY <2>3, <3>1 DEF Lists, Pinned
    <3>3. CASE l = Len(d) + 1
      BY <2>1, <2>3, <3>2, <3>3
    <3>4. CASE l \in DOMAIN d
      BY <2>3, <2>6, <3>1, <3>4 DEF Lists
    <3>5. QED BY <2>4, <3>3, <3>4
  <2>7. ASSUME NEW o \in Pinned(obligations, n + 1)
        PROVE  \E k \in DOMAIN more : more[k].obligation = o
    <3>1. CASE o = n + 1
      <4>1. Len(d) + 1 \in DOMAIN more
        BY <2>3
      <4>2. QED BY <2>1, <2>3, <3>1, <4>1
    <3>2. CASE o \in Pinned(obligations, n)
      <4>1. PICK k \in DOMAIN d : d[k].obligation = o
        BY <3>2 DEF Lists
      <4>2. k \in DOMAIN more
        BY <2>3
      <4>3. QED BY <2>3, <4>1, <4>2
    <3>3. QED BY <2>2, <2>7, <3>1, <3>2
  <2>8. Lists(more, obligations, n + 1)
    BY <2>3, <2>5, <2>6, <2>7 DEF Lists
  <2>9. QED BY <1>2, <2>8 DEF more
<1>3. CASE ~(n + 1 \in obligations /\ pair.cell[n + 1] # NoCell)
  <2>1. Pinned(obligations, n + 1) = Pinned(obligations, n)
    BY <1>3 DEF Pinned
  <2>2. QED BY <1>3, <2>1 DEF Lists
<1>4. QED BY <1>2, <1>3

LEMMA DeclaresExist ==
  ASSUME NEW obligations, NEW N \in Nat
  PROVE  \E g : Declares(g, obligations, N)
<1> DEFINE S == {m \in Nat : \E g : Declares(g, obligations, m)}
<1>1. 0 \in S
  <2> DEFINE g == [n \in 0 .. 0 |-> <<>>]
  <2>1. Declares(g, obligations, 0)
    BY DEF Declares
  <2>2. QED BY <2>1
<1>2. ASSUME NEW m \in Nat, m \in S PROVE m + 1 \in S
  <2>1. PICK g : Declares(g, obligations, m)
    BY <1>2
  <2> DEFINE last == IF m + 1 \in obligations /\ pair.cell[m + 1] # NoCell
                     THEN Append(g[m], Pin(m + 1)) ELSE g[m]
             h == [n \in 0 .. (m + 1) |-> IF n = m + 1 THEN last ELSE g[n]]
  <2>2. (\A n \in 0 .. m : h[n] = g[n]) /\ h[m + 1] = last
    OBVIOUS
  <2>3. ASSUME NEW n \in 0 .. (m + 1)
        PROVE  h[n] = IF n = 0 THEN <<>>
                      ELSE IF n \in obligations /\ pair.cell[n] # NoCell
                      THEN Append(h[n - 1], Pin(n)) ELSE h[n - 1]
    <3>1. CASE n = m + 1
      <4>1. n - 1 = m /\ h[n - 1] = g[m] /\ n # 0
        BY <2>2, <3>1
      <4> HIDE DEF h
      <4>2. QED BY <2>2, <3>1, <4>1
    <3>2. CASE n # m + 1
      <4>1. n \in 0 .. m
        BY <3>2
      <4>2. n # 0 => n - 1 \in 0 .. m
        BY <4>1
      <4>3. h[n] = g[n] /\ (n # 0 => h[n - 1] = g[n - 1])
        BY <2>2, <4>1, <4>2
      <4> HIDE DEF h
      <4>4. QED BY <2>1, <4>1, <4>3 DEF Declares
    <3>3. QED BY <3>1, <3>2
  <2>4. Declares(h, obligations, m + 1)
    <3>1. h = [n \in 0 .. (m + 1) |-> h[n]]
      OBVIOUS
    <3> HIDE DEF h
    <3>2. QED BY <2>3, <3>1 DEF Declares
  <2>5. QED BY <2>4
<1> HIDE DEF S
<1>3. N \in S
  BY <1>1, <1>2, SetInduction
<1>4. QED BY <1>3 DEF S

LEMMA DeclaredLists ==
  ASSUME IsPair(pair), NEW obligations \in SUBSET Obligation
  PROVE  Lists(Declared(obligations), obligations, pair.count)
<1> DEFINE f == CHOOSE g : Declares(g, obligations, pair.count)
<1>1. pair.count \in Nat
  BY DEF IsPair
<1>2. Declares(f, obligations, pair.count)
  BY <1>1, DeclaresExist
<1>3. Declared(obligations) = f[pair.count]
  BY DEF Declared, Declares
<1> HIDE DEF f
<1> DEFINE S == {n \in Nat : Lists(f[n], obligations, n)}
<1>4. 0 \in S
  <2>1. f[0] = <<>>
    BY <1>1, <1>2 DEF Declares
  <2>2. Pinned(obligations, 0) = {}
    BY DEF Pinned
  <2>3. <<>> \in Seq(Pins) /\ DOMAIN <<>> = {}
    OBVIOUS
  <2>4. Lists(f[0], obligations, 0)
    BY <2>1, <2>2, <2>3 DEF Lists
  <2>5. QED BY <2>4
<1>5. ASSUME NEW n \in Nat, n < pair.count, n \in S PROVE n + 1 \in S
  <2>1. f[n + 1] = IF n + 1 \in obligations /\ pair.cell[n + 1] # NoCell
                   THEN Append(f[n], Pin(n + 1)) ELSE f[n]
    <3>1. n + 1 \in 0 .. pair.count /\ n + 1 # 0 /\ (n + 1) - 1 = n
      BY <1>1, <1>5
    <3>2. QED BY <1>2, <3>1 DEF Declares
  <2>2. Lists(f[n + 1], obligations, n + 1)
    BY <1>5, <2>1, ListsOneMore
  <2>3. QED BY <2>2
<1> HIDE DEF S
<1>6. pair.count \in S
  BY <1>1, <1>4, <1>5, SetInductionTo
<1>7. QED BY <1>3, <1>6 DEF S

----------------------------------------------------------------------------
(* What a fresh ledger makes of boundaries of one priority *)

Boundaries(d) ==
  /\ Len(d) \in Nat
  /\ \A k \in 1 .. Len(d) : d[k].relation = "equals" /\ d[k].priority = 80 /\ d[k].value # Symbolic

Agree(d, n) == \A k, l \in 1 .. n : d[k].cell = d[l].cell => d[k].value = d[l].value

FirstWith(d, k, n) == \A l \in 1 .. n : d[l].cell = d[k].cell => k <= l

\* Every cell is owned by the first boundary declared for it.
FirstOwners(owned, d, n) ==
  /\ \A l \in 1 .. n : d[l].cell \in DOMAIN owned
  /\ \A cell \in DOMAIN owned : \E k \in 1 .. n :
       owned[cell] = d[k] /\ d[k].cell = cell /\ FirstWith(d, k, n)

\* The conflict is between the first boundary that clashes with an earlier one
\* and the first one declared for its cell.
FirstClash(conflicts, d, n) ==
  \E m \in 1 .. n : \E k \in 1 .. m - 1 :
    /\ conflicts = <<[existing |-> d[k], incoming |-> d[m]]>>
    /\ d[k].cell = d[m].cell /\ d[k].value # d[m].value
    /\ FirstWith(d, k, m - 1) /\ Agree(d, m - 1)

Sofar(tried, d, n) ==
  /\ tried = [owned |-> tried.owned, conflicts |-> tried.conflicts]
  /\ \/ tried.conflicts = <<>> /\ FirstOwners(tried.owned, d, n) /\ Agree(d, n)
     \/ FirstClash(tried.conflicts, d, n)

LEMMA NextBoundary ==
  ASSUME NEW d, Boundaries(d), NEW n \in Nat, n < Len(d), NEW ldg,
         ldg = [owned |-> ldg.owned, conflicts |-> <<>>],
         FirstOwners(ldg.owned, d, n), Agree(d, n)
  PROVE  Sofar(Add(ldg, d[n + 1]), d, n + 1)
<1> DEFINE c == d[n + 1]
<1>1. n + 1 \in 1 .. Len(d) /\ \A k \in 1 .. n : k \in 1 .. Len(d)
  BY DEF Boundaries
<1>2. c.relation = "equals" /\ c.priority = 80 /\ c.value # Symbolic
  BY <1>1 DEF Boundaries
<1>3. \A k \in 1 .. (n + 1) : k \in 1 .. n \/ k = n + 1
  OBVIOUS
<1>4. CASE c.cell \notin DOMAIN ldg.owned
  <2> DEFINE owned == Own(ldg.owned, c)
  <2>1. Add(ldg, c) = [owned |-> owned, conflicts |-> <<>>]
    <3>1. Add(ldg, c) = [ldg EXCEPT !.owned = owned]
      BY <1>4 DEF Add
    <3> HIDE DEF owned
    <3>2. QED BY <3>1
  <2>2. /\ DOMAIN owned = DOMAIN ldg.owned \cup {c.cell} /\ owned[c.cell] = c
        /\ \A cell \in DOMAIN ldg.owned : owned[cell] = ldg.owned[cell]
    BY <1>4 DEF Own
  <2> HIDE DEF owned
  <2>3. \A k \in 1 .. n : d[k].cell # c.cell
    BY <1>4 DEF FirstOwners
  <2>4. Agree(d, n + 1)
    BY <1>3, <2>3 DEF Agree
  <2>5. FirstWith(d, n + 1, n + 1)
    BY <1>3, <2>3 DEF FirstWith
  <2>6. \A k \in 1 .. n : FirstWith(d, k, n) => FirstWith(d, k, n + 1)
    BY <1>3, <2>3 DEF FirstWith
  <2>7. ASSUME NEW cell \in DOMAIN owned
        PROVE  \E k \in 1 .. (n + 1) :
                 owned[cell] = d[k] /\ d[k].cell = cell /\ FirstWith(d, k, n + 1)
    <3>1. CASE cell = c.cell
      <4>1. n + 1 \in 1 .. (n + 1)
        OBVIOUS
      <4>2. QED BY <2>2, <2>5, <3>1, <4>1
    <3>2. CASE cell \in DOMAIN ldg.owned
      <4>1. PICK k \in 1 .. n : ldg.owned[cell] = d[k] /\ d[k].cell = cell /\ FirstWith(d, k, n)
        BY <3>2 DEF FirstOwners
      <4>2. k \in 1 .. (n + 1) /\ FirstWith(d, k, n + 1) /\ owned[cell] = d[k]
        BY <2>2, <2>6, <3>2, <4>1
      <4>3. QED BY <4>1, <4>2
    <3>3. QED BY <2>2, <3>1, <3>2
  <2>8. \A l \in 1 .. (n + 1) : d[l].cell \in DOMAIN owned
    BY <1>3, <2>2 DEF FirstOwners
  <2>9. FirstOwners(owned, d, n + 1)
    BY <2>7, <2>8 DEF FirstOwners
  <2>10. QED BY <2>1, <2>4, <2>9 DEF Sofar
<1>5. CASE c.cell \in DOMAIN ldg.owned
  <2>1. PICK k \in 1 .. n : ldg.owned[c.cell] = d[k] /\ d[k].cell = c.cell /\ FirstWith(d, k, n)
    BY <1>5 DEF FirstOwners
  <2>2. d[k].relation = "equals" /\ d[k].priority = 80 /\ d[k].value # Symbolic
    BY <1>1 DEF Boundaries
  <2>3. CASE d[k].value = c.value
    <3>1. Add(ldg, c) = ldg
      BY <1>2, <1>5, <2>1, <2>2, <2>3 DEF Add, Compatible
    <3>2. Agree(d, n + 1)
      <4>1. \A q \in 1 .. n : d[q].cell = c.cell => d[q].value = c.value
        BY <2>1, <2>3 DEF Agree
      <4>2. QED BY <1>3, <4>1 DEF Agree
    <3>3. \A q \in 1 .. n : FirstWith(d, q, n) => FirstWith(d, q, n + 1)
      <4> SUFFICES ASSUME NEW q \in 1 .. n, FirstWith(d, q, n), NEW l \in 1 .. (n + 1),
                          d[l].cell = d[q].cell
                   PROVE  q <= l
        BY DEF FirstWith
      <4>1. CASE l \in 1 .. n
        BY <4>1 DEF FirstWith
      <4>2. CASE l = n + 1
        BY <4>2
      <4>3. QED BY <1>3, <4>1, <4>2
    <3>4. \A l \in 1 .. (n + 1) : d[l].cell \in DOMAIN ldg.owned
      BY <1>3, <1>5 DEF FirstOwners
    <3>5. ASSUME NEW cell \in DOMAIN ldg.owned
          PROVE  \E q \in 1 .. (n + 1) :
                   ldg.owned[cell] = d[q] /\ d[q].cell = cell /\ FirstWith(d, q, n + 1)
      <4>1. PICK q \in 1 .. n : ldg.owned[cell] = d[q] /\ d[q].cell = cell /\ FirstWith(d, q, n)
        BY DEF FirstOwners
      <4>2. q \in 1 .. (n + 1) /\ FirstWith(d, q, n + 1)
        BY <3>3, <4>1
      <4>3. QED BY <4>1, <4>2
    <3>6. FirstOwners(ldg.owned, d, n + 1)
      BY <3>4, <3>5 DEF FirstOwners
    <3>7. QED BY <3>1, <3>2, <3>6 DEF Sofar
  <2>4. CASE d[k].value # c.value
    <3>1. ~Compatible(d[k], c)
      BY <1>2, <2>2, <2>4 DEF Compatible
    <3> DEFINE conflict == [existing |-> d[k], incoming |-> c]
    <3>2. Add(ldg, c) = [ldg EXCEPT !.conflicts = Append(ldg.conflicts, conflict)]
      BY <1>5, <2>1, <3>1 DEF Add
    <3> HIDE DEF conflict
    <3>3. Append(ldg.conflicts, conflict) = <<conflict>>
      <4>1. ldg.conflicts = <<>>
        OBVIOUS
      <4>2. QED BY <4>1
    <3> DEFINE one == <<conflict>>
               o == ldg.owned
    <3>4. Add(ldg, c) = [ldg EXCEPT !.conflicts = one] /\ ldg = [owned |-> o, conflicts |-> <<>>]
      BY <3>2, <3>3
    <3>5. n + 1 \in 1 .. (n + 1) /\ k \in 1 .. (n + 1) - 1 /\ (n + 1) - 1 = n
      OBVIOUS
    <3>6. /\ Add(ldg, c).conflicts = one
          /\ Add(ldg, c) = [owned |-> Add(ldg, c).owned, conflicts |-> Add(ldg, c).conflicts]
      <4> HIDE DEF one, o
      <4>1. Add(ldg, c) = [owned |-> o, conflicts |-> one]
        BY <3>4
      <4>2. QED BY <4>1
    <3>7. FirstClash(one, d, n + 1)
      BY <2>1, <2>4, <3>5 DEF FirstClash, conflict
    <3>8. QED BY <3>6, <3>7 DEF Sofar
  <2>5. QED BY <2>3, <2>4
<1>6. QED BY <1>4, <1>5

LEMMA FreshLedger ==
  ASSUME NEW d, Boundaries(d)
  PROVE  LET conflicts == AddMany(EmptyLedger, d).conflicts
         IN \/ conflicts = <<>> /\ Agree(d, Len(d))
            \/ FirstClash(conflicts, d, Len(d))
<1>1. Len(d) \in Nat
  BY DEF Boundaries
<1>2. PICK g : Tries(g, EmptyLedger, d, Len(d)) /\ AddUntilConflict(EmptyLedger, d) = g[Len(d)]
  BY <1>1, TriedRecursion
<1>3. EmptyLedger.conflicts = <<>> /\ Len(EmptyLedger.conflicts) = 0
  BY DEF EmptyLedger
<1> DEFINE S == {n \in Nat : Sofar(g[n], d, n)}
<1>4. 0 \in S
  <2>1. g[0] = EmptyLedger
    BY <1>1, <1>2 DEF Tries
  <2>2. FirstOwners(<<>>, d, 0) /\ Agree(d, 0)
    <3>1. \A n : n \notin 1 .. 0
      OBVIOUS
    <3>2. DOMAIN <<>> = {}
      OBVIOUS
    <3>3. QED BY <3>1, <3>2 DEF FirstOwners, Agree
  <2>3. Sofar(g[0], d, 0)
    BY <2>1, <2>2 DEF Sofar, EmptyLedger
  <2>4. QED BY <2>3
<1>5. ASSUME NEW n \in Nat, n < Len(d), n \in S PROVE n + 1 \in S
  <2> SUFFICES Sofar(g[n + 1], d, n + 1)
    OBVIOUS
  <2>1. g[n + 1] = IF Len(g[n].conflicts) > 0 THEN g[n] ELSE Add(g[n], d[n + 1])
    <3>1. n + 1 \in 0 .. Len(d) /\ n + 1 # 0 /\ (n + 1) - 1 = n
      BY <1>1, <1>5
    <3>2. QED BY <1>2, <1>3, <3>1 DEF Tries
  <2>2. CASE g[n].conflicts = <<>> /\ FirstOwners(g[n].owned, d, n) /\ Agree(d, n)
    <3>1. Len(g[n].conflicts) = 0
      <4>1. g[n].conflicts = <<>>
        BY <2>2
      <4>2. QED BY <4>1
    <3>2. g[n + 1] = Add(g[n], d[n + 1])
      BY <2>1, <3>1
    <3>3. g[n] = [owned |-> g[n].owned, conflicts |-> <<>>]
      BY <1>5, <2>2 DEF Sofar
    <3>4. QED BY <1>5, <2>2, <3>2, <3>3, NextBoundary
  <2>3. CASE FirstClash(g[n].conflicts, d, n)
    <3>1. Len(g[n].conflicts) = 1
      <4>1. \E c : g[n].conflicts = <<c>>
        BY <2>3 DEF FirstClash
      <4>2. QED BY <4>1
    <3>2. g[n + 1] = g[n]
      BY <2>1, <3>1
    <3>3. \A m \in 1 .. n : m \in 1 .. (n + 1)
      OBVIOUS
    <3>4. FirstClash(g[n + 1].conflicts, d, n + 1)
      BY <2>3, <3>2, <3>3 DEF FirstClash
    <3>5. QED BY <1>5, <3>2, <3>4 DEF Sofar
  <2>4. QED BY <1>5, <2>2, <2>3 DEF Sofar
<1> HIDE DEF S
<1>6. Len(d) \in S
  <2>1. 0 .. Len(d) \subseteq S
    BY <1>1, <1>4, <1>5, SetInductionTo
  <2>2. QED BY <1>1, <2>1
<1> DEFINE tried == AddUntilConflict(EmptyLedger, d)
<1>7. Sofar(tried, d, Len(d))
  BY <1>2, <1>6 DEF S
<1>8. AddMany(EmptyLedger, d) = IF Len(tried.conflicts) > 0
                                THEN [tried EXCEPT !.owned = EmptyLedger.owned] ELSE tried
  BY <1>3 DEF AddMany
<1>9. AddMany(EmptyLedger, d).conflicts = tried.conflicts
  <2> HIDE DEF tried
  <2>1. tried = [owned |-> tried.owned, conflicts |-> tried.conflicts]
    BY <1>7 DEF Sofar
  <2>2. QED BY <1>8, <2>1
<1> HIDE DEF tried
<1>10. (tried.conflicts = <<>> /\ Agree(d, Len(d))) \/ FirstClash(tried.conflicts, d, Len(d))
  BY <1>7 DEF Sofar
<1>11. QED BY <1>9, <1>10

\* The obligations of a world and the boundaries declared for them clash in the
\* same place.
LEMMA ClashOfObligations ==
  ASSUME pair \in Pairs, NEW O \in SUBSET Obligation
  PROVE  LET conflicts == AddMany(EmptyLedger, Declared(O)).conflicts
         IN /\ Conflicting(O) <=> conflicts # <<>>
            /\ \A i, j \in O :
                 IsConflict(O, i, j) <=>
                   /\ conflicts # <<>>
                   /\ i = conflicts[1].existing.obligation
                   /\ j = conflicts[1].incoming.obligation
<1> DEFINE d == Declared(O)
           conflicts == AddMany(EmptyLedger, d).conflicts
<1>1. IsPair(pair) /\ pair.count \in Nat /\ O \subseteq 1 .. pair.count
  BY SuiteAssumption DEF IsPair, Obligation
<1>2. Lists(d, O, pair.count)
  BY <1>1, DeclaredLists
<1> HIDE DEF d
<1>3. Len(d) \in Nat /\ DOMAIN d = 1 .. Len(d)
  BY <1>2 DEF Lists
<1>4. \A k \in 1 .. Len(d) :
        /\ d[k].obligation \in O /\ pair.cell[d[k].obligation] # NoCell
        /\ d[k].cell = pair.cell[d[k].obligation] /\ d[k].value = pair.value[d[k].obligation]
        /\ d[k].relation = "equals" /\ d[k].priority = 80
  <2> SUFFICES ASSUME NEW k \in 1 .. Len(d)
               PROVE  /\ d[k].obligation \in O /\ pair.cell[d[k].obligation] # NoCell
                      /\ d[k].cell = pair.cell[d[k].obligation]
                      /\ d[k].value = pair.value[d[k].obligation]
                      /\ d[k].relation = "equals" /\ d[k].priority = 80
    OBVIOUS
  <2> DEFINE o == d[k].obligation
  <2>1. d[k] = Pin(o) /\ o \in Pinned(O, pair.count)
    BY <1>2, <1>3 DEF Lists
  <2> HIDE DEF o
  <2>2. /\ d[k].cell = pair.cell[o] /\ d[k].value = pair.value[o]
        /\ d[k].relation = "equals" /\ d[k].priority = 80
    BY <2>1 DEF Pin
  <2>3. o \in O /\ pair.cell[o] # NoCell
    BY <2>1 DEF Pinned
  <2>4. QED BY <2>2, <2>3 DEF o
<1>5. \A k, l \in 1 .. Len(d) : k < l => d[k].obligation < d[l].obligation
  BY <1>2, <1>3 DEF Lists
<1>6. ASSUME NEW o \in O, pair.cell[o] # NoCell PROVE \E k \in 1 .. Len(d) : d[k].obligation = o
  <2>1. o \in Pinned(O, pair.count)
    BY <1>1, <1>6 DEF Pinned
  <2>2. QED BY <1>2, <1>3, <2>1 DEF Lists
<1>7. Boundaries(d)
  <2>1. \A o \in O : pair.cell[o] # NoCell => pair.value[o] # Symbolic
    BY <1>1, ValuesAssumption
  <2>2. QED BY <1>3, <1>4, <2>1 DEF Boundaries
<1>8. (conflicts = <<>> /\ Agree(d, Len(d))) \/ FirstClash(conflicts, d, Len(d))
  BY <1>7, FreshLedger
<1> HIDE DEF conflicts
<1>9. ASSUME NEW n \in Nat, n <= Len(d), Agree(d, n),
             NEW o \in O, \A l \in 1 .. Len(d) : d[l].obligation = o => l <= n
      PROVE  ~Refused(O, o)
  <2> SUFFICES ASSUME NEW q \in O, q < o, SameCell(q, o), pair.value[q] # pair.value[o]
               PROVE  FALSE
    BY DEF Refused
  <2>1. pair.cell[q] # NoCell /\ pair.cell[o] # NoCell /\ pair.cell[q] = pair.cell[o]
    BY DEF SameCell
  <2>2. PICK k \in 1 .. Len(d) : d[k].obligation = q
    BY <1>6, <2>1
  <2>3. PICK l \in 1 .. Len(d) : d[l].obligation = o
    BY <1>6, <2>1
  <2>4. q \in Nat /\ o \in Nat
    BY <1>1
  <2>5. k < l
    <3>1. ~(l < k)
      BY <1>5, <2>2, <2>3, <2>4
    <3>2. k # l
      BY <2>2, <2>3, <2>4
    <3>3. QED BY <1>3, <3>1, <3>2
  <2>6. l <= n /\ k \in 1 .. n /\ l \in 1 .. n
    BY <1>9, <2>3, <2>5
  <2>7. d[k].cell = d[l].cell /\ d[k].value # d[l].value
    BY <1>4, <2>1, <2>2, <2>3
  <2>8. QED BY <1>9, <2>6, <2>7 DEF Agree
<1>10. CASE conflicts = <<>> /\ Agree(d, Len(d))
  <2>1. \A o \in O : ~Refused(O, o)
    BY <1>3, <1>9, <1>10
  <2>2. QED BY <1>10, <2>1 DEF Conflicting, IsConflict, conflicts, d
<1>11. CASE FirstClash(conflicts, d, Len(d))
  <2>1. PICK m \in 1 .. Len(d) : \E k \in 1 .. m - 1 :
          /\ conflicts = <<[existing |-> d[k], incoming |-> d[m]]>>
          /\ d[k].cell = d[m].cell /\ d[k].value # d[m].value
          /\ FirstWith(d, k, m - 1) /\ Agree(d, m - 1)
    BY <1>11 DEF FirstClash
  <2>2. PICK k \in 1 .. m - 1 :
          /\ conflicts = <<[existing |-> d[k], incoming |-> d[m]]>>
          /\ d[k].cell = d[m].cell /\ d[k].value # d[m].value
          /\ FirstWith(d, k, m - 1) /\ Agree(d, m - 1)
    BY <2>1
  <2> DEFINE a == d[k].obligation
             b == d[m].obligation
  <2>3. k \in 1 .. Len(d) /\ m \in Nat /\ k \in Nat /\ k < m /\ m - 1 \in Nat /\ m - 1 <= Len(d)
    BY <1>3
  <2>4. /\ conflicts # <<>> /\ conflicts[1].existing.obligation = a
        /\ conflicts[1].incoming.obligation = b
    <3>1. conflicts # <<>> /\ conflicts[1] = [existing |-> d[k], incoming |-> d[m]]
      BY <2>2
    <3>2. QED BY <3>1
  <2>5. /\ a \in O /\ b \in O /\ a < b /\ SameCell(a, b) /\ pair.value[a] # pair.value[b]
        /\ a \in Nat /\ b \in Nat
    <3>1. /\ a \in O /\ pair.cell[a] # NoCell /\ d[k].cell = pair.cell[a] /\ d[k].value = pair.value[a]
          /\ b \in O /\ d[m].cell = pair.cell[b] /\ d[m].value = pair.value[b]
      BY <1>4, <2>3
    <3>2. a < b
      BY <1>5, <2>3
    <3> HIDE DEF a, b
    <3>3. a \in Nat /\ b \in Nat
      BY <1>1, <3>1
    <3>4. QED BY <2>2, <3>1, <3>2, <3>3 DEF SameCell
  <2>6. Refused(O, b)
    BY <2>5 DEF Refused
  <2>7. ASSUME NEW o \in O, o < b PROVE ~Refused(O, o)
    <3>1. ASSUME NEW l \in 1 .. Len(d), d[l].obligation = o PROVE l <= m - 1
      <4>1. o \in Nat
        BY <1>1
      <4>2. l # m
        BY <2>5, <2>7, <3>1, <4>1
      <4>3. ~(m < l)
        BY <1>5, <2>5, <2>7, <3>1, <4>1
      <4>4. QED BY <2>3, <4>2, <4>3
    <3>2. QED BY <1>9, <2>2, <2>3, <3>1
  <2>8. ASSUME NEW o \in O, SameCell(o, b) PROVE a <= o
    <3>1. o \in Nat /\ pair.cell[o] # NoCell /\ pair.cell[o] = pair.cell[b]
      BY <1>1, <2>8 DEF SameCell
    <3>2. PICK l \in 1 .. Len(d) : d[l].obligation = o
      BY <1>6, <3>1
    <3>3. CASE l \in 1 .. m - 1
      <4>1. d[l].cell = d[k].cell
        BY <1>4, <2>2, <2>3, <3>1, <3>2
      <4>2. k <= l
        BY <2>2, <3>3, <4>1 DEF FirstWith
      <4>3. k < l \/ k = l
        BY <2>3, <4>2
      <4>4. QED BY <1>5, <2>3, <2>5, <3>1, <3>2, <4>3
    <3>4. CASE ~(l \in 1 .. m - 1)
      <4>1. l = m \/ m < l
        BY <2>3, <3>4
      <4>2. b <= o
        BY <1>5, <2>5, <3>1, <3>2, <4>1
      <4>3. QED BY <2>5, <3>1, <4>2
    <3>5. QED BY <3>3, <3>4
  <2> HIDE DEF a, b
  <2>9. Conflicting(O)
    BY <2>5, <2>6 DEF Conflicting
  <2>10. IsConflict(O, a, b)
    BY <2>5, <2>6, <2>7, <2>8 DEF IsConflict
  <2>11. ASSUME NEW i \in O, NEW j \in O, IsConflict(O, i, j) PROVE i = a /\ j = b
    <3>1. i \in Nat /\ j \in Nat
      BY <1>1
    <3>2. ~(j < b)
      BY <2>7, <2>11 DEF IsConflict
    <3>3. ~(b < j)
      BY <2>5, <2>6, <2>11 DEF IsConflict
    <3>4. j = b
      BY <2>5, <3>1, <3>2, <3>3
    <3>5. a <= i
      BY <2>8, <2>11, <3>4 DEF IsConflict
    <3>6. i <= a
      BY <2>5, <2>11, <3>4 DEF IsConflict
    <3>7. QED BY <2>5, <3>1, <3>4, <3>5, <3>6
  <2>12. QED BY <2>4, <2>9, <2>10, <2>11 DEF conflicts, d
<1>12. QED BY <1>8, <1>10, <1>11

\* generate_witness_suite splits a world exactly where the ledger that
\* ConstraintLedger.add_many fills for it would refuse a boundary, between the
\* owner of the cell and the boundary that was refused.
THEOREM SplitsAreTheLedgers == Spec => []SplitsFollowLedger
<1> DEFINE PInv == IInv /\ pair \in Pairs
<1>1. Init => PInv
  BY InitIInv DEF Init
<1>2. PInv /\ [Next]_vars => PInv'
  <2>1. [Next]_vars => pair' = pair
    BY DEF Next, PlaceObligation, ClosePlan, SplitWorld, MaterializeWorld, ReturnSuite, vars
  <2>2. QED BY <2>1, NextIInv
<1>3. PInv => SplitsFollowLedger
  <2> SUFFICES ASSUME PInv, NEW world \in Worlds
               PROVE  LET conflicts == AddMany(EmptyLedger, Declared(world.obligations)).conflicts
                      IN /\ Conflicting(world.obligations) <=> conflicts # <<>>
                         /\ \A i, j \in world.obligations :
                              IsConflict(world.obligations, i, j) <=>
                                /\ conflicts # <<>>
                                /\ i = conflicts[1].existing.obligation
                                /\ j = conflicts[1].incoming.obligation
    BY DEF SplitsFollowLedger
  <2>1. world \in WorldRecord
    BY DEF IInv, Shapes, Worlds
  <2>2. world.obligations \in SUBSET Obligation
    BY <2>1 DEF WorldRecord
  <2>3. QED BY <2>2, ClashOfObligations
<1>4. QED BY <1>1, <1>2, <1>3, PTL DEF Spec

----------------------------------------------------------------------------
\* What is left to do: obligations to place, worlds the budget still has room
\* for (each may have to be split off and then materialised), worlds waiting.
PhasesLeft == CASE pc = "plan" -> 2 [] pc = "materialize" -> 1 [] OTHER -> 0

Unplaced == pair.count - placed

Room == pair.limit - (Len(done) + Len(pending))

WorkLeft == Unplaced + 2 * Room + Len(pending) + PhasesLeft

\* A refused obligation has an owner of its cell to be separated from: the
\* first that is refused and the least that wants its cell.
LEMMA ConflictHasSides ==
  ASSUME IsPair(pair), NEW O \in SUBSET Obligation, Conflicting(O)
  PROVE  \E i, j \in O : IsConflict(O, i, j)
<1>1. pair.count \in Nat /\ O \subseteq Nat
  BY DEF IsPair, Obligation
<1> DEFINE refused == {j \in O : Refused(O, j)}
<1>2. refused # {} /\ refused \in SUBSET Nat
  BY <1>1 DEF Conflicting
<1>3. PICK j \in refused : \A k \in refused : j <= k
  BY <1>2, LeastNumber
<1>4. j \in O /\ j \in Nat /\ Refused(O, j)
  BY <1>1, <1>3
<1>5. \A k \in O : k < j => ~Refused(O, k)
  <2> SUFFICES ASSUME NEW k \in O, k < j, Refused(O, k) PROVE FALSE
    OBVIOUS
  <2>1. k \in refused /\ k \in Nat
    BY <1>1
  <2>2. j <= k
    BY <1>3, <2>1
  <2>3. QED BY <1>4, <2>1, <2>2
<1> HIDE DEF refused
<1>6. PICK k \in O : k < j /\ SameCell(k, j)
  BY <1>4 DEF Refused
<1> DEFINE wanting == {n \in O : SameCell(n, j)}
<1>7. wanting # {} /\ wanting \in SUBSET Nat
  BY <1>1, <1>6
<1>8. PICK i \in wanting : \A n \in wanting : i <= n
  BY <1>7, LeastNumber
<1>9. i \in O /\ i \in Nat /\ k \in Nat /\ SameCell(i, j) /\ i <= k
  BY <1>1, <1>6, <1>8
<1>10. i < j
  BY <1>4, <1>6, <1>9
<1>11. \A n \in O : SameCell(n, j) => i <= n
  BY <1>8
<1>12. IsConflict(O, i, j)
  BY <1>4, <1>5, <1>9, <1>10, <1>11 DEF IsConflict
<1>13. QED BY <1>4, <1>9, <1>12

LEMMA WorkIsANumber == IInv => WorkLeft \in Nat
<1> SUFFICES ASSUME IInv PROVE WorkLeft \in Nat
  OBVIOUS
<1>1. pair.count \in Nat /\ pair.limit \in Nat /\ placed \in 0 .. pair.count
  BY DEF IInv, Shapes, IsPair
<1>2. Len(done) \in Nat /\ Len(pending) \in Nat /\ Len(pending) + Len(done) <= pair.limit
  BY DEF IInv, Shapes, WorldBudget
<1>3. PhasesLeft \in Nat
  BY DEF PhasesLeft
<1>4. Room \in Nat /\ Unplaced \in Nat
  BY <1>1, <1>2 DEF Room, Unplaced
<1>5. QED BY <1>2, <1>3, <1>4 DEF WorkLeft

\* A split costs one place of the budget, which pays for the world it adds.
LEMMA WorkIsDone == CoverInv /\ Next => WorkLeft' < WorkLeft
<1> SUFFICES ASSUME CoverInv, Next PROVE WorkLeft' < WorkLeft
  OBVIOUS
<1>1. IInv /\ PlanCounts
  BY DEF CoverInv
<1>2. /\ pair.count \in Nat /\ pair.limit \in Nat /\ placed \in Nat
      /\ pending \in Seq(WorldRecord) /\ done \in Seq(WorldRecord)
  BY <1>1 DEF IInv, Shapes, IsPair
<1>3. /\ Len(done) \in Nat /\ Len(pending) \in Nat
      /\ pair.count \in Nat /\ pair.limit \in Nat /\ placed \in Nat
      /\ Unplaced \in Int /\ Room \in Int /\ PhasesLeft \in Nat
  BY <1>2 DEF Unplaced, Room, PhasesLeft
<1>4. pair.count' = pair.count /\ pair.limit' = pair.limit
  BY DEF Next, PlaceObligation, ClosePlan, SplitWorld, MaterializeWorld, ReturnSuite
<1>5. CASE PlaceObligation
  <2> DEFINE new == World(<<Len(pending) + 1>>, {pair.order[placed + 1]},
                          PinOf(pair.order[placed + 1]), FALSE)
  <2>1. pc' = pc /\ done' = done /\ placed' = placed + 1
    BY <1>5 DEF PlaceObligation
  <2>2. PICK w \in {0, 1} : Len(pending') = Len(pending) + w
    <3>1. pending' = pending \/ pending' = Append(pending, new)
      BY <1>5 DEF PlaceObligation
    <3> HIDE DEF new
    <3>2. QED BY <1>2, <1>3, <3>1
  <2>3. Len(done') = Len(done) /\ w \in Int
    BY <2>1
  <2>4. Room' = Room - w
    BY <1>3, <1>4, <2>2, <2>3 DEF Room
  <2>5. Unplaced' = Unplaced - 1
    BY <1>3, <1>4, <2>1 DEF Unplaced
  <2>6. PhasesLeft' = PhasesLeft
    BY <2>1 DEF PhasesLeft
  <2>7. QED BY <1>3, <2>2, <2>4, <2>5, <2>6 DEF WorkLeft
<1>6. CASE ClosePlan
  <2>1. /\ pc = "plan" /\ pc' = "materialize" /\ done' = done /\ placed' = placed
        /\ placed = pair.count
    BY <1>6 DEF ClosePlan
  <2>2. PICK w \in {0, 1} : Len(pending') = Len(pending) + w
    <3>1. CASE pair.count = 0
      <4>1. Len(pending') = 1
        BY <1>6, <3>1 DEF ClosePlan
      <4>2. Len(pending) = 0
        BY <1>1, <1>3, <2>1, <3>1 DEF PlanCounts
      <4>3. QED BY <4>1, <4>2
    <3>2. CASE pair.count # 0
      <4> DEFINE new == Composite
      <4>1. pending' = pending \/ pending' = Append(pending, new)
        BY <1>6, <3>2 DEF ClosePlan
      <4> HIDE DEF new
      <4>2. QED BY <1>2, <1>3, <4>1
    <3>3. QED BY <3>1, <3>2
  <2>3. Len(done') = Len(done) /\ w \in Int
    BY <2>1
  <2>4. Room' = Room - w
    BY <1>3, <1>4, <2>2, <2>3 DEF Room
  <2>5. Unplaced' = Unplaced
    BY <1>4, <2>1 DEF Unplaced
  <2>6. PhasesLeft = 2 /\ PhasesLeft' = 1
    BY <2>1 DEF PhasesLeft
  <2>7. QED BY <1>3, <2>2, <2>4, <2>5, <2>6 DEF WorkLeft
<1>7. CASE SplitWorld
  <2>1. pc' = pc /\ done' = done /\ placed' = placed
    BY <1>7 DEF SplitWorld
  <2>2. pending' \in Seq(WorldRecord)'
    BY <1>1, <1>7, SplitKeeps DEF IInv, Shapes
  <2>3. Len(pending') = Len(pending) + 1
    BY <1>1, <1>3, <1>7, <2>2, SplitShape
  <2>4. Len(done') = Len(done)
    BY <2>1
  <2>5. Room' = Room - 1
    BY <1>3, <1>4, <2>3, <2>4 DEF Room
  <2>6. Unplaced' = Unplaced /\ PhasesLeft' = PhasesLeft
    BY <1>4, <2>1 DEF Unplaced, PhasesLeft
  <2>7. QED BY <1>3, <2>3, <2>5, <2>6 DEF WorkLeft
<1>8. CASE MaterializeWorld
  <2>1. pc' = pc /\ placed' = placed
    BY <1>8 DEF MaterializeWorld
  <2>2. Len(pending') = Len(pending) - 1 /\ Len(done') = Len(done) + 1
    BY <1>1, <1>2, <1>3, <1>8, MaterializeShape DEF MaterializeWorld
  <2>3. Room' = Room
    BY <1>3, <1>4, <2>2 DEF Room
  <2>4. Unplaced' = Unplaced /\ PhasesLeft' = PhasesLeft
    BY <1>4, <2>1 DEF Unplaced, PhasesLeft
  <2>5. QED BY <1>3, <2>2, <2>3, <2>4 DEF WorkLeft
<1>9. CASE ReturnSuite
  <2>1. /\ pc = "materialize" /\ pc' = "returned"
        /\ placed' = placed /\ pending' = pending /\ done' = done
    BY <1>9 DEF ReturnSuite
  <2>2. Unplaced' = Unplaced /\ Room' = Room
    BY <1>4, <2>1 DEF Unplaced, Room
  <2>3. PhasesLeft = 1 /\ PhasesLeft' = 0
    BY <2>1 DEF PhasesLeft
  <2>4. QED BY <1>3, <2>1, <2>2, <2>3 DEF WorkLeft
<1>10. QED BY <1>5, <1>6, <1>7, <1>8, <1>9 DEF Next

\* The worklist of generate_witness_suite comes to an end: the work left is a
\* number and every step that is taken makes it less, whatever obligations want
\* and however often the sides of a split conflict again.
THEOREM WorkRunsOut == Spec => [](WorkLeft \in Nat) /\ [][WorkLeft' < WorkLeft]_vars
<1>1. CoverInv => WorkLeft \in Nat
  BY WorkIsANumber DEF CoverInv
<1>2. CoverInv /\ [Next]_vars => [WorkLeft' < WorkLeft]_vars
  BY WorkIsDone
<1>3. QED BY InitCoverInv, NextCoverInv, <1>1, <1>2, PTL DEF Spec

\* And it does not stop before the suite is returned: there is always a
\* declaration to place, a plan to close, a world to materialise, a suite to
\* return, or two sides to split the first world into.
GoesOn ==
  pc # "returned" =>
    \/ pc = "plan" /\ (placed < pair.count \/ placed = pair.count)
    \/ pc = "materialize" /\ pending = <<>>
    \/ pc = "materialize" /\ pending # <<>>
       /\ (\/ ~Conflicting(Head(pending).obligations)
           \/ ~RoomForSplit
           \/ \E i, j \in Head(pending).obligations :
                IsConflict(Head(pending).obligations, i, j))

THEOREM WorkGoesOn == Spec => []GoesOn
<1>1. IInv => GoesOn
  <2> SUFFICES ASSUME IInv, pc # "returned" PROVE GoesOn
    BY DEF GoesOn
  <2>1. /\ IsPair(pair) /\ pc \in {"plan", "materialize"} /\ placed \in 0 .. pair.count
        /\ pending \in Seq(WorldRecord)
    BY DEF IInv, Shapes
  <2>2. CASE pc = "plan"
    BY <2>1, <2>2 DEF GoesOn, IsPair
  <2>3. CASE pc = "materialize" /\ pending # <<>> /\ Conflicting(Head(pending).obligations)
    <3>1. Head(pending) \in WorldRecord
      BY <2>1, <2>3
    <3>2. Head(pending).obligations \in SUBSET Obligation
      BY <3>1 DEF WorldRecord
    <3>3. QED BY <2>1, <2>3, <3>2, ConflictHasSides DEF GoesOn
  <2>4. QED BY <2>1, <2>2, <2>3 DEF GoesOn
<1>2. QED BY SuiteInvariant, <1>1, PTL
=============================================================================
