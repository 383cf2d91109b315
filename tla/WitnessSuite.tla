---------------------------- MODULE WitnessSuite ----------------------------
(***************************************************************************)
(* generate_witness_suite of phase1_engine.py with WitnessPlanner.plan and  *)
(* split_world_on_conflict: how obligations are spread over a bounded       *)
(* number of worlds, and how a world whose obligations want one cell to     *)
(* hold two values is split or, when the budget is used up, kept.           *)
(*                                                                         *)
(* An obligation is named by its place in the compiled list, and so is the  *)
(* difference it was compiled from.  The only constraints that reach the    *)
(* ledger of a generated world are those of comparison_boundary, at most    *)
(* one for each obligation: it wants one cell to equal one value.           *)
(*                                                                         *)
(* An operator whose name starts with Bug is a defect put in place of a     *)
(* definition to see that a property notices; nothing uses it.              *)
(***************************************************************************)
EXTENDS Naturals, Sequences, FiniteSets

CONSTANTS
  Pairs,       \* the calls: [limit, count, order, cell, value]
  NoCell       \* the cell of an obligation that pins nothing

\* A query pair and a budget: max_worlds, how many obligations it compiles to,
\* their order by (estimated_cost, id), and the cell and the value each wants.
IsPair(p) ==
  /\ p.limit \in Nat \ {0} /\ p.count \in Nat
  /\ p.order \in [1 .. p.count -> 1 .. p.count]
  /\ \A i, j \in 1 .. p.count : p.order[i] = p.order[j] => i = j
  /\ \A o \in 1 .. p.count : \E n \in 1 .. p.count : p.order[n] = o
  /\ DOMAIN p.cell = 1 .. p.count /\ DOMAIN p.value = 1 .. p.count

ASSUME SuiteAssumption == \A p \in Pairs : IsPair(p)

VARIABLES
  pair,       \* the query pair
  pc,
  placed,     \* how many obligations the planner has dealt with
  pending,    \* worlds planned or split off and not yet materialised
  done,       \* materialised worlds
  serial,     \* split_serial
  uncovered   \* suite.uncovered_obligations

vars == <<pair, pc, placed, pending, done, serial, uncovered>>

Obligation == 1 .. pair.count

(* A world: its id, as the number it was planned under followed by the       *)
(* serials of the splits it came from on the incoming side; its obligations; *)
(* those of them whose constraint it carries; and two of its diagnostics.    *)
World(id, obligations, pins, composite) ==
  [id |-> id, obligations |-> obligations, pins |-> pins,
   composite |-> composite, limited |-> FALSE]

Worlds == {pending[i] : i \in DOMAIN pending} \cup {done[i] : i \in DOMAIN done}

----------------------------------------------------------------------------
SameCell(i, j) == pair.cell[i] = pair.cell[j] /\ pair.cell[i] # NoCell

\* Obligation j of the set is the first one refused by a ledger that took the
\* earlier ones in order, and i is the obligation that owns the cell.
Refused(obligations, j) ==
  \E k \in obligations :
    k < j /\ SameCell(k, j) /\ pair.value[k] # pair.value[j]

BugLatestOwner(obligations, i, j) ==
  /\ i \in obligations /\ j \in obligations
  /\ Refused(obligations, j)
  /\ \A k \in obligations : k < j => ~Refused(obligations, k)
  /\ SameCell(i, j) /\ i < j
  /\ \A k \in obligations : SameCell(k, j) /\ k < j => k <= i

IsConflict(obligations, i, j) ==
  /\ i \in obligations /\ j \in obligations
  /\ Refused(obligations, j)
  /\ \A k \in obligations : k < j => ~Refused(obligations, k)
  /\ SameCell(i, j) /\ i < j
  /\ \A k \in obligations : SameCell(k, j) => i <= k

Conflicting(obligations) == \E j \in obligations : Refused(obligations, j)

\* The constraint an obligation pins its own world with, named by itself.
PinOf(o) == {q \in {o} : pair.cell[q] # NoCell}

----------------------------------------------------------------------------
BugIsolatedLimit == pair.limit

\* One place is kept for the composite when there are several obligations.
IsolatedLimit ==
  IF pair.count <= 1 THEN pair.limit
  ELSE IF pair.limit > 1 THEN pair.limit - 1 ELSE 1

Init ==
  /\ pair \in Pairs
  /\ pc = "plan"
  /\ placed = 0
  /\ pending = <<>> /\ done = <<>>
  /\ serial = 0
  /\ uncovered = {}

BugOverflowEvicts ==
  /\ pc = "plan" /\ placed < pair.count
  /\ LET o == pair.order[placed + 1]
     IN IF Len(pending) < IsolatedLimit
        THEN /\ pending' = Append(pending, World(<<Len(pending) + 1>>, {o}, PinOf(o), FALSE))
             /\ UNCHANGED uncovered
        ELSE /\ pending' = [pending EXCEPT ![Len(pending)] =
                              World(<<Len(pending)>>, {o}, PinOf(o), FALSE)]
             /\ UNCHANGED uncovered
  /\ placed' = placed + 1
  /\ UNCHANGED <<pair, pc, done, serial>>

\* plan: the next declaration gets a world of its own, or is left uncovered.
PlaceObligation ==
  /\ pc = "plan" /\ placed < pair.count
  /\ LET o == pair.order[placed + 1]
     IN IF Len(pending) < IsolatedLimit
        THEN /\ pending' = Append(pending, World(<<Len(pending) + 1>>, {o}, PinOf(o), FALSE))
             /\ UNCHANGED uncovered
        ELSE /\ uncovered' = uncovered \cup {o}
             /\ UNCHANGED pending
  /\ placed' = placed + 1
  /\ UNCHANGED <<pair, pc, done, serial>>

BaseWorld == World(<<1>>, {}, {}, FALSE)

Composite == World(<<Len(pending) + 1>>, Obligation, {}, TRUE)

\* The end of plan, and the composite world of generate_witness_suite.
ClosePlan ==
  /\ pc = "plan" /\ placed = pair.count
  /\ pending' = IF pair.count = 0 THEN <<BaseWorld>>
                ELSE IF pair.count > 1 /\ Len(pending) < pair.limit
                THEN Append(pending, Composite)
                ELSE pending
  /\ pc' = "materialize"
  /\ UNCHANGED <<pair, placed, done, serial, uncovered>>

----------------------------------------------------------------------------
BugKeepsTag(world, id, kept, rejected) ==
  [id |-> id, obligations |-> world.obligations \ {rejected},
   pins |-> {p \in world.pins : ~SameCell(p, kept)} \cup {kept},
   composite |-> world.composite, limited |-> FALSE]

BugStackedPins(world, id, kept, rejected) ==
  [id |-> id, obligations |-> world.obligations \ {rejected},
   pins |-> world.pins \cup {kept},
   composite |-> world.composite /\ Cardinality(world.obligations \ {rejected}) # 1,
   limited |-> FALSE]

\* replace_constraint, and the diagnostics generate_witness_suite corrects.
Side(world, id, kept, rejected) ==
  LET rest == world.obligations \ {rejected}
  IN [id |-> id, obligations |-> rest,
      pins |-> {p \in world.pins : ~SameCell(p, kept)} \cup {kept},
      composite |-> world.composite /\ Cardinality(rest) # 1,
      limited |-> FALSE]

BugRightId(world) == Append(world.id, Len(world.id))

RightId(world) == Append(world.id, serial + 1)

BugOneTooMany == Len(done) + Len(pending) <= pair.limit

\* projected_world_count: the popped world counts among the pending ones here.
RoomForSplit == Len(done) + Len(pending) + 1 <= pair.limit

\* split_world_on_conflict: both sides take the world's place at the front.
SplitWorld ==
  /\ pc = "materialize" /\ pending # <<>>
  /\ RoomForSplit
  /\ LET world == Head(pending)
     IN \E i, j \in world.obligations :
          /\ IsConflict(world.obligations, i, j)
          /\ pending' = <<Side(world, world.id, i, j),
                          Side(world, RightId(world), j, i)>> \o Tail(pending)
  /\ serial' = serial + 1
  /\ UNCHANGED <<pair, pc, placed, done, uncovered>>

BugSplitsOnce ==
  /\ pc = "materialize" /\ pending # <<>>
  /\ \/ ~Conflicting(Head(pending).obligations) \/ ~RoomForSplit
     \/ serial > 0
  /\ done' = Append(done, [Head(pending) EXCEPT
                             !.limited = Conflicting(Head(pending).obligations)])
  /\ pending' = Tail(pending)
  /\ UNCHANGED <<pair, pc, placed, serial, uncovered>>

BugInsistsOnSplit ==
  /\ pc = "materialize" /\ pending # <<>>
  /\ ~Conflicting(Head(pending).obligations)
  /\ done' = Append(done, Head(pending))
  /\ pending' = Tail(pending)
  /\ UNCHANGED <<pair, pc, placed, serial, uncovered>>

\* A world without a conflict, or one there is no room to split, is kept.
MaterializeWorld ==
  /\ pc = "materialize" /\ pending # <<>>
  /\ ~Conflicting(Head(pending).obligations) \/ ~RoomForSplit
  /\ done' = Append(done, [Head(pending) EXCEPT
                             !.limited = Conflicting(Head(pending).obligations)])
  /\ pending' = Tail(pending)
  /\ UNCHANGED <<pair, pc, placed, serial, uncovered>>

ReturnSuite ==
  /\ pc = "materialize" /\ pending = <<>>
  /\ pc' = "returned"
  /\ UNCHANGED <<pair, placed, pending, done, serial, uncovered>>

Next ==
  \/ PlaceObligation \/ ClosePlan
  \/ SplitWorld \/ MaterializeWorld \/ ReturnSuite

\* A call of a sequential function: it goes on until it returns.
Spec == Init /\ [][Next]_vars /\ WF_vars(Next)

----------------------------------------------------------------------------
TypeOK ==
  /\ IsPair(pair)
  /\ pc \in {"plan", "materialize", "returned"}
  /\ placed \in 0 .. pair.count
  /\ \A world \in Worlds :
       /\ world.id \in Seq(Nat) /\ world.id # <<>>
       /\ world.obligations \subseteq Obligation
       /\ world.obligations = {} => pair.count = 0
       /\ world.pins \subseteq Obligation
       /\ world.composite \in BOOLEAN /\ world.limited \in BOOLEAN
  /\ serial \in Nat
  /\ uncovered \subseteq Obligation

\* The worlds built, planned and split off together never exceed max_worlds,
\* whatever conflicts appear while worlds are being materialised.
WorldBudget == Len(pending) + Len(done) <= pair.limit

\* No two worlds of a suite have the same id: mutation evidence, attempts and
\* the selected witness are looked up by it.
IdsDistinct ==
  LET all == done \o pending
  IN \A i, j \in DOMAIN all : all[i].id = all[j].id => i = j

\* An obligation the planner covers keeps a world in which nothing else is at
\* stake, with the constraint it declared, through every split.
IsolationKept ==
  \A n \in 1 .. placed :
    LET o == pair.order[n]
    IN o \in uncovered \/ \E world \in Worlds :
         world.obligations = {o} /\ world.pins = PinOf(o) /\ ~world.composite

\* Splitting loses nothing: once planning is over every obligation is at stake
\* in some world, the ones reported as uncovered included, because they are
\* part of the composite.  Only a budget of one world leaves some out.
NothingLost ==
  pc # "plan" =>
    \A o \in Obligation :
      \/ \E world \in Worlds : o \in world.obligations
      \/ pair.limit = 1 /\ o \in uncovered

\* A world counts as composite exactly when several obligations are at stake in
\* it: its witness is never taken for evidence about one difference, and a side
\* of a split that is left with one obligation counts as isolated.
CompositeIffSeveral ==
  \A world \in Worlds : world.composite <=> Cardinality(world.obligations) > 1

\* Two values wanted for one cell stay together in a materialised world only
\* when the world budget is used up, and the world then says so.
ConflictOnlyAtLimit ==
  \A i \in DOMAIN done :
    /\ Conflicting(done[i].obligations) <=> done[i].limited
    /\ done[i].limited => Len(pending) + Len(done) = pair.limit

\* The constraints a world carries are about its own obligations, and no two of
\* them are about one cell, after any sequence of splits.
PinsOwned ==
  \A world \in Worlds :
    /\ world.pins \subseteq world.obligations
    /\ \A p, q \in world.pins : SameCell(p, q) => p = q

\* Planning, splitting and materialising come to an end.
SuiteReturned == <>(pc = "returned")
=============================================================================
