---------------------------- MODULE SuiteLedger ----------------------------
(***************************************************************************)
(* The ledger that WitnessSuite stands for: what comparison_boundary         *)
(* declares for the obligations of a world, _comparison_adapter_constraints  *)
(* of phase1_engine.py, and what a fresh ConstraintLedger makes of it.       *)
(***************************************************************************)
EXTENDS WitnessSuite, ConstraintLedger

\* A boundary is only declared with a value.
ASSUME ValuesAssumption ==
  \A p \in Pairs : \A o \in 1 .. p.count : p.cell[o] # NoCell => p.value[o] # Symbolic

Pin(o) ==
  [cell |-> pair.cell[o], relation |-> "equals", value |-> pair.value[o],
   obligation |-> o, priority |-> 80]

\* The pins of the obligations of a world, in their order.
Declared(obligations) ==
  LET upTo[n \in 0 .. pair.count] ==
        IF n = 0 THEN <<>>
        ELSE IF n \in obligations /\ pair.cell[n] # NoCell
        THEN Append(upTo[n - 1], Pin(n))
        ELSE upTo[n - 1]
  IN upTo[pair.count]

\* A world is split exactly when a fresh ledger refuses what comparison_boundary
\* declares for it, and along the two sides of the conflict the ledger records.
SplitsFollowLedger ==
  \A world \in Worlds :
    LET conflicts == AddMany(EmptyLedger, Declared(world.obligations)).conflicts
    IN /\ Conflicting(world.obligations) <=> conflicts # <<>>
       /\ \A i, j \in world.obligations :
            IsConflict(world.obligations, i, j) <=>
              /\ conflicts # <<>>
              /\ i = conflicts[1].existing.obligation
              /\ j = conflicts[1].incoming.obligation
============================================================================
