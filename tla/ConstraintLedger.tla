-------------------------- MODULE ConstraintLedger --------------------------
(***************************************************************************)
(* ConstraintLedger of witness_generation/planner.py: which declaration owns *)
(* which semantic cell of a witness world.  A cell is a (table, row slot,   *)
(* column) triple after normalisation.  A ledger is a function from the     *)
(* owned cells to the constraint that owns each, with the conflicts seen.   *)
(*                                                                         *)
(* An operator whose name starts with Bug is a defect put in place of a     *)
(* definition to see that a property notices; nothing uses it.              *)
(***************************************************************************)
EXTENDS Naturals, Sequences

\* value None of a constraint that names no value (is_null, not_null)
Symbolic == 0

\* What _semantic_cell_constraints declares: a value is given with every
\* relation that needs one, and with no other.
IsConstraint(c) ==
  /\ c.priority \in Nat
  /\ c.value = Symbolic <=> c.relation \in {"is_null", "not_null"}

EmptyLedger == [owned |-> <<>>, conflicts |-> <<>>]

BugAnyConcreteValue(l, r) == l.relation = r.relation

\* _constraints_compatible.
Compatible(l, r) ==
  /\ l.relation = r.relation
  /\ l.value = r.value \/ l.value = Symbolic \/ r.value = Symbolic

Own(owned, c) ==
  [k \in DOMAIN owned \cup {c.cell} |-> IF k = c.cell THEN c ELSE owned[k]]

BugNoTakeover(ldg, c) ==
  IF c.cell \notin DOMAIN ldg.owned
  THEN [ldg EXCEPT !.owned = Own(ldg.owned, c)]
  ELSE IF Compatible(ldg.owned[c.cell], c) THEN ldg
  ELSE [ldg EXCEPT !.conflicts =
          Append(@, [existing |-> ldg.owned[c.cell], incoming |-> c])]

\* add: an equal constraint of higher priority takes the cell over.
Add(ldg, c) ==
  IF c.cell \notin DOMAIN ldg.owned
  THEN [ldg EXCEPT !.owned = Own(ldg.owned, c)]
  ELSE LET existing == ldg.owned[c.cell]
       IN IF ~Compatible(existing, c)
          THEN [ldg EXCEPT !.conflicts =
                  Append(@, [existing |-> existing, incoming |-> c])]
          ELSE IF c.priority > existing.priority
          THEN [ldg EXCEPT !.owned = Own(ldg.owned, c)]
          ELSE ldg

AddUntilConflict(ldg, declaration) ==
  LET tried[n \in 0 .. Len(declaration)] ==
        IF n = 0 THEN ldg
        ELSE IF Len(tried[n - 1].conflicts) > Len(ldg.conflicts) THEN tried[n - 1]
        ELSE Add(tried[n - 1], declaration[n])
  IN tried[Len(declaration)]

BugKeepsPrefix(ldg, declaration) == AddUntilConflict(ldg, declaration)

\* add_many: a declaration owns all of its cells or none of them.
AddMany(ldg, declaration) ==
  LET tried == AddUntilConflict(ldg, declaration)
  IN IF Len(tried.conflicts) > Len(ldg.conflicts)
     THEN [tried EXCEPT !.owned = ldg.owned]
     ELSE tried

----------------------------------------------------------------------------
\* The constraints that a set of declarations asks for.
ConstraintsOf(declarations) ==
  UNION {{d[i] : i \in DOMAIN d} : d \in declarations}

\* Every owned cell is owned by a constraint of a declaration that was taken
\* whole, and of the constraints such declarations have for the cell it is one
\* of the highest priority: nothing of a refused declaration stays behind.
OwnedBy(ldg, accepted) ==
  \A cell \in DOMAIN ldg.owned :
    LET asked == {c \in ConstraintsOf(accepted) : c.cell = cell}
    IN /\ ldg.owned[cell] \in asked
       /\ \A c \in asked : c.priority <= ldg.owned[cell].priority

\* What the accepted declarations were promised still stands: the owner of each
\* cell asks for the relation and the value they asked for.
Keeps(ldg, accepted) ==
  \A c \in ConstraintsOf(accepted) :
    /\ c.cell \in DOMAIN ldg.owned
    /\ ldg.owned[c.cell].relation = c.relation
    /\ ldg.owned[c.cell].value = c.value

\* A recorded conflict is between a constraint of a refused declaration and one
\* that came before it, in an accepted declaration or in the refused one itself,
\* and the two cannot share the cell.
ExplainsRefusals(ldg, accepted, refused) ==
  \A i \in DOMAIN ldg.conflicts :
    LET e == ldg.conflicts[i].existing
        c == ldg.conflicts[i].incoming
    IN /\ e.cell = c.cell
       /\ e.relation # c.relation \/ e.value # c.value
       /\ \E d \in refused : \E n \in DOMAIN d :
            /\ c = d[n]
            /\ e \in ConstraintsOf(accepted) \/ \E k \in 1 .. n - 1 : e = d[k]
============================================================================
