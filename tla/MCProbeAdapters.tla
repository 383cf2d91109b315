-------------------------- MODULE MCProbeAdapters --------------------------
\* Three adapters in two of the stages for TLC.  An adapter may declare what
\* _semantic_cell_constraints compiles for obligations about one column or two;
\* of the registered adapters only comparison_boundary declares anything today.
EXTENDS ProbeAdapters

Asks(column, slot, relation, value, obligation, priority) ==
  [cell |-> <<column, slot>>, relation |-> relation, value |-> value,
   obligation |-> obligation, priority |-> priority]

Boundary(obligation, value) ==
  <<Asks("c", "boundary_row", "equals", value, obligation, 80)>>

NullSafe(obligation, value) ==
  <<Asks("c", "null_row", "is_null", Symbolic, obligation, 85),
    Asks("c", "boundary_row", "equals", value, obligation, 85)>>

NullSafePair(obligation) ==
  <<Asks("d", "row_slot_0", "is_null", Symbolic, obligation, 85),
    Asks("c", "row_slot_0", "is_null", Symbolic, obligation, 85),
    Asks("d", "row_slot_1", "not_null", Symbolic, obligation, 85),
    Asks("c", "row_slot_1", "is_null", Symbolic, obligation, 85)>>

ProjectionTristate(column, obligation, true, false) ==
  <<Asks(column, "row_slot_0", "is_null", Symbolic, obligation, 90),
    Asks(column, "row_slot_1", "equals", true, obligation, 90),
    Asks(column, "row_slot_2", "equals", false, obligation, 90)>>

\* What _comparison_adapter_constraints joins for a composite world there was no
\* room to split: the declaration contradicts itself.
BothBoundaries == Boundary(1, 10) \o Boundary(2, 11)

SomeDeclarations ==
  {<<>>, Boundary(1, 10), Boundary(2, 11), BothBoundaries, NullSafe(4, 10), NullSafePair(5),
   ProjectionTristate("c", 6, 10, 9), ProjectionTristate("d", 7, 10, 9)}

SomeAdapters ==
  {[name |-> 1, stage |-> 1, phase |-> 4, writes |-> {}],
   [name |-> 2, stage |-> 1, phase |-> 4, writes |-> {"c"}],
   [name |-> 3, stage |-> 4, phase |-> 2, writes |-> {"d"}]}

SomeRows == [{"c", "d"} -> {0, 1}]
\* A row of one column stands for a probe that left a column out.
SomeDatabases == {<<row>> : row \in SomeRows} \cup {<<[c |-> 1]>>} \cup
                 {<<[c |-> 0, d |-> 0], row>> : row \in SomeRows}
============================================================================
