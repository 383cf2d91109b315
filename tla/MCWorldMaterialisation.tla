----------------------- MODULE MCWorldMaterialisation -----------------------
\* Worlds for TLC, with the constraints _semantic_cell_constraints declares and
\* the minimum rows _constraint_templates asks for.
EXTENDS WorldMaterialisation

Pin(n, slot, relation, value, window) ==
  [slot |-> slot, relation |-> relation, value |-> value, window |-> window,
   obligation |-> n]

Obligation(kind, value) == [kind |-> kind, value |-> value]

Boundary ==
  [minimum |-> 3, maximum |-> 3, obligations |-> <<Obligation("boundary_tristate", 10)>>,
   constraints |-> <<Pin(1, "boundary_row", "equals", 10, FALSE)>>]

NullTristate ==
  [minimum |-> 2, maximum |-> 3, obligations |-> <<Obligation("null_tristate", Null)>>,
   constraints |-> <<Pin(1, "null_row", "is_null", Null, FALSE),
                     Pin(1, "non_null_row", "not_null", Null, FALSE)>>]

NullSafe ==
  [minimum |-> 3, maximum |-> 3, obligations |-> <<Obligation("null_safe", Null)>>,
   constraints |-> <<Pin(1, "null_row", "is_null", Null, FALSE),
                     Pin(1, "last_row", "not_null", Null, FALSE)>>]

Projection ==
  [minimum |-> 3, maximum |-> 3, obligations |-> <<Obligation("projection_boolean", 10)>>,
   constraints |-> <<Pin(1, "row_slot_0", "is_null", Null, FALSE),
                     Pin(1, "row_slot_1", "equals", 10, FALSE),
                     Pin(1, "row_slot_2", "equals", 9, FALSE)>>]

WindowNulls ==
  [minimum |-> 4, maximum |-> 4, obligations |-> <<Obligation("window_ties", Null)>>,
   constraints |-> <<Pin(1, "row_slot_0", "is_null", Null, TRUE),
                     Pin(1, "row_slot_1", "equals", 10, TRUE),
                     Pin(1, "row_slot_2", "equals", 20, TRUE)>>]

\* A side of a split: it carries the boundary it kept, among other obligations.
SplitSide ==
  [minimum |-> 3, maximum |-> 3, obligations |-> <<Obligation("null_tristate", Null),
                                    Obligation("boundary_tristate", 10)>>,
   constraints |-> <<Pin(2, "boundary_row", "equals", 10, FALSE)>>]

\* Two obligations for one column whose slots meet in the second row: they
\* agree there.
Meeting ==
  [minimum |-> 3, maximum |-> 3,
   obligations |-> <<Obligation("null_tristate", Null), Obligation("boundary_tristate", 10)>>,
   constraints |-> <<Pin(1, "null_row", "is_null", Null, FALSE),
                     Pin(1, "non_null_row", "not_null", Null, FALSE),
                     Pin(2, "boundary_row", "equals", 10, FALSE)>>]

\* The same with a window's 10 and another boundary, which do not agree.
Clashing ==
  [minimum |-> 4, maximum |-> 4,
   obligations |-> <<Obligation("window_ties", Null), Obligation("boundary_tristate", 7)>>,
   constraints |-> WindowNulls.constraints \o <<Pin(2, "boundary_row", "equals", 7, FALSE)>>]

\* An obligation for which bounded feedback has no adapter.
Unhandled ==
  [minimum |-> 2, maximum |-> 3, obligations |-> <<Obligation("set_overlap", Null)>>,
   constraints |-> <<>>]

BaseWorld == [minimum |-> 2, maximum |-> 3, obligations |-> <<>>, constraints |-> <<>>]

AllWorlds == {Boundary, NullTristate, NullSafe, Projection, WindowNulls,
              SplitSide, Meeting, Clashing, Unhandled, BaseWorld}
SomeValues == {Null, 5}
=============================================================================
