--------------------------- MODULE MCWitnessSuite ---------------------------
\* Instances of WitnessSuite for TLC.
EXTENDS SuiteLedger

CONSTANTS Budgets, MaxCount, cellA, cellB

\* What one obligation may want: nothing, or a value for one of two cells.
Wants == {<<NoCell, 0>>} \cup ({cellA} \X {1, 2, 3}) \cup ({cellB} \X {1, 2})

Forward(n) == [i \in 1 .. n |-> i]
Backward(n) == [i \in 1 .. n |-> n + 1 - i]

SomePairs ==
  UNION {{[limit |-> limit, count |-> n, order |-> order,
           cell |-> [i \in 1 .. n |-> wants[i][1]],
           value |-> [i \in 1 .. n |-> wants[i][2]]]
          : wants \in [1 .. n -> Wants], order \in {Forward(n), Backward(n)},
            limit \in Budgets}
         : n \in 0 .. MaxCount}
=============================================================================
