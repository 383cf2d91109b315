------------------------ MODULE MCWitnessComparison ------------------------
\* Instances of WitnessComparison for TLC.
EXTENDS WitnessComparison

CONSTANTS d1, d2

Isolated(d) == [diffs |-> {d}, composite |-> FALSE]
Base == [diffs |-> {}, composite |-> FALSE]
Composite == [diffs |-> {d1, d2}, composite |-> TRUE]

BothDiffs == {d1, d2}
OneDiff == {d1}
SecondDiff == {d2}
NoDiffs == {}

\* Isolated worlds come first, the composite last.  Under max_worlds = 1 only
\* the first obligation gets a world, under 2 the composite takes the second
\* place; without obligations there is a base world.
SmallSuites == {<<Isolated(d1), Composite>>, <<Isolated(d1)>>, <<Base>>}

PairedSuite == {<<Isolated(d1), Composite>>}
OneWorld == {<<Isolated(d1)>>}
============================================================================
