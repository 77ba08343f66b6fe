---------------------------- MODULE MCClockTools ----------------------------
EXTENDS ClockToolsProperties, TLC

\* Which process runs which program makes no difference.
Symmetry == Permutations(Tools)

\* Less than a second forward, more than a second back.
MCDeltas == {3, -5}
============================================================================
