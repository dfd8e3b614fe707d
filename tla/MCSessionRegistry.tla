--------------------------- MODULE MCSessionRegistry ---------------------------
EXTENDS RegistryProperties, TLC

CONSTANTS s1, r1, r2, r3, r4, p1, p2, m1

OneSession   == {s1}
ThreeCalls   == {r1, r2, r3}
FourCalls    == {r1, r2, r3, r4}
TwoProcesses == {p1, p2}
OneMeta      == {m1}

Symmetry == Permutations(Calls) \cup Permutations(Processes)
=============================================================================
