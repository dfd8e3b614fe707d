--------------------------- MODULE MCSessionRuntime ---------------------------
EXTENDS SessionRefinement, TLC

CONSTANTS c1, c2, c3, k1, k2, small, large

OneClient    == {c1}
TwoClients   == {c1, c2}
ThreeClients == {c1, c2, c3}
NoCloser     == {}
OneCloser    == {k1}
TwoClosers   == {k1, k2}
OneSize      == {small}
TwoSizes     == {small, large}

Symmetry == Permutations(Clients) \cup Permutations(Closers)
=============================================================================
