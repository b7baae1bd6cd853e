------------------------- MODULE MCSessionIDManager -------------------------
EXTENDS SessionIDManager, TLC

\* Connections are interchangeable.
Symmetry == Permutations(Sessions)
=============================================================================
