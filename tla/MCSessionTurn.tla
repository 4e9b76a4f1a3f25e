--------------------------- MODULE MCSessionTurn ---------------------------
\* Small instances of SessionTurn for TLC.
EXTENDS SessionTurn, TLC

Symmetry == Permutations(Messages)
=============================================================================
