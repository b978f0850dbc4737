--------------------------- MODULE MCCallControl ---------------------------
EXTENDS CallControl, TLC
ConnSymmetry == Permutations(Conn)
=============================================================================
