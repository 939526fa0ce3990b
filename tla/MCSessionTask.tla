--------------------------- MODULE MCSessionTask ---------------------------
EXTENDS SessionTask, TLC

Symmetry == Permutations(Conn) \cup Permutations(Prompt)
=============================================================================
