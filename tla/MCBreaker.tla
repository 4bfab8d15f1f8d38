----------------------------- MODULE MCBreaker -----------------------------
EXTENDS CircuitBreaker, TLC
Symmetry == Permutations(Threads)
=============================================================================
