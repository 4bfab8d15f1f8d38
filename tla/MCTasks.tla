------------------------------ MODULE MCTasks ------------------------------
EXTENDS TaskService, TLC
Symmetry == Permutations(Handlers) \cup Permutations(Ids)
=============================================================================
