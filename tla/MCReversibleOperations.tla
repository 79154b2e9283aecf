----------------------- MODULE MCReversibleOperations -----------------------
EXTENDS ReversibleOperations, TLC

Symmetry == Permutations(Tickets) \cup Permutations(Calls)
=============================================================================
