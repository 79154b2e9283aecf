-------------------------- MODULE MCChangeTracking --------------------------
EXTENDS ChangeTracking, TLC

Symmetry == Permutations(Paths) \cup Permutations(Sessions) \cup Permutations(Calls)

=============================================================================
