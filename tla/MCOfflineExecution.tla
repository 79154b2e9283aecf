--------------------------- MODULE MCOfflineExecution ---------------------------
(* Instances of OfflineExecution for TLC. *)
EXTENDS OfflineExecution, TLC

Symmetry == Permutations(Jobs) \cup Permutations(Calls)
==============================================================================
