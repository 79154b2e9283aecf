--------------------------- MODULE MCCrashRecovery ---------------------------
(* Instances of CrashRecovery for TLC. *)
EXTENDS CrashRecovery, TLC

\* The engine never looks into a job id or a session id.
Symmetry == Permutations(Jobs) \cup Permutations(Sessions)
==============================================================================
