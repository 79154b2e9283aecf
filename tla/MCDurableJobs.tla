---------------------------- MODULE MCDurableJobs ----------------------------
(* Instances of DurableJobs for TLC. *)
EXTENDS DurableJobs, TLC

\* The engine never looks into a job id.
Symmetry == Permutations(Jobs)
==============================================================================
