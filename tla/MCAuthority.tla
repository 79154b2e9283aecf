----------------------------- MODULE MCAuthority -----------------------------
(* Instances of Authority for TLC. *)
EXTENDS Authority, TLC

\* No id is ever looked into.
Symmetry == Permutations(Grants) \cup Permutations(Approvals)
==============================================================================
