----------------------------- MODULE MCGitHubApp -----------------------------
(* Instances of GitHubApp, with the Secrets Vault under it, for TLC. *)
EXTENDS GitHubApp, TLC

\* Only the App's two resources are told apart.
Symmetry == Permutations(Ids) \cup Permutations(Calls) \cup Permutations(Values)
==============================================================================
