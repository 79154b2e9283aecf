------------------------- MODULE MCRuntimeLifecycle -------------------------
(* Instances of RuntimeLifecycle for TLC. *)
EXTENDS RuntimeLifecycle
=============================================================================
