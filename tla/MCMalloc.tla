------------------------------- MODULE MCMalloc -------------------------------
(* Instances of Malloc for TLC. *)
EXTENDS Malloc
=============================================================================
