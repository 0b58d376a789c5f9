----------------------------- MODULE MCScheduler -----------------------------
(* Instances of Scheduler for TLC. *)
EXTENDS Scheduler, TLC

(* Descriptor addresses other than those of the two permanent threads are  *)
(* interchangeable.                                                        *)
Spare == Permutations(Threads \ {MainThread, IdleThread})
=============================================================================
