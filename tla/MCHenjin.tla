------------------------------- MODULE MCHenjin -------------------------------
(* Instance of Henjin for TLC: the pointer starts at the title bar of the   *)
(* window, or of the lower of two windows that overlap.                     *)
EXTENDS Henjin

TwoWindows == <<0, 1>>
MCSteps == {-1, 2}
MCPlans == {[windows |-> 1, events |-> 2, calm |-> FALSE], [windows |-> 1, events |-> 4, calm |-> TRUE], [windows |-> 2, events |-> 3, calm |-> TRUE]}
=============================================================================
