------------------------------- MODULE MCFloppy -------------------------------
(* Instance of Floppy for TLC: two sectors on two cylinders.               *)
EXTENDS Floppy
=============================================================================
