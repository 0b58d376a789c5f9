------------------------------- MODULE MCMemory -------------------------------
(* Instance of Memory for TLC.  The threads are interchangeable. *)
EXTENDS Memory, TLC

(* The second one has a segment that ends with its page. *)
MCImages == {<<[va |-> 1, bytes |-> 1], [va |-> 2, bytes |-> 9]>>,
             <<[va |-> 1, bytes |-> 2], [va |-> 2, bytes |-> 3]>>}

Symmetry == Permutations(KThreads)

(* Behaviours are followed up to their first clash: what they do to each   *)
(* other's blocks and regions after it is anything, and promised by none   *)
(* of the properties.                                                      *)
Followed == ~clash
=============================================================================
