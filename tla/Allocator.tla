------------------------------ MODULE Allocator ------------------------------
(***************************************************************************)
(* What a heap promises: the blocks its callers own are disjoint, as large *)
(* as they were asked for, and keep their data until they are given back.  *)
(* A block is [heap, at, size, data].                                      *)
(***************************************************************************)
EXTENDS Integers

CONSTANTS HeapIds, HeapBytes, Data

VARIABLE blocks

Apart(b, bs) ==
  \A c \in bs : b.heap # c.heap \/ b.at + b.size <= c.at \/ c.at + c.size <= b.at

Block == [heap : HeapIds, at : 0 .. HeapBytes, size : 1 .. HeapBytes, data : Data]

Init == blocks = {}

Inside(b) == b.at + b.size <= HeapBytes

(* What is in the memory of a new block is not said. *)
Allocate == \E b \in blocks' \ blocks :
  /\ b \in Block /\ Inside(b) /\ Apart(b, blocks)
  /\ blocks' = blocks \cup {b}

Free == \E b \in blocks : blocks' = blocks \ {b}

(* The data of one block moves to another, and the first is given back. *)
Move == \E b, c \in blocks :
  /\ b # c
  /\ blocks' = (blocks \ {b, c}) \cup {[c EXCEPT !.data = b.data]}

Next == Allocate \/ Free \/ Move

Spec == Init /\ [][Next]_blocks
=============================================================================
