------------------------------- MODULE MCInput -------------------------------
(* Instance of Input for TLC: the sound card on line 5, the mouse on 12.   *)
EXTENDS Input

MCLineOf == [d \in Drivers |-> IF d = "mouse" THEN 12 ELSE 5]

Budget(keys, other, mouse, n) ==
  [events |-> [l \in Lines |-> CASE l = 1 -> keys [] l = 5 -> other [] l = 12 -> mouse],
   uses |-> n]

(* Three keys, or two and a driver; two packets; or a little of everything. *)
MCBudgets ==
  {Budget(3, 0, 0, 0), Budget(2, 0, 0, 1), Budget(0, 0, 5, 2), Budget(1, 1, 1, 2)}
=============================================================================
