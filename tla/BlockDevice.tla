----------------------------- MODULE BlockDevice -----------------------------
(***************************************************************************)
(* What a disk driver promises: a call that succeeds has read what is on   *)
(* the disk, or has written its data; nothing but a write in progress ever *)
(* changes the disk, and then only the sectors it was asked for.           *)
(***************************************************************************)
EXTENDS Integers, Sequences

CONSTANTS Sectors, Data, NoCall

VARIABLES
  disk,
  call,     \* NoCall or [op, first, count, data]
  answer    \* of the last call: [ok, data]

vars == <<disk, call, answer>>

Asked(c) == c.first .. c.first + c.count - 1

Init == disk \in [Sectors -> Data] /\ call = NoCall /\ answer = [ok |-> FALSE, data |-> <<>>]

Begin ==
  /\ call = NoCall
  /\ \E op \in {"read", "write"}, first \in Sectors, count \in 1 .. 2, d \in Data :
       call' = [op |-> op, first |-> first, count |-> count, data |-> d]
  /\ answer' = [ok |-> FALSE, data |-> <<>>] /\ UNCHANGED disk

Refuse == call = NoCall /\ answer' = [ok |-> FALSE, data |-> <<>>] /\ UNCHANGED <<disk, call>>

Commit ==
  /\ call # NoCall /\ call.op = "write"
  /\ \E s \in Asked(call) : disk' = [disk EXCEPT ![s] = call.data]
  /\ UNCHANGED <<call, answer>>

Succeed ==
  /\ call # NoCall /\ call' = NoCall
  /\ answer'.ok
  /\ IF call.op = "read" THEN answer'.data = [i \in 1 .. call.count |-> disk[call.first + i - 1]]
     ELSE \A s \in Asked(call) : disk[s] = call.data
  /\ UNCHANGED disk

Fail == call # NoCall /\ call' = NoCall /\ ~answer'.ok /\ UNCHANGED disk

Next == Begin \/ Refuse \/ Commit \/ Succeed \/ Fail

Spec == Init /\ [][Next]_vars
=============================================================================
