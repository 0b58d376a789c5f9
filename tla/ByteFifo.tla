------------------------------ MODULE ByteFifo -------------------------------
(***************************************************************************)
(* What a ring buffer promises: a queue of bytes with a bound, whose       *)
(* writes and reads happen as a whole or not at all.  Each call is kept    *)
(* with its argument, so that a refusal is one of that very call.          *)
(***************************************************************************)
EXTENDS Integers, Sequences

CONSTANTS Bytes, Bound, Readers

VARIABLES
  fifo,           \* the contents
  wanted,         \* what each reader was told it may read; 0: nothing
  call, ret, out  \* the last call that returned, its code and its bytes

vars == <<fifo, wanted, call, ret, out>>

Init ==
  /\ fifo = <<>> /\ wanted = [t \in Readers |-> 0]
  /\ call = <<"create", 0>> /\ ret = "S_OK" /\ out = <<>>

Reply(c, hr, bytes) == call' = c /\ ret' = hr /\ out' = bytes

(* All of the data enters, or none because it does not fit. *)
Write(data) ==
  /\ \/ /\ Len(fifo) + Len(data) <= Bound
        /\ fifo' = fifo \o data
        /\ Reply(<<"write", data>>, "S_OK", <<>>)
     \/ /\ Len(fifo) + Len(data) > Bound
        /\ fifo' = fifo
        /\ Reply(<<"write", data>>, "E_BUFFEROVERFLOW", <<>>)
  /\ UNCHANGED wanted

(* The n oldest bytes leave, or none because there are fewer. *)
Take(n) ==
  \/ /\ n <= Len(fifo)
     /\ fifo' = SubSeq(fifo, n + 1, Len(fifo))
     /\ Reply(<<"read", n>>, "S_OK", SubSeq(fifo, 1, n))
  \/ /\ n > Len(fifo)
     /\ fifo' = fifo
     /\ Reply(<<"read", n>>, "E_BUFFERUNDERFLOW", <<>>)

Read(n) == Take(n) /\ UNCHANGED wanted

Least(m, n) == IF m < n THEN m ELSE n

(* A reader that takes what there is, up to max bytes, is first told how    *)
(* much it may read, or refused because that is nothing ...                 *)
Ask(t, max) ==
  LET n == Least(max, Len(fifo)) IN
  /\ wanted[t] = 0
  /\ wanted' = [wanted EXCEPT ![t] = n]
  /\ IF n = 0 THEN Reply(<<"upto", max>>, "E_BUFFERUNDERFLOW", <<>>)
     ELSE UNCHANGED <<call, ret, out>>
  /\ UNCHANGED fifo

(* ... and then reads that much, unless others have taken it meanwhile.     *)
ReadWanted(t) ==
  /\ wanted[t] # 0
  /\ Take(wanted[t])
  /\ wanted' = [wanted EXCEPT ![t] = 0]

Next ==
  \/ \E data \in Seq(Bytes) : Write(data)
  \/ \E n \in Nat : Read(n) \/ \E t \in Readers : Ask(t, n)
  \/ \E t \in Readers : ReadWanted(t)

Spec == Init /\ [][Next]_vars
=============================================================================
