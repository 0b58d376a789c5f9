------------------------------ MODULE FileStore ------------------------------
(***************************************************************************)
(* What files promise: a file is a sequence of bytes, each open stream has *)
(* its own position in one, a read returns what is there, and a write      *)
(* changes that and nothing else.  A failed write may lose the file.       *)
(***************************************************************************)
EXTENDS Integers, Sequences

CONSTANTS Files, Streams, Blocks, Absent, Lost, Closed

VARIABLES
  data,     \* data[f]: its bytes, Absent or Lost
  stream,   \* stream[s]: Closed or [file, pos]
  out       \* the bytes the last call returned

vars == <<data, stream, out>>

Open == {s \in Streams : stream[s] # Closed}

Here(s) == data[stream[s].file]

Init ==
  /\ data = [f \in Files |-> Absent]
  /\ stream = [s \in Streams |-> Closed]
  /\ out = <<>>

Quiet == out' = <<>>

Create(f) == data[f] = Absent /\ data' = [data EXCEPT ![f] = <<>>] /\ Quiet /\ UNCHANGED stream

OpenFile(s, f) ==
  /\ s \notin Open /\ data[f] # Absent
  /\ stream' = [stream EXCEPT ![s] = [file |-> f, pos |-> 0]]
  /\ Quiet /\ UNCHANGED data

Read(s) ==
  /\ s \in Open /\ Here(s) # Lost
  /\ \E n \in 1 .. Len(Here(s)) - stream[s].pos :
       /\ out' = SubSeq(Here(s), stream[s].pos + 1, stream[s].pos + n)
       /\ stream' = [stream EXCEPT ![s].pos = @ + n]
  /\ UNCHANGED data

Overwritten(bs, pos, block) ==
  [i \in 1 .. IF pos + Len(block) > Len(bs) THEN pos + Len(block) ELSE Len(bs) |->
     IF i \in pos + 1 .. pos + Len(block) THEN block[i - pos] ELSE bs[i]]

Write(s, block) ==
  /\ s \in Open /\ Here(s) # Lost
  /\ data' = [data EXCEPT ![stream[s].file] = Overwritten(@, stream[s].pos, block)]
  /\ stream' = [stream EXCEPT ![s].pos = @ + Len(block)]
  /\ Quiet

Lose(s) ==
  /\ s \in Open /\ data' = [data EXCEPT ![stream[s].file] = Lost]
  /\ Quiet /\ UNCHANGED stream

Seek(s) ==
  /\ s \in Open /\ Here(s) # Lost
  /\ \E p \in 0 .. Len(Here(s)) : stream' = [stream EXCEPT ![s].pos = p]
  /\ Quiet /\ UNCHANGED data

Close(s) ==
  /\ s \in Open /\ stream' = [stream EXCEPT ![s] = Closed]
  /\ Quiet /\ UNCHANGED data

(* Nothing is promised of a lost file, nor of the streams open on it. *)
Whatever(f) ==
  /\ data[f] = Lost
  /\ \A g \in Files \ {f} : data'[g] = data[g]
  /\ \A s \in Streams : s \notin Open \/ stream[s].file # f => stream'[s] = stream[s]

(* Everything else a file system does leaves files and streams alone. *)
Other == Quiet /\ UNCHANGED <<data, stream>>

Next ==
  \/ \E f \in Files : Create(f) \/ Whatever(f) \/ \E s \in Streams : OpenFile(s, f)
  \/ \E s \in Streams :
       Read(s) \/ Lose(s) \/ Seek(s) \/ Close(s) \/ \E block \in Blocks : Write(s, block)
  \/ Other

Spec == Init /\ [][Next]_vars
=============================================================================
