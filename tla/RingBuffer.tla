----------------------------- MODULE RingBuffer ------------------------------
(***************************************************************************)
(* The ring buffer of libc/ringbuffer.c, which drivers/sound_blaster16.c   *)
(* has a copy of.  Both pointers run over 0..Capacity, not 0..Capacity-1,  *)
(* and one byte stays free to tell full from empty.                        *)
(*                                                                         *)
(* Each call runs under a lock: the buffer's own mutex or spinlock, the    *)
(* message_lock of a Henjin control, or the sound driver's spinlock.  Only *)
(* rb_read_upto takes the buffer's lock twice, so it is two actions.       *)
(***************************************************************************)
EXTENDS Integers, Sequences

CONSTANTS
  Bytes,
  Capacity,     \* buffer_capacity
  MaxLen,       \* longest transfer in the model
  Readers       \* threads and interrupt handlers that read

ASSUME RingAssumption == Capacity \in Nat \ {0} /\ MaxLen \in Nat

VARIABLES
  buffer, read_pointer, write_pointer,
  size,         \* size, the local of each rb_read_upto; 0: not in it
  call,         \* the last call that returned, with its argument,
  ret, out      \* its code and what it delivered

ringVars == <<buffer, read_pointer, write_pointer, size, call, ret, out>>

Slots == 0..(Capacity - 1)

(* kmalloc leaves the buffer uninitialized. *)
RingInit ==
  /\ buffer \in [Slots -> Bytes]
  /\ read_pointer = 0 /\ write_pointer = 0
  /\ size = [t \in Readers |-> 0]
  /\ call = <<"create", 0>> /\ ret = "S_OK" /\ out = <<>>

Delivers(c, hr, bytes) == call' = c /\ ret' = hr /\ out' = bytes

-----------------------------------------------------------------------------
(* Mutant: the byte that tells full from empty is not kept. *)
rb_get_write_size_all ==
  IF write_pointer >= read_pointer THEN Capacity - (write_pointer - read_pointer)
  ELSE read_pointer - write_pointer

rb_get_write_size ==
  (IF write_pointer >= read_pointer THEN Capacity - (write_pointer - read_pointer)
   ELSE read_pointer - write_pointer) - 1

rb_get_read_size ==
  IF read_pointer > write_pointer THEN Capacity - (read_pointer - write_pointer)
  ELSE write_pointer - read_pointer

(* buf with n bytes of src, from its k-th on, copied to offset dst. *)
memcpy(buf, dst, src, k, n) ==
  [j \in Slots |-> IF dst <= j /\ j < dst + n THEN src[k + j - dst] ELSE buf[j]]

(* The copy of len bytes at pointer p leaves the end of the buffer. *)
Wraps(p, len) == p + len > Capacity

(* A pointer after a transfer of len bytes: s2 or the sum. *)
Advance(p, len) == IF Wraps(p, len) THEN len - (Capacity - p) ELSE p + len

(* The buffer after a write, in two pieces if need be. *)
Stored(data) ==
  LET s1 == Capacity - write_pointer IN
  IF Wraps(write_pointer, Len(data))
  THEN memcpy(memcpy(buffer, write_pointer, data, 1, s1),
              0, data, s1 + 1, Len(data) - s1)
  ELSE memcpy(buffer, write_pointer, data, 1, Len(data))

rb_write(data) ==
  /\ IF rb_get_write_size < Len(data)
     THEN /\ Delivers(<<"write", data>>, "E_BUFFEROVERFLOW", <<>>)
          /\ UNCHANGED <<buffer, write_pointer>>
     ELSE /\ buffer' = Stored(data)
          /\ write_pointer' = Advance(write_pointer, Len(data))
          /\ Delivers(<<"write", data>>, "S_OK", <<>>)
  /\ UNCHANGED <<read_pointer, size>>

(* Mutant: the second piece is read from the wrong place. *)
Fetched_second_piece_shifted(len) ==
  [i \in 1..len |-> IF read_pointer + i - 1 < Capacity THEN buffer[read_pointer + i - 1]
                    ELSE buffer[Capacity - 1]]

(* The bytes that a read of len bytes copies to its destination. *)
Fetched(len) ==
  LET s1 == Capacity - read_pointer IN
  IF Wraps(read_pointer, len)
  THEN [i \in 1..len |-> IF i <= s1 THEN buffer[read_pointer + i - 1]
                         ELSE buffer[i - s1 - 1]]
  ELSE [i \in 1..len |-> buffer[read_pointer + i - 1]]

(* Mutant: a byte is kept back. *)
TooFew_last(len) == rb_get_read_size <= len

(* avail_bytes < len *)
TooFew(len) == rb_get_read_size < len

Read(len) ==
  /\ IF TooFew(len)
     THEN /\ Delivers(<<"read", len>>, "E_BUFFERUNDERFLOW", <<>>)
          /\ UNCHANGED read_pointer
     ELSE /\ Delivers(<<"read", len>>, "S_OK", Fetched(len))
          /\ read_pointer' = Advance(read_pointer, len)
  /\ UNCHANGED <<buffer, write_pointer>>

rb_read(t, len) ==
  /\ size[t] = 0
  /\ Read(len)
  /\ UNCHANGED size

SizeUpto(max) == IF rb_get_read_size > max THEN max ELSE rb_get_read_size

(* rb_read_upto asks for the size in one locked section ... *)
ru_size(t, max) ==
  /\ size[t] = 0
  /\ size' = [size EXCEPT ![t] = SizeUpto(max)]
  /\ IF SizeUpto(max) = 0 THEN Delivers(<<"upto", max>>, "E_BUFFERUNDERFLOW", <<>>)
     ELSE UNCHANGED <<call, ret, out>>
  /\ UNCHANGED <<buffer, read_pointer, write_pointer>>

(* ... and reads in another. *)
ru_read(t) ==
  /\ size[t] # 0
  /\ Read(size[t])
  /\ size' = [size EXCEPT ![t] = 0]

RingNext ==
  \/ \E n \in 0..MaxLen : \E data \in [1..n -> Bytes] : rb_write(data)
  \/ \E t \in Readers : \/ \E len \in 0..MaxLen : rb_read(t, len) \/ ru_size(t, len)
                        \/ ru_read(t)

RingSpec == RingInit /\ [][RingNext]_ringVars

-----------------------------------------------------------------------------
Calls == ({"write"} \X Seq(Bytes)) \cup ({"create", "read", "upto"} \X Nat)

(* The pointers stay within the buffer or at its end, and what is read are *)
(* bytes of it.                                                            *)
RingTypeOK ==
  /\ buffer \in [Slots -> Bytes]
  /\ read_pointer \in 0..Capacity /\ write_pointer \in 0..Capacity
  /\ size \in [Readers -> Nat]
  /\ call \in Calls /\ out \in Seq(Bytes)
  /\ ret \in {"S_OK", "E_BUFFEROVERFLOW", "E_BUFFERUNDERFLOW"}

(* The slot i places behind pointer p. *)
At(p, i) == IF p + i < Capacity THEN p + i ELSE p + i - Capacity

(* The bytes between the pointers. *)
Contents == [i \in 1..rb_get_read_size |-> buffer[At(read_pointer, i - 1)]]

(* One byte always stays free, so that a full buffer never looks empty and  *)
(* the unsigned free_seg_size-- never goes below zero.                      *)
OneByteFree == rb_get_write_size >= 0 /\ rb_get_read_size <= Capacity - 1

(* The ring buffer is a bounded byte queue: every read delivers the oldest  *)
(* bytes in order, although they lie in two pieces; a call is refused only  *)
(* if its own length does not fit or is not there, and one whose length     *)
(* does is never refused.                                                   *)
Fifo == INSTANCE ByteFifo WITH Bound <- Capacity - 1, fifo <- Contents, wanted <- size

FifoInit == Fifo!Init

(* The steps of the queue, with transfers of bounded length for TLC. *)
FifoStep ==
  \/ \E n \in 0..MaxLen : \E data \in [1..n -> Bytes] : Fifo!Write(data)
  \/ \E n \in 0..MaxLen : Fifo!Read(n) \/ \E t \in Readers : Fifo!Ask(t, n)
  \/ \E t \in Readers : Fifo!ReadWanted(t)

(* rb_write, rb_read and rb_read_upto implement the byte queue. *)
ImplementsFifo == FifoInit /\ [][FifoStep]_<<Contents, size, call, ret, out>>
=============================================================================
