-------------------------------- MODULE Mouse --------------------------------
(***************************************************************************)
(* The PS/2 mouse driver (drivers/ps2mouse.c): packets of three bytes are  *)
(* assembled in the interrupt handler, compared with the state of the      *)
(* buttons, and told to the callbacks registered under cb_lock.  A byte is *)
(* one of 0, 1, 8, 9: bit 3 marks a first byte, bit 0 is the left button;  *)
(* the other buttons are alike, and movements are left out.  cb_list is a  *)
(* set, since every callback is called; there are fewer than its limit.    *)
(***************************************************************************)
EXTENDS Irq, Sequences

CONSTANTS
  MouseDriver,  \* the thread in mouse_init and mouse_fini
  Clients       \* callbacks that may be registered

ASSUME MouseAssumption ==
  /\ MouseDriver \in Drivers
  /\ \A d \in Drivers \ {MouseDriver} : LineOf[d] # LineOf[MouseDriver]

VARIABLES
  ctx,          \* __ctx: read_counter, packet[0], button_state[LEFT], cb_list; or NoContext
  port,         \* the second PS/2 port is enabled
  byte,         \* of the mouse, in the controller
  heard         \* heard[c]: the button events c was called with

mouseVars == <<ctx, port, byte, heard>>

Bytes == {0, 1, 8, 9}

(* There is none, or mouse_init or mouse_fini has polled it away while the   *)
(* interrupt it raised was waiting.                                         *)
NoByte == -1
Polled == -2

MouseBytes == Bytes \cup {NoByte, Polled}

IsFirst(b) == b >= 8
Left(b) == b % 2 = 1

NoContext == [live |-> FALSE, read_counter |-> 0, first |-> 0, left |-> FALSE, cb_list |-> {}]

MOUSE == LineOf[MouseDriver]

MouseInit == ctx = NoContext /\ port = FALSE /\ byte = NoByte /\ heard = [c \in Clients |-> <<>>]

MouseByte(b) ==
  /\ port /\ byte' = b
  /\ Raise(MOUSE) \/ (Running /\ byte = Polled /\ UNCHANGED irr)
  /\ UNCHANGED <<callback, mask, service, callVars, halted, stray, ctx, port, heard>>

(* With interrupts off from the set-up of the port to the end, but another   *)
(* driver may be between its read and its write of the mask.  The mouse's    *)
(* answers raise its interrupt and are polled; some may be left.  When the  *)
(* mouse does not answer, the context stays and every later mouse_init      *)
(* fails.                                                                   *)
mouse_init(answers, rest) ==
  /\ Running /\ at[MouseDriver] = "idle" /\ uses > 0 /\ uses' = uses - 1
  /\ ~ctx.live
  /\ ctx' = [NoContext EXCEPT !.live = TRUE] /\ port' = TRUE
  /\ byte' = rest /\ (MOUSE \in irr => rest # NoByte)
  /\ irr' = IF rest = NoByte THEN irr ELSE irr \cup {MOUSE}
  /\ callback' = IF answers THEN Installed(callback, MOUSE) ELSE callback
  /\ mask' = IF answers THEN [mask EXCEPT ![PIC(MOUSE)] = Unmasked(@, MOUSE)] ELSE mask
  /\ crossed' = (crossed \/ (answers /\ \E e \in Drivers : Between(e, PIC(MOUSE))))
  /\ heard' = [c \in Clients |-> <<>>]
  /\ UNCHANGED <<at, seen, retired, service, halted, stray>>

(* The port is disabled, which polls the controller, then the context is    *)
(* freed, and only then is the handler detached.                            *)
mouse_fini ==
  /\ Running /\ MOUSE \in callback /\ ctx.live
  /\ Goes(MouseDriver, "idle", "finishing") /\ port' = FALSE
  /\ byte' \in IF byte = NoByte THEN {NoByte} ELSE {byte, Polled}
  /\ UNCHANGED <<callback, mask, seen, uses, retired, crossed, picVars, ctx, heard>>

FreeContext ==
  /\ Running /\ Goes(MouseDriver, "finishing", "disable") /\ ctx' = NoContext
  /\ UNCHANGED <<callback, mask, seen, uses, retired, crossed, picVars, port, byte, heard>>

-----------------------------------------------------------------------------
(* mouse_decode_packet *)
ButtonState(old, b) == Left(b)

InList(c) == c \in ctx.cb_list

(* mouse_parse_packet and mouse_emit_event: every callback is called. *)
Emit(c) ==
  IF Left(ctx.first) # ctx.left /\ InList(c)
  THEN Append(heard[c], IF Left(ctx.first) THEN "down" ELSE "up")
  ELSE heard[c]

(* Mutant: any byte may be the first of a packet. *)
Accepts_any(b, n) == n < 3

Accepts(b, n) == n > 0 \/ IsFirst(b)

Assembled ==
  CASE ~Accepts(byte, ctx.read_counter) -> ctx
    [] Accepts(byte, ctx.read_counter) /\ ctx.read_counter = 0 ->
         [ctx EXCEPT !.read_counter = 1, !.first = byte]
    [] ctx.read_counter = 1 -> [ctx EXCEPT !.read_counter = 2]
    [] ctx.read_counter = 2 ->
         [ctx EXCEPT !.read_counter = 0, !.left = ButtonState(@, ctx.first)]

mouse_isr ==
  /\ Taken(MOUSE) /\ MOUSE \in callback
  /\ \/ /\ byte \in Bytes /\ ctx.live
        /\ ctx' = Assembled /\ byte' = NoByte /\ UNCHANGED halted
        /\ heard' = IF ctx.read_counter = 2 THEN [c \in Clients |-> Emit(c)] ELSE heard
     \/ /\ byte \notin Bytes \/ ~ctx.live
        /\ halted' = IF byte \in Bytes THEN "freed" ELSE "unexpected"
        /\ UNCHANGED <<ctx, byte, heard>>
  /\ UNCHANGED <<port, stray>>

mouse_register_cb(c) ==
  /\ Running /\ ctx.live /\ ~InList(c)
  /\ ctx' = [ctx EXCEPT !.cb_list = @ \cup {c}] /\ heard' = [heard EXCEPT ![c] = <<>>]
  /\ UNCHANGED <<irqVars, port, byte>>

mouse_unregister_cb(c) ==
  /\ Running /\ ctx.live /\ InList(c)
  /\ ctx' = [ctx EXCEPT !.cb_list = @ \ {c}]
  /\ UNCHANGED <<irqVars, port, byte, heard>>

-----------------------------------------------------------------------------
MouseTypeOK ==
  /\ ctx.read_counter \in 0 .. 2 /\ ctx.first \in Bytes
  /\ port \in BOOLEAN /\ byte \in MouseBytes

(* Every callback hears presses and releases in turn, whenever it was       *)
(* registered and however the stream of bytes is cut into packets.          *)
ButtonsAlternate ==
  \A c \in Clients : \A i \in 1 .. Len(heard[c]) - 1 : heard[c][i] # heard[c][i + 1]

(* A packet begins with a byte that is marked as first, also after the      *)
(* driver was attached, detached or bytes were dropped.                     *)
PacketsAligned == ctx.read_counter # 0 => IsFirst(ctx.first)

(* The handler meets a freed context only while mouse_fini, which frees it  *)
(* first, has not detached the handler yet.                                 *)
FreedOnlyInFini ==
  halted = "freed" => at[MouseDriver] \in {"disable", "disabling", "clear"}

(* The handler finds no byte of the mouse only when mouse_init or           *)
(* mouse_fini has polled it away and no other has come since.               *)
UnexpectedIsPolled == halted = "unexpected" => byte = Polled
=============================================================================
