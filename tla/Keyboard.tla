------------------------------- MODULE Keyboard -------------------------------
(***************************************************************************)
(* The keyboard buffer (ps2.c): keyboard_irq_handler appends, getch and    *)
(* readch take the first key and shift the rest, with no lock: the handler *)
(* may run between any two of their accesses to kbd_ptr.                   *)
(***************************************************************************)
EXTENDS Irq, Sequences

CONSTANTS
  KBD_SIZE,     \* 256
  Keys,
  SILENT,       \* a key without a character
  NoKey         \* what is behind the end of the buffer

ASSUME KeyboardAssumption == KBD_SIZE \in Nat \ {0} /\ {NoKey, SILENT} \cap Keys = {}

VARIABLES
  kbd_buffer, kbd_ptr,
  scancode,     \* in the controller: [key, down]
  rd,           \* the reader: its call, position, i, res and kbd_ptr as loaded
  typed, got,   \* keys that reached the handler, keys that calls returned
  cuts          \* interrupts that came between the steps of a read

kbdVars == <<kbd_buffer, kbd_ptr, scancode, rd, typed, got, cuts>>

Idle == [at |-> "idle", call |-> "none", i |-> 0, res |-> NoKey, ptr |-> 0]

KbdInit ==
  /\ kbd_buffer = [i \in 0 .. KBD_SIZE |-> NoKey] /\ kbd_ptr = 0
  /\ scancode = [key |-> NoKey, down |-> FALSE]
  /\ rd = Idle /\ typed = <<>> /\ got = <<>> /\ cuts = 0

(* The key of a release, and what a key without a character switches, only  *)
(* matter to keyboard_driver_state, which is left out.                      *)
Scancodes == [key : Keys \cup {SILENT}, down : {TRUE}] \cup {[key |-> SILENT, down |-> FALSE]}

Key(sc) ==
  /\ Raise(KEYBOARD) /\ scancode' = sc
  /\ UNCHANGED <<callback, mask, service, callVars, halted, stray>>
  /\ UNCHANGED <<kbd_buffer, kbd_ptr, rd, typed, got, cuts>>

Appends(sc) == sc.down /\ sc.key # SILENT

(* Mutant: the place after the key stays. *)
After_same(p) == p

After(p) == p + 1

Full(p) == p >= KBD_SIZE

(* The panic comes first, whatever the scancode says. *)
keyboard_irq_handler ==
  /\ Taken(KEYBOARD) /\ KEYBOARD \in callback
  /\ halted' = IF Full(kbd_ptr) THEN "full" ELSE "no"
  /\ cuts' = IF rd.at \in {"idle", "spin"} THEN cuts ELSE cuts + 1
  /\ IF ~Full(kbd_ptr) /\ Appends(scancode)
     THEN /\ kbd_buffer' = [kbd_buffer EXCEPT ![kbd_ptr] = scancode.key]
          /\ kbd_ptr' = After(kbd_ptr)
          /\ typed' = Append(typed, scancode.key)
     ELSE UNCHANGED <<kbd_buffer, kbd_ptr, typed>>
  /\ scancode' = [key |-> NoKey, down |-> FALSE]
  /\ UNCHANGED <<rd, got, stray>>

-----------------------------------------------------------------------------
ReaderStep == Running /\ UNCHANGED <<irqVars, scancode, typed, cuts>>

getch == ReaderStep /\ rd = Idle /\ rd' = [Idle EXCEPT !.at = "spin", !.call = "getch"]
         /\ UNCHANGED <<kbd_buffer, kbd_ptr, got>>

(* con_read calls readch until it says that there is no key. *)
readch ==
  /\ ReaderStep /\ rd = Idle /\ kbd_ptr # 0
  /\ rd' = [Idle EXCEPT !.at = "first", !.call = "readch"]
  /\ UNCHANGED <<kbd_buffer, kbd_ptr, got>>

SpinEnds ==
  /\ ReaderStep /\ rd.at = "spin" /\ kbd_ptr # 0
  /\ rd' = [rd EXCEPT !.at = "first"]
  /\ UNCHANGED <<kbd_buffer, kbd_ptr, got>>

TakeFirst ==
  /\ ReaderStep /\ rd.at = "first"
  /\ rd' = [rd EXCEPT !.res = kbd_buffer[0], !.at = IF rd.call = "getch" THEN "shift" ELSE "load"]
  /\ UNCHANGED <<kbd_buffer, kbd_ptr, got>>

(* The bound of the loop is read again each time. *)
Bound == IF rd.call = "getch" THEN kbd_ptr - 1 ELSE kbd_ptr

Return == rd' = Idle /\ got' = Append(got, rd.res)

Shift ==
  /\ ReaderStep /\ rd.at = "shift"
  /\ IF rd.i < Bound
     THEN /\ kbd_buffer' = [kbd_buffer EXCEPT ![rd.i] = kbd_buffer[rd.i + 1]]
          /\ rd' = [rd EXCEPT !.i = @ + 1] /\ UNCHANGED got
     ELSE /\ IF rd.call = "getch" THEN rd' = [rd EXCEPT !.at = "load"] /\ UNCHANGED got ELSE Return
          /\ UNCHANGED kbd_buffer
  /\ UNCHANGED kbd_ptr

(* kbd_ptr-- is a load and a store. *)
Load ==
  /\ ReaderStep /\ rd.at = "load" /\ rd' = [rd EXCEPT !.at = "store", !.ptr = kbd_ptr]
  /\ UNCHANGED <<kbd_buffer, kbd_ptr, got>>

(* Mutant: forgets the keys that are left. *)
Less_all(p) == 0

Less(p) == p - 1

Store ==
  /\ ReaderStep /\ rd.at = "store" /\ kbd_ptr' = Less(rd.ptr)
  /\ IF rd.call = "getch" THEN Return ELSE rd' = [rd EXCEPT !.at = "shift"] /\ UNCHANGED got
  /\ UNCHANGED kbd_buffer

Reading == SpinEnds \/ TakeFirst \/ Shift \/ Load \/ Store

-----------------------------------------------------------------------------
KbdTypeOK ==
  /\ \A i \in DOMAIN kbd_buffer : kbd_buffer[i] \in Keys \cup {NoKey, SILENT}
  /\ kbd_ptr \in 0 .. KBD_SIZE /\ rd.i \in 0 .. KBD_SIZE
  /\ rd.at \in {"idle", "spin", "first", "shift", "load", "store"}

Between2Reads == rd.at \in {"idle", "spin"}

Buffered == [i \in 1 .. kbd_ptr |-> kbd_buffer[i - 1]]

(* Keys are returned in the order in which they were typed, each once, and  *)
(* the rest is in the buffer, as long as no key arrives during a read.      *)
KeysInOrder == cuts = 0 /\ Between2Reads => got \o Buffered = typed

(* A key that arrives during a read costs at most one key; none is ever     *)
(* counted twice.                                                           *)
LossBounded ==
  Between2Reads =>
    Len(typed) - cuts <= Len(got) + kbd_ptr /\ Len(got) + kbd_ptr <= Len(typed)
=============================================================================
