--------------------------------- MODULE Irq ---------------------------------
(***************************************************************************)
(* Interrupt lines (desctables.c): the table of handlers, the masks of the *)
(* two PICs and the drivers that register and unregister handlers.  A mask *)
(* is read and written back with interrupts on, so that two drivers may    *)
(* interleave.  A handler runs with interrupts off: it is one step, which  *)
(* the modules of the devices join to Taken.                               *)
(***************************************************************************)
EXTENDS Integers

CONSTANTS
  Drivers,      \* threads that register and unregister handlers
  LineOf        \* LineOf[d]: the line of driver d

KEYBOARD == 1
CASCADE == 2
Lines == {KEYBOARD} \cup {LineOf[d] : d \in Drivers}

ASSUME IrqAssumption ==
  \A d \in Drivers : LineOf[d] \in (0 .. 15) \ {KEYBOARD, CASCADE}

VARIABLES
  callback,     \* isr_callbacks: the lines that have a handler
  mask,         \* mask[p]: the lines masked in PIC p
  irr, service, \* requests, and interrupts without end-of-interrupt yet
  at,           \* where each driver is: "idle", or in (un)register_isr_callback
  seen,         \* the mask it has read
  uses, retired, crossed, \* registrations left (bounds the model); lines once
              \* unregistered; two drivers were between the same read and write
  halted,       \* "no", or why the kernel panicked
  stray         \* the line whose interrupt found no handler

irqVars == <<callback, mask, irr, service, at, seen, uses, retired, crossed, halted, stray>>
callVars == <<at, seen, uses, retired, crossed>>
picVars == <<irr, service, halted, stray>>

Running == halted = "no"

PIC(l) == IF l < 8 THEN 1 ELSE 2

OnPIC(p) == {l \in 0 .. 15 : PIC(l) = p}

(* idt_initialize, and the keyboard, whose handler stays forever.  The timer *)
(* is left out.                                                             *)
IrqInit(n) ==
  /\ callback = {KEYBOARD}
  /\ mask = [p \in {1, 2} |-> OnPIC(p) \ {KEYBOARD, CASCADE}]
  /\ irr = {} /\ service = {} /\ uses = n /\ retired = {} /\ crossed = FALSE /\ halted = "no" /\ stray = {}
  /\ at = [d \in Drivers |-> "idle"] /\ seen = [d \in Drivers |-> {}]

Goes(d, from, to) == at[d] = from /\ at' = [at EXCEPT ![d] = to]

(* The mask that a driver is about to write back is of PIC p. *)
Between(d, p) ==
  (at[d] = "disabling" /\ p = 1) \/ (at[d] = "enabling" /\ p = PIC(LineOf[d]))

MaskRead(d, p, from, to) ==
  /\ Running /\ Goes(d, from, to)
  /\ seen' = [seen EXCEPT ![d] = mask[p]]
  /\ crossed' = (crossed \/ \E e \in Drivers \ {d} : Between(e, p))
  /\ UNCHANGED <<callback, mask, uses, retired, picVars>>

MaskWrite(d, p, new, from, to) ==
  /\ Running /\ Goes(d, from, to)
  /\ mask' = [mask EXCEPT ![p] = new]
  /\ seen' = [seen EXCEPT ![d] = {}]
  /\ UNCHANGED <<callback, uses, retired, crossed, picVars>>

-----------------------------------------------------------------------------
Installed(c, l) == c \cup {l}

register_isr_callback(d) ==
  /\ Running /\ uses > 0 /\ uses' = uses - 1
  /\ LineOf[d] \notin callback /\ Goes(d, "idle", "enable")
  /\ callback' = Installed(callback, LineOf[d])
  /\ UNCHANGED <<mask, seen, retired, crossed, picVars>>

irq_enable_read(d) == MaskRead(d, PIC(LineOf[d]), "enable", "enabling")

(* Mutant: writes a mask with only its own line in it. *)
Unmasked_alone(m, l) == OnPIC(PIC(l)) \ {l, CASCADE}

Unmasked(m, l) == m \ {l}

irq_enable_write(d) ==
  MaskWrite(d, PIC(LineOf[d]), Unmasked(seen[d], LineOf[d]), "enabling", "idle")

(* unregister_isr_callback masks line number TRUE, whatever its own line is, *)
(* then removes the handler and unmasks its own line.                        *)
irq_disable_read(d) == MaskRead(d, 1, "disable", "disabling")

irq_disable_write(d) == MaskWrite(d, 1, seen[d] \cup {1}, "disabling", "clear")

(* Mutant: the handler stays in the table. *)
Removed_not(c, l) == c

Removed(c, l) == c \ {l}

RemoveCallback(d) ==
  /\ Running /\ Goes(d, "clear", "enable")
  /\ callback' = Removed(callback, LineOf[d])
  /\ retired' = retired \cup {LineOf[d]}
  /\ UNCHANGED <<mask, seen, uses, crossed, picVars>>

IrqCall(d) ==
  irq_enable_read(d) \/ irq_enable_write(d) \/ irq_disable_read(d) \/ irq_disable_write(d) \/ RemoveCallback(d)

-----------------------------------------------------------------------------
(* A device raises its line. *)
Raise(l) == Running /\ l \notin irr /\ irr' = irr \cup {l}

Levels(l) == IF l < 8 THEN {l} ELSE {CASCADE, l}

(* The order of priority: the second PIC hangs on line 2 of the first. *)
Ahead(k, l) ==
  LET rank(x) == IF x < 8 THEN 8 * x ELSE 8 * CASCADE + (x - 8) IN rank(k) < rank(l)

Pending == {l \in irr : \A k \in Levels(l) : k \notin mask[PIC(k)]}

(* Mutant: the second PIC is not told. *)
Eoi_first_only(s, l) == s \ {CASCADE, IF l < 8 THEN l ELSE CASCADE}

(* pic_send_eoi *)
Eoi(s, l) == s \ Levels(l)

(* irq_handler_gateway up to the handler; with no handler it panics. *)
Taken(l) ==
  /\ Running /\ l \in Pending
  /\ \A k \in Pending \ {l} : Ahead(l, k)
  /\ \A k \in service : Ahead(l, k)
  /\ irr' = irr \ {l}
  /\ service' = Eoi(service \cup Levels(l), l)
  /\ UNCHANGED <<callback, mask, callVars>>

Unhandled(l) ==
  /\ Taken(l) /\ l \notin callback
  /\ halted' = "unhandled" /\ stray' = {l}

-----------------------------------------------------------------------------
IrqTypeOK ==
  /\ callback \subseteq Lines /\ irr \subseteq Lines /\ service \subseteq 0 .. 15
  /\ \A p \in {1, 2} : mask[p] \subseteq OnPIC(p)
  /\ \A d \in Drivers :
       /\ at[d] \in {"idle", "enable", "enabling", "disable", "disabling", "clear", "finishing"}
       /\ seen[d] \subseteq 0 .. 15

(* A line with a handler is open once its registration is over, and whatever *)
(* other drivers do to their lines leaves it open, with two exceptions: the  *)
(* keyboard's line is masked by any unregistration, and two drivers that     *)
(* update one mask at the same time undo each other's change.                *)
LinesStayOpen ==
  \A l \in callback \cap UNION {mask[1], mask[2]} :
    \/ crossed \/ \E d \in Drivers : LineOf[d] = l /\ at[d] # "idle"
    \/ l = KEYBOARD /\ (retired # {} \/ \E d \in Drivers : at[d] = "clear")

(* An interrupt without a handler comes from a line that was unregistered   *)
(* and has no handler since: a line that never had one is never open.       *)
UnhandledAreRetired ==
  halted = "unhandled" => stray # {} /\ stray \subseteq retired \ callback
=============================================================================
