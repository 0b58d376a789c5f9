-------------------------------- MODULE Input --------------------------------
(***************************************************************************)
(* The interrupt lines with the devices on them: the keyboard and its      *)
(* reader, the mouse, and drivers such as the sound card's that register   *)
(* their handler when they start and unregister it when they stop.         *)
(***************************************************************************)
EXTENDS Keyboard, Mouse

CONSTANTS Budgets   \* bounds on what each device sends and how often drivers register

VARIABLE budget   \* what each device may still send

vars == <<irqVars, kbdVars, mouseVars, budget>>

Init ==
  /\ KbdInit /\ MouseInit
  /\ \E b \in Budgets : budget = b.events /\ IrqInit(b.uses)

(* sb16_stop_playback and its like *)
unregister_isr_callback(d) ==
  /\ Running /\ d # MouseDriver /\ LineOf[d] \in callback /\ Goes(d, "idle", "disable")
  /\ UNCHANGED <<callback, mask, seen, uses, retired, crossed, picVars>>

Driver(d) ==
  /\ IrqCall(d) \/ unregister_isr_callback(d) \/ (d # MouseDriver /\ register_isr_callback(d))
  /\ UNCHANGED <<kbdVars, mouseVars, budget>>

Sends(l) == budget[l] > 0 /\ budget' = [budget EXCEPT ![l] = @ - 1]

Device ==
  \/ \E sc \in Scancodes : Key(sc) /\ Sends(KEYBOARD) /\ UNCHANGED mouseVars
  \/ \E b \in Bytes : MouseByte(b) /\ Sends(MOUSE) /\ UNCHANGED kbdVars
  \/ \E d \in Drivers \ {MouseDriver} :
       /\ Raise(LineOf[d]) /\ Sends(LineOf[d])
       /\ UNCHANGED <<callback, mask, service, callVars, halted, stray, kbdVars, mouseVars>>

(* The handler of another driver's line is that driver's affair. *)
OtherIsr(l) == l # KEYBOARD /\ l # MOUSE /\ Taken(l) /\ l \in callback /\ UNCHANGED <<halted, stray>>

Interrupt(l) ==
  /\ \/ l = KEYBOARD /\ keyboard_irq_handler /\ UNCHANGED mouseVars
     \/ l = MOUSE /\ mouse_isr /\ UNCHANGED kbdVars
     \/ OtherIsr(l) /\ UNCHANGED <<kbdVars, mouseVars>>
     \/ Unhandled(l) /\ UNCHANGED <<kbdVars, mouseVars>>
  /\ UNCHANGED budget

Reader == (getch \/ readch \/ Reading) /\ UNCHANGED <<mouseVars, budget>>

MouseCalls ==
  /\ \/ \E answers \in BOOLEAN, rest \in MouseBytes : mouse_init(answers, rest)
     \/ mouse_fini \/ FreeContext
     \/ \E c \in Clients : mouse_register_cb(c) \/ mouse_unregister_cb(c)
  /\ UNCHANGED <<kbdVars, budget>>

Next ==
  \/ Device \/ Reader \/ MouseCalls
  \/ \E d \in Drivers : Driver(d)
  \/ \E l \in Lines : Interrupt(l)

(* The processor takes interrupts whenever they are on, and the scheduler   *)
(* keeps a thread that is in the middle of a read running.                  *)
Fairness ==
  /\ \A l \in Lines : WF_vars(Interrupt(l))
  /\ WF_vars(Reading /\ UNCHANGED <<mouseVars, budget>>)

Spec == Init /\ [][Next]_vars /\ Fairness

-----------------------------------------------------------------------------
TypeOK == IrqTypeOK /\ KbdTypeOK /\ MouseTypeOK

(* Keys are delivered in order, and those that a race costs are accounted   *)
(* for.                                                                     *)
KeysDelivered == TypeOK /\ KeysInOrder /\ LossBounded

(* The mouse's callbacks hear whole packets and alternating buttons. *)
MouseHeard == PacketsAligned /\ ButtonsAlternate

(* An interrupt stops the kernel only on a line that was unregistered, in   *)
(* the middle of mouse_fini, or when its byte was polled away.              *)
HandlerStops == UnhandledAreRetired /\ FreedOnlyInFini /\ UnexpectedIsPolled

(* Every request is served, unless its line is masked or the kernel stops:  *)
(* no handler leaves an interrupt without its end.                          *)
LinesServed ==
  \A l \in Lines : l \in irr ~> l \notin irr \/ l \in UNION {mask[1], mask[2]} \/ ~Running

(* A thread that waits for a key gets one after the next key press, unless  *)
(* the kernel stops or a driver that unregisters has masked the keyboard.   *)
KeyReachesReader ==
  rd.at = "spin" /\ KEYBOARD \in irr /\ Appends(scancode)
    ~> rd.at # "spin" \/ KEYBOARD \in mask[1] \/ ~Running
=============================================================================
