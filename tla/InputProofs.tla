------------------------------ MODULE InputProofs ------------------------------
(***************************************************************************)
(* Proofs about Input, for any drivers and lines, any size of the keyboard *)
(* buffer and any number of events: which lines may be silent, what stops  *)
(* the kernel, and that keys and packets arrive as they should.            *)
(***************************************************************************)
EXTENDS Input, SequenceTheorems, TLAPS

-----------------------------------------------------------------------------
(* Lines and masks *)

Places == {"idle", "enable", "enabling", "disable", "disabling", "clear", "finishing"}

lineVars == <<callback, mask, at, seen, retired, crossed>>

LineTypes ==
  /\ callback \subseteq Lines
  /\ mask \in [{1, 2} -> SUBSET (0 .. 15)] /\ \A p \in {1, 2} : mask[p] \subseteq OnPIC(p)
  /\ at \in [Drivers -> Places] /\ seen \in [Drivers -> SUBSET (0 .. 15)]
  /\ \A d \in Drivers, p \in {1, 2} : Between(d, p) => seen[d] \subseteq OnPIC(p)
  /\ crossed \in BOOLEAN

(* As long as no two drivers have met between a read and a write, the mask  *)
(* that a driver has read is the one it is about to change.                 *)
SeenIsMask ==
  crossed \/ \A d \in Drivers, p \in {1, 2} :
    Between(d, p) => seen[d] = mask[p] /\ \A e \in Drivers \ {d} : ~Between(e, p)

Known(l) == l \in callback \/ l \in retired

(* Only a line that has or had a handler is open, or is about to be opened. *)
OpenIsKnown ==
  /\ \A l \in Lines : l \notin mask[PIC(l)] => Known(l)
  /\ \A d \in Drivers, p \in {1, 2} :
       Between(d, p) => \A l \in Lines : PIC(l) = p /\ l \notin seen[d] => Known(l)
  /\ \A d \in Drivers : at[d] \in {"enable", "enabling"} => Known(LineOf[d])

LineInv == LineTypes /\ SeenIsMask /\ OpenIsKnown /\ LinesStayOpen

(* Every step that touches the lines *)
LineStep ==
  \/ UNCHANGED lineVars
  \/ \E d \in Drivers :
       \/ register_isr_callback(d) \/ unregister_isr_callback(d) \/ RemoveCallback(d)
       \/ irq_enable_read(d) \/ irq_enable_write(d) \/ irq_disable_read(d) \/ irq_disable_write(d)
  \/ \E answers \in BOOLEAN, rest \in MouseBytes : mouse_init(answers, rest)
  \/ mouse_fini \/ FreeContext

LEMMA LineSteps == [Next]_vars => LineStep
<1> SUFFICES ASSUME [Next]_vars PROVE LineStep
  OBVIOUS
<1>1. CASE UNCHANGED vars
  BY <1>1 DEF LineStep, lineVars, vars, irqVars
<1>2. CASE Device
  BY <1>2 DEF Device, Key, MouseByte, callVars, LineStep, lineVars
<1>3. CASE Reader
  BY <1>3 DEF Reader, Reading, getch, readch, SpinEnds, TakeFirst, Shift, Load, Store,
     ReaderStep,
              irqVars, LineStep, lineVars
<1>4. CASE MouseCalls
  BY <1>4 DEF MouseCalls, mouse_register_cb, mouse_unregister_cb, irqVars, LineStep, lineVars,
     MouseBytes
<1>5. ASSUME NEW d \in Drivers, Driver(d) PROVE LineStep
  BY <1>5 DEF Driver, IrqCall, LineStep
<1>6. ASSUME NEW l \in Lines, Interrupt(l) PROVE LineStep
  BY <1>6 DEF Interrupt, keyboard_irq_handler, mouse_isr, OtherIsr, Unhandled, Taken, callVars,
              LineStep, lineVars
<1> QED
  BY <1>1, <1>2, <1>3, <1>4, <1>5, <1>6 DEF Next

LEMMA LineRanges ==
  /\ Lines \subseteq 0 .. 15 /\ KEYBOARD \in Lines
  /\ \A d \in Drivers : LineOf[d] \in Lines /\ LineOf[d] # KEYBOARD /\ PIC(LineOf[d]) \in {1, 2}
  /\ \A l \in 0 .. 15 : PIC(l) \in {1, 2} /\ l \in OnPIC(PIC(l))
  /\ \A l, p : l \in OnPIC(p) => PIC(l) = p /\ l \in 0 .. 15
  /\ PIC(KEYBOARD) = 1 /\ KEYBOARD = 1
BY IrqAssumption DEF Lines, KEYBOARD, CASCADE, PIC, OnPIC

LEMMA StepLineTypes ==
  ASSUME LineTypes, LineStep
  PROVE  LineTypes'
<1>1. CASE UNCHANGED lineVars
  BY <1>1 DEF LineTypes, lineVars, Between
<1>2. ASSUME NEW d \in Drivers, register_isr_callback(d) PROVE LineTypes'
  BY <1>2, LineRanges DEF register_isr_callback, Goes, Installed, LineTypes, Places, Between
<1>3. ASSUME NEW d \in Drivers, unregister_isr_callback(d) PROVE LineTypes'
  BY <1>3 DEF unregister_isr_callback, Goes, LineTypes, Places, Between
<1>4. ASSUME NEW d \in Drivers, RemoveCallback(d) PROVE LineTypes'
  BY <1>4 DEF RemoveCallback, Removed, Goes, LineTypes, Places, Between
<1>5. ASSUME NEW d \in Drivers, irq_enable_read(d) PROVE LineTypes'
  BY <1>5, LineRanges DEF irq_enable_read, MaskRead, Goes, LineTypes, Places, Between
<1>6. ASSUME NEW d \in Drivers, irq_disable_read(d) PROVE LineTypes'
  BY <1>6, LineRanges DEF irq_disable_read, MaskRead, Goes, LineTypes, Places, Between
<1>7. ASSUME NEW d \in Drivers, irq_enable_write(d) PROVE LineTypes'
  BY <1>7, LineRanges DEF irq_enable_write, MaskWrite, Unmasked, Goes, LineTypes, Places,
     Between
<1>8. ASSUME NEW d \in Drivers, irq_disable_write(d) PROVE LineTypes'
  BY <1>8, LineRanges DEF irq_disable_write, MaskWrite, Goes, LineTypes, Places, Between
<1>9. ASSUME NEW answers \in BOOLEAN, NEW rest \in MouseBytes, mouse_init(answers, rest) PROVE LineTypes'
  BY <1>9, LineRanges, MouseAssumption DEF mouse_init, MOUSE, Installed, Unmasked, LineTypes,
     Between
<1>10. CASE mouse_fini
  BY <1>10 DEF mouse_fini, Goes, LineTypes, Places, Between
<1>11. CASE FreeContext
  BY <1>11 DEF FreeContext, Goes, LineTypes, Places, Between
<1> QED
  BY <1>1, <1>2, <1>3, <1>4, <1>5, <1>6, <1>7, <1>8, <1>9, <1>10, <1>11 DEF LineStep

LEMMA StepSeenIsMask ==
  ASSUME LineTypes, SeenIsMask, LineStep
  PROVE  SeenIsMask'
<1>1. CASE UNCHANGED lineVars
  BY <1>1 DEF lineVars, SeenIsMask, LineTypes, Between
<1>2. ASSUME NEW d \in Drivers, register_isr_callback(d) PROVE SeenIsMask'
  BY <1>2, LineRanges DEF register_isr_callback, Goes, Installed, SeenIsMask, LineTypes, Between
<1>3. ASSUME NEW d \in Drivers, unregister_isr_callback(d) PROVE SeenIsMask'
  BY <1>3, LineRanges DEF unregister_isr_callback, Goes, SeenIsMask, LineTypes, Between
<1>4. ASSUME NEW d \in Drivers, RemoveCallback(d) PROVE SeenIsMask'
  BY <1>4, LineRanges DEF RemoveCallback, Removed, Goes, SeenIsMask, LineTypes, Between
<1>5. ASSUME NEW d \in Drivers, irq_enable_read(d) PROVE SeenIsMask'
  <2> DEFINE q == PIC(LineOf[d])
  <2> SUFFICES ASSUME ~crossed', NEW e \in Drivers, NEW p \in {1, 2}, Between(e, p)'
               PROVE  seen'[e] = mask'[p] /\ \A f \in Drivers \ {e} : ~Between(f, p)'
    BY <1>5 DEF SeenIsMask
  <2>1. /\ seen' = [seen EXCEPT ![d] = mask[q]] /\ mask' = mask
        /\ at' = [at EXCEPT ![d] = "enabling"] /\ q \in {1, 2}
        /\ ~crossed /\ \A f \in Drivers \ {d} : ~Between(f, q)
    BY <1>5, LineRanges DEF irq_enable_read, MaskRead, Goes
  <2>2. \A f \in Drivers \ {d}, r \in {1, 2} : Between(f, r)' <=> Between(f, r)
    BY <2>1 DEF LineTypes, Between
  <2>3. \A r : Between(d, r)' <=> r = q
    BY <2>1 DEF LineTypes, Between
  <2>4. CASE e = d
    BY <2>1, <2>2, <2>3, <2>4 DEF LineTypes
  <2>5. CASE e # d
    BY <2>1, <2>2, <2>3, <2>5 DEF LineTypes, SeenIsMask
  <2> QED
    BY <2>4, <2>5
<1>6. ASSUME NEW d \in Drivers, irq_disable_read(d) PROVE SeenIsMask'
  BY <1>6, LineRanges DEF irq_disable_read, MaskRead, Goes, SeenIsMask, LineTypes, Between
<1>7. ASSUME NEW d \in Drivers, irq_enable_write(d) PROVE SeenIsMask'
  BY <1>7, LineRanges DEF irq_enable_write, MaskWrite, Unmasked, Goes, SeenIsMask, LineTypes,
     Between
<1>8. ASSUME NEW d \in Drivers, irq_disable_write(d) PROVE SeenIsMask'
  BY <1>8, LineRanges DEF irq_disable_write, MaskWrite, Goes, SeenIsMask, LineTypes, Between
<1>9. ASSUME NEW answers \in BOOLEAN, NEW rest \in MouseBytes, mouse_init(answers, rest) PROVE SeenIsMask'
  BY <1>9, LineRanges, MouseAssumption DEF mouse_init, MOUSE, Installed, Unmasked, SeenIsMask,
     LineTypes, Between
<1>10. CASE mouse_fini
  BY <1>10 DEF mouse_fini, Goes, SeenIsMask, LineTypes, Between
<1>11. CASE FreeContext
  BY <1>11 DEF FreeContext, Goes, SeenIsMask, LineTypes, Between
<1> QED
  BY <1>1, <1>2, <1>3, <1>4, <1>5, <1>6, <1>7, <1>8, <1>9, <1>10, <1>11 DEF LineStep

LEMMA StepOpenIsKnown ==
  ASSUME LineTypes, OpenIsKnown, LineStep
  PROVE  OpenIsKnown'
<1>1. CASE UNCHANGED lineVars
  BY <1>1 DEF lineVars, OpenIsKnown, Known, LineTypes, Between
<1>2. ASSUME NEW d \in Drivers, register_isr_callback(d) PROVE OpenIsKnown'
  BY <1>2, LineRanges DEF register_isr_callback, Goes, Installed, OpenIsKnown, Known,
     LineTypes, Between
<1>3. ASSUME NEW d \in Drivers, unregister_isr_callback(d) PROVE OpenIsKnown'
  BY <1>3, LineRanges DEF unregister_isr_callback, Goes, OpenIsKnown, Known, LineTypes, Between
<1>4. ASSUME NEW d \in Drivers, RemoveCallback(d) PROVE OpenIsKnown'
  BY <1>4, LineRanges DEF RemoveCallback, Removed, Goes, OpenIsKnown, Known, LineTypes, Between
<1>5. ASSUME NEW d \in Drivers, irq_enable_read(d) PROVE OpenIsKnown'
  BY <1>5, LineRanges DEF irq_enable_read, MaskRead, Goes, OpenIsKnown, Known, LineTypes,
     Between
<1>6. ASSUME NEW d \in Drivers, irq_disable_read(d) PROVE OpenIsKnown'
  BY <1>6, LineRanges DEF irq_disable_read, MaskRead, Goes, OpenIsKnown, Known, LineTypes,
     Between
<1>7. ASSUME NEW d \in Drivers, irq_enable_write(d) PROVE OpenIsKnown'
  BY <1>7, LineRanges DEF irq_enable_write, MaskWrite, Unmasked, Goes, OpenIsKnown, Known,
     LineTypes, Between
<1>8. ASSUME NEW d \in Drivers, irq_disable_write(d) PROVE OpenIsKnown'
  BY <1>8, LineRanges DEF irq_disable_write, MaskWrite, Goes, OpenIsKnown, Known, LineTypes,
     Between
<1>9. ASSUME NEW answers \in BOOLEAN, NEW rest \in MouseBytes, mouse_init(answers, rest) PROVE OpenIsKnown'
  BY <1>9, LineRanges, MouseAssumption DEF mouse_init, MOUSE, Installed, Unmasked,
     OpenIsKnown, Known, LineTypes, Between
<1>10. CASE mouse_fini
  BY <1>10 DEF mouse_fini, Goes, OpenIsKnown, Known, LineTypes, Between
<1>11. CASE FreeContext
  BY <1>11 DEF FreeContext, Goes, OpenIsKnown, Known, LineTypes, Between
<1> QED
  BY <1>1, <1>2, <1>3, <1>4, <1>5, <1>6, <1>7, <1>8, <1>9, <1>10, <1>11 DEF LineStep

LEMMA StepLinesStayOpen ==
  ASSUME LineTypes, SeenIsMask, LinesStayOpen, LineStep
  PROVE  LinesStayOpen'
<1>1. CASE UNCHANGED lineVars
  BY <1>1 DEF lineVars, LinesStayOpen, SeenIsMask, LineTypes, Between
<1>2. ASSUME NEW d \in Drivers, register_isr_callback(d) PROVE LinesStayOpen'
  BY <1>2, LineRanges DEF register_isr_callback, Goes, Installed, LinesStayOpen, SeenIsMask,
     LineTypes, Between
<1>3. ASSUME NEW d \in Drivers, unregister_isr_callback(d) PROVE LinesStayOpen'
  BY <1>3, LineRanges DEF unregister_isr_callback, Goes, LinesStayOpen, SeenIsMask, LineTypes,
     Between
<1>4. ASSUME NEW d \in Drivers, RemoveCallback(d) PROVE LinesStayOpen'
  BY <1>4, LineRanges DEF RemoveCallback, Removed, Goes, LinesStayOpen, SeenIsMask, LineTypes,
     Between
<1>5. ASSUME NEW d \in Drivers, irq_enable_read(d) PROVE LinesStayOpen'
  BY <1>5, LineRanges DEF irq_enable_read, MaskRead, Goes, LinesStayOpen, SeenIsMask,
     LineTypes, Between
<1>6. ASSUME NEW d \in Drivers, irq_disable_read(d) PROVE LinesStayOpen'
  BY <1>6, LineRanges DEF irq_disable_read, MaskRead, Goes, LinesStayOpen, SeenIsMask,
     LineTypes, Between
<1>7. ASSUME NEW d \in Drivers, irq_enable_write(d) PROVE LinesStayOpen'
  BY <1>7, LineRanges DEF irq_enable_write, MaskWrite, Unmasked, Goes, LinesStayOpen,
     SeenIsMask, LineTypes, Between
<1>8. ASSUME NEW d \in Drivers, irq_disable_write(d) PROVE LinesStayOpen'
  BY <1>8, LineRanges DEF irq_disable_write, MaskWrite, Goes, LinesStayOpen, SeenIsMask,
     LineTypes, Between
<1>9. ASSUME NEW answers \in BOOLEAN, NEW rest \in MouseBytes, mouse_init(answers, rest) PROVE LinesStayOpen'
  BY <1>9, LineRanges, MouseAssumption DEF mouse_init, MOUSE, Installed, Unmasked,
     LinesStayOpen, SeenIsMask, LineTypes, Between
<1>10. CASE mouse_fini
  BY <1>10 DEF mouse_fini, Goes, LinesStayOpen, SeenIsMask, LineTypes, Between
<1>11. CASE FreeContext
  BY <1>11 DEF FreeContext, Goes, LinesStayOpen, SeenIsMask, LineTypes, Between
<1> QED
  BY <1>1, <1>2, <1>3, <1>4, <1>5, <1>6, <1>7, <1>8, <1>9, <1>10, <1>11 DEF LineStep


-----------------------------------------------------------------------------
(* What stops the kernel *)

(* After a panic nothing moves; before it, only an interrupt panics.        *)
LEMMA StepHalted ==
  ASSUME [Next]_vars
  PROVE  UNCHANGED vars \/ (Running /\ (halted' = halted \/ \E l \in Lines : Interrupt(l)))
<1>1. CASE UNCHANGED vars
  BY <1>1
<1>2. CASE Device
  BY <1>2 DEF Device, Key, MouseByte, Raise
<1>3. CASE Reader
  BY <1>3 DEF Reader, Reading, getch, readch, SpinEnds, TakeFirst, Shift, Load, Store,
     ReaderStep,
              irqVars
<1>4. CASE MouseCalls
  BY <1>4 DEF MouseCalls, mouse_init, mouse_fini, FreeContext, mouse_register_cb,
              mouse_unregister_cb, picVars, irqVars
<1>5. ASSUME NEW d \in Drivers, Driver(d)
      PROVE  Running /\ halted' = halted
  BY <1>5 DEF Driver, IrqCall, unregister_isr_callback, register_isr_callback, RemoveCallback,
              irq_enable_read, irq_enable_write, irq_disable_read, irq_disable_write,
              MaskRead, MaskWrite, picVars
<1>6. ASSUME NEW l \in Lines, Interrupt(l)
      PROVE  Running
  BY <1>6 DEF Interrupt, keyboard_irq_handler, mouse_isr, OtherIsr, Unhandled, Taken
<1> QED
  BY <1>1, <1>2, <1>3, <1>4, <1>5, <1>6 DEF Next

Requests == irr \subseteq Lines /\ service \subseteq 0 .. 15

LEMMA StepRequests ==
  ASSUME Requests, [Next]_vars
  PROVE  Requests'
<1>1. CASE UNCHANGED vars
  BY <1>1 DEF Requests, vars, irqVars
<1>2. CASE Device
  <2>1. ASSUME NEW l \in Lines, Raise(l), service' = service PROVE Requests'
    BY <2>1 DEF Raise, Requests
  <2>2. MOUSE \in Lines
    BY MouseAssumption, LineRanges DEF MOUSE
  <2>3. ASSUME NEW b \in Bytes, MouseByte(b) PROVE Requests'
    BY <2>1, <2>2, <2>3 DEF MouseByte, Requests
  <2> QED
    BY <1>2, <2>1, <2>3, LineRanges DEF Device, Key
<1>3. CASE Reader
  BY <1>3 DEF Reader, Reading, getch, readch, SpinEnds, TakeFirst, Shift, Load, Store,
     ReaderStep,
              irqVars, Requests
<1>4. CASE MouseCalls
  <2>1. irr' = irr \/ irr' = irr \cup {MOUSE}
    BY <1>4 DEF MouseCalls, mouse_init, mouse_fini, FreeContext, mouse_register_cb,
                mouse_unregister_cb, picVars, irqVars
  <2>2. service' = service
    BY <1>4 DEF MouseCalls, mouse_init, mouse_fini, FreeContext, mouse_register_cb,
                mouse_unregister_cb, picVars, irqVars
  <2>3. MOUSE \in Lines
    BY MouseAssumption, LineRanges DEF MOUSE
  <2> QED
    BY <2>1, <2>2, <2>3 DEF Requests
<1>5. ASSUME NEW d \in Drivers, Driver(d)
      PROVE  Requests'
  BY <1>5 DEF Driver, IrqCall, unregister_isr_callback, register_isr_callback, RemoveCallback,
              irq_enable_read, irq_enable_write, irq_disable_read, irq_disable_write,
              MaskRead, MaskWrite, picVars, Requests
<1>6. ASSUME NEW l \in Lines, Interrupt(l)
      PROVE  Requests'
  <2>1. Taken(l)
    BY <1>6 DEF Interrupt, keyboard_irq_handler, mouse_isr, OtherIsr, Unhandled
  <2>2. Levels(l) \subseteq 0 .. 15
    BY LineRanges DEF Levels, CASCADE
  <2> QED
    BY <2>1, <2>2 DEF Taken, Eoi, Requests
<1> QED
  BY <1>1, <1>2, <1>3, <1>4, <1>5, <1>6 DEF Next

LEMMA StepUnhandled ==
  ASSUME LineTypes, Requests, OpenIsKnown, UnhandledAreRetired, [Next]_vars
  PROVE  UnhandledAreRetired'
<1>1. CASE UNCHANGED vars
  BY <1>1 DEF UnhandledAreRetired, vars, irqVars
<1>2. CASE Running /\ halted' = halted
  BY <1>2 DEF Running, UnhandledAreRetired
<1>3. ASSUME NEW l \in Lines, Interrupt(l) PROVE UnhandledAreRetired'
  <2>1. CASE halted' # "unhandled"
    BY <2>1 DEF UnhandledAreRetired
  <2>2. CASE halted' = "unhandled"
    <3>1. Unhandled(l)
      BY <1>3, <2>2 DEF Interrupt, keyboard_irq_handler, mouse_isr, OtherIsr, Unhandled,
         Taken, Running
    <3>2. /\ l \notin mask[PIC(l)] /\ l \notin callback /\ stray' = {l}
          /\ callback' = callback /\ retired' = retired
      BY <3>1 DEF Unhandled, Taken, Pending, Levels, callVars
    <3> QED
      BY <3>2 DEF OpenIsKnown, Known, UnhandledAreRetired
  <2> QED
    BY <2>1, <2>2
<1> QED
  BY <1>1, <1>2, <1>3, StepHalted

-----------------------------------------------------------------------------
(* The mouse *)

Event == {"down", "up"}

Contexts ==
  [live : BOOLEAN, read_counter : 0 .. 2, first : Bytes, left : BOOLEAN, cb_list : SUBSET Clients]

MouseTypes ==
  /\ ctx \in Contexts
  /\ port \in BOOLEAN /\ byte \in MouseBytes
  /\ heard \in [Clients -> Seq(Event)]

(* The last event that a callback heard is the state the driver keeps.      *)
HeardIsState ==
  \A c \in Clients : InList(c) /\ heard[c] # <<>> =>
    heard[c][Len(heard[c])] = (IF ctx.left THEN "down" ELSE "up")

(* The handler without a context is one that mouse_fini is detaching.       *)
AttachedIsLive ==
  MOUSE \in callback /\ ~ctx.live => at[MouseDriver] \in {"disable", "disabling", "clear"}

MouseStep ==
  \/ UNCHANGED mouseVars
  \/ \E b \in Bytes : MouseByte(b)
  \/ \E answers \in BOOLEAN, rest \in MouseBytes : mouse_init(answers, rest)
  \/ mouse_fini \/ FreeContext \/ mouse_isr
  \/ \E c \in Clients : mouse_register_cb(c) \/ mouse_unregister_cb(c)

LEMMA MouseSteps == [Next]_vars => MouseStep
<1> SUFFICES ASSUME [Next]_vars PROVE MouseStep
  OBVIOUS
<1>1. CASE UNCHANGED vars
  BY <1>1 DEF MouseStep, vars
<1>2. CASE Device
  BY <1>2 DEF Device, MouseStep
<1>3. CASE Reader
  BY <1>3 DEF Reader, MouseStep, mouseVars
<1>4. CASE MouseCalls
  BY <1>4 DEF MouseCalls, MouseStep, MouseBytes
<1>5. ASSUME NEW d \in Drivers, Driver(d) PROVE MouseStep
  BY <1>5 DEF Driver, MouseStep
<1>6. ASSUME NEW l \in Lines, Interrupt(l) PROVE MouseStep
  BY <1>6 DEF Interrupt, MouseStep
<1> QED
  BY <1>1, <1>2, <1>3, <1>4, <1>5, <1>6 DEF Next

LEMMA EmitAppends ==
  ASSUME MouseTypes, NEW c \in Clients
  PROVE  Emit(c) \in Seq(Event)
BY DEF MouseTypes, Emit, Event

LEMMA NoContextIsContext ==
  NoContext \in Contexts /\ [NoContext EXCEPT !.live = TRUE] \in Contexts
<1>1. NoContext \in Contexts
  BY DEF NoContext, Contexts, Bytes
<1>2. \A c \in Contexts : [c EXCEPT !.live = TRUE] \in Contexts
  BY DEF Contexts
<1> QED
  BY <1>1, <1>2

(* What a byte does to the packet and to the buttons *)
LEMMA AssembledFields ==
  ASSUME MouseTypes, byte \in Bytes
  PROVE  /\ Assembled \in Contexts
         /\ Assembled.live = ctx.live /\ Assembled.cb_list = ctx.cb_list
         /\ ctx.read_counter # 2 => Assembled.left = ctx.left
         /\ ctx.read_counter = 2 => Assembled.left = Left(ctx.first)
         /\ \/ Assembled.read_counter = 0
            \/ Assembled.first = ctx.first /\ ctx.read_counter # 0
            \/ IsFirst(Assembled.first)
<1> DEFINE n == ctx.read_counter
<1>1. ctx \in Contexts /\ byte \in Bytes /\ (n = 0 \/ n = 1 \/ n = 2)
  BY DEF MouseTypes, Contexts
<1>2. CASE n = 0 /\ ~IsFirst(byte)
  BY <1>1, <1>2 DEF Assembled, Accepts
<1>3. CASE n = 0 /\ IsFirst(byte)
  <2>1. Assembled = [ctx EXCEPT !.read_counter = 1, !.first = byte]
    BY <1>3 DEF Assembled, Accepts
  <2> QED
    <3> DEFINE c == [ctx EXCEPT !.read_counter = 1, !.first = byte]
    <3>1. c.live = ctx.live /\ c.cb_list = ctx.cb_list /\ c.left = ctx.left /\ c.first = byte
      BY <1>1 DEF Contexts
    <3> DEFINE d == [ctx EXCEPT !.read_counter = 1]
    <3>2. d \in Contexts
      BY <1>1 DEF Contexts
    <3>3. \A e \in Contexts : [e EXCEPT !.first = byte] \in Contexts
      BY <1>1 DEF Contexts
    <3>4. c = [d EXCEPT !.first = byte]
      OBVIOUS
    <3>5. c \in Contexts
      BY <3>2, <3>3, <3>4
    <3>6. Assembled = c
      BY <2>1
    <3> HIDE DEF c
    <3> QED
      BY <1>3, <3>1, <3>5, <3>6
<1>4. CASE n = 1
  <2>1. Accepts(byte, n) /\ n # 0 /\ n # 2
    BY <1>4 DEF Accepts
  <2>2. Assembled = [ctx EXCEPT !.read_counter = 2]
    BY <1>4, <2>1 DEF Assembled
  <2> QED
    BY <1>1, <1>4, <2>2 DEF Contexts
<1>5. CASE n = 2
  <2> DEFINE b == Left(ctx.first)
  <2>1. Accepts(byte, n) /\ n # 0 /\ n # 1
    BY <1>5 DEF Accepts
  <2>2. Assembled = [ctx EXCEPT !.read_counter = 0, !.left = b]
    BY <1>5, <2>1 DEF Assembled, ButtonState
  <2>3. b \in BOOLEAN
    BY DEF Left
  <2> HIDE DEF b
  <2> DEFINE c == [ctx EXCEPT !.read_counter = 0, !.left = b]
  <2>4. c.live = ctx.live /\ c.cb_list = ctx.cb_list /\ c.read_counter = 0
    BY <1>1 DEF Contexts
  <2>5. c.left = b
    BY <1>1 DEF Contexts
  <2> DEFINE d == [ctx EXCEPT !.read_counter = 0]
  <2>6. d \in Contexts
    BY <1>1 DEF Contexts
  <2>7. \A e \in Contexts : [e EXCEPT !.left = b] \in Contexts
    BY <2>3 DEF Contexts
  <2>8. c = [d EXCEPT !.left = b]
    OBVIOUS
  <2> QED
    BY <1>5, <2>2, <2>4, <2>5, <2>6, <2>7, <2>8 DEF b
<1> QED
  BY <1>1, <1>2, <1>3, <1>4, <1>5

LEMMA StepMouseTypes ==
  ASSUME MouseTypes, MouseStep
  PROVE  MouseTypes'
<1>1. CASE UNCHANGED mouseVars
  BY <1>1 DEF mouseVars, MouseTypes
<1>2. ASSUME NEW b \in Bytes, MouseByte(b) PROVE MouseTypes'
  BY <1>2 DEF MouseByte, MouseTypes, MouseBytes
<1>3. ASSUME NEW answers \in BOOLEAN, NEW rest \in MouseBytes, mouse_init(answers, rest) PROVE MouseTypes'
  <2>1. heard' \in [Clients -> Seq(Event)]
    BY <1>3 DEF mouse_init
  <2> QED
    BY <1>3, <2>1, NoContextIsContext DEF mouse_init, MouseTypes
<1>4. CASE mouse_fini
  BY <1>4 DEF mouse_fini, MouseTypes, MouseBytes
<1>5. CASE FreeContext
  BY <1>5, NoContextIsContext DEF FreeContext, MouseTypes
<1>6. CASE mouse_isr
  <2>1. ctx' = ctx \/ (byte \in Bytes /\ ctx' = Assembled)
    BY <1>6 DEF mouse_isr
  <2>2. byte \in Bytes => Assembled \in Contexts
    BY AssembledFields
  <2>3. heard' \in [Clients -> Seq(Event)]
    BY <1>6, EmitAppends DEF mouse_isr, MouseTypes
  <2> QED
    BY <1>6, <2>1, <2>2, <2>3 DEF mouse_isr, MouseTypes, MouseBytes
<1>7. ASSUME NEW c \in Clients, mouse_register_cb(c) PROVE MouseTypes'
  <2>1. heard' \in [Clients -> Seq(Event)]
    BY <1>7 DEF mouse_register_cb, MouseTypes
  <2> QED
    BY <1>7, <2>1 DEF mouse_register_cb, MouseTypes, Contexts
<1>8. ASSUME NEW c \in Clients, mouse_unregister_cb(c) PROVE MouseTypes'
  BY <1>8 DEF mouse_unregister_cb, MouseTypes, Contexts
<1> QED
  BY <1>1, <1>2, <1>3, <1>4, <1>5, <1>6, <1>7, <1>8 DEF MouseStep

LEMMA StepPacketsAligned ==
  ASSUME MouseTypes, PacketsAligned, MouseStep
  PROVE  PacketsAligned'
<1>1. CASE UNCHANGED ctx
  BY <1>1 DEF PacketsAligned
<1>2. CASE mouse_isr
  BY <1>1, <1>2, AssembledFields DEF mouse_isr, MouseTypes, PacketsAligned
<1>3. CASE ctx'.read_counter = 0 \/ (ctx'.read_counter = ctx.read_counter /\ ctx'.first = ctx.first)
  BY <1>3 DEF PacketsAligned
<1> QED
  BY <1>1, <1>2, <1>3 DEF MouseStep, mouseVars, MouseByte, mouse_init, NoContext, mouse_fini,
     FreeContext, mouse_register_cb, mouse_unregister_cb, MouseTypes, Contexts

LEMMA StepHeard ==
  ASSUME MouseTypes, HeardIsState, ButtonsAlternate, MouseStep
  PROVE  HeardIsState' /\ ButtonsAlternate'
<1>1. CASE UNCHANGED <<ctx, heard>>
  BY <1>1 DEF HeardIsState, ButtonsAlternate, InList
<1>2. ASSUME NEW answers \in BOOLEAN, NEW rest \in MouseBytes, mouse_init(answers, rest) PROVE HeardIsState' /\ ButtonsAlternate'
  BY <1>2 DEF mouse_init, HeardIsState, ButtonsAlternate
<1>3. CASE FreeContext
  BY <1>3 DEF FreeContext, NoContext, InList, HeardIsState, ButtonsAlternate
<1>4. CASE mouse_isr
  <2>1. CASE byte \in Bytes /\ ctx' = Assembled /\ heard' = heard /\ ctx.read_counter # 2
    <3>1. ctx'.left = ctx.left /\ ctx'.cb_list = ctx.cb_list
      BY <2>1, AssembledFields DEF MouseTypes
    <3> QED
      BY <2>1, <3>1 DEF HeardIsState, ButtonsAlternate, InList
  <2>2. CASE byte \in Bytes /\ ctx' = Assembled /\ ctx.read_counter = 2 /\ heard' = [c \in Clients |-> Emit(c)]
    <3>1. ctx'.left = Left(ctx.first) /\ ctx'.cb_list = ctx.cb_list
      BY <2>2, AssembledFields DEF MouseTypes
    <3> SUFFICES ASSUME NEW c \in Clients
                 PROVE  /\ InList(c) /\ heard'[c] # <<>> =>
                             heard'[c][Len(heard'[c])] = (IF ctx'.left THEN "down" ELSE "up")
                        /\ \A i \in 1 .. Len(heard'[c]) - 1 : heard'[c][i] # heard'[c][i + 1]
      BY <3>1 DEF HeardIsState, ButtonsAlternate, InList
    <3> DEFINE h == heard[c]
               e == IF Left(ctx.first) THEN "down" ELSE "up"
    <3>2. h \in Seq(Event) /\ e \in Event /\ heard'[c] = Emit(c)
      BY <2>2 DEF MouseTypes, Event
    <3>3. CASE Left(ctx.first) # ctx.left /\ InList(c)
      <4>1. heard'[c] = Append(h, e)
        BY <3>2, <3>3 DEF Emit
      <4>2. h # <<>> => h[Len(h)] # e
        BY <3>3 DEF HeardIsState, MouseTypes, Contexts, Left
      <4>3. Len(heard'[c]) = Len(h) + 1 /\ heard'[c][Len(h) + 1] = e
            /\ \A i \in 1 .. Len(h) : heard'[c][i] = h[i]
        BY <3>2, <4>1
      <4>4. \A i \in 1 .. Len(h) - 1 : h[i] # h[i + 1]
        BY DEF ButtonsAlternate
      <4>5. Len(h) \in Nat /\ (Len(h) # 0 => h # <<>>)
        BY <3>2
      <4>6. \A i \in 1 .. Len(h) : heard'[c][i] # heard'[c][i + 1]
        BY <4>2, <4>3, <4>4, <4>5
      <4> QED
        BY <3>1, <4>3, <4>5, <4>6
    <3>4. CASE ~(Left(ctx.first) # ctx.left /\ InList(c))
      <4>1. heard'[c] = h
        BY <3>2, <3>4 DEF Emit
      <4> QED
        BY <3>1, <3>4, <4>1 DEF HeardIsState, ButtonsAlternate
    <3> QED
      BY <3>3, <3>4
  <2> QED
    BY <1>1, <1>4, <2>1, <2>2 DEF mouse_isr, MouseTypes
<1>5. ASSUME NEW c \in Clients, mouse_register_cb(c) PROVE HeardIsState' /\ ButtonsAlternate'
  BY <1>5 DEF mouse_register_cb, InList, MouseTypes, HeardIsState, ButtonsAlternate
<1>6. ASSUME NEW c \in Clients, mouse_unregister_cb(c) PROVE HeardIsState' /\ ButtonsAlternate'
  BY <1>6 DEF mouse_unregister_cb, InList, MouseTypes, HeardIsState, ButtonsAlternate
<1> QED
  BY <1>1, <1>2, <1>3, <1>4, <1>5, <1>6 DEF MouseStep, mouseVars, MouseByte, mouse_fini

LEMMA StepAttachedIsLive ==
  ASSUME LineTypes, MouseTypes, AttachedIsLive, [Next]_vars
  PROVE  AttachedIsLive'
<1> USE DEF AttachedIsLive
<1>1. CASE UNCHANGED <<ctx, lineVars>>
  BY <1>1 DEF lineVars
<1>2. ASSUME NEW d \in Drivers, Driver(d) PROVE AttachedIsLive'
  <2>1. ctx' = ctx
    BY <1>2 DEF Driver, mouseVars
  <2>2. CASE d = MouseDriver
    <3>1. at \in [Drivers -> Places] /\ IrqCall(d)
      BY <1>2, <2>2 DEF Driver, LineTypes, unregister_isr_callback
    <3>2. \/ callback' = callback /\ at[d] = "enable" /\ at'[d] = "enabling"
          \/ callback' = callback /\ at[d] = "enabling" /\ at'[d] = "idle"
          \/ callback' = callback /\ at[d] = "disable" /\ at'[d] = "disabling"
          \/ callback' = callback /\ at[d] = "disabling" /\ at'[d] = "clear"
          \/ callback' = callback \ {LineOf[d]}
      BY <3>1 DEF IrqCall, RemoveCallback, Removed, irq_enable_read,
         irq_enable_write, irq_disable_read, irq_disable_write, MaskRead, MaskWrite, Goes
    <3> QED
      BY <2>1, <2>2, <3>2 DEF MOUSE
  <2>3. CASE d # MouseDriver
    <3>1. LineOf[d] # MOUSE
      BY <2>3, MouseAssumption DEF MOUSE
    <3>2. (MOUSE \in callback' => MOUSE \in callback) /\ at'[MouseDriver] = at[MouseDriver]
      BY <1>2, <2>3, <3>1, MouseAssumption DEF Driver, IrqCall, unregister_isr_callback,
         register_isr_callback, Installed, RemoveCallback, Removed, irq_enable_read,
         irq_enable_write, irq_disable_read, irq_disable_write, MaskRead, MaskWrite, Goes, LineTypes
    <3> QED
      BY <2>1, <3>2
  <2> QED
    BY <2>2, <2>3
<1>3. ASSUME NEW answers \in BOOLEAN, NEW rest \in MouseBytes, mouse_init(answers, rest) PROVE AttachedIsLive'
  BY <1>3 DEF mouse_init, NoContext
<1>4. CASE mouse_fini
  BY <1>4 DEF mouse_fini, Goes
<1>5. CASE FreeContext
  BY <1>5, MouseAssumption DEF FreeContext, Goes, LineTypes
<1>6. CASE UNCHANGED lineVars /\ ctx'.live = ctx.live
  BY <1>6 DEF lineVars
<1>7. CASE Device
  BY <1>1, <1>7 DEF Device, Key, MouseByte, callVars, lineVars, mouseVars
<1>8. CASE Reader
  BY <1>1, <1>8 DEF Reader, Reading, getch, readch, SpinEnds, TakeFirst, Shift, Load, Store,
     ReaderStep, irqVars, lineVars, mouseVars
<1>9. ASSUME NEW l \in Lines, Interrupt(l) PROVE AttachedIsLive'
  <2>1. UNCHANGED lineVars
    BY <1>9 DEF Interrupt, keyboard_irq_handler, mouse_isr, OtherIsr, Unhandled, Taken,
       callVars,
       lineVars
  <2>2. ctx'.live = ctx.live
    BY <1>9, AssembledFields DEF Interrupt, mouse_isr, mouseVars, MouseTypes
  <2> QED
    BY <1>6, <2>1, <2>2
<1>10. ASSUME NEW c \in Clients, mouse_register_cb(c) \/ mouse_unregister_cb(c)
       PROVE  AttachedIsLive'
  BY <1>6, <1>10 DEF mouse_register_cb, mouse_unregister_cb, irqVars, lineVars, MouseTypes,
     Contexts
<1>11. CASE UNCHANGED vars
  BY <1>1, <1>11 DEF vars, irqVars, mouseVars, lineVars
<1> QED
  BY <1>2, <1>3, <1>4, <1>5, <1>7, <1>8, <1>9, <1>10, <1>11 DEF Next, MouseCalls

LEMMA StepFreedOnlyInFini ==
  ASSUME AttachedIsLive, FreedOnlyInFini, [Next]_vars
  PROVE  FreedOnlyInFini'
<1>1. CASE UNCHANGED vars
  BY <1>1 DEF FreedOnlyInFini, vars, irqVars
<1>2. CASE Running /\ halted' = halted
  BY <1>2 DEF Running, FreedOnlyInFini
<1>3. ASSUME NEW l \in Lines, Interrupt(l), halted' = "freed" PROVE FreedOnlyInFini'
  <2>1. mouse_isr
    BY <1>3 DEF Interrupt, keyboard_irq_handler, OtherIsr, Unhandled, Taken, Running
  <2>2. MOUSE \in callback /\ ~ctx.live /\ at' = at
    BY <1>3, <2>1 DEF mouse_isr, Taken, callVars, Running
  <2> QED
    BY <2>2 DEF AttachedIsLive, FreedOnlyInFini
<1> QED
  BY <1>1, <1>2, <1>3, StepHalted DEF FreedOnlyInFini

(* A request of the mouse's line stands for a byte that it has sent.        *)
ByteBehindRequest == MOUSE \in irr => byte # NoByte

LEMMA StepByteBehindRequest ==
  ASSUME ByteBehindRequest, [Next]_vars
  PROVE  ByteBehindRequest'
<1> USE DEF ByteBehindRequest
<1>1. CASE UNCHANGED <<irr, byte>>
  BY <1>1
<1>2. ASSUME NEW d \in Drivers, Driver(d) PROVE UNCHANGED <<irr, byte>>
  BY <1>2 DEF Driver, IrqCall, unregister_isr_callback, register_isr_callback, RemoveCallback,
              irq_enable_read, irq_enable_write, irq_disable_read, irq_disable_write,
              MaskRead, MaskWrite, picVars, mouseVars
<1>3. CASE Reader
  BY <1>3 DEF Reader, Reading, getch, readch, SpinEnds, TakeFirst, Shift, Load, Store,
     ReaderStep, irqVars, mouseVars
<1>4. CASE MouseCalls
  BY <1>4 DEF MouseCalls, mouse_init, mouse_fini, FreeContext, mouse_register_cb,
     mouse_unregister_cb, picVars, irqVars, NoByte, Polled
<1>5. CASE Device
  <2>1. ASSUME NEW b \in Bytes, MouseByte(b) PROVE byte' # NoByte
    BY <2>1 DEF MouseByte, Bytes, NoByte
  <2>2. ASSUME NEW l, l # MOUSE, Raise(l), byte' = byte PROVE ByteBehindRequest'
    BY <2>2 DEF Raise
  <2>3. KEYBOARD # MOUSE /\ \A d \in Drivers \ {MouseDriver} : LineOf[d] # MOUSE
    BY LineRanges, MouseAssumption DEF MOUSE
  <2> QED
    BY <1>5, <2>1, <2>2, <2>3 DEF Device, Key, mouseVars
<1>6. ASSUME NEW l \in Lines, Interrupt(l) PROVE ByteBehindRequest'
  <2>1. CASE mouse_isr
    BY <2>1 DEF mouse_isr, Taken
  <2>2. irr' = irr \ {l}
    BY <1>6 DEF Interrupt, keyboard_irq_handler, mouse_isr, OtherIsr, Unhandled, Taken
  <2>3. CASE ~mouse_isr
    <3>1. byte' = byte
      BY <1>6, <2>3 DEF Interrupt, mouseVars
    <3> QED
      BY <2>2, <3>1
  <2> QED
    BY <2>1, <2>3
<1>7. CASE UNCHANGED vars
  BY <1>1, <1>7 DEF vars, irqVars, mouseVars
<1> QED
  BY <1>1, <1>2, <1>3, <1>4, <1>5, <1>6, <1>7 DEF Next

LEMMA StepUnexpectedIsPolled ==
  ASSUME MouseTypes, ByteBehindRequest, UnexpectedIsPolled, [Next]_vars
  PROVE  UnexpectedIsPolled'
<1>1. CASE UNCHANGED vars
  BY <1>1 DEF UnexpectedIsPolled, vars, irqVars, mouseVars
<1>2. CASE Running /\ halted' = halted
  BY <1>2 DEF Running, UnexpectedIsPolled
<1>3. ASSUME NEW l \in Lines, Interrupt(l), halted' = "unexpected" PROVE UnexpectedIsPolled'
  <2>1. mouse_isr
    BY <1>3 DEF Interrupt, keyboard_irq_handler, OtherIsr, Unhandled, Taken, Running
  <2>2. MOUSE \in irr /\ byte \notin Bytes /\ byte' = byte
    BY <1>3, <2>1 DEF mouse_isr, Taken, Pending, Running
  <2> QED
    BY <2>2 DEF ByteBehindRequest, MouseTypes, MouseBytes, UnexpectedIsPolled
<1> QED
  BY <1>1, <1>2, <1>3, StepHalted DEF UnexpectedIsPolled

-----------------------------------------------------------------------------
(* The keyboard *)

AnyKey == Keys \cup {NoKey, SILENT}

Readers ==
  [at : {"idle", "spin", "first", "shift", "load", "store"}, call : {"none", "getch", "readch"},
   i : 0 .. KBD_SIZE, res : AnyKey, ptr : 0 .. KBD_SIZE]

KbdTypes ==
  /\ kbd_buffer \in [0 .. KBD_SIZE -> AnyKey] /\ kbd_ptr \in 0 .. KBD_SIZE
  /\ scancode \in [key : AnyKey, down : BOOLEAN]
  /\ rd \in Readers /\ typed \in Seq(AnyKey) /\ got \in Seq(AnyKey) /\ cuts \in Nat

(* A call takes a key only when there is one, and nothing but the call      *)
(* itself lowers kbd_ptr.                                                   *)
KeyIsThere ==
  /\ rd.at = "idle" => rd = Idle
  /\ rd.at \in {"spin", "first"} => rd.i = 0
  /\ rd.at # "idle" => rd.call \in {"getch", "readch"}
  /\ rd.at \in {"first", "load"} \/ (rd.at = "shift" /\ rd.call = "getch") => kbd_ptr >= 1
  /\ rd.at = "store" => rd.ptr >= 1 /\ rd.ptr <= kbd_ptr

(* The keys that are not yet returned, in the middle of a call too *)
Unread ==
  CASE rd.at = "store" -> rd.ptr
    [] rd.at = "shift" /\ rd.call = "readch" -> kbd_ptr + 1
    [] OTHER -> kbd_ptr

Counted == Len(typed) - cuts <= Len(got) + Unread /\ Len(got) + Unread <= Len(typed)

(* Where the j-th key that is not yet returned is, in the middle of a call  *)
(* too: the first is taken and rd.i of the others have been shifted.        *)
Cell(j) ==
  IF rd.at \in {"idle", "spin", "first"} THEN kbd_buffer[j - 1]
  ELSE IF j = 1 THEN rd.res
  ELSE IF j - 2 < rd.i THEN kbd_buffer[j - 2] ELSE kbd_buffer[j - 1]

InOrder ==
  cuts = 0 =>
    /\ rd.at = "store" => rd.ptr = kbd_ptr
    /\ rd.at \in {"load", "store"} /\ rd.call = "getch" => rd.i >= kbd_ptr - 1
    /\ Len(typed) = Len(got) + Unread
    /\ \A k \in 1 .. Len(got) : typed[k] = got[k]
    /\ \A j \in 1 .. Unread : typed[Len(got) + j] = Cell(j)

KbdStep ==
  \/ UNCHANGED kbdVars
  \/ \E sc \in Scancodes : Key(sc)
  \/ keyboard_irq_handler
  \/ getch \/ readch \/ SpinEnds \/ TakeFirst \/ Shift \/ Load \/ Store

LEMMA KbdSteps == [Next]_vars => KbdStep
<1> SUFFICES ASSUME [Next]_vars PROVE KbdStep
  OBVIOUS
<1>1. CASE UNCHANGED vars
  BY <1>1 DEF KbdStep, vars
<1>2. CASE Device
  BY <1>2 DEF Device, KbdStep
<1>3. CASE Reader
  BY <1>3 DEF Reader, Reading, KbdStep
<1>4. CASE MouseCalls
  BY <1>4 DEF MouseCalls, KbdStep
<1>5. ASSUME NEW d \in Drivers, Driver(d) PROVE KbdStep
  BY <1>5 DEF Driver, KbdStep
<1>6. ASSUME NEW l \in Lines, Interrupt(l) PROVE KbdStep
  BY <1>6 DEF Interrupt, KbdStep
<1> QED
  BY <1>1, <1>2, <1>3, <1>4, <1>5, <1>6 DEF Next

LEMMA ReaderFields ==
  ASSUME NEW r \in Readers
  PROVE  /\ \A p \in {"idle", "spin", "first", "shift", "load", "store"} :
              [r EXCEPT !.at = p] \in Readers
         /\ \A c \in {"none", "getch", "readch"} : [r EXCEPT !.call = c] \in Readers
         /\ \A n \in 0 .. KBD_SIZE :
              [r EXCEPT !.i = n] \in Readers /\ [r EXCEPT !.ptr = n] \in Readers
         /\ \A k \in AnyKey : [r EXCEPT !.res = k] \in Readers
BY DEF Readers

LEMMA IdleReads ==
  /\ Idle \in Readers
  /\ \A p \in {"spin", "first"}, c \in {"getch", "readch"} :
       [Idle EXCEPT !.at = p, !.call = c] \in Readers
<1>1. Idle \in Readers
  BY KeyboardAssumption DEF Idle, Readers, AnyKey
<1>2. ASSUME NEW p \in {"spin", "first"}, NEW c \in {"getch", "readch"}
      PROVE  [Idle EXCEPT !.at = p, !.call = c] \in Readers
  <2> DEFINE r == [Idle EXCEPT !.at = p]
  <2>1. r \in Readers
    BY <1>1, ReaderFields
  <2>2. [r EXCEPT !.call = c] \in Readers
    BY <2>1, ReaderFields
  <2> QED
    BY <2>2
<1> QED
  BY <1>1, <1>2

LEMMA StepReturn ==
  ASSUME KbdTypes, Return
  PROVE  rd' \in Readers /\ got' \in Seq(AnyKey) /\ Len(got') = Len(got) + 1
         /\ got'[Len(got) + 1] = rd.res /\ \A k \in 1 .. Len(got) : got'[k] = got[k]
<1>1. rd.res \in AnyKey
  BY DEF KbdTypes, Readers
<1>2. rd' = Idle /\ got' = Append(got, rd.res) /\ got \in Seq(AnyKey)
  BY DEF Return, KbdTypes
<1> QED
  BY <1>1, <1>2, IdleReads

LEMMA StepKbdTypes ==
  ASSUME KbdTypes, KeyIsThere, KbdStep
  PROVE  KbdTypes'
<1>1. CASE UNCHANGED kbdVars
  BY <1>1 DEF kbdVars, KbdTypes
<1>2. ASSUME NEW sc \in Scancodes, Key(sc) PROVE KbdTypes'
  <2>1. sc \in [key : AnyKey, down : BOOLEAN]
    <3>1. CASE sc \in [key : Keys \cup {SILENT}, down : {TRUE}]
      BY <3>1 DEF AnyKey
    <3>2. CASE sc = [key |-> SILENT, down |-> FALSE]
      BY <3>2 DEF AnyKey
    <3> QED
      BY <3>1, <3>2 DEF Scancodes
  <2> QED
    BY <1>2, <2>1 DEF Key, KbdTypes
<1>3. CASE keyboard_irq_handler
  <2>1. /\ scancode' \in [key : AnyKey, down : BOOLEAN] /\ cuts' \in Nat
        /\ rd' = rd /\ got' = got
    BY <1>3 DEF keyboard_irq_handler, AnyKey, KbdTypes
  <2>2. CASE ~Full(kbd_ptr) /\ Appends(scancode)
    <3>1. scancode.key \in AnyKey
      BY DEF KbdTypes
    <3>2. kbd_ptr' \in 0 .. KBD_SIZE
      BY <1>3, <2>2, KeyboardAssumption DEF keyboard_irq_handler, Full, After, KbdTypes
    <3>3. kbd_buffer' \in [0 .. KBD_SIZE -> AnyKey]
      BY <1>3, <2>2, <3>1 DEF keyboard_irq_handler, KbdTypes
    <3>4. typed' = typed \/ typed' = Append(typed, scancode.key)
      BY <1>3, <2>2 DEF keyboard_irq_handler
    <3>5. typed' \in Seq(AnyKey)
      BY <3>1, <3>4 DEF KbdTypes
    <3> QED
      BY <2>1, <3>2, <3>3, <3>5 DEF KbdTypes
  <2>3. CASE ~(~Full(kbd_ptr) /\ Appends(scancode))
    BY <1>3, <2>1, <2>3 DEF keyboard_irq_handler, KbdTypes
  <2> QED
    BY <2>2, <2>3
<1>4. CASE getch
  BY <1>4, IdleReads DEF getch, ReaderStep, KbdTypes
<1>5. CASE readch
  BY <1>5, IdleReads DEF readch, ReaderStep, KbdTypes
<1>6. CASE SpinEnds
  BY <1>6, ReaderFields DEF SpinEnds, ReaderStep, KbdTypes
<1>7. CASE TakeFirst
  <2> DEFINE p == IF rd.call = "getch" THEN "shift" ELSE "load"
             r == [rd EXCEPT !.res = kbd_buffer[0]]
  <2>1. r \in Readers
    <3>1. kbd_buffer[0] \in AnyKey
      BY KeyboardAssumption DEF KbdTypes
    <3> QED
      BY <3>1, ReaderFields DEF KbdTypes
  <2>2. [r EXCEPT !.at = p] \in Readers
    BY <2>1, ReaderFields
  <2>3. rd' = [r EXCEPT !.at = p]
    BY <1>7 DEF TakeFirst
  <2> QED
    BY <1>7, <2>2, <2>3 DEF TakeFirst, ReaderStep, KbdTypes
<1>8. CASE Shift
  <2>1. CASE rd.i < Bound
    <3>1. rd.i \in 0 .. KBD_SIZE /\ kbd_ptr \in 0 .. KBD_SIZE /\ rd.i + 1 \in 0 .. KBD_SIZE
      BY <2>1, KeyboardAssumption DEF Bound, KbdTypes, Readers
    <3>2. rd' \in Readers
      BY <1>8, <2>1, <3>1, ReaderFields DEF Shift, KbdTypes
    <3> QED
      BY <1>8, <2>1, <3>1, <3>2 DEF Shift, ReaderStep, KbdTypes
  <2>2. CASE ~(rd.i < Bound)
    <3>1. CASE Return
      BY <1>8, <2>2, <3>1, StepReturn DEF Shift, ReaderStep, KbdTypes
    <3>2. CASE rd' = [rd EXCEPT !.at = "load"] /\ got' = got
      BY <1>8, <2>2, <3>2, ReaderFields DEF Shift, ReaderStep, KbdTypes
    <3> QED
      BY <1>8, <2>2, <3>1, <3>2 DEF Shift
  <2> QED
    BY <2>1, <2>2
<1>9. CASE Load
  <2> DEFINE r == [rd EXCEPT !.at = "store"]
  <2>1. r \in Readers
    BY ReaderFields DEF KbdTypes
  <2>2. [r EXCEPT !.ptr = kbd_ptr] \in Readers
    BY <2>1, ReaderFields DEF KbdTypes
  <2>3. rd' = [r EXCEPT !.ptr = kbd_ptr]
    BY <1>9 DEF Load
  <2> QED
    BY <1>9, <2>2, <2>3 DEF Load, ReaderStep, KbdTypes
<1>10. CASE Store
  <2>1. kbd_ptr' \in 0 .. KBD_SIZE
    BY <1>10, KeyboardAssumption DEF Store, Less, KeyIsThere, KbdTypes, Readers
  <2>2. CASE Return
    BY <1>10, <2>1, <2>2, StepReturn DEF Store, ReaderStep, KbdTypes
  <2>3. CASE rd' = [rd EXCEPT !.at = "shift"] /\ got' = got
    BY <1>10, <2>1, <2>3, ReaderFields DEF Store, ReaderStep, KbdTypes
  <2> QED
    BY <1>10, <2>2, <2>3 DEF Store
<1> QED
  BY <1>1, <1>2, <1>3, <1>4, <1>5, <1>6, <1>7, <1>8, <1>9, <1>10 DEF KbdStep

LEMMA StepKeyIsThere ==
  ASSUME KbdTypes, KeyIsThere, KbdStep
  PROVE  KeyIsThere'
<1> USE DEF KeyIsThere
<1>1. CASE UNCHANGED <<rd, kbd_ptr>>
  BY <1>1
<1>2. CASE keyboard_irq_handler
  BY <1>2 DEF keyboard_irq_handler, After, KbdTypes, Readers
<1>3. CASE getch
  BY <1>3 DEF getch, Idle
<1>4. CASE readch
  BY <1>4 DEF readch, Idle, KbdTypes
<1>5. CASE SpinEnds
  <2>1. rd'.at = "first" /\ rd'.call = rd.call /\ rd'.i = rd.i
    BY <1>5 DEF SpinEnds, KbdTypes, Readers
  <2> QED
    BY <1>5, <2>1 DEF SpinEnds, KbdTypes
<1>6. CASE TakeFirst
  <2>1. rd'.call = rd.call /\ rd'.at = IF rd.call = "getch" THEN "shift" ELSE "load"
    BY <1>6 DEF TakeFirst, KbdTypes, Readers
  <2> QED
    BY <1>6, <2>1 DEF TakeFirst
<1>7. CASE Shift
  BY <1>7 DEF Shift, Return, Idle, Bound, KbdTypes, Readers
<1>8. CASE Load
  <2>1. rd'.at = "store" /\ rd'.ptr = kbd_ptr /\ rd'.call = rd.call
    BY <1>8 DEF Load, KbdTypes, Readers
  <2> QED
    BY <1>8, <2>1 DEF Load, KbdTypes
<1>9. CASE Store
  BY <1>9 DEF Store, Return, Idle, KbdTypes, Readers
<1> QED
  BY <1>1, <1>2, <1>3, <1>4, <1>5, <1>6, <1>7, <1>8, <1>9 DEF KbdStep, kbdVars, Key

LEMMA CallBegins ==
  ASSUME getch \/ readch
  PROVE  rd.at = "idle" /\ rd'.at \in {"spin", "first"}
<1>1. CASE getch
  BY <1>1 DEF getch, Idle
<1>2. CASE readch
  BY <1>2 DEF readch, Idle
<1> QED
  BY <1>1, <1>2

LEMMA StepCounted ==
  ASSUME KbdTypes, KeyIsThere, Counted, KbdStep
  PROVE  Counted'
<1> USE DEF Counted
<1>0. Len(typed) \in Nat /\ Len(got) \in Nat /\ Unread \in Nat /\ cuts \in Nat
  BY DEF KbdTypes, Readers, Unread
<1>1. CASE UNCHANGED <<kbd_ptr, rd, typed, got, cuts>>
  BY <1>1 DEF Unread
<1>2. CASE keyboard_irq_handler
  <2>1. rd' = rd /\ got' = got
    BY <1>2 DEF keyboard_irq_handler
  <2>2. CASE typed' = typed /\ kbd_ptr' = kbd_ptr
    <3>1. cuts' = cuts \/ cuts' = cuts + 1
      BY <1>2 DEF keyboard_irq_handler
    <3>2. Unread' = Unread
      BY <2>1, <2>2 DEF Unread
    <3> QED
      BY <1>0, <2>1, <2>2, <3>1, <3>2
  <2>3. CASE typed' = Append(typed, scancode.key) /\ kbd_ptr' = kbd_ptr + 1
    <3>1. Len(typed') = Len(typed) + 1
      BY <2>3 DEF KbdTypes
    <3>2. CASE rd.at = "store"
      <4>1. cuts' = cuts + 1
        BY <1>2, <3>2 DEF keyboard_irq_handler
      <4>2. Unread' = Unread
        BY <2>1, <3>2 DEF Unread
      <4> QED
        BY <1>0, <2>1, <3>1, <4>1, <4>2
    <3>3. CASE rd.at # "store"
      <4>1. cuts' = cuts \/ cuts' = cuts + 1
        BY <1>2 DEF keyboard_irq_handler
      <4>2. Unread' = Unread + 1
        BY <2>1, <2>3, <3>3 DEF Unread, KbdTypes
      <4> QED
        BY <1>0, <2>1, <3>1, <4>1, <4>2
    <3> QED
      BY <3>2, <3>3
  <2> QED
    BY <1>2, <2>2, <2>3 DEF keyboard_irq_handler, After, Appends
<1>3. ASSUME UNCHANGED <<typed, cuts>>, Len(got') + Unread' = Len(got) + Unread PROVE Counted'
  BY <1>0, <1>3
<1>4. CASE getch \/ readch
  <2>1. rd.at = "idle" /\ rd'.at \in {"spin", "first"} /\ UNCHANGED <<kbd_ptr, typed, got, cuts>>
    BY <1>4, CallBegins DEF getch, readch, ReaderStep
  <2> QED
    BY <1>3, <2>1 DEF Unread
<1>5. CASE SpinEnds
  BY <1>5, <1>3 DEF SpinEnds, ReaderStep, Unread, KbdTypes, Readers
<1>6. CASE TakeFirst
  <2>1. rd'.call = rd.call /\ rd'.at = IF rd.call = "getch" THEN "shift" ELSE "load"
    BY <1>6 DEF TakeFirst, KbdTypes, Readers
  <2> QED
    BY <1>6, <1>3, <2>1 DEF TakeFirst, ReaderStep, Unread
<1>7. CASE Shift
  <2>1. CASE rd'.at = "shift" /\ rd'.call = rd.call /\ got' = got
    BY <1>7, <1>3, <2>1 DEF Shift, ReaderStep, Unread
  <2>2. CASE rd.call = "getch" /\ rd'.at = "load" /\ got' = got
    BY <1>7, <1>3, <2>2 DEF Shift, ReaderStep, Unread
  <2>3. CASE rd.call = "readch" /\ Return
    <3>1. rd'.at = "idle" /\ Len(got') = Len(got) + 1
      BY <2>3, StepReturn DEF Return, Idle
    <3>2. Unread = kbd_ptr + 1 /\ Unread' = kbd_ptr
      BY <1>7, <2>3, <3>1 DEF Shift, Unread
    <3>3. UNCHANGED <<typed, cuts>> /\ kbd_ptr \in Nat
      BY <1>7 DEF Shift, ReaderStep, KbdTypes
    <3> QED
      BY <1>0, <1>3, <3>1, <3>2, <3>3
  <2> QED
    BY <1>7, <2>1, <2>2, <2>3 DEF Shift, KeyIsThere, KbdTypes, Readers
<1>8. CASE Load
  <2>1. rd'.at = "store" /\ rd'.ptr = kbd_ptr
    BY <1>8 DEF Load, KbdTypes, Readers
  <2> QED
    BY <1>8, <1>3, <2>1 DEF Load, ReaderStep, Unread
<1>9. CASE Store
  <2>1. UNCHANGED <<typed, cuts>> /\ Unread = rd.ptr /\ rd.ptr \in Nat /\ kbd_ptr' = rd.ptr - 1
    BY <1>9 DEF Store, ReaderStep, Unread, Less, KbdTypes, Readers
  <2>2. CASE Return
    <3>1. Unread' = kbd_ptr' /\ Len(got') = Len(got) + 1
      BY <2>2, StepReturn DEF Return, Idle, Unread
    <3> QED
      BY <1>0, <1>3, <2>1, <3>1
  <2>3. CASE rd.call = "readch" /\ rd' = [rd EXCEPT !.at = "shift"] /\ got' = got
    <3>1. Unread' = kbd_ptr' + 1
      BY <2>3 DEF Unread, KbdTypes, Readers
    <3> QED
      BY <1>0, <1>3, <2>1, <2>3, <3>1
  <2> QED
    BY <1>9, <2>2, <2>3 DEF Store, KeyIsThere
<1> QED
  BY <1>1, <1>2, <1>4, <1>5, <1>6, <1>7, <1>8, <1>9 DEF KbdStep, kbdVars, Key

(* The end of a call: the first key goes to the caller, the others have been *)
(* shifted by one.                                                          *)
LEMMA ReturnInOrder ==
  ASSUME KbdTypes, InOrder, Return, cuts = 0, UNCHANGED <<typed, kbd_buffer, cuts>>,
         rd.at \in {"shift", "store"}, Unread \in Nat \ {0}, kbd_ptr' = Unread - 1,
         rd.i >= kbd_ptr'
  PROVE  InOrder'
<1>1. Len(got) \in Nat /\ Len(got') = Len(got) + 1 /\ got'[Len(got) + 1] = rd.res
      /\ \A k \in 1 .. Len(got) : got'[k] = got[k]
  BY StepReturn DEF KbdTypes
<1>2. rd'.at = "idle" /\ Unread' = kbd_ptr' /\ \A j : Cell(j)' = kbd_buffer[j - 1]
  BY DEF Return, Idle, Unread, Cell
<1>3. Cell(1) = rd.res /\ typed[Len(got) + 1] = Cell(1)
  BY <1>1 DEF Cell, InOrder
<1>4. ASSUME NEW k \in 1 .. Len(got') PROVE typed'[k] = got'[k]
  <2>1. k = Len(got) + 1 \/ k \in 1 .. Len(got)
    BY <1>1
  <2> QED
    BY <1>1, <1>3, <2>1 DEF InOrder
<1>5. ASSUME NEW j \in 1 .. Unread' PROVE typed'[Len(got') + j] = Cell(j)'
  <2>1. j + 1 \in 1 .. Unread /\ j + 1 # 1 /\ (j + 1) - 2 = j - 1 /\ j - 1 < rd.i
    BY <1>2 DEF KbdTypes, Readers
  <2>2. Cell(j + 1) = kbd_buffer[j - 1]
    BY <2>1 DEF Cell
  <2>3. typed[Len(got) + (j + 1)] = Cell(j + 1)
    BY <2>1 DEF InOrder
  <2>4. Len(got') + j = Len(got) + (j + 1)
    BY <1>1, <2>1
  <2> QED
    BY <1>2, <2>2, <2>3, <2>4
<1>6. Len(typed') = Len(got') + Unread'
  BY <1>1, <1>2 DEF InOrder
<1> QED
  BY <1>2, <1>4, <1>5, <1>6 DEF InOrder

LEMMA StepInOrder ==
  ASSUME KbdTypes, KeyIsThere, Counted, InOrder, KbdStep
  PROVE  InOrder'
<1>0. Len(typed) \in Nat /\ Len(got) \in Nat /\ Unread \in Nat /\ cuts \in Nat
      /\ kbd_ptr \in 0 .. KBD_SIZE /\ rd.i \in 0 .. KBD_SIZE /\ KBD_SIZE \in Nat
  BY KeyboardAssumption DEF KbdTypes, Readers, Unread
<1>1. CASE cuts' # 0
  BY <1>1 DEF InOrder
<1>2. CASE UNCHANGED <<kbd_buffer, kbd_ptr, rd, typed, got, cuts>>
  BY <1>2 DEF InOrder, Unread, Cell
<1>3. ASSUME keyboard_irq_handler, cuts' = 0 PROVE InOrder'
  <2>1. rd.at \in {"idle", "spin"} /\ cuts = 0 /\ rd' = rd /\ got' = got
    BY <1>0, <1>3 DEF keyboard_irq_handler
  <2>2. Unread = kbd_ptr /\ Unread' = kbd_ptr'
    BY <2>1 DEF Unread
  <2>3. \A j : Cell(j) = kbd_buffer[j - 1] /\ Cell(j)' = kbd_buffer'[j - 1]
    BY <2>1 DEF Cell
  <2>4. CASE UNCHANGED <<kbd_buffer, kbd_ptr, typed>>
    BY <2>1, <2>2, <2>3, <2>4 DEF InOrder
  <2>5. CASE /\ typed' = Append(typed, scancode.key) /\ kbd_ptr' = kbd_ptr + 1
             /\ kbd_buffer' = [kbd_buffer EXCEPT ![kbd_ptr] = scancode.key]
    <3>1. Len(typed') = Len(typed) + 1 /\ typed'[Len(typed) + 1] = scancode.key
          /\ \A k \in 1 .. Len(typed) : typed'[k] = typed[k]
      BY <2>5 DEF KbdTypes
    <3>2. Len(typed) = Len(got) + kbd_ptr
      BY <2>1, <2>2 DEF InOrder
    <3>3. ASSUME NEW k \in 1 .. Len(got') PROVE typed'[k] = got'[k]
      BY <1>0, <2>1, <3>1, <3>2 DEF InOrder
    <3>4. ASSUME NEW j \in 1 .. Unread' PROVE typed'[Len(got') + j] = Cell(j)'
      <4>1. CASE j = kbd_ptr + 1
        <5>1. kbd_buffer'[j - 1] = scancode.key
          BY <1>0, <2>5, <4>1 DEF KbdTypes
        <5> QED
          BY <1>0, <2>1, <2>3, <3>1, <3>2, <4>1, <5>1
      <4>2. CASE j \in 1 .. kbd_ptr
        <5>1. kbd_buffer'[j - 1] = kbd_buffer[j - 1]
          BY <1>0, <2>5, <4>2 DEF KbdTypes
        <5>2. typed[Len(got) + j] = kbd_buffer[j - 1] /\ Len(got) + j \in 1 .. Len(typed)
          <6>1. j \in 1 .. Unread /\ Len(got) + j \in 1 .. Len(typed)
            BY <1>0, <2>2, <3>2, <4>2
          <6> QED
            BY <2>1, <2>3, <6>1 DEF InOrder
        <5> QED
          BY <2>1, <2>3, <3>1, <5>1, <5>2
      <4> QED
        <5>1. j \in 1 .. kbd_ptr + 1
          BY <2>2, <2>5
        <5> QED
          BY <1>0, <4>1, <4>2, <5>1
    <3>5. Len(typed') = Len(got') + Unread'
      BY <1>0, <2>1, <2>2, <2>5, <3>1, <3>2
    <3> QED
      BY <2>1, <3>3, <3>4, <3>5 DEF InOrder
  <2> QED
    BY <1>3, <2>4, <2>5 DEF keyboard_irq_handler, After, Appends
<1>4. ASSUME UNCHANGED <<typed, got>>, Unread' = Unread, cuts = 0, rd'.at # "store", rd'.at # "load",
             \A j \in 1 .. Unread : Cell(j)' = Cell(j)
      PROVE  InOrder'
  BY <1>4 DEF InOrder
<1>5. ASSUME getch \/ readch \/ SpinEnds, cuts' = 0 PROVE InOrder'
  <2>1. rd.at \in {"idle", "spin"} /\ rd'.at \in {"spin", "first"}
    BY <1>5, CallBegins DEF SpinEnds, KbdTypes, Readers
  <2>3. UNCHANGED <<kbd_buffer, kbd_ptr, typed, got, cuts>>
    BY <1>5 DEF getch, readch, SpinEnds, ReaderStep
  <2>2. Unread' = Unread /\ \A j : Cell(j)' = Cell(j)
    BY <2>1, <2>3 DEF Unread, Cell
  <2> QED
    BY <1>4, <1>5, <2>1, <2>2, <2>3
<1>6. ASSUME TakeFirst, cuts' = 0 PROVE InOrder'
  <2>1. /\ rd.at = "first" /\ rd'.at = IF rd.call = "getch" THEN "shift" ELSE "load"
        /\ rd'.call = rd.call /\ rd'.i = 0 /\ rd'.res = kbd_buffer[0]
        /\ UNCHANGED <<kbd_buffer, kbd_ptr, typed, got, cuts>>
    BY <1>6 DEF TakeFirst, ReaderStep, KeyIsThere, KbdTypes, Readers
  <2>2. Unread' = Unread /\ Unread = kbd_ptr
    BY <2>1 DEF Unread
  <2>3. \A j \in 1 .. Unread : Cell(j)' = Cell(j)
    BY <1>0, <2>1 DEF Cell
  <2> QED
    BY <1>6, <2>1, <2>2, <2>3 DEF InOrder
<1>7. ASSUME Shift, cuts' = 0 PROVE InOrder'
  <2>1. rd.at = "shift" /\ UNCHANGED <<kbd_ptr, typed, cuts>> /\ cuts = 0
    BY <1>7 DEF Shift, ReaderStep
  <2>2. CASE rd.i < Bound
    <3>1. /\ rd'.at = "shift" /\ rd'.call = rd.call /\ rd'.i = rd.i + 1 /\ rd'.res = rd.res
          /\ kbd_buffer' = [kbd_buffer EXCEPT ![rd.i] = kbd_buffer[rd.i + 1]] /\ got' = got
      BY <1>7, <2>2 DEF Shift, KbdTypes, Readers
    <3>2. Unread' = Unread /\ Unread \in 0 .. KBD_SIZE + 1
      BY <1>0, <2>1, <3>1 DEF Unread
    <3>3. ASSUME NEW j \in 1 .. Unread PROVE Cell(j)' = Cell(j)
      <4>1. CASE j = 1
        BY <2>1, <3>1, <4>1 DEF Cell
      <4>2. CASE j # 1
        <5>1. j - 2 \in 0 .. KBD_SIZE /\ j - 1 = j - 2 + 1
          BY <1>0, <3>2, <4>2
        <5>2. Cell(j) = IF j - 2 < rd.i THEN kbd_buffer[j - 2] ELSE kbd_buffer[j - 1]
          BY <2>1, <4>2 DEF Cell
        <5>3. Cell(j)' = IF j - 2 < rd.i + 1 THEN kbd_buffer'[j - 2] ELSE kbd_buffer'[j - 1]
          BY <2>1, <3>1, <4>2 DEF Cell
        <5>4. \A m : m # rd.i => kbd_buffer'[m] = kbd_buffer[m]
          BY <3>1 DEF KbdTypes
        <5>5. kbd_buffer'[rd.i] = kbd_buffer[rd.i + 1]
          BY <1>0, <3>1 DEF KbdTypes
        <5> QED
          BY <1>0, <5>1, <5>2, <5>3, <5>4, <5>5
      <4> QED
        BY <4>1, <4>2
    <3> QED
      BY <1>4, <2>1, <3>1, <3>2, <3>3
  <2>3. CASE ~(rd.i < Bound) /\ rd.call = "getch"
    <3>1. /\ rd'.at = "load" /\ rd'.call = rd.call /\ rd'.i = rd.i /\ rd'.res = rd.res
          /\ UNCHANGED <<kbd_buffer, got>>
      BY <1>7, <2>3 DEF Shift, KbdTypes, Readers
    <3>2. Unread' = Unread /\ \A j : Cell(j)' = Cell(j)
      BY <2>1, <2>3, <3>1 DEF Unread, Cell
    <3>3. rd.i >= kbd_ptr - 1
      BY <1>0, <2>3 DEF Bound
    <3> QED
      BY <2>1, <3>1, <3>2, <3>3 DEF InOrder
  <2>4. CASE ~(rd.i < Bound) /\ rd.call = "readch"
    <3>1. Return /\ UNCHANGED kbd_buffer /\ rd.i >= kbd_ptr /\ Unread = kbd_ptr + 1
      BY <1>0, <1>7, <2>1, <2>4 DEF Shift, Bound, Unread
    <3> QED
      BY <1>0, <2>1, <3>1, ReturnInOrder
  <2> QED
    BY <2>1, <2>2, <2>3, <2>4 DEF KeyIsThere
<1>8. ASSUME Load, cuts' = 0 PROVE InOrder'
  <2>1. /\ rd.at = "load" /\ rd'.at = "store" /\ rd'.ptr = kbd_ptr /\ rd'.call = rd.call
        /\ rd'.i = rd.i /\ rd'.res = rd.res
        /\ UNCHANGED <<kbd_buffer, kbd_ptr, typed, got, cuts>>
    BY <1>8 DEF Load, ReaderStep, KbdTypes, Readers
  <2>2. Unread' = Unread /\ \A j : Cell(j)' = Cell(j)
    BY <2>1 DEF Unread, Cell
  <2> QED
    BY <1>8, <2>1, <2>2 DEF InOrder
<1>9. ASSUME Store, cuts' = 0 PROVE InOrder'
  <2>1. /\ rd.at = "store" /\ kbd_ptr' = kbd_ptr - 1 /\ Unread = kbd_ptr /\ kbd_ptr >= 1
        /\ cuts = 0 /\ UNCHANGED <<kbd_buffer, typed, cuts>>
    BY <1>9 DEF Store, ReaderStep, Less, InOrder, KeyIsThere, Unread
  <2>2. CASE rd.call = "getch"
    <3>1. Return /\ rd.i >= kbd_ptr - 1
      BY <1>9, <2>1, <2>2 DEF Store, InOrder
    <3> QED
      BY <1>0, <2>1, <3>1, ReturnInOrder
  <2>3. CASE rd.call = "readch"
    <3>1. rd'.at = "shift" /\ rd'.call = rd.call /\ rd'.i = rd.i /\ rd'.res = rd.res /\ got' = got
      BY <1>9, <2>3 DEF Store, KbdTypes, Readers
    <3>2. Unread' = Unread
      BY <1>0, <2>1, <2>3, <3>1 DEF Unread
    <3>3. \A j : Cell(j)' = Cell(j)
      BY <2>1, <3>1 DEF Cell
    <3> QED
      BY <1>4, <2>1, <3>1, <3>2, <3>3
  <2> QED
    BY <2>1, <2>2, <2>3 DEF KeyIsThere
<1> QED
  BY <1>1, <1>2, <1>3, <1>5, <1>6, <1>7, <1>8, <1>9 DEF KbdStep, kbdVars, Key

-----------------------------------------------------------------------------
(* The inductive invariant *)

MouseInv ==
  /\ MouseTypes /\ PacketsAligned /\ HeardIsState /\ ButtonsAlternate
  /\ AttachedIsLive /\ FreedOnlyInFini /\ ByteBehindRequest /\ UnexpectedIsPolled

KbdInv == KbdTypes /\ KeyIsThere /\ Counted /\ InOrder

Inv == LineInv /\ Requests /\ UnhandledAreRetired /\ MouseInv /\ KbdInv

LEMMA InitInv == Init => Inv
<1> SUFFICES ASSUME Init PROVE Inv
  OBVIOUS
<1>1. PICK b \in Budgets : IrqInit(b.uses)
  BY DEF Init
<1>2. LineTypes
  BY <1>1, LineRanges DEF IrqInit, LineTypes, Places, Between, OnPIC
<1>3. SeenIsMask
  BY <1>1 DEF IrqInit, SeenIsMask, Between
<1>4. OpenIsKnown
  <2>1. ASSUME NEW l \in Lines, l \notin mask[PIC(l)] PROVE l = KEYBOARD
    <3>1. PIC(l) \in {1, 2} /\ l \in OnPIC(PIC(l))
      BY LineRanges
    <3>2. l # CASCADE
      BY IrqAssumption DEF Lines, KEYBOARD, CASCADE
    <3> QED
      BY <1>1, <2>1, <3>1, <3>2 DEF IrqInit
  <2> QED
    BY <1>1, <2>1 DEF IrqInit, OpenIsKnown, Known, Between
<1>5. LinesStayOpen
  BY <1>1 DEF IrqInit, LinesStayOpen
<1>6. /\ Requests /\ UnhandledAreRetired /\ FreedOnlyInFini
      /\ ByteBehindRequest /\ UnexpectedIsPolled
  BY <1>1 DEF IrqInit, Requests, UnhandledAreRetired, FreedOnlyInFini, ByteBehindRequest,
     UnexpectedIsPolled
<1>7. MouseTypes
  <2>1. heard \in [Clients -> Seq(Event)]
    BY DEF Init, MouseInit
  <2> QED
    BY <2>1, NoContextIsContext DEF Init, MouseInit, MouseTypes, MouseBytes, Bytes
<1>8. PacketsAligned /\ HeardIsState /\ ButtonsAlternate
  BY DEF Init, MouseInit, NoContext, PacketsAligned, HeardIsState, ButtonsAlternate
<1>9. AttachedIsLive
  BY <1>1, LineRanges, MouseAssumption DEF IrqInit, AttachedIsLive, MOUSE
<1>10. KbdTypes /\ KeyIsThere
  BY IdleReads, KeyboardAssumption DEF Init, KbdInit, KbdTypes, KeyIsThere, Idle, AnyKey
<1>11. Counted /\ InOrder
  BY DEF Init, KbdInit, Idle, Counted, InOrder, Unread
<1> QED
  BY <1>2, <1>3, <1>4, <1>5, <1>6, <1>7, <1>8, <1>9, <1>10, <1>11
     DEF Inv, LineInv, MouseInv, KbdInv

LEMMA StepInv == Inv /\ [Next]_vars => Inv'
<1> SUFFICES ASSUME Inv, [Next]_vars PROVE Inv'
  OBVIOUS
<1> USE DEF Inv, LineInv, MouseInv, KbdInv
<1>1. LineStep /\ MouseStep /\ KbdStep
  BY LineSteps, MouseSteps, KbdSteps
<1>2. LineInv'
  BY <1>1, StepLineTypes, StepSeenIsMask, StepOpenIsKnown, StepLinesStayOpen
<1>3. Requests' /\ UnhandledAreRetired'
  BY StepRequests, StepUnhandled
<1>4. MouseInv'
  BY <1>1, StepMouseTypes, StepPacketsAligned, StepHeard, StepAttachedIsLive,
     StepFreedOnlyInFini, StepByteBehindRequest, StepUnexpectedIsPolled
<1>5. KbdInv'
  BY <1>1, StepKbdTypes, StepKeyIsThere, StepCounted, StepInOrder
<1> QED
  BY <1>2, <1>3, <1>4, <1>5

LEMMA InvType == Inv => TypeOK
<1> SUFFICES ASSUME Inv PROVE TypeOK
  OBVIOUS
<1>1. IrqTypeOK
  BY DEF Inv, LineInv, LineTypes, Places, Requests, IrqTypeOK
<1>2. KbdTypeOK
  BY DEF Inv, KbdInv, KbdTypes, Readers, AnyKey, KbdTypeOK
<1>3. MouseTypeOK
  BY DEF Inv, MouseInv, MouseTypes, MouseBytes, Contexts, MouseTypeOK
<1> QED
  BY <1>1, <1>2, <1>3 DEF TypeOK

LEMMA InvKeys == Inv => KeysInOrder /\ LossBounded
<1> SUFFICES ASSUME Inv, Between2Reads
             PROVE  /\ cuts = 0 => got \o Buffered = typed
                    /\ Len(typed) - cuts <= Len(got) + kbd_ptr /\ Len(got) + kbd_ptr <= Len(typed)
  BY DEF KeysInOrder, LossBounded
<1>1. Unread = kbd_ptr /\ kbd_ptr \in 0 .. KBD_SIZE /\ KBD_SIZE \in Nat
      /\ \A j : Cell(j) = kbd_buffer[j - 1]
  BY KeyboardAssumption DEF Inv, KbdInv, KbdTypes, Between2Reads, Unread, Cell
<1>2. Len(typed) - cuts <= Len(got) + kbd_ptr /\ Len(got) + kbd_ptr <= Len(typed)
  BY <1>1 DEF Inv, KbdInv, Counted
<1>3. ASSUME cuts = 0 PROVE got \o Buffered = typed
  <2>1. Buffered \in Seq(AnyKey) /\ Len(Buffered) = kbd_ptr
        /\ \A j \in 1 .. kbd_ptr : Buffered[j] = kbd_buffer[j - 1]
    BY <1>1 DEF Buffered, Inv, KbdInv, KbdTypes
  <2>2. typed \in Seq(AnyKey) /\ got \in Seq(AnyKey)
    BY DEF Inv, KbdInv, KbdTypes
  <2>3. /\ Len(typed) = Len(got) + kbd_ptr
        /\ \A k \in 1 .. Len(got) : typed[k] = got[k]
        /\ \A j \in 1 .. kbd_ptr : typed[Len(got) + j] = kbd_buffer[j - 1]
    BY <1>1, <1>3 DEF Inv, KbdInv, InOrder
  <2>4. got \o Buffered \in Seq(AnyKey) /\ Len(got \o Buffered) = Len(got) + kbd_ptr
    BY <2>1, <2>2
  <2>5. ASSUME NEW k \in 1 .. Len(typed) PROVE (got \o Buffered)[k] = typed[k]
    <3>1. CASE k \in 1 .. Len(got)
      BY <2>1, <2>2, <2>3, <3>1
    <3>2. CASE k \notin 1 .. Len(got)
      <4> DEFINE j == k - Len(got)
      <4>1. j \in 1 .. kbd_ptr /\ k = Len(got) + j
        BY <1>1, <2>2, <2>3, <3>2
      <4>2. (got \o Buffered)[k] = Buffered[j]
        BY <2>1, <2>2, <3>2, <4>1
      <4> QED
        BY <2>1, <2>3, <4>1, <4>2
    <3> QED
      BY <3>1, <3>2
  <2> QED
    BY <2>2, <2>3, <2>4, <2>5, SeqEqual
<1> QED
  BY <1>2, <1>3

THEOREM Invariant == Spec => []Inv
<1> QED
  BY InitInv, StepInv, PTL DEF Spec

-----------------------------------------------------------------------------
(* A line with a handler is silent only for one of the reasons that         *)
(* LinesStayOpen names: register_isr_callback, unregister_isr_callback and  *)
(* mouse_init lose no other line, whatever order their reads and writes of  *)
(* the masks come in.                                                       *)
THEOREM NoLineIsLost == Spec => []LinesStayOpen
<1>1. Inv => LinesStayOpen
  BY DEF Inv, LineInv
<1> QED
  BY <1>1, Invariant, PTL

(* irq_handler_gateway panics only for the line of a driver that was        *)
(* unregistered, mouse_isr runs without a context only in the window of     *)
(* mouse_fini, and panics for an interrupt without a byte only when         *)
(* mouse_init or mouse_fini has polled that byte away.                      *)
THEOREM StopsAreKnown == Spec => []HandlerStops
<1>1. Inv => HandlerStops
  BY DEF Inv, MouseInv, HandlerStops
<1> QED
  BY <1>1, Invariant, PTL

(* mouse_isr assembles aligned packets, and every callback hears presses    *)
(* and releases in turn.                                                    *)
THEOREM PacketsAreHeard == Spec => []MouseHeard
<1>1. Inv => MouseHeard
  BY DEF Inv, MouseInv, MouseHeard
<1> QED
  BY <1>1, Invariant, PTL

(* getch and readch return the keys in the order in which they were typed   *)
(* unless a key interrupts them, and an interrupt costs at most one key.    *)
THEOREM KeysArrive == Spec => []KeysDelivered
<1>1. Inv => KeysDelivered
  BY InvType, InvKeys DEF KeysDelivered
<1> QED
  BY <1>1, Invariant, PTL
=============================================================================
