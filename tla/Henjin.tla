-------------------------------- MODULE Henjin --------------------------------
(***************************************************************************)
(* The window system (subsystems/henjin*.c): the mouse callback, the       *)
(* server thread, the desktop thread and one thread per window, and their  *)
(* message queues.  The screen is a column of cells; a window is a title   *)
(* bar and two buttons, each a cell high, and so are the pointer and a     *)
(* step of the mouse.  Two threads that meet in a mutex stop the machine   *)
(* (Mutex); up to then a section under a mutex runs as a whole, and that   *)
(* is how far behaviours are followed here.  A thread takes a message and  *)
(* begins with it in one step.                                             *)
(***************************************************************************)
EXTENDS Integers, Sequences, FiniteSets, FiniteSetsExt, SequencesExt

CONSTANTS
  Width,         \* of the screen, in cells
  StartPos,      \* where each window is registered
  RingSize,      \* of mouse_driver_events
  QueueSize,     \* of a control's message_queue
  Steps,         \* how far the mouse moves at once, in cells
  Clock,         \* where desktop_repaint writes the draw time
  Plans          \* bounds of the model: the windows, the events of the mouse, and
                 \* whether the windows are drawn one by one before the first of them

ASSUME HenjinAssumption ==
  /\ Width \in Nat \ {0} /\ RingSize \in Nat /\ QueueSize \in Nat /\ QueueSize >= 3
  /\ Steps \subseteq Int
  /\ StartPos \in Seq(0 .. Width - 1) \ {<<>>}
  /\ Plans \subseteq [windows : DOMAIN StartPos, events : Nat, calm : BOOLEAN]

Cells == 0 .. Width - 1
Windows == DOMAIN StartPos
Buttons == 0 .. 1
MouseButtons == {"left", "right"}

VARIABLES
  held, ring, plan,           \* buttons held; mouse_driver_events; what is still to come
  sAt, mouse, fault,          \* the server: where it is, mouse_pos, where it failed
  ev, desktop,                \* the K_EVENT of the server; "live" or "freed"
  dTo, copying, dq,           \* the desktop: the move it is in, or -1; the cells
                              \* it is about to draw; its queue
  drawing, d_mouse, screen,   \* draw_enabled, its mouse_pos, the framebuffer
  children, pos, drag,        \* registered windows; pos, and drag data or NoDrag
  work, wq, surf, down,       \* the windows: the work of each, its queue, its
                              \* surface, its buttons that are down
  sized, home,                \* the windows with a size, and where they got it
  lost, touched,              \* an event or a repaint was dropped; the freed
                              \* memory that was used
  halted

mouseVars == <<held, ring, plan>>
serverVars == <<sAt, mouse, fault>>
desktopVars == <<dTo, copying, drawing, d_mouse, screen, drag>>
windowVars == <<work, surf, down, sized, home>>
vars == <<mouseVars, serverVars, ev, desktop, desktopVars, dq, children, pos, windowVars, wq,
          lost, touched, halted>>

Running == ~halted

NoDrag == [on |-> FALSE, source |-> 0, from |-> 0]
Msg(type) == [type |-> type, x |-> 0, button |-> "left", rect |-> {}]
At(type, x, button) == [Msg(type) EXCEPT !.x = x, !.button = button]
Repaint(rect) == [Msg("repaint") EXCEPT !.rect = rect]

(* What a window's thread is at: "ask" itself for a repaint, "paint", "tell" *)
(* the desktop                                                              *)
Idle == [at |-> "idle", rect |-> {}]

Shown == 1 .. children

(* A window without a size has a border and a title bar. *)
Bounds(w) == pos[w] .. pos[w] + (IF w \in sized THEN 2 ELSE 0)

Top(c) == Max({0} \cup {w \in Shown : c \in Bounds(w)})

(* What the framebuffer shows in a cell *)
Nothing == [window |-> 0, part |-> "none", pointer |-> FALSE]

Picture(c) ==
  LET top == Top(c)
      part == IF top = 0 THEN "none"
              ELSE IF c = pos[top] THEN IF top \in sized THEN "title" ELSE "sliver"
              ELSE surf[top][c - pos[top] - 1]
  IN [window |-> top, part |-> part, pointer |-> c = d_mouse]

Init ==
  /\ held = {} /\ ring = <<>> /\ plan \in Plans
  /\ sAt = "disable" /\ mouse = 0 /\ fault = "none" /\ ev = "clear" /\ desktop = "live"
  /\ dTo = -1 /\ copying = {} /\ dq = <<>>
  /\ drawing = FALSE /\ d_mouse = 0 /\ screen = [c \in Cells |-> Nothing]
  /\ children = 0 /\ pos = [w \in Windows |-> 0] /\ drag = [w \in Windows |-> NoDrag]
  /\ work = [w \in Windows |-> Idle]
  /\ wq = [w \in Windows |-> <<>>]
  /\ surf = [w \in Windows |-> [b \in Buttons |-> "blank"]]
  /\ down = [w \in Windows |-> {}]
  /\ sized = {} /\ home = StartPos
  /\ lost = FALSE /\ touched = {} /\ halted = FALSE

-----------------------------------------------------------------------------
Full(q) == Len(q) >= QueueSize

(* hj_queue_message where the sender does not look at the result *)
Send(q, ms) == q \o SubSeq(ms, 1, Min({Len(ms), QueueSize - Len(q)}))
Lost(q, ms) == Len(q) + Len(ms) > QueueSize

ToDesktop(ms) == dq' = Send(dq, ms) /\ lost' = (lost \/ Lost(dq, ms))

(* ... and where a failure makes the thread panic *)
ToWindow(w, m) ==
  IF Full(wq[w]) THEN halted' = TRUE /\ UNCHANGED wq
  ELSE wq' = [wq EXCEPT ![w] = Append(@, m)] /\ UNCHANGED halted

-----------------------------------------------------------------------------
(* The mouse: henjin_mouse_driver_callback, in the mouse interrupt *)

Quiet ==
  /\ sAt \in {"read", "ended"} /\ ring = <<>> /\ dTo = -1 /\ copying = {} /\ dq = <<>>
  /\ \A w \in Windows : work[w] = Idle /\ wq[w] = <<>>

MouseEvent(e) ==
  /\ Running /\ sAt = "read" /\ plan.events > 0 /\ (plan.calm => Quiet)
  /\ plan' = [plan EXCEPT !.events = @ - 1, !.calm = FALSE]
  /\ IF Len(ring) < RingSize THEN ring' = Append(ring, e) /\ UNCHANGED lost
     ELSE lost' = TRUE /\ UNCHANGED ring
  /\ UNCHANGED <<serverVars, ev, desktop, desktopVars, dq, children, pos, windowVars, wq, touched, halted>>

Move == held' = held /\ \E d \in Steps : MouseEvent([type |-> "move", by |-> d, button |-> "left"])

Press == \E b \in MouseButtons \ held :
  held' = held \cup {b} /\ MouseEvent([type |-> "down", by |-> 0, button |-> b])

Release == \E b \in held :
  held' = held \ {b} /\ MouseEvent([type |-> "up", by |-> 0, button |-> b])

-----------------------------------------------------------------------------
(* The server: henjin_set_resolution, demo1_init, henjin_start_server *)

ServerGoes(from, to) == Running /\ sAt = from /\ sAt' = to

ServerRest == UNCHANGED <<mouseVars, mouse, desktopVars, windowVars, touched>>

(* "finally" in henjin_set_resolution, or after it "fail" in                *)
(* henjin_start_server                                                      *)
Fails(stage) ==
  /\ ServerGoes(stage, "failed") /\ fault' = stage /\ ev' = "freed"
  /\ UNCHANGED <<desktop, dq, children, pos, wq, lost, halted>> /\ ServerRest

Tells(from, to, m) ==
  IF Full(dq) THEN Fails(from)
  ELSE /\ ServerGoes(from, to) /\ dq' = Append(dq, m)
       /\ UNCHANGED <<fault, ev, desktop, children, pos, wq, lost, halted>> /\ ServerRest

(* Mutant: does not wait for the desktop. *)
WaitOver_at_once(e) == TRUE

(* The event is signalled. *)
WaitOver(e) == e = "signalled"

(* event_waitfor, which gives up after a time; nxgi_init may also fail.     *)
ServerWait ==
  \/ ~WaitOver(ev) /\ Fails("wait")
  \/ /\ WaitOver(ev) /\ ServerGoes("wait", "nxgi")
     /\ UNCHANGED <<fault, ev, desktop, dq, children, pos, wq, lost, halted>> /\ ServerRest

nxgi_init ==
  \/ Fails("nxgi")
  \/ /\ ServerGoes("nxgi", "enable")
     /\ UNCHANGED <<fault, ev, desktop, dq, children, pos, wq, lost, halted>> /\ ServerRest

FreeEvent ==
  /\ ServerGoes("free event", "windows") /\ ev' = "freed"
  /\ UNCHANGED <<fault, desktop, dq, children, pos, wq, lost, halted>> /\ ServerRest

(* The first message needs memory for the event. *)
henjin_set_resolution ==
  \/ Fails("disable") \/ Tells("disable", "wait", Msg("disable"))
  \/ ServerWait \/ nxgi_init
  \/ Tells("enable", "resize", Msg("enable"))
  \/ Tells("resize", "repaint", Msg("resize"))
  \/ Tells("repaint", "free event", Repaint(Cells))
  \/ FreeEvent

hj_destroy_desktop ==
  /\ ServerGoes("failed", "ended") /\ desktop' = "freed"
  /\ UNCHANGED <<fault, ev, dq, children, pos, wq, lost, halted>> /\ ServerRest

(* The sizes of the buttons ask the window for repaints; those that their   *)
(* captions ask for before are empty and left out.                          *)
FirstMessages == <<Msg("resize"), Repaint({0}), Repaint({1})>>

(* henjin_register_window, which adds the window and moves it to its place. *)
demo1_init ==
  \/ Fails("windows") \/ Fails("place")
  \/ /\ ServerGoes("windows", "place") /\ children' = children + 1
     /\ UNCHANGED <<fault, ev, desktop, dq, pos, wq, lost, halted>> /\ ServerRest
  \/ /\ ServerGoes("place", IF children = plan.windows THEN "subscribe" ELSE "windows")
     /\ pos' = [pos EXCEPT ![children] = StartPos[children]]
     /\ wq' = [wq EXCEPT ![children] = FirstMessages]
     /\ UNCHANGED <<fault, ev, desktop, dq, children, lost, halted>> /\ ServerRest

(* IOCTL_POINTING_REGISTER *)
Subscribe ==
  \/ Fails("subscribe")
  \/ /\ ServerGoes("subscribe", "read")
     /\ UNCHANGED <<fault, ev, desktop, dq, children, pos, wq, lost, halted>> /\ ServerRest

nxgig_clip_point(x) == IF x < 0 THEN 0 ELSE IF x >= Width THEN Width - 1 ELSE x

(* A button-down message names no button, which means the left one. *)
henjin_process_mouse_events ==
  /\ ServerGoes("read", "read") /\ ring # <<>> /\ ring' = Tail(ring)
  /\ LET e == Head(ring) IN
       /\ mouse' = IF e.type = "move" THEN nxgig_clip_point(mouse + e.by) ELSE mouse
       /\ ToDesktop(<<At(e.type, mouse', IF e.type = "up" THEN e.button ELSE "left")>>)
  /\ UNCHANGED <<held, plan, fault, ev, desktop, children, pos, wq, halted>>
  /\ UNCHANGED <<desktopVars, windowVars, touched>>

Server ==
  \/ henjin_set_resolution \/ demo1_init \/ Subscribe \/ henjin_process_mouse_events
  \/ hj_destroy_desktop

-----------------------------------------------------------------------------
(* The desktop thread *)

DesktopRest == UNCHANGED <<mouseVars, serverVars, desktop, children, windowVars>>

(* hj_get_message; hj_process_message for a message of a type *)
Handles(type) == Running /\ desktop = "live" /\ dTo = -1 /\ copying = {} /\ dq # <<>> /\ Head(dq).type = type

Taken == dq' = Tail(dq) /\ UNCHANGED lost

TakenAsking(ms) == dq' = Send(Tail(dq), ms) /\ lost' = (lost \/ Lost(Tail(dq), ms))

(* To the last child under the pointer; a full queue there is a panic here. *)
desktop_dispatch_mouse_messages ==
  LET m == Head(dq)
      hit == {w \in Shown : m.x \in Bounds(w)} IN
  IF hit = {} THEN UNCHANGED <<wq, halted>>
  ELSE ToWindow(Max(hit), [m EXCEPT !.x = @ - pos[Max(hit)]])

DisableDrawing ==
  /\ Handles("disable") /\ Taken /\ drawing' = FALSE
  /\ touched' = IF ev = "freed" THEN touched \cup {"event"} ELSE touched
  /\ ev' = IF ev = "freed" THEN ev ELSE "signalled"
  /\ UNCHANGED <<dTo, copying, d_mouse, screen, drag, pos, wq, halted>> /\ DesktopRest

(* It panics without memory for the graphics context. *)
EnableDrawing ==
  /\ Handles("enable") /\ Taken
  /\ drawing' \in BOOLEAN /\ halted' = ~drawing'
  /\ UNCHANGED <<dTo, copying, d_mouse, screen, drag, ev, pos, wq, touched>> /\ DesktopRest

(* Only the task panel changes. *)
desktop_resize ==
  /\ Handles("resize") /\ Taken
  /\ UNCHANGED <<desktopVars, ev, pos, wq, touched, halted>> /\ DesktopRest

(* The draw time is written all over the desktop, also over the pointer,    *)
(* which is then drawn in the rectangle only.                               *)
desktop_repaint ==
  /\ Handles("repaint") /\ Taken
  /\ IF drawing
     THEN /\ copying' = Head(dq).rect
          /\ screen' = [c \in Cells |-> [screen[c] EXCEPT !.pointer = @ /\ c \notin Clock]]
     ELSE UNCHANGED <<copying, screen>>
  /\ UNCHANGED <<dTo, drawing, d_mouse, drag, ev, pos, wq, touched, halted>> /\ DesktopRest

(* desktop_repaint_subcontrols, while the windows paint: a cell is drawn as *)
(* the window on top of it is when its turn comes.                          *)
desktop_blit_subcontrol ==
  /\ Running /\ desktop = "live"
  /\ copying # {} /\ copying' = copying \ {Min(copying)}
  /\ screen' = [screen EXCEPT ![Min(copying)] = Picture(Min(copying))]
  /\ UNCHANGED <<dTo, drawing, d_mouse, dq, lost, drag, ev, pos, wq, touched, halted>> /\ DesktopRest

(* The old and the new place of the pointer, in one rectangle when that is  *)
(* the smaller one.                                                         *)
desktop_mouse_move ==
  /\ Handles("move") /\ desktop_dispatch_mouse_messages
  /\ d_mouse' = Head(dq).x /\ dTo' = d_mouse'
  /\ TakenAsking(IF d_mouse' = d_mouse THEN <<Repaint({d_mouse})>>
                 ELSE <<Repaint({d_mouse}), Repaint({d_mouse'})>>)
  /\ UNCHANGED <<copying, drawing, screen, drag, ev, pos, touched>> /\ DesktopRest

Dragged == {w \in Shown : drag[w].on}

DraggedTo(w, x) == drag[w].from + (x - drag[w].source)

Distance(x, y) == IF x < y THEN y - x ELSE x - y

(* Mutant: only the place it came from. *)
Uncovered_from(w, new) == Bounds(w)

(* nxgig_rects_union *)
Uncovered(w, new) ==
  Min({pos[w], new}) .. Max({pos[w], new}) + (IF w \in sized THEN 2 ELSE 0)

(* The window stays where it is if that is less than two pixels away. *)
desktop_mouse_move_handle_dragging ==
  /\ Running /\ desktop = "live" /\ dTo # -1 /\ dTo' = -1
  /\ IF Dragged = {} \/ Distance(DraggedTo(Min(Dragged), dTo), pos[Min(Dragged)]) < 2
     THEN UNCHANGED <<pos, dq, lost>>
     ELSE LET w == Min(Dragged) IN
          /\ pos' = [pos EXCEPT ![w] = DraggedTo(w, dTo)]
          /\ ToDesktop(<<Repaint(Uncovered(w, DraggedTo(w, dTo)) \cap Cells)>>)
  /\ UNCHANGED <<copying, drawing, d_mouse, screen, drag, ev, wq, touched, halted>> /\ DesktopRest

(* The last window with its title bar there, also below another window. *)
desktop_mouse_down ==
  /\ Handles("down") /\ desktop_dispatch_mouse_messages /\ Taken
  /\ LET x == Head(dq).x
         titles == {w \in Shown : pos[w] = x} IN
     drag' = IF titles = {} THEN drag
             ELSE [drag EXCEPT ![Max(titles)] = [on |-> TRUE, source |-> x, from |-> pos[Max(titles)]]]
  /\ UNCHANGED <<dTo, copying, drawing, d_mouse, screen, ev, pos, touched>> /\ DesktopRest

(* Mutant: only the left button ends a drag, though each one begins it. *)
EndsDrag_left(m) == m.button = "left"

EndsDrag(m) == TRUE

desktop_mouse_up ==
  /\ Handles("up") /\ desktop_dispatch_mouse_messages /\ Taken
  /\ drag' = IF EndsDrag(Head(dq)) THEN [w \in Windows |-> NoDrag] ELSE drag
  /\ UNCHANGED <<dTo, copying, drawing, d_mouse, screen, ev, pos, touched>> /\ DesktopRest

(* The thread goes on after hj_destroy_desktop has freed what it works on. *)
Used == touched' = touched \cup {"desktop"} /\ halted' = TRUE

UseFreedDesktop ==
  /\ Running /\ desktop = "freed" /\ Used
  /\ UNCHANGED <<mouseVars, serverVars, ev, desktop, desktopVars, dq, children, pos, windowVars, wq, lost>>

Desktop ==
  \/ DisableDrawing \/ EnableDrawing \/ desktop_resize \/ desktop_repaint
  \/ desktop_blit_subcontrol \/ desktop_mouse_move \/ desktop_mouse_move_handle_dragging
  \/ desktop_mouse_down \/ desktop_mouse_up \/ UseFreedDesktop

-----------------------------------------------------------------------------
(* A window's thread *)

WindowRest == UNCHANGED <<mouseVars, serverVars, ev, desktop, desktopVars, children, pos>>

(* The threads are started at the end of demo1_init. *)
Started == sAt \in {"subscribe", "read"} \/ fault = "subscribe"

Takes(w, types) ==
  /\ Running /\ Started /\ (plan.calm => \A v \in 1 .. w - 1 : work[v] = Idle /\ wq[v] = <<>>)
  /\ work[w] = Idle /\ wq[w] # <<>> /\ Head(wq[w]).type \in types
  /\ wq' = [wq EXCEPT ![w] = Tail(@)] /\ UNCHANGED touched

Goes(w, at, rect) == work' = [work EXCEPT ![w] = [at |-> at, rect |-> rect]]

(* The search for the child under the pointer begins with the second one,   *)
(* and compares a place in the window with one below its title bar.         *)
ButtonAt(x) == {b \in Buttons \ {0} : x = b}

(* A button is immediate: it handles the message at once and asks the       *)
(* window for a repaint.                                                    *)
window_dispatch_mouse_message(w) ==
  /\ Takes(w, {"move", "down", "up"})
  /\ LET m == Head(wq[w])
         hit == IF m.type # "move" /\ m.button = "left" THEN ButtonAt(m.x) ELSE {} IN
     /\ down' = [down EXCEPT ![w] = IF m.type = "down" THEN @ \cup hit ELSE @ \ hit]
     /\ IF hit = {} THEN UNCHANGED work ELSE Goes(w, "ask", hit)
  /\ UNCHANGED <<surf, sized, home, dq, lost, halted>> /\ WindowRest

(* It fails without memory for a surface, which is a panic. *)
window_resize(w) ==
  /\ Takes(w, {"resize"})
  /\ \/ /\ surf' = [surf EXCEPT ![w] = [b \in Buttons |-> "blank"]]
        /\ sized' = sized \cup {w} /\ home' = [home EXCEPT ![w] = pos[w]]
        /\ Goes(w, "ask", Buttons) /\ UNCHANGED halted
     \/ halted' = TRUE /\ UNCHANGED <<surf, sized, home, work>>
  /\ UNCHANGED <<down, dq, lost>> /\ WindowRest

(* hj_control_invalidate_rect; a full queue is a panic here. *)
AskItself(w) ==
  /\ Running /\ work[w].at = "ask" /\ Goes(w, "idle", {})
  /\ ToWindow(w, Repaint(work[w].rect))
  /\ UNCHANGED <<surf, down, sized, home, dq, lost, touched>> /\ WindowRest

Face(w, b) == IF b \in down[w] THEN "pressed" ELSE "raised"

(* The background first, then button by button: nothing is locked. *)
window_repaint(w) ==
  /\ Takes(w, {"repaint"})
  /\ LET rect == Head(wq[w]).rect IN
     /\ surf' = [surf EXCEPT ![w] = [b \in Buttons |-> IF b \in rect THEN "blank" ELSE @[b]]]
     /\ Goes(w, "paint", rect)
  /\ UNCHANGED <<down, sized, home, dq, lost, halted>> /\ WindowRest

Unpainted(w) == {b \in work[w].rect : surf[w][b] = "blank"}

button_repaint(w) ==
  /\ Running /\ work[w].at = "paint"
  /\ Unpainted(w) # {}
  /\ LET b == Min(Unpainted(w)) IN surf' = [surf EXCEPT ![w][b] = Face(w, b)]
  /\ UNCHANGED <<work, down, sized, home, wq, dq, lost, touched, halted>> /\ WindowRest

(* desktop_receive_feedback finds the place on the screen ... *)
hj_control_request_parent_repaint(w) ==
  /\ Running /\ work[w].at = "paint" /\ Unpainted(w) = {}
  /\ IF desktop = "freed" THEN Used /\ UNCHANGED work
     ELSE /\ Goes(w, "tell", {pos[w] + 1 + b : b \in work[w].rect} \cap Cells)
          /\ UNCHANGED <<touched, halted>>
  /\ UNCHANGED <<surf, down, sized, home, wq, dq, lost>> /\ WindowRest

(* Mutant: the window asks itself. *)
TellDesktop_self(w) ==
  /\ Running /\ work[w].at = "tell" /\ Goes(w, "idle", {})
  /\ ToWindow(w, Repaint(Buttons))
  /\ UNCHANGED <<surf, down, sized, home, dq, lost, touched>> /\ WindowRest

(* ... and asks for it; the result is not looked at. *)
TellDesktop(w) ==
  /\ Running /\ work[w].at = "tell"
  /\ IF desktop = "freed" THEN Used /\ UNCHANGED <<work, dq, lost>>
     ELSE Goes(w, "idle", {}) /\ ToDesktop(<<Repaint(work[w].rect)>>) /\ UNCHANGED <<touched, halted>>
  /\ UNCHANGED <<surf, down, sized, home, wq>> /\ WindowRest

Window(w) ==
  \/ window_dispatch_mouse_message(w) \/ window_resize(w) \/ AskItself(w)
  \/ window_repaint(w) \/ button_repaint(w) \/ hj_control_request_parent_repaint(w) \/ TellDesktop(w)

-----------------------------------------------------------------------------
Next ==
  \/ Move \/ Press \/ Release
  \/ Server \/ Desktop
  \/ \E w \in Windows : Window(w)

(* The threads poll, and the scheduler gives each of them the CPU. *)
Spec ==
  /\ Init /\ [][Next]_vars
  /\ WF_vars(Server) /\ WF_vars(Desktop)
  /\ \A w \in Windows : WF_vars(Window(w))

-----------------------------------------------------------------------------
WellFormed(m) ==
  /\ m.type \in {"disable", "enable", "resize", "repaint", "move", "down", "up"}
  /\ m.button \in MouseButtons

TypeOK ==
  /\ held \subseteq MouseButtons /\ Len(ring) <= RingSize
  /\ mouse \in Cells /\ d_mouse \in Cells
  /\ Len(dq) <= QueueSize
  /\ \A i \in DOMAIN dq : WellFormed(dq[i]) /\ dq[i].x \in Cells /\ dq[i].rect \subseteq Cells
  /\ \A w \in Windows :
       /\ Len(wq[w]) <= QueueSize /\ pos[w] \in Int /\ down[w] \subseteq Buttons
       /\ \A i \in DOMAIN wq[w] :
            WellFormed(wq[w][i]) /\ wq[w][i].x \in 0 .. 2 /\ wq[w][i].rect \subseteq Buttons
  /\ children \in 0 .. Len(StartPos) /\ copying \subseteq Cells
  /\ ev \in {"clear", "signalled", "freed"} /\ desktop \in {"live", "freed"}

(* Between two messages the dragged window is less than two pixels from     *)
(* where the pointer has taken it since the drag began, however many moves  *)
(* it has ignored, as long as no event is dropped.                          *)
DragFollowsPointer ==
  ~lost /\ dTo = -1 /\ Dragged # {} =>
    Distance(DraggedTo(Min(Dragged), d_mouse), pos[Min(Dragged)]) < 2

(* Once the desktop has handled every release and no button is held, no     *)
(* window hangs on the pointer, as long as no event is dropped.             *)
DragEnds ==
  ~lost /\ ~halted /\ held = {} /\ ring = <<>> /\ (\A i \in DOMAIN dq : dq[i].type # "up") =>
    Dragged = {}

(* Drags go with the pointer and end with it. *)
DragsFollow == TypeOK /\ DragFollowsPointer /\ DragEnds

(* A cell of the draw time need not show the pointer. *)
Shows(c) ==
  /\ screen[c].window = Picture(c).window /\ screen[c].part = Picture(c).part
  /\ c \in Clock \/ screen[c].pointer = Picture(c).pointer

RepaintOf(c, q) == \E i \in DOMAIN q : q[i].type = "repaint" /\ c \in q[i].rect

(* The window's thread will ask for the cell, where the window is then. *)
Working(w, c) ==
  \/ work[w].at = "paint" /\ c - pos[w] - 1 \in work[w].rect
  \/ work[w].at = "tell" /\ c \in work[w].rect

(* It has not painted yet where it got its size; its title bar may be       *)
(* missing there, and what it showed at the corner before may be left.      *)
New(w, c) ==
  /\ pos[w] = home[w]
  /\ \/ c = pos[w] \/ RepaintOf(c - pos[w] - 1, wq[w])
     \/ work[w].at = "ask" /\ c - pos[w] - 1 \in work[w].rect

(* Every cell of the screen shows the pointer and the surface of the window *)
(* on top, or the desktop has been asked to repaint it, or the window on    *)
(* top is about to ask for it, although windows paint while the desktop     *)
(* copies and repaints overtake each other; and every surface shows its     *)
(* buttons as they are or will be painted.  There are three exceptions: the *)
(* draw time may hide the pointer; the title bar of a window may be missing *)
(* where it got its size, and a bit of it be left in the corner where it    *)
(* was added, since neither asks for a repaint (henjin_control.c, "moving   *)
(* control should invoke").                                                 *)
ScreenCurrent ==
  ~lost /\ Running /\ sAt = "read" =>
    /\ \A c \in Cells :
         \/ Shows(c) \/ RepaintOf(c, dq) \/ c \in copying
         \/ Top(c) # 0 /\ (Working(Top(c), c) \/ New(Top(c), c))
         \/ c = 0 /\ screen[c].part = "sliver"
    /\ \A w \in Shown, b \in Buttons :
         \/ surf[w][b] = Face(w, b) \/ RepaintOf(b, wq[w])
         \/ work[w].at \in {"ask", "paint"} /\ b \in work[w].rect

(* The event that henjin_set_resolution frees is used afterwards only if    *)
(* the wait for the desktop has failed, and no thread uses the desktop      *)
(* after it was freed unless the server has failed.                         *)
FreedUntouched ==
  /\ "event" \in touched => fault = "wait"
  /\ "desktop" \in touched => fault # "none"

(* Every message and everything that follows from it is handled; repaints   *)
(* do not call forth each other for ever.                                   *)
Drained == []<>(Quiet \/ halted)
=============================================================================
