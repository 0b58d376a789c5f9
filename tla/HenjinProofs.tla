---------------------------- MODULE HenjinProofs ----------------------------
(***************************************************************************)
(* Proofs about Henjin, for any width of the screen, any number and places *)
(* of windows, any sizes of the queues and any number of mouse events.     *)
(***************************************************************************)
EXTENDS Henjin, FiniteSetTheorems, SequenceTheorems, WellFoundedInduction, TLAPS

-----------------------------------------------------------------------------
(* Numbers: the windows hit are looked for from the last one, the dragged   *)
(* one from the first.                                                      *)

(* The natural numbers are well ordered. *)
LEMMA LeastExists ==
  ASSUME NEW T \in SUBSET Nat, T # {}
  PROVE  \E x \in T : \A y \in T : x <= y
<1> DEFINE R == OpToRel(<, Nat)
<1>1. IsWellFoundedOn(R, Nat)
  BY NatLessThanWellFounded
<1>2. \A x, y \in Nat : y < x => <<y, x>> \in R
  BY DEF OpToRel
<1> HIDE DEF R
<1>3. PICK x \in T : \A y \in T : ~(<<y, x>> \in R)
  BY <1>1, WFMin
<1>4. ASSUME NEW y \in T PROVE x <= y
  <2>1. x \in Nat /\ y \in Nat
    OBVIOUS
  <2>2. ~(<<y, x>> \in R)
    BY <1>3
  <2>3. ~(y < x)
    BY <1>2, <2>1, <2>2, Zenon
  <2> QED
    BY <2>1, <2>3
<1> QED
  BY <1>4

LEMMA MinIs ==
  ASSUME NEW T \in SUBSET Nat, T # {}
  PROVE  Min(T) \in T /\ \A y \in T : Min(T) <= y
<1> DEFINE Least(x) == x \in T /\ \A y \in T : x <= y
<1>1. PICK x : Least(x)
  BY LeastExists
<1> HIDE DEF Least
<1>2. Least(CHOOSE y : Least(y))
  BY <1>1, Zenon
<1>3. Min(T) = CHOOSE y : Least(y)
  BY DEF Min, Least
<1> QED
  BY <1>2, <1>3 DEF Least

LEMMA MinOfTwo ==
  ASSUME NEW a \in Nat, NEW b \in Nat, a <= b
  PROVE  Min({a, b}) = a
<1>1. {a, b} \in SUBSET Nat /\ {a, b} # {}
  OBVIOUS
<1>2. Min({a, b}) \in {a, b} /\ \A y \in {a, b} : Min({a, b}) <= y
  BY <1>1, MinIs
<1> QED
  BY <1>2

LEMMA MaxIs ==
  ASSUME NEW n \in Nat, NEW T \in SUBSET (0 .. n), T # {}
  PROVE  Max(T) \in T /\ \A y \in T : Max(T) >= y
<1> DEFINE U == {n - x : x \in T}
           Greatest(x) == x \in T /\ \A y \in T : x >= y
<1>1. U \in SUBSET Nat /\ U # {}
  <2>1. \A x \in T : n - x \in Nat
    OBVIOUS
  <2> QED
    BY <2>1, Zenon
<1>2. PICK u \in U : \A v \in U : u <= v
  BY <1>1, LeastExists
<1>3. PICK x \in T : u = n - x
  BY <1>2
<1>4. ASSUME NEW y \in T PROVE x >= y
  <2>1. n - y \in U
    OBVIOUS
  <2>2. n - x <= n - y
    BY <1>2, <1>3, <2>1
  <2> QED
    BY <2>2
<1>5. Greatest(x)
  BY <1>4
<1> HIDE DEF Greatest
<1>6. Greatest(CHOOSE y : Greatest(y))
  BY <1>5, Zenon
<1>7. Max(T) = CHOOSE y : Greatest(y)
  BY DEF Max, Greatest
<1> QED
  BY <1>6, <1>7 DEF Greatest

-----------------------------------------------------------------------------
(* Queues of messages *)

MessageTypes == {"disable", "enable", "resize", "repaint", "move", "down", "up"}

(* To the desktop, about the screen; to a window, about the window *)
DesktopMessage ==
  {m \in [type : MessageTypes, x : Cells, button : MouseButtons, rect : SUBSET Cells] :
     m.type = "repaint" \/ m.rect = {}}

WindowMessage == [type : MessageTypes, x : 0 .. 2, button : MouseButtons, rect : SUBSET Buttons]

EventType == [type : {"move", "down", "up"}, by : Int, button : MouseButtons]

(* q1 is q with m behind it. *)
Longer(q, m, q1) ==
  /\ Len(q1) = Len(q) + 1 /\ q1[Len(q) + 1] = m
  /\ \A i \in 1 .. Len(q) : q1[i] = q[i]

(* q1 is q without its first message. *)
Shorter(q, q1) ==
  /\ Len(q) = Len(q1) + 1
  /\ \A i \in 1 .. Len(q1) : q1[i] = q[i + 1]

LEMMA AppendIs ==
  ASSUME NEW S, NEW q \in Seq(S), NEW m \in S
  PROVE  Append(q, m) \in Seq(S) /\ Longer(q, m, Append(q, m))
BY AppendProperties DEF Longer

LEMMA TailIs ==
  ASSUME NEW S, NEW q \in Seq(S), q # <<>>
  PROVE  /\ Tail(q) \in Seq(S) /\ Shorter(q, Tail(q))
         /\ Head(q) = q[1] /\ Head(q) \in S /\ Len(q) \in Nat \ {0}
<1>1. Len(q) \in Nat \ {0} /\ Head(q) = q[1] /\ Head(q) \in S /\ Tail(q) \in Seq(S)
  BY EmptySeq
<1>2. Len(Tail(q)) = Len(q) - 1 /\ \A i \in 1 .. Len(q) - 1 : Tail(q)[i] = q[i + 1]
  BY <1>1, HeadTailProperties
<1> QED
  BY <1>1, <1>2 DEF Shorter

(* Whatever is lost, the queue keeps what is in it. *)
LEMMA SendIs ==
  ASSUME NEW S, NEW q \in Seq(S), NEW ms \in Seq(S), Len(q) <= QueueSize
  PROVE  /\ Send(q, ms) \in Seq(S) /\ Len(Send(q, ms)) <= QueueSize
         /\ Len(q) <= Len(Send(q, ms))
         /\ \A i \in 1 .. Len(Send(q, ms)) :
              IF i <= Len(q) THEN Send(q, ms)[i] = q[i]
              ELSE \E k \in 1 .. Len(ms) : Send(q, ms)[i] = ms[k]
<1> DEFINE n == Min({Len(ms), QueueSize - Len(q)})
<1>1. n \in Nat /\ n <= Len(ms) /\ n <= QueueSize - Len(q)
  <2>1. Len(ms) \in Nat /\ QueueSize - Len(q) \in Nat
    BY HenjinAssumption
  <2> QED
    BY <2>1, MinIs
<1> HIDE DEF n
<1> DEFINE front == SubSeq(ms, 1, n)
<1>2. front \in Seq(S) /\ Len(front) = n /\ \A k \in 1 .. n : front[k] = ms[k]
  BY <1>1
<1> HIDE DEF front
<1>3. Send(q, ms) = q \o front
  BY DEF Send, front, n
<1>4. /\ q \o front \in Seq(S) /\ Len(q \o front) = Len(q) + n
      /\ \A i \in 1 .. Len(q) + n :
           (q \o front)[i] = IF i <= Len(q) THEN q[i] ELSE front[i - Len(q)]
  BY <1>2, ConcatProperties
<1>5. ASSUME NEW i \in 1 .. Len(q) + n, ~(i <= Len(q))
      PROVE  \E k \in 1 .. Len(ms) : (q \o front)[i] = ms[k]
  <2>1. i - Len(q) \in 1 .. n /\ i - Len(q) \in 1 .. Len(ms)
    BY <1>1, <1>5
  <2> QED
    BY <1>2, <1>4, <1>5, <2>1
<1>6. Len(q) \in Nat /\ Len(q) <= Len(q) + n /\ Len(q) + n <= QueueSize
  BY <1>1, HenjinAssumption
<1> QED
  BY <1>3, <1>4, <1>5, <1>6

(* Messages that fit are put behind the others. *)
LEMMA SendAll ==
  ASSUME NEW S, NEW q \in Seq(S), NEW ms \in Seq(S), ~Lost(q, ms)
  PROVE  Send(q, ms) = q \o ms
<1>1. Len(ms) \in Nat /\ Len(q) \in Nat /\ QueueSize \in Nat
  BY HenjinAssumption
<1>2. Len(ms) <= QueueSize - Len(q) /\ QueueSize - Len(q) \in Nat
  BY <1>1 DEF Lost
<1>3. Min({Len(ms), QueueSize - Len(q)}) = Len(ms)
  BY <1>1, <1>2, MinOfTwo
<1>4. SubSeq(ms, 1, Len(ms)) = ms
  BY SubSeqFull
<1> QED
  BY <1>3, <1>4 DEF Send

LEMMA SendOne ==
  ASSUME NEW S, NEW q \in Seq(S), NEW m \in S, ~Lost(q, <<m>>)
  PROVE  Send(q, <<m>>) = Append(q, m)
<1>1. <<m>> \in Seq(S)
  OBVIOUS
<1>2. Send(q, <<m>>) = q \o <<m>>
  BY <1>1, SendAll
<1> QED
  BY <1>2, AppendIsConcat

LEMMA SendTwo ==
  ASSUME NEW S, NEW q \in Seq(S), NEW m \in S, NEW n \in S, ~Lost(q, <<m, n>>)
  PROVE  Send(q, <<m, n>>) = Append(Append(q, m), n)
<1>1. <<m, n>> \in Seq(S) /\ Append(q, m) \in Seq(S)
  BY AppendProperties
<1>2. Send(q, <<m, n>>) = q \o <<m, n>>
  BY <1>1, SendAll
<1>3. <<m, n>> = Append(<<m>>, n)
  OBVIOUS
<1>4. q \o Append(<<m>>, n) = Append(q \o <<m>>, n)
  OBVIOUS
<1> QED
  BY <1>2, <1>3, <1>4, AppendIsConcat

LEMMA MessageIs ==
  ASSUME NEW type, NEW rect
  PROVE  /\ Msg(type) = [type |-> type, x |-> 0, button |-> "left", rect |-> {}]
         /\ Repaint(rect) = [type |-> "repaint", x |-> 0, button |-> "left", rect |-> rect]
BY DEF Msg, Repaint

LEMMA AtIs ==
  ASSUME NEW type \in MessageTypes, NEW x \in Cells, NEW button \in MouseButtons
  PROVE  /\ At(type, x, button) \in DesktopMessage /\ At(type, x, button).type = type
         /\ At(type, x, button).x = x
<1>1. Msg(type) \in [type : MessageTypes, x : Int, button : MouseButtons, rect : SUBSET Cells]
      /\ Msg(type).type = type /\ Msg(type).rect = {}
  BY MessageIs DEF MouseButtons
<1>2. ASSUME NEW m \in [type : MessageTypes, x : Int, button : MouseButtons, rect : SUBSET Cells]
      PROVE  LET n == [m EXCEPT !.x = x, !.button = button] IN
             /\ n \in [type : MessageTypes, x : Cells, button : MouseButtons, rect : SUBSET Cells]
             /\ n.type = m.type /\ n.x = x /\ n.rect = m.rect
  OBVIOUS
<1> QED
  BY <1>1, <1>2 DEF At, DesktopMessage

-----------------------------------------------------------------------------
(* The invariant *)

Early == {"disable", "wait", "nxgi", "enable", "resize", "repaint"}

Late == {"free event", "windows", "place", "subscribe", "read"}

Stages == Early \cup Late \cup {"failed", "ended"}

ServerTypes == {"disable", "enable", "resize", "repaint"}

Faces == {"blank", "pressed", "raised"}

Pictures == [window : Nat, part : Faces \cup {"none", "title", "sliver"}, pointer : BOOLEAN]

Bounded(q, M) == q \in Seq(M) /\ Len(q) <= QueueSize

Types ==
  /\ held \subseteq MouseButtons
  /\ ring \in Seq(EventType) /\ Len(ring) <= RingSize
  /\ plan \in [windows : Windows, events : Nat, calm : BOOLEAN]
  /\ sAt \in Stages /\ mouse \in Cells
  /\ ev \in {"clear", "signalled", "freed"} /\ desktop \in {"live", "freed"}
  /\ Bounded(dq, DesktopMessage)
  /\ d_mouse \in Cells /\ dTo \in {-1, d_mouse}
  /\ copying \subseteq Cells /\ drawing \in BOOLEAN /\ screen \in [Cells -> Pictures]
  /\ children \in 0 .. Len(StartPos)
  /\ pos \in [Windows -> Int]
  /\ drag \in [Windows -> [on : BOOLEAN, source : Int, from : Int]]
  /\ wq \in [Windows -> Seq(WindowMessage)]
  /\ \A w \in Windows : Bounded(wq[w], WindowMessage)
  /\ work \in [Windows -> [at : {"idle", "ask", "paint", "tell"}, rect : SUBSET Int]]
  /\ \A w \in Windows : work[w].rect \subseteq IF work[w].at = "tell" THEN Cells ELSE Buttons
  /\ surf \in [Windows -> [Buttons -> Faces]]
  /\ down \in [Windows -> SUBSET Buttons]
  /\ sized \subseteq Windows /\ home \in [Windows -> Int]
  /\ lost \in BOOLEAN /\ halted \in BOOLEAN

None(q, type) == \A i \in 1 .. Len(q) : q[i].type # type

(* The server starts what the others work on: before the first repaint the  *)
(* desktop has nothing to draw, and before its windows are complete nothing *)
(* happens to them.                                                         *)
Starting ==
  /\ fault = "none" <=> sAt \notin {"failed", "ended"}
  /\ desktop = "freed" => sAt = "ended"
  /\ sAt = "windows" => children < plan.windows
  /\ sAt = "place" => children \in 1 .. plan.windows
  /\ sAt \in Early \cup {"free event"} => children = 0
  /\ sAt # "read" =>
       /\ ring = <<>> /\ dTo = -1
       /\ \A i \in 1 .. Len(dq) : dq[i].type \in ServerTypes
       /\ \A w \in Windows : ~drag[w].on
  /\ sAt \in Early => copying = {} /\ None(dq, "repaint")
  /\ ~Started => sized = {} /\ home = StartPos /\ work = [w \in Windows |-> Idle]

DisableOnce(q) ==
  \A i, j \in 1 .. Len(q) : q[i].type = "disable" /\ q[j].type = "disable" => i = j

(* The desktop answers the server once, unless the server has given up.     *)
Answering ==
  /\ sAt = "disable" => ev = "clear" /\ None(dq, "disable")
  /\ sAt = "wait" => ev # "freed"
  /\ DisableOnce(dq)
  /\ fault # "wait" /\ (sAt # "wait" \/ ev = "signalled") => None(dq, "disable")
  /\ "event" \in touched => fault = "wait"
  /\ "desktop" \in touched => desktop = "freed"

(* From x the pointer has come to y with the first k messages of q. *)
Moved(q, k, x, y) ==
  \/ x = y /\ \A j \in 1 .. k : q[j].type # "move"
  \/ \E j \in 1 .. k :
       q[j].type = "move" /\ q[j].x = y /\ \A l \in j + 1 .. k : q[l].type # "move"

(* The desktop sees each press where the pointer is then. *)
Follows(q, x, y) ==
  /\ Moved(q, Len(q), x, y)
  /\ \A i \in 1 .. Len(q) : q[i].type = "down" => Moved(q, i - 1, x, q[i].x)

Following == ~lost => Follows(dq, d_mouse, mouse) /\ DragFollowsPointer

Released(q) ==
  \A i \in 1 .. Len(q) : q[i].type = "down" => \E j \in i + 1 .. Len(q) : q[j].type = "up"

(* When no button is held, what is in the queues ends every drag. *)
Releasing ==
  ~lost /\ held = {} =>
    /\ Released(ring)
    /\ None(ring, "up") => Released(dq)
    /\ None(ring, "up") /\ None(dq, "up") => Dragged = {}

(* The windows that are where they have been placed *)
Placed == 1 .. (IF sAt = "place" THEN children - 1 ELSE children)

(* The windows that are not placed yet are at the corner. *)
Unplaced == \A w \in Windows \ Placed : pos[w] = 0

(* What a window's thread does about a button *)
Pending(w, b) ==
  RepaintOf(b, wq[w]) \/ (work[w].at \in {"ask", "paint"} /\ b \in work[w].rect)

Surfaces ==
  /\ \A w \in Windows : work[w].at = "paint" =>
       \A b \in work[w].rect : surf[w][b] \in {"blank", Face(w, b)}
  /\ Running /\ sAt \in Late =>
       \A w \in Placed, b \in Buttons : surf[w][b] = Face(w, b) \/ Pending(w, b)

(* The desktop draws before the first repaint that it is to do. *)
Enabled(q) ==
  \E i \in 1 .. Len(q) : q[i].type = "enable" /\ \A j \in 1 .. i - 1 : q[j].type # "repaint"

Drawing == Running /\ sAt \in {"resize", "repaint"} \cup Late => drawing \/ Enabled(dq)

(* The window on top, of those that are placed, and what it shows in a cell *)
Above(c) == Max({0} \cup {w \in Placed : c \in Bounds(w)})

Part(c, top) ==
  IF top = 0 THEN "none"
  ELSE IF c = pos[top] THEN IF top \in sized THEN "title" ELSE "sliver"
  ELSE surf[top][c - pos[top] - 1]

Correct(c) ==
  /\ screen[c].window = Above(c) /\ screen[c].part = Part(c, Above(c))
  /\ c \in Clock \/ screen[c].pointer = (c = d_mouse)

Awaited(c) == RepaintOf(c, dq) \/ c \in copying

(* A cell is right, or it will be drawn: the desktop has been asked for it, *)
(* or the window on top is about to ask for just this cell, or is new there.*)
Right(c) ==
  \/ Correct(c) \/ Awaited(c)
  \/ Above(c) # 0 /\ (Working(Above(c), c) \/ New(Above(c), c))
  \/ c = 0 /\ screen[c].part = "sliver"

Current == ~lost /\ Running /\ sAt \in Late => \A c \in Cells : Right(c)

IInv ==
  /\ Types /\ Starting /\ Answering
  /\ Following /\ Releasing
  /\ Unplaced /\ Surfaces /\ Drawing /\ Current

-----------------------------------------------------------------------------
(* What a step is made of *)

LEMMA Sizes ==
  /\ Len(StartPos) \in Nat \ {0} /\ Windows = 1 .. Len(StartPos)
  /\ StartPos \in [Windows -> Cells] /\ StartPos \in [Windows -> Int]
  /\ Cells \subseteq Nat /\ Cells \subseteq Int /\ 0 \in Cells /\ Width \in Nat /\ Width > 0
  /\ QueueSize \in Nat /\ QueueSize >= 3 /\ RingSize \in Nat /\ Steps \subseteq Int
<1>1. StartPos \in Seq(Cells) /\ StartPos # <<>>
  BY HenjinAssumption DEF Cells
<1>2. Len(StartPos) \in Nat /\ Len(StartPos) # 0 /\ StartPos \in [1 .. Len(StartPos) -> Cells]
  BY <1>1, EmptySeq
<1>3. Cells \subseteq Nat /\ Cells \subseteq Int /\ 0 \in Cells /\ Width \in Nat /\ Width > 0
      /\ QueueSize \in Nat /\ QueueSize >= 3 /\ RingSize \in Nat /\ Steps \subseteq Int
  BY HenjinAssumption DEF Cells
<1>4. Windows = 1 .. Len(StartPos)
  BY <1>2 DEF Windows
<1>5. StartPos \in [Windows -> Int]
  BY <1>2, <1>3, <1>4, Zenon
<1> QED
  BY <1>2, <1>3, <1>4, <1>5

LEMMA WindowsAre == Windows \subseteq Nat /\ 0 \notin Windows
BY Sizes

LEMMA ShownAre ==
  ASSUME children \in 0 .. Len(StartPos)
  PROVE  Shown \subseteq Windows /\ Shown \subseteq Nat /\ 0 \notin Shown
         /\ Shown \subseteq 0 .. Len(StartPos)
BY Sizes DEF Shown

(* Only the ring changes when the mouse does something. *)
LEMMA MouseStep ==
  ASSUME Move \/ Press \/ Release
  PROVE  /\ sAt = "read" /\ Running
         /\ UNCHANGED <<serverVars, ev, desktop, desktopVars, dq, children, pos, windowVars, wq, touched, halted>>
         /\ lost => lost'
BY DEF Move, Press, Release, MouseEvent

(* The server is at one place, and goes to another. *)
Passes(from, to) ==
  /\ sAt = from /\ sAt' = to
  /\ UNCHANGED <<mouseVars, mouse, fault, ev, desktop, dq, children, pos, wq, lost>>

Told(from, to, m) ==
  /\ sAt = from /\ sAt' = to /\ ~Full(dq) /\ dq' = Append(dq, m)
  /\ UNCHANGED <<mouseVars, mouse, fault, ev, desktop, children, pos, wq, lost>>

GivesUp ==
  /\ fault' = sAt /\ sAt' = "failed" /\ ev' = "freed"
  /\ sAt \in Early \cup {"windows", "place", "subscribe"} /\ (sAt = "wait" => ev # "signalled")
  /\ UNCHANGED <<mouseVars, mouse, desktop, dq, children, pos, wq, lost>>

FreesEvent ==
  /\ sAt = "free event" /\ sAt' = "windows" /\ ev' = "freed"
  /\ UNCHANGED <<mouseVars, mouse, fault, desktop, dq, children, pos, wq, lost>>

AddsWindow ==
  /\ sAt = "windows" /\ sAt' = "place" /\ children' = children + 1
  /\ UNCHANGED <<mouseVars, mouse, fault, ev, desktop, dq, pos, wq, lost>>

PlacesWindow ==
  /\ sAt = "place" /\ sAt' = IF children = plan.windows THEN "subscribe" ELSE "windows"
  /\ pos' = [pos EXCEPT ![children] = StartPos[children]]
  /\ wq' = [wq EXCEPT ![children] = FirstMessages]
  /\ UNCHANGED <<mouseVars, mouse, fault, ev, desktop, dq, children, lost>>

FreesDesktop ==
  /\ sAt = "failed" /\ sAt' = "ended" /\ desktop' = "freed"
  /\ UNCHANGED <<mouseVars, mouse, fault, ev, dq, children, pos, wq, lost>>

LEMMA ServerStep ==
  ASSUME Server
  PROVE  /\ Running /\ UNCHANGED <<held, plan, desktopVars, windowVars, touched, halted>>
         /\ \/ Told("disable", "wait", Msg("disable")) \/ Told("enable", "resize", Msg("enable"))
            \/ Told("resize", "repaint", Msg("resize")) \/ Told("repaint", "free event", Repaint(Cells))
            \/ Passes("wait", "nxgi") /\ ev = "signalled"
            \/ Passes("nxgi", "enable") \/ Passes("subscribe", "read")
            \/ GivesUp \/ FreesEvent \/ AddsWindow \/ PlacesWindow \/ FreesDesktop
            \/ henjin_process_mouse_events
<1>1. ASSUME NEW s \in Early \cup {"windows", "place", "subscribe"}, Fails(s), s = "wait" => ev # "signalled"
      PROVE  /\ Running /\ UNCHANGED <<held, plan, desktopVars, windowVars, touched, halted>>
             /\ GivesUp
  BY <1>1 DEF Fails, ServerGoes, ServerRest, GivesUp, mouseVars
<1>2. ASSUME NEW from \in Early, from # "wait", NEW to, NEW m, Tells(from, to, m)
      PROVE  /\ Running /\ UNCHANGED <<held, plan, desktopVars, windowVars, touched, halted>>
             /\ GivesUp \/ Told(from, to, m)
  <2>1. CASE Full(dq)
    BY <1>1, <1>2, <2>1 DEF Tells
  <2>2. CASE ~Full(dq)
    BY <1>2, <2>2 DEF Tells, Told, ServerGoes, ServerRest, mouseVars
  <2> QED
    BY <2>1, <2>2
<1>3. CASE ServerWait
  <2>1. CASE ~WaitOver(ev) /\ Fails("wait")
    BY <1>1, <2>1 DEF WaitOver, Early
  <2>2. CASE ~(~WaitOver(ev) /\ Fails("wait"))
    BY <1>3, <2>2 DEF ServerWait, WaitOver, ServerGoes, ServerRest, Passes, mouseVars
  <2> QED
    BY <2>1, <2>2
<1>4. CASE nxgi_init
  <2>1. CASE Fails("nxgi")
    BY <1>1, <2>1 DEF Early
  <2>2. CASE ~Fails("nxgi")
    BY <1>4, <2>2 DEF nxgi_init, ServerGoes, ServerRest, Passes, mouseVars
  <2> QED
    BY <2>1, <2>2
<1>5. CASE FreeEvent
  BY <1>5 DEF FreeEvent, FreesEvent, ServerGoes, ServerRest, mouseVars
<1>6. CASE henjin_set_resolution
  <2>1. CASE Fails("disable")
    BY <1>1, <2>1 DEF Early
  <2>2. CASE Tells("disable", "wait", Msg("disable"))
    BY <1>2, <2>2 DEF Early
  <2>3. CASE Tells("enable", "resize", Msg("enable"))
    BY <1>2, <2>3 DEF Early
  <2>4. CASE Tells("resize", "repaint", Msg("resize"))
    BY <1>2, <2>4 DEF Early
  <2>5. CASE Tells("repaint", "free event", Repaint(Cells))
    BY <1>2, <2>5 DEF Early
  <2> QED
    BY <1>3, <1>4, <1>5, <1>6, <2>1, <2>2, <2>3, <2>4, <2>5, Zenon DEF henjin_set_resolution
<1>7. CASE demo1_init
  <2>1. CASE Fails("windows") \/ Fails("place")
    BY <1>1, <2>1
  <2>2. CASE ~(Fails("windows") \/ Fails("place"))
    BY <1>7, <2>2 DEF demo1_init, ServerGoes, ServerRest, AddsWindow, PlacesWindow, mouseVars
  <2> QED
    BY <2>1, <2>2
<1>8. CASE Subscribe
  <2>1. CASE Fails("subscribe")
    BY <1>1, <2>1
  <2>2. CASE ~Fails("subscribe")
    BY <1>8, <2>2 DEF Subscribe, ServerGoes, ServerRest, Passes, mouseVars
  <2> QED
    BY <2>1, <2>2
<1>9. CASE henjin_process_mouse_events
  BY <1>9 DEF henjin_process_mouse_events, ServerGoes
<1>10. CASE hj_destroy_desktop
  BY <1>10 DEF hj_destroy_desktop, FreesDesktop, ServerGoes, ServerRest, mouseVars
<1> QED
  BY <1>6, <1>7, <1>8, <1>9, <1>10, Zenon DEF Server

LEMMA DesktopStep ==
  ASSUME Desktop
  PROVE  /\ Running /\ UNCHANGED <<mouseVars, serverVars, desktop, children, windowVars>>
         /\ Shown' = Shown /\ (lost => lost')
<1>1. CASE DisableDrawing
  BY <1>1 DEF DisableDrawing, DesktopRest, Shown, Taken, Handles
<1>2. CASE EnableDrawing
  BY <1>2 DEF EnableDrawing, DesktopRest, Shown, Taken, Handles
<1>3. CASE desktop_resize
  BY <1>3 DEF desktop_resize, DesktopRest, Shown, Taken, Handles
<1>4. CASE desktop_repaint
  BY <1>4 DEF desktop_repaint, DesktopRest, Shown, Taken, Handles
<1>5. CASE desktop_blit_subcontrol
  BY <1>5 DEF desktop_blit_subcontrol, DesktopRest, Shown, Taken, Handles
<1>6. CASE desktop_mouse_move
  BY <1>6 DEF desktop_mouse_move, DesktopRest, Shown, TakenAsking, Handles
<1>7. CASE desktop_mouse_move_handle_dragging
  BY <1>7 DEF desktop_mouse_move_handle_dragging, DesktopRest, Shown, ToDesktop
<1>8. CASE desktop_mouse_down
  BY <1>8 DEF desktop_mouse_down, DesktopRest, Shown, Taken, Handles
<1>9. CASE desktop_mouse_up
  BY <1>9 DEF desktop_mouse_up, DesktopRest, Shown, Taken, Handles
<1>10. CASE UseFreedDesktop
  BY <1>10 DEF UseFreedDesktop, Shown
<1> QED
  BY <1>1, <1>2, <1>3, <1>4, <1>5, <1>6, <1>7, <1>8, <1>9, <1>10 DEF Desktop

(* A window's thread works on what is the window's, and tells the desktop. *)
LEMMA WindowStep ==
  ASSUME NEW w \in Windows, Window(w), Types
  PROVE  /\ Running /\ UNCHANGED <<mouseVars, serverVars, ev, desktop, desktopVars, children, pos>>
         /\ Shown' = Shown /\ (lost => lost')
         /\ \A v \in Windows : v # w =>
              /\ work'[v] = work[v] /\ wq'[v] = wq[v] /\ surf'[v] = surf[v]
              /\ down'[v] = down[v] /\ home'[v] = home[v] /\ (v \in sized' <=> v \in sized)
         /\ UNCHANGED <<dq, lost>> \/ (TellDesktop(w) /\ desktop = "live" /\ ToDesktop(<<Repaint(work[w].rect)>>))
         /\ touched' = touched \/ (desktop = "freed" /\ touched' = touched \cup {"desktop"})
<1>1. CASE window_dispatch_mouse_message(w)
  BY <1>1 DEF window_dispatch_mouse_message, Takes, Goes, WindowRest, Types, Shown
<1>2. CASE window_resize(w)
  BY <1>2 DEF window_resize, Takes, Goes, WindowRest, Types, Shown
<1>3. CASE AskItself(w)
  BY <1>3 DEF AskItself, ToWindow, Goes, WindowRest, Types, Shown
<1>4. CASE window_repaint(w)
  BY <1>4 DEF window_repaint, Takes, Goes, WindowRest, Types, Shown
<1>5. CASE button_repaint(w)
  <2>1. \A v \in Windows : v # w => surf'[v] = surf[v]
    BY <1>5 DEF button_repaint, Types
  <2> QED
    BY <1>5, <2>1 DEF button_repaint, WindowRest, Shown
<1>6. CASE hj_control_request_parent_repaint(w)
  BY <1>6 DEF hj_control_request_parent_repaint, Used, Goes, WindowRest, Types, Shown
<1>7. CASE TellDesktop(w)
  BY <1>7 DEF TellDesktop, ToDesktop, Used, Goes, WindowRest, Types, Shown
<1> QED
  BY <1>1, <1>2, <1>3, <1>4, <1>5, <1>6, <1>7 DEF Window

-----------------------------------------------------------------------------
(* Types *)

LEMMA BoundedSend ==
  ASSUME NEW M, NEW q, Bounded(q, M), NEW ms \in Seq(M)
  PROVE  Bounded(Send(q, ms), M)
BY SendIs DEF Bounded

LEMMA BoundedTail ==
  ASSUME NEW M, NEW q, Bounded(q, M), q # <<>>
  PROVE  /\ Bounded(Tail(q), M) /\ Len(Tail(q)) < QueueSize
         /\ Shorter(q, Tail(q)) /\ Head(q) = q[1] /\ Head(q) \in M /\ Len(q) \in Nat \ {0}
<1>1. /\ Tail(q) \in Seq(M) /\ Shorter(q, Tail(q))
      /\ Head(q) = q[1] /\ Head(q) \in M /\ Len(q) \in Nat \ {0} /\ Len(Tail(q)) \in Nat
  BY TailIs DEF Bounded
<1> QED
  BY <1>1, Sizes DEF Bounded, Shorter

LEMMA BoundedAppend ==
  ASSUME NEW M, NEW q, Bounded(q, M), NEW m \in M, ~Full(q)
  PROVE  Bounded(Append(q, m), M) /\ Longer(q, m, Append(q, m))
<1>1. Append(q, m) \in Seq(M) /\ Longer(q, m, Append(q, m)) /\ Len(q) \in Nat
  BY AppendIs DEF Bounded
<1> QED
  BY <1>1, Sizes DEF Bounded, Longer, Full

(* One message is put behind the others, or it is lost. *)
LEMMA SentIs ==
  ASSUME NEW M, NEW q, Bounded(q, M), NEW m \in M
  PROVE  /\ Bounded(Send(q, <<m>>), M)
         /\ Lost(q, <<m>>) => Send(q, <<m>>) = q
         /\ ~Lost(q, <<m>>) => Longer(q, m, Send(q, <<m>>))
<1>1. q \in Seq(M) /\ Len(q) \in Nat /\ Len(q) <= QueueSize /\ QueueSize \in Nat
  BY Sizes DEF Bounded
<1>2. <<m>> \in Seq(M) /\ Len(<<m>>) = 1
  OBVIOUS
<1>3. ASSUME Lost(q, <<m>>)
      PROVE  Send(q, <<m>>) = q
  <2>1. QueueSize - Len(q) = 0
    BY <1>1, <1>2, <1>3 DEF Lost
  <2>2. Min({Len(<<m>>), QueueSize - Len(q)}) = 0
    <3>1. {1, 0} = {0, 1}
      OBVIOUS
    <3> QED
      BY <1>2, <2>1, <3>1, MinOfTwo
  <2>3. SubSeq(<<m>>, 1, 0) = <<>>
    OBVIOUS
  <2> DEFINE k == Min({Len(<<m>>), QueueSize - Len(q)})
  <2>4. Send(q, <<m>>) = q \o SubSeq(<<m>>, 1, k)
    BY DEF Send
  <2>5. k = 0
    BY <2>2
  <2> HIDE DEF k
  <2>6. Send(q, <<m>>) = q \o <<>>
    BY <2>3, <2>4, <2>5
  <2> QED
    BY <1>1, <2>6, ConcatEmptySeq
<1>4. ASSUME ~Lost(q, <<m>>)
      PROVE  Longer(q, m, Send(q, <<m>>))
  BY <1>1, <1>4, SendOne, AppendIs
<1> QED
  BY <1>2, <1>3, <1>4, BoundedSend

(* Two messages that both fit *)
LEMMA SentTwo ==
  ASSUME NEW M, NEW q, Bounded(q, M), NEW m \in M, NEW n \in M, ~Lost(q, <<m, n>>)
  PROVE  LET q1 == Append(q, m) IN
         Bounded(q1, M) /\ Longer(q, m, q1) /\ Longer(q1, n, Send(q, <<m, n>>))
<1>1. q \in Seq(M) /\ Len(q) \in Nat
  BY DEF Bounded
<1>2. Append(q, m) \in Seq(M) /\ Longer(q, m, Append(q, m))
  BY <1>1, AppendIs
<1>3. Len(<<m, n>>) = 2
  OBVIOUS
<1>4. Len(q) + 2 <= QueueSize
  BY <1>1, <1>3, Sizes DEF Lost
<1>5. Send(q, <<m, n>>) = Append(Append(q, m), n)
  BY <1>1, SendTwo
<1>6. Longer(Append(q, m), n, Append(Append(q, m), n))
  BY <1>2, AppendIs
<1>7. Len(Append(q, m)) <= QueueSize
  BY <1>1, <1>2, <1>4, Sizes DEF Longer
<1> QED
  BY <1>2, <1>5, <1>6, <1>7 DEF Bounded

(* The messages that the server starts with *)
LEMMA ServerMessages ==
  /\ \A type \in {"disable", "enable", "resize"} : Msg(type) \in DesktopMessage /\ Msg(type).type = type
  /\ Repaint(Cells) \in DesktopMessage /\ Repaint(Cells).type = "repaint" /\ Repaint(Cells).rect = Cells
  /\ Msg("resize") \in WindowMessage
<1>1. 0 \in Cells /\ 0 \in 0 .. 2
  BY Sizes
<1>2. ASSUME NEW type \in {"disable", "enable", "resize"}
      PROVE  Msg(type) \in DesktopMessage /\ Msg(type).type = type
  BY <1>1, MessageIs DEF DesktopMessage, MessageTypes, MouseButtons
<1>3. Msg("resize") \in WindowMessage
  BY <1>1, MessageIs DEF WindowMessage, MessageTypes, MouseButtons
<1>4. Repaint(Cells) \in DesktopMessage /\ Repaint(Cells).type = "repaint" /\ Repaint(Cells).rect = Cells
  BY <1>1, MessageIs DEF DesktopMessage, MessageTypes, MouseButtons
<1> QED
  BY <1>2, <1>3, <1>4

LEMMA RepaintIs ==
  ASSUME NEW rect
  PROVE  /\ Repaint(rect).type = "repaint" /\ Repaint(rect).rect = rect
         /\ rect \subseteq Cells => Repaint(rect) \in DesktopMessage
         /\ rect \subseteq Buttons => Repaint(rect) \in WindowMessage
<1>1. 0 \in Cells /\ 0 \in 0 .. 2
  BY Sizes
<1> QED
  BY <1>1, MessageIs DEF DesktopMessage, WindowMessage, MessageTypes, MouseButtons

LEMMA FirstMessagesAre ==
  /\ Bounded(FirstMessages, WindowMessage)
  /\ \A b \in Buttons : RepaintOf(b, FirstMessages)
<1> DEFINE m == Msg("resize")
           n == Repaint({0})
           o == Repaint({1})
<1>1. m \in WindowMessage /\ n \in WindowMessage /\ o \in WindowMessage
  BY ServerMessages, RepaintIs DEF Buttons
<1>2. n.type = "repaint" /\ n.rect = {0} /\ o.type = "repaint" /\ o.rect = {1}
  BY RepaintIs
<1>3. FirstMessages = <<m, n, o>>
  BY DEF FirstMessages
<1> HIDE DEF m, n, o
<1>4. <<m, n, o>> \in Seq(WindowMessage) /\ Len(<<m, n, o>>) = 3
  BY <1>1
<1>5. /\ 2 \in DOMAIN <<m, n, o>> /\ <<m, n, o>>[2] = n
      /\ 3 \in DOMAIN <<m, n, o>> /\ <<m, n, o>>[3] = o
  OBVIOUS
<1>6. \A b \in Buttons : b = 0 \/ b = 1
  BY DEF Buttons
<1> QED
  BY <1>2, <1>3, <1>4, <1>5, <1>6, Sizes DEF Bounded, RepaintOf

(* A message to a window, or a panic *)
LEMMA ToWindowIs ==
  ASSUME Types, NEW w \in Windows, NEW m \in WindowMessage, ToWindow(w, m)
  PROVE  \/ UNCHANGED wq /\ halted'
         \/ /\ wq' = [wq EXCEPT ![w] = Append(@, m)] /\ Bounded(Append(wq[w], m), WindowMessage)
            /\ Longer(wq[w], m, Append(wq[w], m)) /\ UNCHANGED halted
<1>1. Bounded(wq[w], WindowMessage)
  BY DEF Types
<1>2. CASE Full(wq[w])
  BY <1>2 DEF ToWindow
<1>3. CASE ~Full(wq[w])
  BY <1>1, <1>3, BoundedAppend DEF ToWindow
<1> QED
  BY <1>2, <1>3

LEMMA ToWindowTypes ==
  ASSUME Types, NEW w \in Windows, NEW m \in WindowMessage, ToWindow(w, m)
  PROVE  /\ wq' \in [Windows -> Seq(WindowMessage)]
         /\ \A v \in Windows : Bounded(wq'[v], WindowMessage)
         /\ halted' \in BOOLEAN
<1>1. CASE UNCHANGED wq /\ halted'
  BY <1>1 DEF Types, ToWindow
<1>2. CASE wq' = [wq EXCEPT ![w] = Append(@, m)] /\ Bounded(Append(wq[w], m), WindowMessage)
  BY <1>2 DEF Types, Bounded, ToWindow
<1> QED
  BY <1>1, <1>2, ToWindowIs DEF ToWindow

(* The pointer stays on the screen. *)
LEMMA Clipped ==
  ASSUME NEW x \in Int
  PROVE  nxgig_clip_point(x) \in Cells
BY Sizes DEF nxgig_clip_point, Cells

LEMMA TypesMouse ==
  ASSUME Types, Move \/ Press \/ Release
  PROVE  Types'
<1>1. PICK e \in EventType : MouseEvent(e) /\ held' \subseteq MouseButtons
  <2>1. CASE Move
    <3>1. PICK d \in Steps : MouseEvent([type |-> "move", by |-> d, button |-> "left"])
      BY <2>1 DEF Move
    <3>2. [type |-> "move", by |-> d, button |-> "left"] \in EventType
      BY <3>1, Sizes DEF EventType, MouseButtons
    <3> QED
      BY <2>1, <3>1, <3>2 DEF Move, Types
  <2>2. CASE Press
    <3>1. PICK b \in MouseButtons \ held :
            held' = held \cup {b} /\ MouseEvent([type |-> "down", by |-> 0, button |-> b])
      BY <2>2 DEF Press
    <3>2. [type |-> "down", by |-> 0, button |-> b] \in EventType
      BY DEF EventType
    <3> QED
      BY <3>1, <3>2 DEF Types
  <2>3. CASE Release
    <3>1. PICK b \in held :
            held' = held \ {b} /\ MouseEvent([type |-> "up", by |-> 0, button |-> b])
      BY <2>3 DEF Release
    <3>2. [type |-> "up", by |-> 0, button |-> b] \in EventType
      BY DEF EventType, Types
    <3> QED
      BY <3>1, <3>2 DEF Types
  <2> QED
    BY <2>1, <2>2, <2>3
<1>2. ring' \in Seq(EventType) /\ Len(ring') <= RingSize
  <2>1. ring \in Seq(EventType) /\ Len(ring) <= RingSize
    BY DEF Types
  <2>2. ring' = ring \/ (ring' = Append(ring, e) /\ Len(ring) < RingSize)
    BY <1>1 DEF MouseEvent
  <2>3. Append(ring, e) \in Seq(EventType) /\ Len(Append(ring, e)) = Len(ring) + 1 /\ Len(ring) \in Nat
    BY <2>1, AppendProperties
  <2> QED
    BY <2>1, <2>2, <2>3, Sizes
<1>3. plan' \in [windows : Windows, events : Nat, calm : BOOLEAN] /\ lost' \in BOOLEAN
  <2>1. MouseEvent(e)
    BY <1>1
  <2>2. plan' = [plan EXCEPT !.events = @ - 1, !.calm = FALSE] /\ plan.events > 0
    BY <2>1 DEF MouseEvent
  <2>3. lost' = lost \/ lost' = TRUE
    BY <2>1 DEF MouseEvent
  <2>4. plan \in [windows : Windows, events : Nat, calm : BOOLEAN] /\ plan.events - 1 \in Nat
    BY <2>2 DEF Types
  <2>5. plan' \in [windows : Windows, events : Nat, calm : BOOLEAN]
    BY <2>2, <2>4
  <2> QED
    BY <2>3, <2>5 DEF Types
<1> QED
  BY <1>1, <1>2, <1>3, MouseStep DEF Types, serverVars, desktopVars, windowVars

(* What the server makes of a mouse event *)
LEMMA EventMessage ==
  ASSUME Types, henjin_process_mouse_events
  PROVE  LET e == Head(ring)
             m == At(e.type, mouse', IF e.type = "up" THEN e.button ELSE "left")
         IN /\ sAt = "read" /\ sAt' = "read"
            /\ e = ring[1] /\ e \in EventType /\ ring' \in Seq(EventType) /\ Len(ring') <= RingSize
            /\ Shorter(ring, ring') /\ Len(ring') \in Nat
            /\ mouse' \in Cells
            /\ mouse' = IF e.type = "move" THEN nxgig_clip_point(mouse + e.by) ELSE mouse
            /\ m \in DesktopMessage /\ m.type = e.type /\ m.x = mouse' /\ m.type \in {"move", "down", "up"}
            /\ dq' = Send(dq, <<m>>) /\ lost' = (lost \/ Lost(dq, <<m>>))
            /\ UNCHANGED <<fault, ev, desktop, children, pos, wq>>
<1> DEFINE e == Head(ring)
           m == At(e.type, mouse', IF e.type = "up" THEN e.button ELSE "left")
<1>1. ring \in Seq(EventType) /\ ring # <<>> /\ ring' = Tail(ring) /\ Len(ring) <= RingSize
  BY DEF Types, henjin_process_mouse_events
<1>2. /\ e = ring[1] /\ e \in EventType /\ ring' \in Seq(EventType) /\ Shorter(ring, ring')
      /\ Len(ring') \in Nat
  BY <1>1, TailIs
<1>3. Len(ring') <= RingSize
  BY <1>1, <1>2, Sizes DEF Shorter
<1>4. /\ mouse' = IF e.type = "move" THEN nxgig_clip_point(mouse + e.by) ELSE mouse
      /\ dq' = Send(dq, <<m>>) /\ lost' = (lost \/ Lost(dq, <<m>>))
      /\ UNCHANGED <<fault, ev, desktop, children, pos, wq>>
      /\ sAt = "read" /\ sAt' = "read"
  BY DEF henjin_process_mouse_events, ToDesktop, ServerGoes
<1>5. mouse' \in Cells
  <2>1. mouse \in Int /\ e.by \in Int /\ mouse \in Cells
    BY <1>2, Sizes DEF Types, EventType
  <2>2. nxgig_clip_point(mouse + e.by) \in Cells
    BY <2>1, Clipped
  <2> QED
    BY <1>4, <2>1, <2>2
<1>6. m \in DesktopMessage /\ m.type = e.type /\ m.x = mouse' /\ m.type \in {"move", "down", "up"}
  <2>1. e.type \in MessageTypes /\ (IF e.type = "up" THEN e.button ELSE "left") \in MouseButtons
        /\ e.type \in {"move", "down", "up"}
    BY <1>2 DEF EventType, MessageTypes, MouseButtons
  <2> QED
    BY <1>5, <2>1, AtIs
<1> QED
  BY <1>2, <1>3, <1>4, <1>5, <1>6

LEMMA TypesServer ==
  ASSUME Types, Starting, Server
  PROVE  Types'
<1> DEFINE Rest == UNCHANGED <<held, plan, desktopVars, windowVars, touched, halted>>
<1>1. Rest
  BY ServerStep
<1>2. ASSUME NEW from, NEW to \in Stages, NEW m \in DesktopMessage, Told(from, to, m)
      PROVE  Types'
  <2>1. Bounded(dq', DesktopMessage)
    BY <1>2, BoundedAppend DEF Told, Types
  <2> QED
    BY <1>1, <1>2, <2>1 DEF Told, Types, mouseVars, desktopVars, windowVars
<1>3. ASSUME NEW from, NEW to \in Stages, Passes(from, to)
      PROVE  Types'
  BY <1>1, <1>3 DEF Passes, Types, mouseVars, desktopVars, windowVars
<1>4. CASE GivesUp \/ FreesEvent \/ FreesDesktop
  <2>1. sAt' \in Stages /\ ev' \in {"clear", "signalled", "freed"} /\ desktop' \in {"live", "freed"}
    BY <1>4 DEF GivesUp, FreesEvent, FreesDesktop, Stages, Late, Types
  <2>2. UNCHANGED <<mouseVars, mouse, dq, children, pos, wq, lost>>
    BY <1>4 DEF GivesUp, FreesEvent, FreesDesktop
  <2> QED
    BY <1>1, <2>1, <2>2 DEF Types, mouseVars, desktopVars, windowVars
<1>5. CASE AddsWindow
  <2>1. children + 1 \in 0 .. Len(StartPos)
    <3>1. plan.windows \in 1 .. Len(StartPos) /\ children \in 0 .. Len(StartPos)
      BY Sizes DEF Types
    <3> QED
      BY <1>5, <3>1, Sizes DEF AddsWindow, Starting
  <2> QED
    BY <1>1, <1>5, <2>1 DEF AddsWindow, Types, Stages, Late, mouseVars, desktopVars, windowVars
<1>6. CASE PlacesWindow
  <2>1. StartPos \in [Windows -> Int] /\ pos \in [Windows -> Int] /\ children \in Windows
    BY <1>6, Sizes DEF PlacesWindow, Starting, Types
  <2>2. pos' \in [Windows -> Int]
    BY <1>6, <2>1 DEF PlacesWindow
  <2>3. wq' \in [Windows -> Seq(WindowMessage)] /\ \A w \in Windows : Bounded(wq'[w], WindowMessage)
    <3>1. wq' = [wq EXCEPT ![children] = FirstMessages]
      BY <1>6 DEF PlacesWindow
    <3> QED
      BY <3>1, <2>1, FirstMessagesAre DEF Types, Bounded
  <2> QED
    BY <1>1, <1>6, <2>2, <2>3 DEF PlacesWindow, Types, Stages, Late, mouseVars, desktopVars, windowVars
<1>7. CASE henjin_process_mouse_events
  <2> DEFINE e == Head(ring)
             m == At(e.type, mouse', IF e.type = "up" THEN e.button ELSE "left")
  <2>1. /\ sAt' = "read" /\ ring' \in Seq(EventType) /\ Len(ring') <= RingSize /\ mouse' \in Cells
        /\ m \in DesktopMessage /\ dq' = Send(dq, <<m>>) /\ lost' = (lost \/ Lost(dq, <<m>>))
        /\ UNCHANGED <<fault, ev, desktop, children, pos, wq>>
    BY <1>7, EventMessage
  <2> HIDE DEF m, e
  <2>2. Bounded(dq', DesktopMessage)
    BY <2>1, SentIs DEF Types
  <2>3. lost' \in BOOLEAN
    BY <2>1 DEF Types
  <2> QED
    BY <1>1, <2>1, <2>2, <2>3 DEF Types, Stages, Late, desktopVars, windowVars
<1> HIDE DEF Rest
<1> QED
  BY <1>2, <1>3, <1>4, <1>5, <1>6, <1>7, ServerStep, ServerMessages DEF Stages, Early, Late

(* The desktop's step on the head of its queue *)
LEMMA HeadIs ==
  ASSUME Types, NEW type, Handles(type)
  PROVE  /\ dq # <<>> /\ Len(dq) \in Nat \ {0} /\ Head(dq) = dq[1] /\ Head(dq) \in DesktopMessage
         /\ Head(dq).type = type /\ Head(dq).x \in Cells /\ Head(dq).rect \subseteq Cells
         /\ Bounded(dq, DesktopMessage) /\ Bounded(Tail(dq), DesktopMessage)
         /\ Shorter(dq, Tail(dq)) /\ Len(Tail(dq)) < QueueSize
         /\ dTo = -1 /\ copying = {}
<1>1. Bounded(dq, DesktopMessage) /\ dq # <<>> /\ Head(dq).type = type /\ dTo = -1 /\ copying = {}
  BY DEF Handles, Types
<1>2. /\ Bounded(Tail(dq), DesktopMessage) /\ Len(Tail(dq)) < QueueSize
      /\ Shorter(dq, Tail(dq)) /\ Head(dq) = dq[1] /\ Head(dq) \in DesktopMessage /\ Len(dq) \in Nat \ {0}
  BY <1>1, BoundedTail
<1> QED
  BY <1>1, <1>2 DEF DesktopMessage

(* The last window that is hit *)
LEMMA LastIs ==
  ASSUME Types, NEW S \in SUBSET Shown, S # {}
  PROVE  Max(S) \in S /\ Max(S) \in Windows /\ \A w \in S : w <= Max(S)
<1>1. children \in 0 .. Len(StartPos)
  BY DEF Types
<1>2. Len(StartPos) \in Nat /\ S \in SUBSET (0 .. Len(StartPos)) /\ Shown \subseteq Windows
  BY <1>1, ShownAre, Sizes
<1>3. Max(S) \in S /\ \A w \in S : Max(S) >= w
  BY <1>2, MaxIs
<1> QED
  BY <1>2, <1>3, Sizes

(* A mouse message goes to one window, or to nobody, or the desktop panics. *)
LEMMA DispatchIs ==
  ASSUME Types, NEW type, Handles(type), type # "repaint", desktop_dispatch_mouse_messages
  PROVE  \/ UNCHANGED <<wq, halted>>
         \/ \E w \in Windows, m \in WindowMessage : m.type = type /\ ToWindow(w, m)
<1> DEFINE hit == {w \in Shown : Head(dq).x \in Bounds(w)}
           w0 == Max(hit)
           m0 == [Head(dq) EXCEPT !.x = @ - pos[w0]]
<1>1. CASE hit = {}
  BY <1>1 DEF desktop_dispatch_mouse_messages
<1>2. CASE hit # {}
  <2>1. w0 \in hit /\ w0 \in Windows
    BY <1>2, LastIs
  <2>2. pos[w0] \in Int /\ Head(dq).x \in Bounds(w0) /\ Head(dq).x \in Int
    BY <2>1, HeadIs, Sizes DEF Types
  <2>3. ToWindow(w0, m0)
    BY <1>2 DEF desktop_dispatch_mouse_messages
  <2> HIDE DEF w0, hit
  <2>4. Head(dq).x - pos[w0] \in 0 .. 2
    BY <2>2 DEF Bounds
  <2>5. Head(dq) \in DesktopMessage /\ Head(dq).type = type
    BY HeadIs
  <2>6. m0 \in [type : MessageTypes, x : Int, button : MouseButtons, rect : SUBSET Cells]
        /\ m0.type = type /\ m0.x = Head(dq).x - pos[w0] /\ m0.rect = Head(dq).rect
    BY <2>2, <2>5 DEF DesktopMessage
  <2>7. m0.rect = {}
    BY <2>5, <2>6 DEF DesktopMessage
  <2> HIDE DEF m0
  <2>8. m0 \in WindowMessage
    BY <2>4, <2>6, <2>7 DEF WindowMessage
  <2> QED
    BY <2>1, <2>3, <2>6, <2>8
<1> QED
  BY <1>1, <1>2

(* The last of some windows, or none *)
LEMMA MaxTop ==
  ASSUME NEW S \in SUBSET Windows
  PROVE  LET t == Max({0} \cup S)
         IN t \in Nat /\ (t # 0 => t \in S) /\ \A w \in S : w <= t /\ t # 0
<1> DEFINE T == {0} \cup S
           t == Max(T)
           n == Len(StartPos)
<1>1. n \in Nat /\ S \subseteq 1 .. n
  BY Sizes
<1> HIDE DEF n
<1>2. T \in SUBSET (0 .. n) /\ T # {}
  BY <1>1
<1>3. t \in T /\ \A y \in T : t >= y
  BY <1>1, <1>2, MaxIs
<1>4. t \in Nat /\ (t # 0 => t \in S)
  <2>1. t \in {0} \cup S
    BY <1>3
  <2> HIDE DEF t
  <2> QED
    BY <1>1, <2>1
<1>5. ASSUME NEW w \in S
      PROVE  w <= t /\ t # 0
  <2>1. w \in T /\ w \in Nat /\ w > 0
    BY <1>1
  <2>2. t >= w
    BY <1>3, <2>1
  <2> HIDE DEF t
  <2> QED
    BY <1>4, <2>1, <2>2
<1> QED
  BY <1>4, <1>5

LEMMA TopIs ==
  ASSUME Types, NEW c
  PROVE  /\ Top(c) \in Nat /\ (Top(c) # 0 => Top(c) \in Shown /\ Top(c) \in Windows /\ c \in Bounds(Top(c)))
         /\ \A w \in Shown : c \in Bounds(w) => w <= Top(c) /\ Top(c) # 0
<1>1. {w \in Shown : c \in Bounds(w)} \in SUBSET Windows
  BY ShownAre DEF Types
<1> QED
  BY <1>1, MaxTop DEF Top

LEMMA PictureIs ==
  ASSUME NEW c
  PROVE  Picture(c) = [window |-> Top(c), part |-> Part(c, Top(c)), pointer |-> c = d_mouse]
BY DEF Picture, Part

LEMMA PictureTypes ==
  ASSUME Types, NEW c \in Cells
  PROVE  Picture(c) \in Pictures
<1> DEFINE t == Top(c)
<1>1. t \in Nat /\ (t # 0 => t \in Windows /\ c \in Bounds(t))
  BY TopIs
<1> HIDE DEF t
<1>2. CASE t = 0
  BY <1>1, <1>2, PictureIs DEF Pictures, Part, t
<1>3. ASSUME t # 0
      PROVE  Picture(c) \in Pictures
  <2>1. t \in Windows /\ c \in Bounds(t) /\ pos[t] \in Int /\ c \in Int
    BY <1>1, <1>3, Sizes DEF Types
  <2>2. c = pos[t] \/ c - pos[t] - 1 \in Buttons
    BY <2>1 DEF Bounds, Buttons
  <2>3. surf[t] \in [Buttons -> Faces]
    BY <2>1 DEF Types
  <2>4. Part(c, t) \in Faces \cup {"none", "title", "sliver"}
    BY <1>3, <2>2, <2>3 DEF Part
  <2> QED
    BY <1>1, <2>4, PictureIs DEF Pictures, t
<1> QED
  BY <1>2, <1>3

LEMMA DispatchTypes ==
  ASSUME Types, NEW type, Handles(type), type # "repaint", desktop_dispatch_mouse_messages
  PROVE  /\ wq' \in [Windows -> Seq(WindowMessage)]
         /\ \A w \in Windows : Bounded(wq'[w], WindowMessage)
         /\ halted' \in BOOLEAN
BY DispatchIs, ToWindowTypes DEF Types

LEMMA TypesDesktop ==
  ASSUME Types, Desktop
  PROVE  Types'
<1> DEFINE Rest == UNCHANGED <<mouseVars, serverVars, desktop, children, windowVars>>
<1>1. Rest
  BY DesktopStep
<1> HIDE DEF Rest
<1>2. ASSUME NEW type, Handles(type), Taken
      PROVE  Bounded(dq', DesktopMessage) /\ lost' \in BOOLEAN
  BY <1>2, HeadIs DEF Taken, Types
<1>3. CASE DisableDrawing
  <2>1. Handles("disable") /\ Taken
    BY <1>3 DEF DisableDrawing
  <2> QED
    BY <1>1, <1>2, <1>3, <2>1 DEF Rest, DisableDrawing, Types, mouseVars, serverVars, windowVars
<1>4. CASE EnableDrawing
  <2>1. Handles("enable") /\ Taken
    BY <1>4 DEF EnableDrawing
  <2> QED
    BY <1>1, <1>2, <1>4, <2>1 DEF Rest, EnableDrawing, Types, mouseVars, serverVars, windowVars
<1>5. CASE desktop_resize
  <2>1. Handles("resize") /\ Taken
    BY <1>5 DEF desktop_resize
  <2> QED
    BY <1>1, <1>2, <1>5, <2>1 DEF Rest, desktop_resize, Types, mouseVars, serverVars, desktopVars, windowVars
<1>6. CASE desktop_repaint
  <2>1. Handles("repaint") /\ Taken
    BY <1>6 DEF desktop_repaint
  <2>2. copying' \subseteq Cells
    BY <1>6, <2>1, HeadIs DEF desktop_repaint
  <2>3. screen' \in [Cells -> Pictures]
    <3>1. CASE drawing
      <4>1. ASSUME NEW c \in Cells
            PROVE  [screen[c] EXCEPT !.pointer = @ /\ c \notin Clock] \in Pictures
        <5>1. screen[c] \in Pictures
          BY DEF Types
        <5> QED
          BY <5>1 DEF Pictures
      <4>2. screen' = [c \in Cells |-> [screen[c] EXCEPT !.pointer = @ /\ c \notin Clock]]
        BY <1>6, <3>1 DEF desktop_repaint
      <4> QED
        BY <4>1, <4>2
    <3>2. CASE ~drawing
      BY <1>6, <3>2 DEF desktop_repaint, Types
    <3> QED
      BY <3>1, <3>2
  <2> QED
    BY <1>1, <1>2, <1>6, <2>1, <2>2, <2>3
    DEF Rest, desktop_repaint, Types, mouseVars, serverVars, windowVars
<1>7. CASE desktop_blit_subcontrol
  <2> DEFINE m == Min(copying)
  <2>1. m \in Cells
    <3>1. copying \in SUBSET Nat /\ copying # {} /\ copying \subseteq Cells
      BY <1>7, Sizes DEF desktop_blit_subcontrol, Types
    <3> QED
      BY <3>1, MinIs
  <2>2. Picture(m) \in Pictures
    BY <2>1, PictureTypes
  <2>3. screen' = [screen EXCEPT ![m] = Picture(m)] /\ copying' = copying \ {m}
    BY <1>7 DEF desktop_blit_subcontrol
  <2> HIDE DEF m
  <2>4. screen' \in [Cells -> Pictures] /\ copying' \subseteq Cells
    BY <2>1, <2>2, <2>3 DEF Types
  <2> QED
    BY <1>1, <1>7, <2>4
    DEF Rest, desktop_blit_subcontrol, Types, mouseVars, serverVars, windowVars
<1>8. CASE desktop_mouse_move
  <2> DEFINE ms == IF d_mouse' = d_mouse THEN <<Repaint({d_mouse})>>
                   ELSE <<Repaint({d_mouse}), Repaint({d_mouse'})>>
  <2>1. Handles("move") /\ desktop_dispatch_mouse_messages /\ TakenAsking(ms)
        /\ d_mouse' = Head(dq).x /\ dTo' = d_mouse'
    BY <1>8 DEF desktop_mouse_move
  <2>2. d_mouse' \in Cells /\ d_mouse \in Cells
    BY <2>1, HeadIs DEF Types
  <2>3. Repaint({d_mouse}) \in DesktopMessage /\ Repaint({d_mouse'}) \in DesktopMessage
    BY <2>2, RepaintIs
  <2>4. ms \in Seq(DesktopMessage)
    BY <2>3
  <2> HIDE DEF ms
  <2>5. Bounded(dq', DesktopMessage) /\ lost' \in BOOLEAN
    BY <2>1, <2>4, HeadIs, BoundedSend DEF TakenAsking, Types, Lost
  <2>6. /\ wq' \in [Windows -> Seq(WindowMessage)]
        /\ \A w \in Windows : Bounded(wq'[w], WindowMessage)
        /\ halted' \in BOOLEAN
    BY <2>1, DispatchTypes
  <2>7. UNCHANGED <<copying, drawing, screen, drag, ev, pos, touched>>
    BY <1>8 DEF desktop_mouse_move
  <2> QED
    BY <1>1, <2>1, <2>2, <2>5, <2>6, <2>7 DEF Rest, Types, mouseVars, serverVars, windowVars
<1>9. CASE desktop_mouse_move_handle_dragging
  <2> DEFINE w == Min(Dragged)
             m == Repaint(Uncovered(w, DraggedTo(w, dTo)) \cap Cells)
  <2>1. /\ dTo' = -1 /\ UNCHANGED <<copying, drawing, d_mouse, screen, drag, ev, wq, touched, halted>>
        /\ \/ UNCHANGED <<pos, dq, lost>>
           \/ dTo # -1 /\ Dragged # {} /\ pos' = [pos EXCEPT ![w] = DraggedTo(w, dTo)] /\ ToDesktop(<<m>>)
    BY <1>9 DEF desktop_mouse_move_handle_dragging
  <2>2. m \in DesktopMessage
    BY RepaintIs
  <2> HIDE DEF m
  <2>3. Bounded(dq', DesktopMessage) /\ lost' \in BOOLEAN
    <3>1. CASE UNCHANGED <<pos, dq, lost>>
      BY <3>1 DEF Types
    <3>2. CASE ToDesktop(<<m>>)
      BY <2>2, <3>2, SentIs DEF ToDesktop, Types, Lost
    <3> QED
      BY <2>1, <3>1, <3>2
  <2>4. pos' \in [Windows -> Int]
    <3>1. CASE UNCHANGED <<pos, dq, lost>>
      BY <3>1 DEF Types
    <3>2. CASE dTo # -1 /\ Dragged # {} /\ pos' = [pos EXCEPT ![w] = DraggedTo(w, dTo)]
      <4>1. Dragged \in SUBSET Nat /\ Dragged \subseteq Windows
        BY ShownAre DEF Dragged, Types
      <4>2. w \in Windows
        BY <3>2, <4>1, MinIs
      <4> HIDE DEF w
      <4>3. dTo \in Int
        BY <3>2, Sizes DEF Types
      <4>4. DraggedTo(w, dTo) \in Int
        BY <4>2, <4>3 DEF Types, DraggedTo
      <4> QED
        BY <3>2, <4>2, <4>4 DEF Types
    <3> QED
      BY <2>1, <3>1, <3>2
  <2> HIDE DEF w
  <2> QED
    BY <1>1, <2>1, <2>3, <2>4 DEF Rest, Types, mouseVars, serverVars, windowVars
<1>10. CASE desktop_mouse_down
  <2> DEFINE x == Head(dq).x
             titles == {w \in Shown : pos[w] = x}
             v == Max(titles)
             d == [on |-> TRUE, source |-> x, from |-> pos[v]]
  <2>0. drag' = IF titles = {} THEN drag ELSE [drag EXCEPT ![v] = d]
    BY <1>10 DEF desktop_mouse_down
  <2>1. Handles("down") /\ desktop_dispatch_mouse_messages /\ Taken
        /\ UNCHANGED <<dTo, copying, drawing, d_mouse, screen, ev, pos, touched>>
    BY <1>10 DEF desktop_mouse_down
  <2>2. drag' \in [Windows -> [on : BOOLEAN, source : Int, from : Int]]
    <3>1. CASE titles = {}
      BY <2>0, <3>1 DEF Types
    <3>2. CASE titles # {}
      <4>1. v \in Windows
        BY <3>2, LastIs
      <4>2. x \in Int
        BY <2>1, HeadIs, Sizes
      <4> HIDE DEF v, x
      <4>3. d \in [on : BOOLEAN, source : Int, from : Int]
        BY <4>1, <4>2 DEF Types
      <4> HIDE DEF titles, d
      <4> QED
        BY <2>0, <3>2, <4>1, <4>3 DEF Types
    <3> QED
      BY <3>1, <3>2
  <2>3. /\ wq' \in [Windows -> Seq(WindowMessage)]
        /\ \A w \in Windows : Bounded(wq'[w], WindowMessage)
        /\ halted' \in BOOLEAN
    BY <2>1, DispatchTypes
  <2>4. Bounded(dq', DesktopMessage) /\ lost' \in BOOLEAN
    BY <1>2, <2>1
  <2> HIDE DEF titles, v, x, d
  <2> QED
    BY <1>1, <2>1, <2>2, <2>3, <2>4 DEF Rest, Types, mouseVars, serverVars, windowVars
<1>11. CASE desktop_mouse_up
  <2>1. Handles("up") /\ desktop_dispatch_mouse_messages /\ Taken
        /\ drag' = (IF EndsDrag(Head(dq)) THEN [w \in Windows |-> NoDrag] ELSE drag)
        /\ UNCHANGED <<dTo, copying, drawing, d_mouse, screen, ev, pos, touched>>
    BY <1>11 DEF desktop_mouse_up
  <2>2. drag' \in [Windows -> [on : BOOLEAN, source : Int, from : Int]]
    BY <2>1 DEF NoDrag, Types
  <2>3. /\ wq' \in [Windows -> Seq(WindowMessage)]
        /\ \A w \in Windows : Bounded(wq'[w], WindowMessage)
        /\ halted' \in BOOLEAN
    BY <2>1, DispatchTypes
  <2>4. Bounded(dq', DesktopMessage) /\ lost' \in BOOLEAN
    BY <1>2, <2>1
  <2> QED
    BY <1>1, <2>1, <2>2, <2>3, <2>4 DEF Rest, Types, mouseVars, serverVars, windowVars
<1>12. CASE UseFreedDesktop
  BY <1>1, <1>12 DEF Rest, UseFreedDesktop, Used, Types, mouseVars, serverVars, desktopVars, windowVars
<1> QED
  BY <1>3, <1>4, <1>5, <1>6, <1>7, <1>8, <1>9, <1>10, <1>11, <1>12 DEF Desktop

LEMMA TakesIs ==
  ASSUME Types, NEW w \in Windows, NEW T, Takes(w, T)
  PROVE  /\ wq[w] # <<>> /\ Head(wq[w]) \in WindowMessage /\ Head(wq[w]) = wq[w][1]
         /\ Head(wq[w]).type \in T /\ work[w] = Idle /\ Started
         /\ wq'[w] = Tail(wq[w]) /\ Bounded(wq[w], WindowMessage) /\ Bounded(wq'[w], WindowMessage)
         /\ Shorter(wq[w], wq'[w])
         /\ wq' \in [Windows -> Seq(WindowMessage)]
         /\ \A v \in Windows : Bounded(wq'[v], WindowMessage)
<1>1. /\ wq' = [wq EXCEPT ![w] = Tail(@)] /\ wq[w] # <<>> /\ Bounded(wq[w], WindowMessage)
      /\ Head(wq[w]).type \in T /\ work[w] = Idle /\ Started
  BY DEF Takes, Types
<1>2. /\ Bounded(Tail(wq[w]), WindowMessage) /\ Shorter(wq[w], Tail(wq[w]))
      /\ Head(wq[w]) = wq[w][1] /\ Head(wq[w]) \in WindowMessage
  BY <1>1, BoundedTail
<1>3. wq'[w] = Tail(wq[w]) /\ \A v \in Windows : v # w => wq'[v] = wq[v]
  BY <1>1 DEF Types
<1>4. wq' \in [Windows -> Seq(WindowMessage)]
  BY <1>1, <1>2 DEF Types, Bounded
<1>5. \A v \in Windows : Bounded(wq'[v], WindowMessage)
  BY <1>2, <1>3 DEF Types
<1> QED
  BY <1>1, <1>2, <1>3, <1>4, <1>5

WorkTypes ==
  /\ work \in [Windows -> [at : {"idle", "ask", "paint", "tell"}, rect : SUBSET Int]]
  /\ \A w \in Windows : work[w].rect \subseteq IF work[w].at = "tell" THEN Cells ELSE Buttons

LEMMA GoesTypes ==
  ASSUME Types, NEW w \in Windows, NEW at \in {"idle", "ask", "paint", "tell"}, NEW rect,
         rect \subseteq IF at = "tell" THEN Cells ELSE Buttons, Goes(w, at, rect)
  PROVE  WorkTypes' /\ work'[w].at = at /\ work'[w].rect = rect
<1>1. rect \in SUBSET Int
  BY Sizes DEF Buttons
<1>2. [at |-> at, rect |-> rect] \in [at : {"idle", "ask", "paint", "tell"}, rect : SUBSET Int]
  BY <1>1
<1>3. work' = [work EXCEPT ![w] = [at |-> at, rect |-> rect]]
  BY DEF Goes
<1>4. work'[w] = [at |-> at, rect |-> rect] /\ \A v \in Windows : v # w => work'[v] = work[v]
  BY <1>3 DEF Types
<1>5. work' \in [Windows -> [at : {"idle", "ask", "paint", "tell"}, rect : SUBSET Int]]
  BY <1>2, <1>3 DEF Types
<1>6. \A v \in Windows : work'[v].rect \subseteq IF work'[v].at = "tell" THEN Cells ELSE Buttons
  <2>1. work'[w].at = at /\ work'[w].rect = rect
    BY <1>4
  <2>2. ASSUME NEW v \in Windows, v # w
        PROVE  work'[v].rect \subseteq IF work'[v].at = "tell" THEN Cells ELSE Buttons
    BY <1>4, <2>2 DEF Types
  <2> QED
    BY <2>1, <2>2
<1> QED
  BY <1>4, <1>5, <1>6 DEF WorkTypes

LEMMA TypesWindow ==
  ASSUME Types, NEW w \in Windows, Window(w)
  PROVE  Types'
<1> DEFINE Rest == UNCHANGED <<mouseVars, serverVars, ev, desktop, desktopVars, children, pos>>
<1>1. Rest
  BY WindowStep
<1>2. WorkTypes
  BY DEF WorkTypes, Types
<1> HIDE DEF Rest
<1>3. CASE window_dispatch_mouse_message(w)
  <2> DEFINE m == Head(wq[w])
             hit == IF m.type # "move" /\ m.button = "left" THEN ButtonAt(m.x) ELSE {}
  <2>1. /\ Takes(w, {"move", "down", "up"})
        /\ down' = [down EXCEPT ![w] = IF m.type = "down" THEN @ \cup hit ELSE @ \ hit]
        /\ IF hit = {} THEN UNCHANGED work ELSE Goes(w, "ask", hit)
        /\ UNCHANGED <<surf, sized, home, dq, lost, halted>>
    BY <1>3 DEF window_dispatch_mouse_message
  <2>2. hit \subseteq Buttons
    BY DEF ButtonAt
  <2>3. WorkTypes'
    <3>1. CASE hit = {}
      BY <1>2, <2>1, <3>1 DEF WorkTypes
    <3>2. CASE hit # {}
      BY <2>1, <2>2, <3>2, GoesTypes
    <3> QED
      BY <3>1, <3>2
  <2> HIDE DEF hit, m
  <2>4. down' \in [Windows -> SUBSET Buttons]
    BY <2>1, <2>2 DEF Types
  <2>5. /\ wq' \in [Windows -> Seq(WindowMessage)]
        /\ \A v \in Windows : Bounded(wq'[v], WindowMessage)
    BY <2>1, TakesIs
  <2> QED
    BY <1>1, <2>1, <2>3, <2>4, <2>5
    DEF Rest, Types, WorkTypes, mouseVars, serverVars, desktopVars
<1>4. CASE window_resize(w)
  <2>1. Takes(w, {"resize"}) /\ UNCHANGED <<down, dq, lost>>
    BY <1>4 DEF window_resize
  <2>2. WorkTypes' /\ surf' \in [Windows -> [Buttons -> Faces]] /\ sized' \subseteq Windows
        /\ home' \in [Windows -> Int] /\ halted' \in BOOLEAN
    <3>1. CASE halted' = TRUE /\ UNCHANGED <<surf, sized, home, work>>
      BY <1>2, <3>1 DEF Types, WorkTypes
    <3>2. CASE /\ surf' = [surf EXCEPT ![w] = [b \in Buttons |-> "blank"]]
               /\ sized' = sized \cup {w} /\ home' = [home EXCEPT ![w] = pos[w]]
               /\ Goes(w, "ask", Buttons) /\ UNCHANGED halted
      <4>1. WorkTypes'
        BY <3>2, GoesTypes
      <4>2. [b \in Buttons |-> "blank"] \in [Buttons -> Faces]
        BY DEF Faces
      <4> QED
        BY <3>2, <4>1, <4>2 DEF Types
    <3> QED
      BY <1>4, <3>1, <3>2 DEF window_resize
  <2>3. /\ wq' \in [Windows -> Seq(WindowMessage)]
        /\ \A v \in Windows : Bounded(wq'[v], WindowMessage)
    BY <2>1, TakesIs
  <2> QED
    BY <1>1, <2>1, <2>2, <2>3
    DEF Rest, Types, WorkTypes, mouseVars, serverVars, desktopVars
<1>5. CASE AskItself(w)
  <2>1. /\ Goes(w, "idle", {}) /\ ToWindow(w, Repaint(work[w].rect)) /\ work[w].at = "ask"
        /\ UNCHANGED <<surf, down, sized, home, dq, lost, touched>>
    BY <1>5 DEF AskItself
  <2>2. Repaint(work[w].rect) \in WindowMessage
    BY <2>1, RepaintIs DEF Types
  <2>3. WorkTypes'
    BY <2>1, GoesTypes
  <2>4. /\ wq' \in [Windows -> Seq(WindowMessage)]
        /\ \A v \in Windows : Bounded(wq'[v], WindowMessage)
        /\ halted' \in BOOLEAN
    BY <2>1, <2>2, ToWindowTypes
  <2> QED
    BY <1>1, <2>1, <2>3, <2>4
    DEF Rest, Types, WorkTypes, mouseVars, serverVars, desktopVars
<1>6. CASE window_repaint(w)
  <2> DEFINE rect == Head(wq[w]).rect
  <2>1. /\ Takes(w, {"repaint"}) /\ Goes(w, "paint", rect)
        /\ surf' = [surf EXCEPT ![w] = [b \in Buttons |-> IF b \in rect THEN "blank" ELSE @[b]]]
        /\ UNCHANGED <<down, sized, home, dq, lost, halted>>
    BY <1>6 DEF window_repaint
  <2>2. rect \subseteq Buttons
    BY <2>1, TakesIs DEF WindowMessage
  <2> HIDE DEF rect
  <2>3. WorkTypes'
    BY <2>1, <2>2, GoesTypes
  <2>4. surf' \in [Windows -> [Buttons -> Faces]]
    BY <2>1 DEF Types, Faces
  <2>5. /\ wq' \in [Windows -> Seq(WindowMessage)]
        /\ \A v \in Windows : Bounded(wq'[v], WindowMessage)
    BY <2>1, TakesIs
  <2> QED
    BY <1>1, <2>1, <2>3, <2>4, <2>5
    DEF Rest, Types, WorkTypes, mouseVars, serverVars, desktopVars
<1>7. CASE button_repaint(w)
  <2> DEFINE b == Min(Unpainted(w))
  <2>1. /\ surf' = [surf EXCEPT ![w][b] = Face(w, b)]
        /\ UNCHANGED <<work, down, sized, home, wq, dq, lost, touched, halted>>
    BY <1>7 DEF button_repaint
  <2>2. surf' \in [Windows -> [Buttons -> Faces]]
    BY <2>1 DEF Types, Face, Faces
  <2> QED
    BY <1>1, <2>1, <2>2 DEF Rest, Types, mouseVars, serverVars, desktopVars
<1>8. CASE hj_control_request_parent_repaint(w)
  <2>1. /\ \/ UNCHANGED work /\ halted' = TRUE
           \/ Goes(w, "tell", {pos[w] + 1 + b : b \in work[w].rect} \cap Cells) /\ UNCHANGED halted
        /\ UNCHANGED <<surf, down, sized, home, wq, dq, lost>>
    BY <1>8 DEF hj_control_request_parent_repaint, Used
  <2> DEFINE rect == {pos[w] + 1 + b : b \in work[w].rect} \cap Cells
  <2>2. rect \subseteq Cells
    OBVIOUS
  <2> HIDE DEF rect
  <2>3. WorkTypes' /\ halted' \in BOOLEAN
    <3>1. CASE UNCHANGED work /\ halted' = TRUE
      BY <1>2, <3>1 DEF WorkTypes
    <3>2. CASE Goes(w, "tell", rect) /\ UNCHANGED halted
      BY <2>2, <3>2, GoesTypes DEF Types
    <3> QED
      BY <2>1, <3>1, <3>2 DEF rect
  <2> QED
    BY <1>1, <2>1, <2>3 DEF Rest, Types, WorkTypes, mouseVars, serverVars, desktopVars
<1>9. CASE TellDesktop(w)
  <2>1. /\ \/ UNCHANGED <<work, dq, lost>> /\ halted' = TRUE
           \/ Goes(w, "idle", {}) /\ ToDesktop(<<Repaint(work[w].rect)>>) /\ UNCHANGED halted
        /\ UNCHANGED <<surf, down, sized, home, wq>> /\ work[w].at = "tell"
    BY <1>9 DEF TellDesktop, Used
  <2>2. WorkTypes' /\ halted' \in BOOLEAN /\ Bounded(dq', DesktopMessage) /\ lost' \in BOOLEAN
    <3>1. CASE UNCHANGED <<work, dq, lost>> /\ halted' = TRUE
      BY <1>2, <3>1 DEF WorkTypes, Types
    <3>2. CASE Goes(w, "idle", {}) /\ ToDesktop(<<Repaint(work[w].rect)>>) /\ UNCHANGED halted
      <4>1. Repaint(work[w].rect) \in DesktopMessage
        BY <2>1, RepaintIs DEF Types
      <4>2. Bounded(dq', DesktopMessage) /\ lost' \in BOOLEAN
        BY <3>2, <4>1, SentIs DEF ToDesktop, Types, Lost
      <4>3. WorkTypes'
        BY <3>2, GoesTypes
      <4> QED
        BY <3>2, <4>2, <4>3 DEF Types
    <3> QED
      BY <2>1, <3>1, <3>2
  <2> QED
    BY <1>1, <2>1, <2>2 DEF Rest, Types, WorkTypes, mouseVars, serverVars, desktopVars
<1> QED
  BY <1>3, <1>4, <1>5, <1>6, <1>7, <1>8, <1>9 DEF Window

LEMMA TypesStay ==
  ASSUME Types, UNCHANGED vars
  PROVE  Types'
BY DEF Types, vars, mouseVars, serverVars, desktopVars, windowVars

LEMMA TypesKept ==
  ASSUME IInv, [Next]_vars
  PROVE  Types'
BY TypesStay, TypesMouse, TypesServer, TypesDesktop, TypesWindow DEF IInv, Next

-----------------------------------------------------------------------------
(* What is in a queue after a step was in it or has been sent. *)

LEMMA NoneSend ==
  ASSUME NEW M, NEW q, Bounded(q, M), NEW ms \in Seq(M), NEW type, None(q, type), None(ms, type)
  PROVE  None(Send(q, ms), type)
<1> DEFINE q1 == Send(q, ms)
<1>1. /\ q1 \in Seq(M)
      /\ \A i \in 1 .. Len(q1) :
           IF i <= Len(q) THEN q1[i] = q[i] ELSE \E k \in 1 .. Len(ms) : q1[i] = ms[k]
  BY SendIs DEF Bounded
<1>2. Len(q) \in Nat
  BY DEF Bounded
<1> HIDE DEF q1
<1> QED
  BY <1>1, <1>2 DEF None, q1

LEMMA NoneShorter ==
  ASSUME NEW M, NEW q, NEW q1, Bounded(q1, M), Shorter(q, q1), NEW type, None(q, type)
  PROVE  None(q1, type)
BY DEF None, Shorter, Bounded

LEMMA NoneLonger ==
  ASSUME NEW M, NEW q, NEW m, NEW q1, Bounded(q, M), Longer(q, m, q1), NEW type
  PROVE  None(q1, type) <=> None(q, type) /\ m.type # type
<1>1. Len(q) \in Nat
  BY DEF Bounded
<1> QED
  BY <1>1 DEF None, Longer

(* The same for the types that are there *)
LEMMA OnlyLonger ==
  ASSUME NEW M, NEW q, NEW m, NEW q1, Bounded(q, M), Longer(q, m, q1), NEW T,
         \A i \in 1 .. Len(q) : q[i].type \in T, m.type \in T
  PROVE  \A i \in 1 .. Len(q1) : q1[i].type \in T
<1>1. Len(q) \in Nat
  BY DEF Bounded
<1> QED
  BY <1>1 DEF Longer

LEMMA OnlyShorter ==
  ASSUME NEW M, NEW q, NEW q1, Bounded(q1, M), Shorter(q, q1), NEW T,
         \A i \in 1 .. Len(q) : q[i].type \in T
  PROVE  \A i \in 1 .. Len(q1) : q1[i].type \in T
BY DEF Shorter, Bounded

LEMMA NoneOne ==
  ASSUME NEW m, NEW type, m.type # type
  PROVE  None(<<m>>, type)
BY DEF None

LEMMA NoneTwo ==
  ASSUME NEW m, NEW n, NEW type, m.type # type, n.type # type
  PROVE  None(<<m, n>>, type)
BY DEF None

(* What a window's thread does to the desktop's queue *)
LEMMA WindowTells ==
  ASSUME Types, NEW w \in Windows, Window(w)
  PROVE  \/ UNCHANGED <<dq, lost>>
         \/ /\ desktop = "live" /\ \E m \in DesktopMessage : /\ m.type = "repaint"
               /\ dq' = Send(dq, <<m>>) /\ lost' = (lost \/ Lost(dq, <<m>>))
<1>1. CASE UNCHANGED <<dq, lost>>
  BY <1>1
<1>2. CASE TellDesktop(w) /\ desktop = "live" /\ ToDesktop(<<Repaint(work[w].rect)>>)
  <2> DEFINE m == Repaint(work[w].rect)
  <2>1. work[w].rect \subseteq Cells
    BY <1>2 DEF TellDesktop, Types
  <2>2. m \in DesktopMessage /\ m.type = "repaint"
    BY <2>1, RepaintIs
  <2>3. dq' = Send(dq, <<m>>) /\ lost' = (lost \/ Lost(dq, <<m>>))
    BY <1>2 DEF ToDesktop
  <2> HIDE DEF m
  <2> QED
    BY <1>2, <2>2, <2>3
<1> QED
  BY <1>1, <1>2, WindowStep

(* ... and the desktop to its own, when it takes or when it asks. *)
LEMMA DesktopAsks ==
  ASSUME Types, Desktop
  PROVE  \/ UNCHANGED <<dq, lost>>
         \/ \E type \in MessageTypes : Handles(type) /\ dq' = Tail(dq) /\ UNCHANGED lost
         \/ dTo # -1 /\ \E m \in DesktopMessage :
              m.type = "repaint" /\ dq' = Send(dq, <<m>>) /\ lost' = (lost \/ Lost(dq, <<m>>))
         \/ Handles("move") /\ \E ms \in Seq(DesktopMessage) :
              /\ \A type \in MessageTypes \ {"repaint"} : None(ms, type)
              /\ dq' = Send(Tail(dq), ms) /\ lost' = (lost \/ Lost(Tail(dq), ms))
<1>1. ASSUME NEW type \in MessageTypes, Handles(type), Taken
      PROVE  \E t \in MessageTypes : Handles(t) /\ dq' = Tail(dq) /\ UNCHANGED lost
  BY <1>1 DEF Taken
<1>2. CASE \/ DisableDrawing \/ EnableDrawing \/ desktop_resize \/ desktop_repaint
           \/ desktop_mouse_down \/ desktop_mouse_up
  BY <1>1, <1>2 DEF DisableDrawing, EnableDrawing, desktop_resize, desktop_repaint,
     desktop_mouse_down, desktop_mouse_up, MessageTypes
<1>3. CASE desktop_blit_subcontrol \/ UseFreedDesktop
  BY <1>3 DEF desktop_blit_subcontrol, UseFreedDesktop
<1>4. CASE desktop_mouse_move
  <2> DEFINE m == Repaint({d_mouse})
             n == Repaint({d_mouse'})
             ms == IF d_mouse' = d_mouse THEN <<m>> ELSE <<m, n>>
  <2>1. Handles("move") /\ TakenAsking(ms) /\ d_mouse' = Head(dq).x
    BY <1>4 DEF desktop_mouse_move
  <2>2. d_mouse' \in Cells /\ d_mouse \in Cells
    BY <2>1, HeadIs DEF Types
  <2>3. m \in DesktopMessage /\ n \in DesktopMessage /\ m.type = "repaint" /\ n.type = "repaint"
    BY <2>2, RepaintIs
  <2> HIDE DEF m, n
  <2>4. ms \in Seq(DesktopMessage)
    BY <2>3
  <2>5. ASSUME NEW type \in MessageTypes \ {"repaint"}
        PROVE  None(ms, type)
    BY <2>3, <2>5, NoneOne, NoneTwo
  <2> HIDE DEF ms
  <2> QED
    BY <2>1, <2>4, <2>5 DEF TakenAsking
<1>5. CASE desktop_mouse_move_handle_dragging
  <2> DEFINE w == Min(Dragged)
             m == Repaint(Uncovered(w, DraggedTo(w, dTo)) \cap Cells)
  <2>1. UNCHANGED <<dq, lost>> \/ (dTo # -1 /\ ToDesktop(<<m>>))
    BY <1>5 DEF desktop_mouse_move_handle_dragging
  <2>2. m \in DesktopMessage /\ m.type = "repaint"
    BY RepaintIs
  <2> HIDE DEF m
  <2> QED
    BY <2>1, <2>2 DEF ToDesktop
<1> QED
  BY <1>2, <1>3, <1>4, <1>5 DEF Desktop

-----------------------------------------------------------------------------
(* The start *)

LEMMA StartingServer ==
  ASSUME Types, Starting, Server
  PROVE  Starting'
<1> DEFINE Rest == UNCHANGED <<held, plan, desktopVars, windowVars, touched, halted>>
           Only(q) == \A i \in 1 .. Len(q) : q[i].type \in ServerTypes
<1>1. Rest
  BY ServerStep
<1>2. ASSUME NEW from, NEW to, NEW m \in DesktopMessage, Told(from, to, m), m.type \in ServerTypes,
             from \in Early, to \in Early \cup {"free event"}, to \in Early => m.type # "repaint"
      PROVE  Starting'
  <2>1. Bounded(dq, DesktopMessage) /\ Longer(dq, m, dq')
    BY <1>2, BoundedAppend DEF Told, Types
  <2>2. Only(dq)
    BY <1>2 DEF Told, Starting, Early
  <2>3. Only(dq')
    BY <1>2, <2>1, <2>2, OnlyLonger
  <2>4. to \in Early => None(dq', "repaint")
    BY <1>2, <2>1, NoneLonger DEF Told, Starting
  <2> HIDE DEF Only
  <2>5. Only(dq')
    BY <2>3 DEF Only
  <2> QED
    BY <1>1, <1>2, <2>4, <2>5 DEF Told, Starting, Started, Early, Only, mouseVars, desktopVars, windowVars
<1>3. ASSUME NEW from \in {"wait", "nxgi", "subscribe"}, NEW to \in {"nxgi", "enable", "read"}, Passes(from, to),
             from = "subscribe" <=> to = "read"
      PROVE  Starting'
  BY <1>1, <1>3 DEF Passes, Starting, Started, Early, mouseVars, desktopVars, windowVars
<1>4. CASE GivesUp
  BY <1>1, <1>4 DEF GivesUp, Starting, Started, Early, mouseVars, desktopVars, windowVars
<1>5. CASE FreesEvent
  <2>1. children = 0 /\ plan.windows \in Nat /\ 0 < plan.windows
    <3>1. children = 0
      BY <1>5 DEF FreesEvent, Starting
    <3>2. plan.windows \in Windows
      BY DEF Types
    <3>3. \A p \in Windows : p \in Nat /\ 0 < p
      BY Sizes
    <3> QED
      BY <3>1, <3>2, <3>3, Zenon
  <2>2. plan' = plan /\ children' = children
    BY <1>1, <1>5 DEF FreesEvent
  <2>3. children' < plan'.windows
    BY <2>1, <2>2
  <2> QED
    BY <1>1, <1>5, <2>3 DEF FreesEvent, Starting, Started, Early, mouseVars, desktopVars, windowVars
<1>6. CASE AddsWindow
  <2>1. children \in Nat /\ plan.windows \in Nat /\ children < plan.windows
    BY <1>6, Sizes DEF AddsWindow, Starting, Types
  <2>2. children' \in 1 .. plan'.windows
    BY <1>1, <1>6, <2>1 DEF AddsWindow
  <2> QED
    BY <1>1, <1>6, <2>2 DEF AddsWindow, Starting, Started, Early, mouseVars, desktopVars, windowVars
<1>7. CASE PlacesWindow
  <2>1. children \in 1 .. plan.windows /\ plan.windows \in Nat
    BY <1>7, Sizes DEF PlacesWindow, Starting, Types
  <2>2. sAt' = "windows" => children' < plan'.windows
    BY <1>1, <1>7, <2>1 DEF PlacesWindow
  <2> QED
    BY <1>1, <1>7, <2>2 DEF PlacesWindow, Starting, Started, Early, mouseVars, desktopVars, windowVars
<1>8. CASE FreesDesktop
  BY <1>1, <1>8 DEF FreesDesktop, Starting, Started, Early, mouseVars, desktopVars, windowVars
<1>9. CASE henjin_process_mouse_events
  <2>1. sAt = "read" /\ sAt' = "read" /\ UNCHANGED <<fault, desktop>>
    BY <1>9, EventMessage
  <2> QED
    BY <2>1 DEF Starting, Started, Early
<1>10. CASE Told("disable", "wait", Msg("disable"))
  BY <1>2, <1>10, ServerMessages DEF Early, ServerTypes
<1>11. CASE Told("enable", "resize", Msg("enable"))
  BY <1>2, <1>11, ServerMessages DEF Early, ServerTypes
<1>12. CASE Told("resize", "repaint", Msg("resize"))
  BY <1>2, <1>12, ServerMessages DEF Early, ServerTypes
<1>13. CASE Told("repaint", "free event", Repaint(Cells))
  BY <1>2, <1>13, ServerMessages DEF Early, ServerTypes
<1> HIDE DEF Rest, Only
<1>14. CASE Passes("wait", "nxgi") \/ Passes("nxgi", "enable") \/ Passes("subscribe", "read")
  BY <1>3, <1>14
<1> QED
  BY <1>4, <1>5, <1>6, <1>7, <1>8, <1>9, <1>10, <1>11, <1>12, <1>13, <1>14, ServerStep


LEMMA StartingMouse ==
  ASSUME Starting, Move \/ Press \/ Release
  PROVE  Starting'
<1>1. sAt = "read" /\ sAt' = "read" /\ UNCHANGED <<fault, desktop>>
  BY MouseStep DEF serverVars
<1> QED
  BY <1>1 DEF Starting, Started, Early

LEMMA StartingDesktop ==
  ASSUME Types, Starting, Desktop
  PROVE  Starting'
<1>1. UNCHANGED <<ring, plan, sAt, fault, desktop, children, work, sized, home>>
  BY DesktopStep DEF mouseVars, serverVars, windowVars
<1>2. CASE sAt = "read"
  BY <1>1, <1>2 DEF Starting, Started, Early
<1>3. CASE sAt # "read"
  <2>1. /\ dTo = -1 /\ \A i \in 1 .. Len(dq) : dq[i].type \in ServerTypes
        /\ \A w \in Windows : ~drag[w].on
    BY <1>3 DEF Starting
  <2>2. ~Handles("move") /\ ~Handles("down") /\ ~Handles("up")
    <3>1. ASSUME NEW type \in {"move", "down", "up"}, Handles(type)
          PROVE  FALSE
      <4>1. 1 \in 1 .. Len(dq) /\ dq[1].type = type
        BY <3>1, HeadIs
      <4> QED
        BY <2>1, <3>1, <4>1 DEF ServerTypes
    <3> QED
      BY <3>1
  <2>3. UNCHANGED <<dTo, drag>>
    BY <2>1, <2>2 DEF Desktop, DisableDrawing, EnableDrawing, desktop_resize, desktop_repaint, desktop_blit_subcontrol,
       desktop_mouse_move, desktop_mouse_move_handle_dragging, desktop_mouse_down, desktop_mouse_up,
       UseFreedDesktop, desktopVars
  <2>4. dq' = dq \/ \E type \in MessageTypes : Handles(type) /\ dq' = Tail(dq)
    BY <2>1, <2>2, DesktopAsks
  <2>5. /\ \A i \in 1 .. Len(dq') : dq'[i].type \in ServerTypes
        /\ None(dq, "repaint") => None(dq', "repaint")
    <3>1. ASSUME NEW type \in MessageTypes, Handles(type), dq' = Tail(dq)
          PROVE  Bounded(dq', DesktopMessage) /\ Shorter(dq, dq')
      BY <3>1, HeadIs
    <3> QED
      BY <2>1, <2>4, <3>1, OnlyShorter, NoneShorter
  <2>6. ASSUME copying = {}, None(dq, "repaint")
        PROVE  copying' = {}
    <3>1. ~Handles("repaint")
      <4>1. Handles("repaint") => 1 \in 1 .. Len(dq) /\ dq[1].type = "repaint"
        BY HeadIs
      <4> QED
        BY <2>6, <4>1 DEF None
    <3> QED
      BY <2>6, <3>1 DEF Desktop, DisableDrawing, EnableDrawing, desktop_resize, desktop_repaint, desktop_blit_subcontrol,
         desktop_mouse_move, desktop_mouse_move_handle_dragging, desktop_mouse_down, desktop_mouse_up,
         UseFreedDesktop, desktopVars
  <2> QED
    BY <1>1, <1>3, <2>1, <2>3, <2>5, <2>6 DEF Starting, Started
<1> QED
  BY <1>2, <1>3

(* Only threads that have been started work. *)
LEMMA WorksStarted ==
  ASSUME Types, Starting, NEW w \in Windows, Window(w)
  PROVE  Started /\ sAt \notin Early \cup {"free event", "windows", "place"}
<1>1. Started
  <2>1. CASE window_dispatch_mouse_message(w) \/ window_resize(w) \/ window_repaint(w)
    BY <2>1 DEF window_dispatch_mouse_message, window_resize, window_repaint, Takes
  <2>2. CASE AskItself(w) \/ button_repaint(w) \/ hj_control_request_parent_repaint(w) \/ TellDesktop(w)
    <3>1. work[w].at # "idle"
      BY <2>2 DEF AskItself, button_repaint, hj_control_request_parent_repaint, TellDesktop
    <3>2. work # [v \in Windows |-> Idle]
      BY <3>1 DEF Idle
    <3> QED
      BY <3>2 DEF Starting
  <2> QED
    BY <2>1, <2>2 DEF Window
<1>2. fault = "subscribe" => sAt \in {"failed", "ended"}
  BY DEF Starting
<1> QED
  BY <1>1, <1>2 DEF Started, Early

LEMMA StartingWindow ==
  ASSUME Types, Starting, NEW w \in Windows, Window(w)
  PROVE  Starting'
<1>1. UNCHANGED <<ring, plan, sAt, fault, desktop, children, dTo, drag, copying>>
  BY WindowStep DEF mouseVars, serverVars, desktopVars
<1>2. Started /\ sAt \notin Early \cup {"free event", "windows", "place"}
  BY WorksStarted
<1>3. CASE sAt = "read"
  BY <1>1, <1>3 DEF Starting, Started, Early
<1>4. CASE sAt # "read"
  <2>1. \A i \in 1 .. Len(dq) : dq[i].type \in ServerTypes
    BY <1>4 DEF Starting
  <2>2. \A i \in 1 .. Len(dq') : dq'[i].type \in ServerTypes
    <3>1. ASSUME NEW m \in DesktopMessage, m.type = "repaint", dq' = Send(dq, <<m>>)
          PROVE  \A i \in 1 .. Len(dq') : dq'[i].type \in ServerTypes
      <4>1. Bounded(dq, DesktopMessage) /\ m.type \in ServerTypes
        BY <3>1 DEF Types, ServerTypes
      <4>2. dq' = dq \/ Longer(dq, m, dq')
        BY <3>1, <4>1, SentIs
      <4> QED
        BY <2>1, <4>1, <4>2, OnlyLonger
    <3> QED
      BY <2>1, <3>1, WindowTells
  <2> QED
    BY <1>1, <1>2, <1>4, <2>2 DEF Starting, Started
<1> QED
  BY <1>3, <1>4

LEMMA StartingKept ==
  ASSUME IInv, [Next]_vars
  PROVE  Starting'
<1>1. CASE UNCHANGED vars
  BY <1>1 DEF IInv, Starting, Started, None, vars, mouseVars, serverVars, desktopVars, windowVars
<1> QED
  BY <1>1, StartingMouse, StartingServer, StartingDesktop, StartingWindow DEF IInv, Next

-----------------------------------------------------------------------------
(* The answer of the desktop *)

LEMMA OnceShorter ==
  ASSUME NEW M, NEW q, NEW q1, Bounded(q, M), Bounded(q1, M), Shorter(q, q1), DisableOnce(q)
  PROVE  DisableOnce(q1) /\ (q[1].type = "disable" => None(q1, "disable"))
<1>1. Len(q1) \in Nat /\ Len(q) = Len(q1) + 1
  BY DEF Shorter, Bounded
<1>2. \A i \in 1 .. Len(q1) : i + 1 \in 1 .. Len(q) /\ i + 1 # 1 /\ q1[i] = q[i + 1] /\ 1 \in 1 .. Len(q)
  BY <1>1 DEF Shorter
<1>3. \A i, j \in 1 .. Len(q1) : i + 1 = j + 1 => i = j
  BY <1>1
<1> QED
  BY <1>2, <1>3 DEF DisableOnce, None

LEMMA OnceSend ==
  ASSUME NEW M, NEW q, Bounded(q, M), NEW ms \in Seq(M), DisableOnce(q), None(ms, "disable")
  PROVE  DisableOnce(Send(q, ms))
<1> DEFINE q1 == Send(q, ms)
<1>1. /\ q1 \in Seq(M)
      /\ \A i \in 1 .. Len(q1) :
           IF i <= Len(q) THEN q1[i] = q[i] ELSE \E k \in 1 .. Len(ms) : q1[i] = ms[k]
  BY SendIs DEF Bounded
<1>2. Len(q) \in Nat
  BY DEF Bounded
<1> HIDE DEF q1
<1>3. \A i \in 1 .. Len(q1) : q1[i].type = "disable" => i \in 1 .. Len(q) /\ q1[i] = q[i]
  BY <1>1, <1>2 DEF None
<1> QED
  BY <1>3 DEF DisableOnce, q1

LEMMA OnceLonger ==
  ASSUME NEW M, NEW q, NEW m, NEW q1, Bounded(q, M), Longer(q, m, q1), DisableOnce(q),
         m.type # "disable" \/ None(q, "disable")
  PROVE  DisableOnce(q1)
<1>1. Len(q) \in Nat
  BY DEF Bounded
<1>2. \A i \in 1 .. Len(q1) :
        (i \in 1 .. Len(q) /\ q1[i] = q[i]) \/ (i = Len(q) + 1 /\ q1[i] = m)
  BY <1>1 DEF Longer
<1> QED
  BY <1>1, <1>2 DEF DisableOnce, None

LEMMA AnsweringServer ==
  ASSUME Types, Starting, Answering, Server
  PROVE  Answering'
<1>1. touched' = touched
  BY ServerStep
<1>2. Bounded(dq, DesktopMessage) /\ DisableOnce(dq)
  BY DEF Types, Answering
<1>3. CASE Told("disable", "wait", Msg("disable"))
  <2>1. ev = "clear" /\ None(dq, "disable")
    BY <1>3 DEF Told, Answering
  <2>2. DisableOnce(dq')
    BY <1>2, <1>3, <2>1, BoundedAppend, OnceLonger, ServerMessages DEF Told
  <2> QED
    BY <1>1, <1>3, <2>1, <2>2 DEF Told, Answering
<1>4. ASSUME NEW from \in {"enable", "resize", "repaint"}, NEW to \in {"resize", "repaint", "free event"},
             NEW m \in DesktopMessage, Told(from, to, m), m.type # "disable"
      PROVE  Answering'
  <2>1. None(dq, "disable")
    BY <1>4 DEF Told, Answering, Starting
  <2>2. None(dq', "disable") /\ DisableOnce(dq')
    BY <1>2, <1>4, <2>1, BoundedAppend, OnceLonger, NoneLonger DEF Told
  <2> QED
    BY <1>1, <1>4, <2>2 DEF Told, Answering
<1>5. CASE Told("enable", "resize", Msg("enable")) \/ Told("resize", "repaint", Msg("resize"))
           \/ Told("repaint", "free event", Repaint(Cells))
  BY <1>4, <1>5, ServerMessages
<1>6. CASE (Passes("wait", "nxgi") /\ ev = "signalled") \/ Passes("nxgi", "enable") \/ Passes("subscribe", "read")
  BY <1>1, <1>6 DEF Passes, Answering
<1>7. CASE GivesUp
  <2>1. fault = "none" /\ sAt \notin {"failed", "ended"}
    BY <1>7 DEF GivesUp, Starting, Early
  <2>2. "event" \notin touched
    BY <2>1 DEF Answering
  <2>3. sAt # "wait" => None(dq, "disable")
    BY <2>1 DEF Answering
  <2> QED
    BY <1>1, <1>2, <1>7, <2>2, <2>3 DEF GivesUp, Answering
<1>8. CASE FreesEvent \/ AddsWindow \/ PlacesWindow
  BY <1>1, <1>8 DEF FreesEvent, AddsWindow, PlacesWindow, Answering
<1>9. CASE FreesDesktop
  BY <1>1, <1>9 DEF FreesDesktop, Answering
<1>10. CASE henjin_process_mouse_events
  <2>1. sAt = "read" /\ sAt' = "read" /\ UNCHANGED <<fault, ev, desktop>>
    BY <1>10, EventMessage
  <2>2. PICK m \in DesktopMessage : m.type # "disable" /\ dq' = Send(dq, <<m>>)
    BY <1>10, EventMessage
  <2>3. None(dq, "disable")
    BY <2>1 DEF Answering, Starting
  <2>4. None(dq', "disable") /\ DisableOnce(dq')
    <3>1. dq' = dq \/ Longer(dq, m, dq')
      BY <1>2, <2>2, SentIs
    <3> QED
      BY <1>2, <2>2, <2>3, <3>1, OnceLonger, NoneLonger
  <2> QED
    BY <1>1, <2>1, <2>4 DEF Answering
<1> QED
  BY <1>3, <1>5, <1>6, <1>7, <1>8, <1>9, <1>10, ServerStep

LEMMA AnsweringDesktop ==
  ASSUME Types, Starting, Answering, Desktop
  PROVE  Answering'
<1>1. Bounded(dq, DesktopMessage) /\ DisableOnce(dq)
  BY DEF Types, Answering
<1>2. DisableOnce(dq') /\ (None(dq, "disable") => None(dq', "disable"))
  <2>1. CASE UNCHANGED dq
    BY <1>1, <2>1
  <2>2. ASSUME NEW type, Handles(type)
        PROVE  /\ DisableOnce(Tail(dq)) /\ (None(dq, "disable") => None(Tail(dq), "disable"))
               /\ Bounded(Tail(dq), DesktopMessage)
    BY <1>1, <2>2, HeadIs, OnceShorter, NoneShorter
  <2>3. ASSUME NEW ms \in Seq(DesktopMessage), None(ms, "disable"),
               (Handles("move") /\ dq' = Send(Tail(dq), ms)) \/ dq' = Send(dq, ms)
        PROVE  DisableOnce(dq') /\ (None(dq, "disable") => None(dq', "disable"))
    BY <1>1, <2>2, <2>3, OnceSend, NoneSend
  <2>4. ASSUME NEW m \in DesktopMessage, m.type = "repaint", dq' = Send(dq, <<m>>)
        PROVE  DisableOnce(dq') /\ (None(dq, "disable") => None(dq', "disable"))
    <3>1. <<m>> \in Seq(DesktopMessage) /\ None(<<m>>, "disable")
      BY <2>4, NoneOne
    <3> QED
      BY <2>3, <2>4, <3>1
  <2>5. "disable" \in MessageTypes \ {"repaint"}
    BY DEF MessageTypes
  <2> QED
    BY <2>1, <2>2, <2>3, <2>4, <2>5, DesktopAsks
<1>3. UNCHANGED <<sAt, fault, desktop>>
  BY DesktopStep DEF serverVars
<1>4. CASE DisableDrawing
  <2>1. /\ Handles("disable") /\ dq' = Tail(dq)
        /\ touched' = IF ev = "freed" THEN touched \cup {"event"} ELSE touched
        /\ ev' = IF ev = "freed" THEN ev ELSE "signalled"
    BY <1>4 DEF DisableDrawing, Taken
  <2>2. ~None(dq, "disable")
    <3>1. dq[1].type = "disable" /\ 1 \in 1 .. Len(dq)
      BY <2>1, HeadIs
    <3> QED
      BY <3>1 DEF None
  <2>3. None(dq', "disable")
    BY <1>1, <2>1, HeadIs, OnceShorter
  <2>4. fault = "wait" \/ (sAt = "wait" /\ ev # "freed")
    BY <2>2 DEF Answering
  <2>5. sAt # "disable"
    BY <2>2 DEF Answering
  <2>6. sAt = "wait" => ev' # "freed"
    BY <2>1 DEF Answering
  <2>7. "event" \in touched' => fault = "wait"
    BY <2>1, <2>4 DEF Answering
  <2>8. "desktop" \in touched' => desktop = "freed"
    BY <2>1 DEF Answering
  <2> QED
    BY <1>2, <1>3, <2>3, <2>5, <2>6, <2>7, <2>8 DEF Answering
<1>5. CASE UseFreedDesktop
  <2>1. desktop = "freed" /\ ev' = ev /\ touched' = touched \cup {"desktop"}
    BY <1>5 DEF UseFreedDesktop, Used
  <2> QED
    BY <1>2, <1>3, <2>1 DEF Answering
<1>6. ASSUME ~DisableDrawing, ~UseFreedDesktop
      PROVE  Answering'
  <2>1. UNCHANGED <<ev, touched>>
    BY <1>6 DEF Desktop, EnableDrawing, desktop_resize, desktop_repaint, desktop_blit_subcontrol, desktop_mouse_move,
       desktop_mouse_move_handle_dragging, desktop_mouse_down, desktop_mouse_up
  <2> QED
    BY <1>2, <1>3, <2>1 DEF Answering
<1> QED
  BY <1>4, <1>5, <1>6

LEMMA AnsweringKept ==
  ASSUME IInv, [Next]_vars
  PROVE  Answering'
<1>1. CASE UNCHANGED vars
  BY <1>1 DEF IInv, Answering, DisableOnce, None, vars, serverVars
<1>2. CASE Move \/ Press \/ Release
  <2>1. UNCHANGED <<sAt, fault, desktop, ev, dq, touched>>
    BY <1>2, MouseStep DEF serverVars
  <2> QED
    BY <2>1 DEF IInv, Answering, DisableOnce, None
<1>3. ASSUME NEW w \in Windows, Window(w)
      PROVE  Answering'
  <2>1. /\ UNCHANGED <<sAt, fault, desktop, ev>>
        /\ touched' = touched \/ (desktop = "freed" /\ touched' = touched \cup {"desktop"})
    BY <1>3, WindowStep DEF serverVars, IInv
  <2>2. DisableOnce(dq') /\ (None(dq, "disable") => None(dq', "disable"))
    <3>1. Bounded(dq, DesktopMessage) /\ DisableOnce(dq)
      BY DEF IInv, Types, Answering
    <3>2. ASSUME NEW m \in DesktopMessage, m.type = "repaint", dq' = Send(dq, <<m>>)
          PROVE  DisableOnce(dq') /\ (None(dq, "disable") => None(dq', "disable"))
      <4>1. dq' = dq \/ Longer(dq, m, dq')
        BY <3>1, <3>2, SentIs
      <4> QED
        BY <3>1, <3>2, <4>1, OnceLonger, NoneLonger
    <3> QED
      BY <1>3, <3>1, <3>2, WindowTells DEF IInv
  <2> QED
    BY <2>1, <2>2 DEF IInv, Answering
<1> QED
  BY <1>1, <1>2, <1>3, AnsweringServer, AnsweringDesktop DEF IInv, Next

-----------------------------------------------------------------------------
(* The pointer of the desktop goes where that of the server has been, and   *)
(* the dragged window goes with it.                                         *)

LEMMA FollowsLonger ==
  ASSUME NEW M, NEW q, NEW m, NEW q1, Bounded(q, M), Longer(q, m, q1), NEW x, NEW y, NEW y1,
         Follows(q, x, y), IF m.type = "move" THEN y1 = m.x ELSE y1 = y,
         m.type = "down" => m.x = y
  PROVE  Follows(q1, x, y1)
<1> DEFINE n == Len(q)
<1>1. n \in Nat /\ Len(q1) = n + 1 /\ q1[n + 1] = m /\ \A i \in 1 .. n : q1[i] = q[i]
  BY DEF Bounded, Longer
<1> HIDE DEF n
<1>2. ASSUME NEW k \in 0 .. n, NEW z, Moved(q, k, x, z)
      PROVE  Moved(q1, k, x, z)
  <2>1. \A j \in 1 .. k : q1[j] = q[j]
    BY <1>1
  <2> QED
    BY <1>2, <2>1 DEF Moved
<1>3. Moved(q, n, x, y) /\ Moved(q1, n, x, y)
  BY <1>1, <1>2 DEF Follows, n
<1>4. Moved(q1, n + 1, x, y1)
  <2>1. CASE m.type = "move"
    BY <1>1, <2>1 DEF Moved
  <2>2. CASE m.type # "move"
    <3>1. \A j \in 1 .. n + 1 : j \in 1 .. n \/ j = n + 1
      BY <1>1
    <3>2. \A j \in 1 .. n : j \in 1 .. n + 1 /\ \A l \in j + 1 .. n + 1 : l \in j + 1 .. n \/ l = n + 1
      BY <1>1
    <3>3. CASE x = y /\ \A j \in 1 .. n : q1[j].type # "move"
      BY <1>1, <2>2, <3>1, <3>3 DEF Moved
    <3>4. CASE \E j \in 1 .. n :
                 q1[j].type = "move" /\ q1[j].x = y /\ \A l \in j + 1 .. n : q1[l].type # "move"
      BY <1>1, <2>2, <3>2, <3>4 DEF Moved
    <3> QED
      BY <1>3, <3>3, <3>4 DEF Moved
  <2> QED
    BY <2>1, <2>2
<1>5. ASSUME NEW i \in 1 .. n + 1, q1[i].type = "down"
      PROVE  Moved(q1, i - 1, x, q1[i].x)
  <2>1. CASE i = n + 1
    <3>1. i - 1 = n /\ q1[i].x = y
      BY <1>1, <1>5, <2>1
    <3> QED
      BY <1>3, <3>1
  <2>2. CASE i # n + 1
    <3>1. i \in 1 .. n /\ i - 1 \in 0 .. n
      BY <1>1, <2>2
    <3>2. Moved(q, i - 1, x, q[i].x)
      BY <1>1, <1>5, <3>1 DEF Follows, n
    <3> QED
      BY <1>1, <1>2, <3>1, <3>2
  <2> QED
    BY <2>1, <2>2
<1> QED
  BY <1>1, <1>4, <1>5 DEF Follows

LEMMA FollowsShorter ==
  ASSUME NEW M, NEW q, NEW q1, Bounded(q1, M), Shorter(q, q1), NEW x, NEW y, NEW x1,
         Follows(q, x, y), x1 = IF q[1].type = "move" THEN q[1].x ELSE x
  PROVE  Follows(q1, x1, y) /\ (q[1].type = "down" => q[1].x = x)
<1> DEFINE n == Len(q1)
<1>1. n \in Nat /\ Len(q) = n + 1 /\ \A i \in 1 .. n : q1[i] = q[i + 1]
  BY DEF Bounded, Shorter
<1> HIDE DEF n
<1>2. ASSUME NEW k \in 0 .. n, NEW z, Moved(q, k + 1, x, z)
      PROVE  Moved(q1, k, x1, z)
  <2>1. \A j \in 1 .. k : j \in 1 .. n /\ j + 1 \in 1 .. k + 1 /\ j + 1 # 1 /\ q1[j] = q[j + 1]
    BY <1>1
  <2>2. CASE x = z /\ \A j \in 1 .. k + 1 : q[j].type # "move"
    <3>1. 1 \in 1 .. k + 1
      OBVIOUS
    <3> QED
      BY <2>1, <2>2, <3>1 DEF Moved
  <2>3. ASSUME NEW j \in 1 .. k + 1, q[j].type = "move", q[j].x = z,
               \A l \in j + 1 .. k + 1 : q[l].type # "move"
        PROVE  Moved(q1, k, x1, z)
    <3>1. CASE j = 1
      <4>1. \A l \in 1 .. k : l + 1 \in j + 1 .. k + 1
        BY <3>1
      <4> QED
        BY <2>1, <2>3, <3>1, <4>1 DEF Moved
    <3>2. CASE j # 1
      <4>1. j - 1 \in 1 .. k /\ (j - 1) + 1 = j
        BY <3>2
      <4>2. \A l \in (j - 1) + 1 .. k : l \in 1 .. k /\ l + 1 \in j + 1 .. k + 1
        OBVIOUS
      <4> QED
        BY <2>1, <2>3, <4>1, <4>2 DEF Moved
    <3> QED
      BY <3>1, <3>2
  <2> QED
    BY <1>2, <2>2, <2>3 DEF Moved
<1>3. Moved(q1, n, x1, y)
  BY <1>1, <1>2 DEF Follows
<1>4. ASSUME NEW i \in 1 .. n, q1[i].type = "down"
      PROVE  Moved(q1, i - 1, x1, q1[i].x)
  <2>1. i + 1 \in 1 .. n + 1 /\ (i + 1) - 1 = (i - 1) + 1 /\ i - 1 \in 0 .. n
    BY <1>1
  <2>2. Moved(q, (i + 1) - 1, x, q[i + 1].x)
    BY <1>1, <1>4, <2>1 DEF Follows
  <2> QED
    BY <1>1, <1>2, <2>1, <2>2
<1>5. q[1].type = "down" => q[1].x = x
  <2>1. 1 \in 1 .. Len(q) /\ ~(\E j \in 1 .. 1 - 1 : TRUE)
    BY <1>1
  <2> QED
    BY <2>1 DEF Follows, Moved
<1> QED
  BY <1>1, <1>3, <1>4, <1>5 DEF Follows, n

LEMMA FollowsSent ==
  ASSUME NEW M, NEW q, Bounded(q, M), NEW m \in M, ~Lost(q, <<m>>), NEW x, NEW y, NEW y1,
         Follows(q, x, y), IF m.type = "move" THEN y1 = m.x ELSE y1 = y,
         m.type = "down" => m.x = y
  PROVE  Follows(Send(q, <<m>>), x, y1)
BY SentIs, FollowsLonger

(* As long as nothing happens to the drags and to where the windows are *)
LEMMA DragFollowsStays ==
  ASSUME DragFollowsPointer, UNCHANGED <<dTo, d_mouse, drag, pos>>, ~lost, Dragged' = Dragged
  PROVE  DragFollowsPointer'
BY DEF DragFollowsPointer, DraggedTo

(* No window is dragged while the server adds windows. *)
LEMMA DraggedServer ==
  ASSUME Types, Starting, Server
  PROVE  /\ drag' = drag /\ dTo' = dTo /\ d_mouse' = d_mouse
         /\ IF sAt = "read" THEN pos' = pos /\ Dragged' = Dragged /\ henjin_process_mouse_events
            ELSE Dragged = {} /\ Dragged' = {} /\ UNCHANGED <<mouse, lost, held, ring>>
<1>1. drag' = drag /\ dTo' = dTo /\ d_mouse' = d_mouse /\ held' = held
  BY ServerStep DEF desktopVars
<1>2. CASE henjin_process_mouse_events
  <2>1. sAt = "read" /\ UNCHANGED <<children, pos>>
    BY <1>2, EventMessage
  <2> QED
    BY <1>1, <1>2, <2>1 DEF Dragged, Shown
<1>3. CASE ~henjin_process_mouse_events
  <2>1. sAt # "read" /\ UNCHANGED <<mouse, lost, ring>>
    BY <1>3, ServerStep DEF Told, Passes, GivesUp, FreesEvent, AddsWindow, PlacesWindow, FreesDesktop, Early, mouseVars
  <2>2. \A w \in Windows : ~drag[w].on
    BY <2>1 DEF Starting
  <2>3. Shown \subseteq Windows
    BY ShownAre DEF Types
  <2>4. Types'
    BY TypesServer
  <2>5. Shown' \subseteq Windows
    <3>1. children' \in 0 .. Len(StartPos)
      BY <2>4 DEF Types
    <3> QED
      BY <3>1, Sizes DEF Shown
  <2>6. Dragged = {}
    BY <2>2, <2>3 DEF Dragged
  <2>7. Dragged' = {}
    BY <1>1, <2>2, <2>5 DEF Dragged
  <2> QED
    BY <1>1, <2>1, <2>6, <2>7
<1> QED
  BY <1>2, <1>3

LEMMA FollowingServer ==
  ASSUME Types, Starting, Following, Server, ~lost'
  PROVE  Follows(dq, d_mouse, mouse)' /\ DragFollowsPointer'
<1>1. ~lost
  <2>1. lost => lost'
    BY DraggedServer, EventMessage
  <2> QED
    BY <2>1
<1>2. Follows(dq, d_mouse, mouse) /\ DragFollowsPointer /\ Bounded(dq, DesktopMessage)
  BY <1>1 DEF Following, Types
<1>3. UNCHANGED <<dTo, d_mouse, drag>>
  BY DraggedServer
<1>4. DragFollowsPointer'
  <2>1. CASE sAt = "read"
    BY <1>1, <1>2, <1>3, <2>1, DraggedServer, DragFollowsStays
  <2>2. CASE sAt # "read"
    <3>1. Dragged' = {}
      BY <2>2, DraggedServer
    <3> QED
      BY <3>1 DEF DragFollowsPointer
  <2> QED
    BY <2>1, <2>2
<1>5. ASSUME NEW from, NEW to, NEW m \in DesktopMessage, Told(from, to, m), m.type \notin {"move", "down"}
      PROVE  Follows(dq', d_mouse, mouse')
  <2>1. Longer(dq, m, dq') /\ mouse' = mouse
    BY <1>2, <1>5, BoundedAppend DEF Told
  <2> QED
    BY <1>2, <1>5, <2>1, FollowsLonger
<1>6. CASE henjin_process_mouse_events
  <2> DEFINE e == Head(ring)
             m == At(e.type, mouse', IF e.type = "up" THEN e.button ELSE "left")
  <2>1. /\ dq' = Send(dq, <<m>>) /\ lost' = (lost \/ Lost(dq, <<m>>))
        /\ m \in DesktopMessage /\ m.type = e.type /\ m.x = mouse'
        /\ e.type # "move" => mouse' = mouse
    BY <1>6, EventMessage
  <2> HIDE DEF m, e
  <2>2. Follows(dq', d_mouse, mouse')
    BY <1>2, <2>1, FollowsSent
  <2> QED
    BY <1>3, <1>4, <2>2
<1>7. CASE UNCHANGED <<dq, mouse>>
  BY <1>2, <1>3, <1>4, <1>7
<1>8. CASE Told("disable", "wait", Msg("disable")) \/ Told("enable", "resize", Msg("enable"))
           \/ Told("resize", "repaint", Msg("resize")) \/ Told("repaint", "free event", Repaint(Cells))
  <2>1. Follows(dq', d_mouse, mouse')
    BY <1>5, <1>8, ServerMessages
  <2> QED
    BY <1>3, <1>4, <2>1
<1> QED
  BY <1>6, <1>7, <1>8, ServerStep DEF Passes, GivesUp, FreesEvent, AddsWindow, PlacesWindow, FreesDesktop

(* The window that is dragged first *)
LEMMA FirstDragged ==
  ASSUME Types, Dragged # {}
  PROVE  Min(Dragged) \in Dragged /\ Min(Dragged) \in Windows /\ \A w \in Dragged : Min(Dragged) <= w
<1>1. Dragged \in SUBSET Nat /\ Dragged \subseteq Windows
  BY ShownAre DEF Dragged, Types
<1> QED
  BY <1>1, MinIs

LEMMA NoDistance ==
  ASSUME NEW x \in Int
  PROVE  Distance(x, x) < 2
BY DEF Distance

LEMMA FollowingDesktop ==
  ASSUME Types, Starting, Following, Desktop, ~lost'
  PROVE  Follows(dq, d_mouse, mouse)' /\ DragFollowsPointer'
<1>1. ~lost
  BY DesktopStep
<1>2. Follows(dq, d_mouse, mouse) /\ DragFollowsPointer /\ Bounded(dq, DesktopMessage)
  BY <1>1 DEF Following, Types
<1>3. UNCHANGED <<mouse, children>> /\ Shown' = Shown
  BY DesktopStep DEF serverVars
<1>4. ASSUME NEW type, Handles(type)
      PROVE  /\ Bounded(Tail(dq), DesktopMessage)
             /\ Follows(Tail(dq), IF type = "move" THEN Head(dq).x ELSE d_mouse, mouse)
             /\ type = "down" => Head(dq).x = d_mouse
  BY <1>2, <1>4, HeadIs, FollowsShorter
<1>5. CASE DisableDrawing \/ EnableDrawing \/ desktop_resize \/ desktop_repaint
  <2>1. /\ dq' = Tail(dq) /\ UNCHANGED <<dTo, d_mouse, drag, pos>>
        /\ \E type \in ServerTypes : Handles(type)
    BY <1>5 DEF DisableDrawing, EnableDrawing, desktop_resize, desktop_repaint, Taken, desktopVars, ServerTypes
  <2>2. Dragged' = Dragged
    BY <1>3, <2>1 DEF Dragged
  <2>3. Follows(dq', d_mouse, mouse)
    BY <1>4, <2>1 DEF ServerTypes
  <2> QED
    BY <1>1, <1>2, <1>3, <2>1, <2>2, <2>3, DragFollowsStays
<1>6. CASE desktop_mouse_move
  <2> DEFINE m == Repaint({d_mouse})
             n == Repaint({d_mouse'})
             q == Tail(dq)
  <2>1. Handles("move") /\ d_mouse' = Head(dq).x /\ dTo' = d_mouse'
        /\ TakenAsking(IF d_mouse' = d_mouse THEN <<m>> ELSE <<m, n>>)
    BY <1>6 DEF desktop_mouse_move
  <2>2. d_mouse' \in Cells /\ d_mouse \in Cells
    BY <2>1, HeadIs DEF Types
  <2>3. m \in DesktopMessage /\ m.type = "repaint" /\ n \in DesktopMessage /\ n.type = "repaint"
    BY <2>2, RepaintIs
  <2> HIDE DEF m, n
  <2>4. Bounded(q, DesktopMessage) /\ Follows(q, d_mouse', mouse)
    BY <1>4, <2>1
  <2> HIDE DEF q
  <2>5. ASSUME d_mouse' = d_mouse
        PROVE  Follows(dq', d_mouse', mouse)
    <3>1. dq' = Send(q, <<m>>) /\ ~Lost(q, <<m>>)
      BY <2>1, <2>5 DEF TakenAsking, q
    <3> QED
      BY <2>3, <2>4, <3>1, FollowsSent
  <2>6. ASSUME d_mouse' # d_mouse
        PROVE  Follows(dq', d_mouse', mouse)
    <3>1. dq' = Send(q, <<m, n>>) /\ ~Lost(q, <<m, n>>)
      BY <2>1, <2>6 DEF TakenAsking, q
    <3>2. Bounded(Append(q, m), DesktopMessage) /\ Longer(q, m, Append(q, m)) /\ Longer(Append(q, m), n, dq')
      BY <2>3, <2>4, <3>1, SentTwo
    <3>3. Follows(Append(q, m), d_mouse', mouse)
      BY <2>3, <2>4, <3>2, FollowsLonger
    <3> QED
      BY <2>3, <3>2, <3>3, FollowsLonger
  <2>7. Follows(dq, d_mouse, mouse)'
    BY <1>3, <2>5, <2>6
  <2>8. dTo' # -1
    BY <2>1, <2>2, Sizes
  <2> QED
    BY <2>7, <2>8 DEF DragFollowsPointer
<1>7. CASE desktop_mouse_move_handle_dragging
  <2> DEFINE w == Min(Dragged)
             to == DraggedTo(w, dTo)
             m == Repaint(Uncovered(w, to) \cap Cells)
  <2>1. /\ dTo = d_mouse /\ UNCHANGED <<d_mouse, drag>>
        /\ \/ UNCHANGED <<pos, dq, lost>> /\ (Dragged = {} \/ Distance(to, pos[w]) < 2)
           \/ Dragged # {} /\ pos' = [pos EXCEPT ![w] = to] /\ ToDesktop(<<m>>)
    BY <1>7 DEF desktop_mouse_move_handle_dragging, Types
  <2>2. Dragged' = Dragged
    BY <1>3, <2>1 DEF Dragged
  <2>3. m \in DesktopMessage /\ m.type = "repaint"
    BY RepaintIs
  <2> HIDE DEF m
  <2>4. Follows(dq', d_mouse', mouse')
    <3>1. CASE UNCHANGED dq
      BY <1>2, <1>3, <2>1, <3>1
    <3>2. CASE ToDesktop(<<m>>)
      BY <1>2, <1>3, <2>1, <2>3, <3>2, FollowsSent DEF ToDesktop
    <3> QED
      BY <2>1, <3>1, <3>2
  <2>5. ASSUME Dragged # {}
        PROVE  Distance(to, pos'[w]) < 2
    <3>1. w \in Windows
      BY <2>5, FirstDragged
    <3>2. to \in Int
      <4>1. drag[w].from \in Int /\ drag[w].source \in Int
        BY <3>1 DEF Types
      <4>2. dTo \in Int
        BY <2>1, Sizes DEF Types
      <4> HIDE DEF w
      <4> QED
        BY <4>1, <4>2 DEF DraggedTo
    <3> HIDE DEF to
    <3>3. pos'[w] = pos[w] \/ pos'[w] = to
      BY <2>1, <3>1 DEF Types
    <3>4. pos'[w] = pos[w] => Distance(to, pos[w]) < 2 \/ pos'[w] = to
      BY <2>1, <2>5, <3>1 DEF Types
    <3> QED
      BY <3>2, <3>3, <3>4, NoDistance
  <2>6. DraggedTo(w, d_mouse)' = to
    BY <2>1, <2>2 DEF DraggedTo
  <2>7. DragFollowsPointer'
    BY <2>2, <2>5, <2>6 DEF DragFollowsPointer
  <2> QED
    BY <2>4, <2>7
<1>8. CASE desktop_mouse_down
  <2> DEFINE x == Head(dq).x
             titles == {w \in Shown : pos[w] = x}
             v == Max(titles)
             d == [on |-> TRUE, source |-> x, from |-> pos[v]]
  <2>1. /\ Handles("down") /\ dq' = Tail(dq) /\ UNCHANGED <<dTo, d_mouse, pos>>
        /\ drag' = IF titles = {} THEN drag ELSE [drag EXCEPT ![v] = d]
    BY <1>8 DEF desktop_mouse_down, Taken
  <2>2. x = d_mouse /\ Follows(dq', d_mouse', mouse')
    BY <1>3, <1>4, <2>1
  <2>3. CASE titles = {}
    <3>1. Dragged' = Dragged
      BY <1>3, <2>1, <2>3 DEF Dragged
    <3> QED
      BY <1>1, <1>2, <2>1, <2>2, <2>3, <3>1, DragFollowsStays
  <2>4. CASE titles # {}
    <3>1. v \in Shown /\ v \in Windows
      BY <2>4, LastIs
    <3>2. drag'[v] = d /\ (\A u \in Windows : u # v => drag'[u] = drag[u])
      BY <2>1, <2>4, <3>1 DEF Types
    <3>3. Shown \subseteq Windows /\ Dragged \subseteq Windows
      BY ShownAre DEF Dragged, Types
    <3>4. Dragged' = Dragged \cup {v}
      BY <1>3, <3>1, <3>2, <3>3 DEF Dragged
    <3> DEFINE w == Min(Dragged')
    <3>5. w \in Dragged' /\ w \in Nat /\ \A u \in Dragged' : w <= u
      <4>1. Windows \subseteq Nat
        BY Sizes
      <4>2. Dragged' \in SUBSET Nat /\ Dragged' # {}
        BY <3>1, <3>3, <3>4, <4>1, Zenon
      <4> QED
        BY <4>2, MinIs
    <3>6. CASE w = v
      <4>1. pos'[v] = pos[v] /\ d_mouse' = x /\ pos[v] \in Int /\ d_mouse \in Int
        BY <2>1, <2>2, <3>1, Sizes DEF Types
      <4>2. drag'[w].from = pos[v] /\ drag'[w].source = d_mouse /\ pos'[w] = pos[v] /\ d_mouse' = d_mouse
        <5>1. drag'[v].from = pos[v] /\ drag'[v].source = d_mouse
          BY <2>2, <3>2
        <5> HIDE DEF w, v, x
        <5> QED
          BY <2>1, <3>6, <4>1, <5>1
      <4> HIDE DEF w
      <4>3. drag'[w].from + (d_mouse' - drag'[w].source) = pos'[w]
        <5>1. \A p, m \in Int : p + (m - m) = p
          OBVIOUS
        <5>2. drag'[w].from + (d_mouse' - drag'[w].source) = pos[v] + (d_mouse - d_mouse)
          BY <4>2
        <5> QED
          BY <4>1, <4>2, <5>1, <5>2
      <4>5. Distance(drag'[w].from + (d_mouse' - drag'[w].source), pos'[w]) < 2
        BY <4>1, <4>2, <4>3, NoDistance
      <4>6. DragFollowsPointer'
        BY <4>5 DEF DragFollowsPointer, DraggedTo, w
      <4> QED
        BY <2>2, <4>6
    <3>7. CASE w # v
      <4>1. w \in Dragged /\ w \in Windows
        BY <3>3, <3>4, <3>5, <3>7
      <4>2. w = Min(Dragged)
        <5>1. Min(Dragged) \in Dragged' /\ Min(Dragged) <= w /\ Min(Dragged) \in Windows
          BY <3>4, <4>1, FirstDragged
        <5>2. w <= Min(Dragged) /\ Min(Dragged) \in Nat
          BY <3>5, <5>1, Sizes
        <5> QED
          BY <3>5, <5>1, <5>2
      <4>3. dTo = -1
        BY <2>1 DEF Handles
      <4>4. Distance(DraggedTo(w, d_mouse), pos[w]) < 2
        BY <1>1, <1>2, <4>1, <4>2, <4>3 DEF DragFollowsPointer
      <4>5. drag'[w] = drag[w] /\ pos'[w] = pos[w] /\ d_mouse' = d_mouse
        BY <2>1, <3>2, <3>7, <4>1
      <4> HIDE DEF w
      <4>6. Distance(drag'[w].from + (d_mouse' - drag'[w].source), pos'[w]) < 2
        BY <4>4, <4>5 DEF DraggedTo
      <4>7. DragFollowsPointer'
        BY <4>6 DEF DragFollowsPointer, DraggedTo, w
      <4> QED
        BY <2>2, <4>7
    <3> QED
      BY <3>6, <3>7
  <2> QED
    BY <2>3, <2>4
<1>9. CASE desktop_mouse_up
  <2>1. Handles("up") /\ dq' = Tail(dq) /\ UNCHANGED d_mouse /\ drag' = [w \in Windows |-> NoDrag]
    BY <1>9 DEF desktop_mouse_up, Taken, EndsDrag
  <2>2. Dragged' = {}
    <3>1. Shown \subseteq Windows
      BY ShownAre DEF Types
    <3> QED
      BY <1>3, <2>1, <3>1 DEF Dragged, NoDrag
  <2>3. Follows(dq', d_mouse', mouse')
    BY <1>3, <1>4, <2>1
  <2> QED
    BY <2>2, <2>3 DEF DragFollowsPointer
<1>10. CASE desktop_blit_subcontrol \/ UseFreedDesktop
  <2>1. UNCHANGED <<dTo, d_mouse, drag, pos, dq>>
    BY <1>10 DEF desktop_blit_subcontrol, UseFreedDesktop, desktopVars
  <2>2. Dragged' = Dragged
    BY <1>3, <2>1 DEF Dragged
  <2> QED
    BY <1>1, <1>2, <1>3, <2>1, <2>2, DragFollowsStays
<1> QED
  BY <1>5, <1>6, <1>7, <1>8, <1>9, <1>10 DEF Desktop

LEMMA FollowingKept ==
  ASSUME IInv, [Next]_vars
  PROVE  Following'
<1> SUFFICES ASSUME ~lost'
             PROVE  Follows(dq, d_mouse, mouse)' /\ DragFollowsPointer'
  BY DEF Following
<1>1. ASSUME UNCHANGED <<dTo, d_mouse, drag, pos, mouse, children>>, ~lost,
             UNCHANGED dq \/ \E m \in DesktopMessage : /\ m.type = "repaint" /\ dq' = Send(dq, <<m>>)
                                               /\ ~Lost(dq, <<m>>)
      PROVE  Follows(dq, d_mouse, mouse)' /\ DragFollowsPointer'
  <2>1. Dragged' = Dragged
    BY <1>1 DEF Dragged, Shown
  <2>2. Follows(dq, d_mouse, mouse) /\ DragFollowsPointer /\ Bounded(dq, DesktopMessage)
    BY <1>1 DEF IInv, Following, Types
  <2>3. Follows(dq', d_mouse, mouse)
    BY <1>1, <2>2, FollowsSent
  <2> QED
    BY <1>1, <2>1, <2>2, <2>3, DragFollowsStays
<1>2. CASE UNCHANGED vars
  BY <1>1, <1>2 DEF vars, serverVars, desktopVars
<1>3. CASE Move \/ Press \/ Release
  BY <1>1, <1>3, MouseStep DEF serverVars, desktopVars
<1>4. ASSUME NEW w \in Windows, Window(w)
      PROVE  Follows(dq, d_mouse, mouse)' /\ DragFollowsPointer'
  <2>1. UNCHANGED <<dTo, d_mouse, drag, pos, mouse, children>>
    BY <1>4, WindowStep DEF serverVars, desktopVars, IInv
  <2>2. /\ ~lost
        /\ UNCHANGED dq \/ \E m \in DesktopMessage : /\ m.type = "repaint" /\ dq' = Send(dq, <<m>>)
                                              /\ ~Lost(dq, <<m>>)
    BY <1>4, WindowTells DEF IInv
  <2> QED
    BY <1>1, <2>1, <2>2
<1> QED
  BY <1>2, <1>3, <1>4, FollowingServer, FollowingDesktop DEF IInv, Next

-----------------------------------------------------------------------------
(* Every press is followed by a release, and a release ends every drag. *)

LEMMA ReleasedLonger ==
  ASSUME NEW q, NEW m, NEW q1, Len(q) \in Nat, Longer(q, m, q1),
         m.type = "up" \/ (m.type # "down" /\ Released(q))
  PROVE  Released(q1) /\ (m.type = "up" => ~None(q1, "up"))
<1>1. CASE m.type = "up"
  BY <1>1 DEF Longer, Released, None
<1>2. CASE m.type # "down" /\ Released(q)
  <2>1. \A i \in 1 .. Len(q1) : i \in 1 .. Len(q) \/ i = Len(q) + 1
    BY DEF Longer
  <2>2. \A i \in 1 .. Len(q) : \A j \in i + 1 .. Len(q) : j \in i + 1 .. Len(q1) /\ q1[j] = q[j]
    BY DEF Longer
  <2> QED
    BY <1>2, <2>1, <2>2 DEF Longer, Released, None
<1> QED
  BY <1>1, <1>2

LEMMA ReleasedShorter ==
  ASSUME NEW q, NEW q1, Len(q1) \in Nat, Shorter(q, q1)
  PROVE  /\ Released(q) => Released(q1) /\ (q[1].type = "down" => ~None(q1, "up"))
         /\ None(q1, "up") /\ q[1].type # "up" => None(q, "up")
<1>1. Len(q) = Len(q1) + 1 /\ \A i \in 1 .. Len(q1) : q1[i] = q[i + 1]
  BY DEF Shorter
<1>2. \A i \in 2 .. Len(q) : i - 1 \in 1 .. Len(q1) /\ q1[i - 1] = q[i]
  BY <1>1
<1>3. None(q1, "up") /\ q[1].type # "up" => None(q, "up")
  BY <1>1, <1>2 DEF None
<1>4. ASSUME Released(q), NEW i \in 1 .. Len(q1), q1[i].type = "down"
      PROVE  \E j \in i + 1 .. Len(q1) : q1[j].type = "up"
  <2>1. PICK j \in (i + 1) + 1 .. Len(q) : q[j].type = "up"
    BY <1>1, <1>4 DEF Released
  <2>2. j - 1 \in i + 1 .. Len(q1) /\ q1[j - 1] = q[j]
    BY <1>1, <1>2
  <2> QED
    BY <2>1, <2>2
<1>5. ASSUME Released(q), q[1].type = "down"
      PROVE  ~None(q1, "up")
  <2>1. PICK j \in 2 .. Len(q) : q[j].type = "up"
    BY <1>1, <1>5 DEF Released
  <2> QED
    BY <1>2, <2>1 DEF None
<1> QED
  BY <1>3, <1>4, <1>5 DEF Released

LEMMA ReleasedSend ==
  ASSUME NEW M, NEW q, Bounded(q, M), NEW ms \in Seq(M), None(ms, "down")
  PROVE  /\ Released(q) => Released(Send(q, ms))
         /\ \A type : None(Send(q, ms), type) => None(q, type)
<1> DEFINE q1 == Send(q, ms)
<1>1. /\ q1 \in Seq(M) /\ Len(q) <= Len(q1)
      /\ \A i \in 1 .. Len(q1) :
           IF i <= Len(q) THEN q1[i] = q[i] ELSE \E k \in 1 .. Len(ms) : q1[i] = ms[k]
  BY SendIs DEF Bounded
<1>2. Len(q) \in Nat
  BY DEF Bounded
<1> HIDE DEF q1
<1>3. \A i \in 1 .. Len(q) : i \in 1 .. Len(q1) /\ q1[i] = q[i]
  BY <1>1, <1>2
<1>4. \A i \in 1 .. Len(q1) : q1[i].type = "down" => i \in 1 .. Len(q)
  BY <1>1, <1>2 DEF None
<1>5. ASSUME Released(q), NEW i \in 1 .. Len(q1), q1[i].type = "down"
      PROVE  \E j \in i + 1 .. Len(q1) : q1[j].type = "up"
  <2>1. PICK j \in i + 1 .. Len(q) : q[j].type = "up"
    BY <1>3, <1>4, <1>5 DEF Released
  <2>2. j \in 1 .. Len(q) /\ j \in i + 1 .. Len(q1)
    BY <1>1, <1>2
  <2> QED
    BY <1>3, <2>1, <2>2
<1> QED
  BY <1>3, <1>5 DEF Released, None, q1

(* Where only the desktop's queue gets longer, and nobody is dragged anew *)
LEMMA ReleasingSend ==
  ASSUME Types, Releasing, ~lost, UNCHANGED <<held, ring>>, Dragged' = Dragged,
         UNCHANGED dq \/ \E ms \in Seq(DesktopMessage) : None(ms, "down") /\ dq' = Send(dq, ms)
  PROVE  Releasing'
<1>1. Bounded(dq, DesktopMessage)
  BY DEF Types
<1>2. (Released(dq) => Released(dq')) /\ (None(dq', "up") => None(dq, "up"))
  BY <1>1, ReleasedSend
<1> QED
  BY <1>2 DEF Releasing

LEMMA ReleasingMouse ==
  ASSUME Types, Releasing, Move \/ Press \/ Release
  PROVE  Releasing'
<1>1. PICK e \in EventType :
        /\ MouseEvent(e)
        /\ \/ e.type = "move" /\ held' = held
           \/ held' # {}
           \/ e.type = "up"
  <2>1. CASE Move
    <3>1. PICK d \in Steps : MouseEvent([type |-> "move", by |-> d, button |-> "left"])
      BY <2>1 DEF Move
    <3>2. [type |-> "move", by |-> d, button |-> "left"] \in EventType
      BY Sizes DEF EventType, MouseButtons
    <3> QED
      BY <2>1, <3>1, <3>2 DEF Move
  <2>2. CASE Press
    <3>1. PICK b \in MouseButtons \ held :
            held' = held \cup {b} /\ MouseEvent([type |-> "down", by |-> 0, button |-> b])
      BY <2>2 DEF Press
    <3>2. [type |-> "down", by |-> 0, button |-> b] \in EventType
      BY DEF EventType
    <3> QED
      BY <3>1, <3>2
  <2>3. CASE Release
    <3>1. PICK b \in held :
            held' = held \ {b} /\ MouseEvent([type |-> "up", by |-> 0, button |-> b])
      BY <2>3 DEF Release
    <3>2. [type |-> "up", by |-> 0, button |-> b] \in EventType
      BY DEF EventType, Types
    <3> QED
      BY <3>1, <3>2
  <2> QED
    BY <2>1, <2>2, <2>3
<1>2. UNCHANGED <<dq, drag, children>> /\ (~lost' => ~lost)
  BY MouseStep DEF desktopVars
<1>3. Dragged' = Dragged
  BY <1>2 DEF Dragged, Shown
<1>4. ASSUME ~lost', held' = {}
      PROVE  Len(ring) \in Nat /\ Longer(ring, e, ring')
  <2>1. ring \in Seq(EventType)
    BY DEF Types
  <2>2. MouseEvent(e)
    BY <1>1
  <2>3. ring' = Append(ring, e)
    BY <1>4, <2>2 DEF MouseEvent
  <2> QED
    BY <2>1, <2>3, AppendIs
<1>5. ASSUME ~lost', held' = {}, e.type = "up"
      PROVE  Released(ring') /\ ~None(ring', "up")
  BY <1>4, <1>5, ReleasedLonger
<1>6. ASSUME ~lost', held' = {}, e.type = "move", held' = held
      PROVE  Released(ring') /\ (None(ring', "up") => None(ring, "up"))
  <2>1. Released(ring)
    BY <1>2, <1>6 DEF Releasing
  <2>2. None(ring', "up") => None(ring, "up")
    BY <1>4, <1>6 DEF None, Longer
  <2> QED
    BY <1>4, <1>6, <2>1, <2>2, ReleasedLonger
<1> QED
  BY <1>1, <1>2, <1>3, <1>5, <1>6 DEF Releasing

LEMMA ReleasingServer ==
  ASSUME Types, Starting, Releasing, Server
  PROVE  Releasing'
<1>1. lost' \/ ~lost
  BY DraggedServer, EventMessage
<1>2. Dragged' = Dragged /\ held' = held /\ Bounded(dq, DesktopMessage)
  BY DraggedServer, ServerStep DEF Types
<1> SUFFICES ASSUME ~lost, ~lost'
             PROVE  Releasing'
  BY <1>1 DEF Releasing
<1>3. ASSUME NEW from, NEW to, NEW m \in DesktopMessage, Told(from, to, m), m.type \notin {"down", "up"}
      PROVE  Releasing'
  <2>1. ring' = ring /\ Longer(dq, m, dq') /\ Len(dq) \in Nat
    BY <1>2, <1>3, BoundedAppend DEF Told, mouseVars, Bounded
  <2>2. (Released(dq) => Released(dq')) /\ (None(dq', "up") => None(dq, "up"))
    BY <1>2, <1>3, <2>1, ReleasedLonger, NoneLonger
  <2> QED
    BY <1>2, <2>1, <2>2 DEF Releasing
<1>4. CASE UNCHANGED <<ring, dq>>
  BY <1>2, <1>4, ReleasingSend
<1>5. CASE henjin_process_mouse_events
  <2> DEFINE e == Head(ring)
             m == At(e.type, mouse', IF e.type = "up" THEN e.button ELSE "left")
  <2>1. /\ dq' = Send(dq, <<m>>) /\ lost' = (lost \/ Lost(dq, <<m>>))
        /\ m \in DesktopMessage /\ m.type = e.type /\ e.type \in {"move", "down", "up"}
        /\ e = ring[1] /\ Shorter(ring, ring') /\ Len(ring') \in Nat
    BY <1>5, EventMessage
  <2>2. UNCHANGED held
    BY <1>2
  <2> HIDE DEF m, e
  <2>3. Longer(dq, m, dq') /\ Len(dq) \in Nat
    <3>1. Len(dq) \in Nat
      BY <1>2 DEF Bounded
    <3> QED
      BY <1>2, <2>1, <3>1, SentIs
  <2>4. (None(dq', "up") => None(dq, "up")) /\ (m.type = "up" => Released(dq') /\ ~None(dq', "up"))
    BY <1>2, <2>3, NoneLonger, ReleasedLonger
  <2>5. m.type = "move" /\ Released(dq) => Released(dq')
    BY <2>3, ReleasedLonger
  <2>6. /\ Released(ring) => Released(ring') /\ (e.type = "down" => ~None(ring', "up"))
        /\ None(ring', "up") /\ e.type # "up" => None(ring, "up")
    BY <2>1, ReleasedShorter
  <2> QED
    BY <1>2, <2>1, <2>2, <2>4, <2>5, <2>6 DEF Releasing
<1>6. CASE Told("disable", "wait", Msg("disable")) \/ Told("enable", "resize", Msg("enable"))
           \/ Told("resize", "repaint", Msg("resize")) \/ Told("repaint", "free event", Repaint(Cells))
  BY <1>3, <1>6, ServerMessages
<1> QED
  BY <1>4, <1>5, <1>6, ServerStep DEF Passes, GivesUp, FreesEvent, AddsWindow, PlacesWindow, FreesDesktop, mouseVars

LEMMA ReleasingDesktop ==
  ASSUME Types, Starting, Releasing, Desktop
  PROVE  Releasing'
<1>1. lost' \/ ~lost
  BY DesktopStep
<1>2. UNCHANGED <<held, ring, children>> /\ Shown' = Shown /\ Bounded(dq, DesktopMessage)
  BY DesktopStep DEF mouseVars, Types
<1> SUFFICES ASSUME ~lost, ~lost', held = {}
             PROVE  Releasing'
  BY <1>1, <1>2 DEF Releasing
<1>3. ASSUME NEW type, Handles(type)
      PROVE  /\ Bounded(Tail(dq), DesktopMessage) /\ (Released(dq) => Released(Tail(dq)))
             /\ type = "down" /\ Released(dq) => ~None(Tail(dq), "up")
             /\ type # "up" /\ None(Tail(dq), "up") => None(dq, "up")
  <2>1. /\ Bounded(Tail(dq), DesktopMessage) /\ Shorter(dq, Tail(dq)) /\ Len(Tail(dq)) \in Nat
        /\ dq[1].type = type
    BY <1>3, HeadIs DEF Bounded
  <2> QED
    BY <2>1, ReleasedShorter
<1>4. CASE desktop_mouse_down
  <2>1. Handles("down") /\ dq' = Tail(dq)
    BY <1>4 DEF desktop_mouse_down, Taken
  <2> QED
    BY <1>2, <1>3, <2>1 DEF Releasing
<1>5. CASE desktop_mouse_up
  <2>1. Handles("up") /\ dq' = Tail(dq) /\ drag' = [w \in Windows |-> NoDrag]
    BY <1>5 DEF desktop_mouse_up, Taken, EndsDrag
  <2>2. Dragged' = {}
    <3>1. Shown \subseteq Windows
      BY ShownAre DEF Types
    <3> QED
      BY <1>2, <2>1, <3>1 DEF Dragged, NoDrag
  <2> QED
    BY <1>2, <1>3, <2>1, <2>2 DEF Releasing
<1>6. ASSUME ~desktop_mouse_down, ~desktop_mouse_up
      PROVE  Releasing'
  <2>1. /\ Dragged' = Dragged
        /\ ~Handles("up")
    <3>1. UNCHANGED drag
      BY <1>6 DEF Desktop, DisableDrawing, EnableDrawing, desktop_resize, desktop_repaint, desktop_blit_subcontrol,
         desktop_mouse_move, desktop_mouse_move_handle_dragging, UseFreedDesktop, desktopVars
    <3>2. ~Handles("up")
      BY <1>6 DEF Desktop, DisableDrawing, EnableDrawing, desktop_resize, desktop_repaint, desktop_blit_subcontrol,
         desktop_mouse_move, desktop_mouse_move_handle_dragging, UseFreedDesktop, Handles
    <3> QED
      BY <1>2, <3>1, <3>2 DEF Dragged
  <2>2. CASE UNCHANGED dq
    BY <1>2, <2>1, <2>2, ReleasingSend
  <2>3. ASSUME NEW type, Handles(type), dq' = Tail(dq)
        PROVE  Releasing'
    BY <1>2, <1>3, <2>1, <2>3 DEF Releasing
  <2>4. ASSUME NEW m \in DesktopMessage, m.type = "repaint", dq' = Send(dq, <<m>>)
        PROVE  Releasing'
    <3>1. <<m>> \in Seq(DesktopMessage) /\ None(<<m>>, "down")
      BY <2>4, NoneOne
    <3> QED
      BY <1>2, <2>1, <2>4, <3>1, ReleasingSend
  <2>5. ASSUME NEW ms \in Seq(DesktopMessage), None(ms, "down"), Handles("move"), dq' = Send(Tail(dq), ms)
        PROVE  Releasing'
    <3>1. /\ Released(dq) => Released(dq')
          /\ None(dq', "up") => None(dq, "up")
      BY <1>3, <2>5, ReleasedSend
    <3> QED
      BY <1>2, <2>1, <3>1 DEF Releasing
  <2>6. "down" \in MessageTypes \ {"repaint"}
    BY DEF MessageTypes
  <2> QED
    BY <2>2, <2>3, <2>4, <2>5, <2>6, DesktopAsks
<1> QED
  BY <1>4, <1>5, <1>6

LEMMA ReleasingKept ==
  ASSUME IInv, [Next]_vars
  PROVE  Releasing'
<1>1. CASE UNCHANGED vars
  BY <1>1 DEF IInv, Releasing, Dragged, Shown, vars, mouseVars, desktopVars
<1>2. ASSUME NEW w \in Windows, Window(w)
      PROVE  Releasing'
  <2>1. UNCHANGED <<held, ring, drag, children>> /\ (lost' \/ ~lost)
    BY <1>2, WindowStep DEF mouseVars, desktopVars, IInv
  <2>2. Dragged' = Dragged
    BY <2>1 DEF Dragged, Shown
  <2>3. UNCHANGED dq \/ \E ms \in Seq(DesktopMessage) : None(ms, "down") /\ dq' = Send(dq, ms)
    <3>1. ASSUME NEW m \in DesktopMessage, m.type = "repaint"
          PROVE  <<m>> \in Seq(DesktopMessage) /\ None(<<m>>, "down")
      <4>1. <<m>> \in Seq(DesktopMessage)
        OBVIOUS
      <4> QED
        BY <3>1, <4>1, NoneOne
    <3> QED
      BY <1>2, <3>1, WindowTells DEF IInv
  <2>4. CASE ~lost
    BY <2>1, <2>2, <2>3, <2>4, ReleasingSend DEF IInv
  <2>5. CASE lost'
    BY <2>5 DEF Releasing
  <2> QED
    BY <2>1, <2>4, <2>5
<1> QED
  BY <1>1, <1>2, ReleasingMouse, ReleasingServer, ReleasingDesktop DEF IInv, Next

-----------------------------------------------------------------------------
(* What has been asked for is painted: the surfaces *)

LEMMA RepaintLonger ==
  ASSUME NEW M, NEW q, NEW m, NEW q1, Bounded(q, M), Bounded(q1, M), Longer(q, m, q1), NEW c
  PROVE  RepaintOf(c, q1) <=> RepaintOf(c, q) \/ (m.type = "repaint" /\ c \in m.rect)
<1>1. Len(q) \in Nat /\ DOMAIN q = 1 .. Len(q) /\ DOMAIN q1 = 1 .. Len(q1)
  BY DEF Bounded
<1>2. Len(q1) = Len(q) + 1 /\ q1[Len(q) + 1] = m /\ \A i \in 1 .. Len(q) : q1[i] = q[i]
  BY DEF Longer
<1>3. \A i \in 1 .. Len(q1) : i \in 1 .. Len(q) \/ i = Len(q) + 1
  BY <1>1, <1>2
<1>4. Len(q) + 1 \in 1 .. Len(q1) /\ \A i \in 1 .. Len(q) : i \in 1 .. Len(q1)
  BY <1>1, <1>2
<1> QED
  BY <1>1, <1>2, <1>3, <1>4 DEF RepaintOf

LEMMA RepaintShorter ==
  ASSUME NEW M, NEW q, NEW q1, Bounded(q, M), Bounded(q1, M), Shorter(q, q1), NEW c
  PROVE  RepaintOf(c, q) <=> RepaintOf(c, q1) \/ (q[1].type = "repaint" /\ c \in q[1].rect)
<1>1. Len(q1) \in Nat /\ DOMAIN q = 1 .. Len(q) /\ DOMAIN q1 = 1 .. Len(q1)
  BY DEF Bounded
<1>2. Len(q) = Len(q1) + 1 /\ \A i \in 1 .. Len(q1) : i + 1 \in 1 .. Len(q) /\ q1[i] = q[i + 1]
  BY <1>1 DEF Shorter
<1>3. \A i \in 1 .. Len(q) : i = 1 \/ (i - 1 \in 1 .. Len(q1) /\ q1[i - 1] = q[i])
  BY <1>1, <1>2
<1>4. 1 \in 1 .. Len(q)
  BY <1>1, <1>2
<1> QED
  BY <1>1, <1>2, <1>3, <1>4 DEF RepaintOf

(* A window takes a message. *)
LEMMA TakenIs ==
  ASSUME Types, NEW w \in Windows, NEW types, Takes(w, types)
  PROVE  /\ work[w] = Idle /\ Head(wq[w]).type \in types /\ Head(wq[w]) \in WindowMessage
         /\ \A c : RepaintOf(c, wq[w]) <=>
              \/ RepaintOf(c, wq'[w])
              \/ Head(wq[w]).type = "repaint" /\ c \in Head(wq[w]).rect
<1>1. work[w] = Idle /\ Head(wq[w]).type \in types /\ wq[w] # <<>> /\ wq'[w] = Tail(wq[w])
  BY DEF Takes, Types
<1>2. Bounded(wq[w], WindowMessage)
  BY DEF Types
<1>3. Bounded(wq'[w], WindowMessage) /\ Shorter(wq[w], wq'[w]) /\ Head(wq[w]) = wq[w][1]
      /\ Head(wq[w]) \in WindowMessage
  BY <1>1, <1>2, BoundedTail
<1> QED
  BY <1>1, <1>2, <1>3, RepaintShorter

(* A window is sent a message. *)
LEMMA ToldIs ==
  ASSUME Types, NEW w \in Windows, NEW m \in WindowMessage, ToWindow(w, m)
  PROVE  \/ halted'
         \/ /\ halted' = halted
            /\ \A v \in Windows : \A c :
                 RepaintOf(c, wq'[v]) <=>
                   RepaintOf(c, wq[v]) \/ (v = w /\ m.type = "repaint" /\ c \in m.rect)
<1>1. CASE wq' = [wq EXCEPT ![w] = Append(@, m)] /\ Bounded(Append(wq[w], m), WindowMessage)
           /\ Longer(wq[w], m, Append(wq[w], m)) /\ UNCHANGED halted
  <2>1. wq'[w] = Append(wq[w], m) /\ \A v \in Windows : v # w => wq'[v] = wq[v]
    BY <1>1 DEF Types
  <2>2. Bounded(wq[w], WindowMessage)
    BY DEF Types
  <2> QED
    BY <1>1, <2>1, <2>2, RepaintLonger
<1> QED
  BY <1>1, ToWindowIs

(* The desktop's messages to windows are no repaints. *)
LEMMA DesktopTells ==
  ASSUME Types, Desktop
  PROVE  \/ halted'
         \/ halted' = halted /\ \A v \in Windows : \A c : RepaintOf(c, wq'[v]) <=> RepaintOf(c, wq[v])
<1>1. CASE desktop_mouse_move \/ desktop_mouse_down \/ desktop_mouse_up
  <2>1. PICK type \in {"move", "down", "up"} : Handles(type) /\ desktop_dispatch_mouse_messages
    BY <1>1 DEF desktop_mouse_move, desktop_mouse_down, desktop_mouse_up
  <2>2. \/ UNCHANGED <<wq, halted>>
        \/ \E w \in Windows, m \in WindowMessage : m.type = type /\ ToWindow(w, m)
    BY <2>1, DispatchIs
  <2>3. CASE \E w \in Windows, m \in WindowMessage : m.type = type /\ ToWindow(w, m)
    <3>1. PICK w \in Windows, m \in WindowMessage : m.type = type /\ ToWindow(w, m)
      BY <2>3
    <3> QED
      BY <3>1, ToldIs
  <2> QED
    BY <2>2, <2>3
<1>2. CASE EnableDrawing
  <2>1. wq' = wq /\ drawing' \in BOOLEAN /\ halted' = ~drawing' /\ ~halted /\ halted \in BOOLEAN
    BY <1>2 DEF EnableDrawing, Handles, Running, Types
  <2> QED
    BY <2>1, Zenon
<1> QED
  BY <1>1, <1>2 DEF Desktop, DisableDrawing, desktop_resize, desktop_repaint, desktop_blit_subcontrol,
              desktop_mouse_move_handle_dragging, UseFreedDesktop, Used

LEMMA PlacedAre ==
  ASSUME Types
  PROVE  Placed \subseteq Shown /\ Placed \subseteq Windows
BY Sizes DEF Placed, Shown, Types

(* How the server changes what is placed *)
LEMMA PlacedServer ==
  ASSUME Types, Starting, Server, sAt' \in Late
  PROVE  /\ sAt \in Late => \/ Placed' = Placed /\ UNCHANGED <<pos, wq>>
                            \/ /\ PlacesWindow /\ children \in Windows
                               /\ children \notin Placed /\ Placed' = Placed \cup {children}
                               /\ \A w \in Placed : w < children
         /\ sAt \notin Late => /\ sAt = "repaint" /\ Placed' = {}
                               /\ dq' = Append(dq, Repaint(Cells)) /\ ~Full(dq)
<1>1. CASE Told("repaint", "free event", Repaint(Cells))
  <2>1. children' = 0 /\ sAt = "repaint" /\ sAt' = "free event"
    BY <1>1 DEF Told, Starting, Early
  <2>2. Placed' = {}
    <3>1. Placed' = 1 .. 0
      BY <2>1 DEF Placed
    <3> QED
      BY <3>1
  <2>3. sAt \notin Late
    BY <2>1 DEF Late
  <2> QED
    BY <1>1, <2>1, <2>2, <2>3 DEF Told
<1>2. CASE Passes("subscribe", "read") \/ FreesEvent
  BY <1>2 DEF Passes, FreesEvent, Placed, Late
<1>3. CASE AddsWindow
  <2>1. children \in Nat
    BY Sizes DEF Types
  <2> QED
    BY <1>3, <2>1 DEF AddsWindow, Placed, Late
<1>4. CASE PlacesWindow
  <2>1. children \in Nat /\ children \in 1 .. Len(StartPos) /\ sAt = "place" /\ sAt' # "place" /\ children' = children
    <3>1. children \in 1 .. plan.windows /\ sAt = "place" /\ sAt' # "place" /\ children' = children
      BY <1>4 DEF PlacesWindow, Starting
    <3>2. \A p \in Windows : p \in Nat /\ \A k \in 1 .. p : k \in 0 .. Len(StartPos) => k \in 1 .. Len(StartPos)
      BY Sizes
    <3>3. plan.windows \in Windows /\ children \in 0 .. Len(StartPos)
      BY DEF Types
    <3>4. children \in 1 .. Len(StartPos)
      BY <3>1, <3>2, <3>3, Zenon
    <3> QED
      BY <3>1, <3>4
  <2>2. Placed = 1 .. children - 1 /\ Placed' = 1 .. children
    BY <2>1 DEF Placed
  <2>3. children \notin Placed /\ Placed' = Placed \cup {children} /\ \A w \in Placed : w < children
    BY <2>1, <2>2
  <2>4. children \in Windows /\ sAt \in Late
    BY <2>1, Sizes DEF Late
  <2> QED
    BY <1>4, <2>3, <2>4
<1>5. CASE henjin_process_mouse_events
  BY <1>5, EventMessage DEF Placed, Late
<1>6. CASE Told("disable", "wait", Msg("disable")) \/ Told("enable", "resize", Msg("enable"))
           \/ Told("resize", "repaint", Msg("resize")) \/ Passes("wait", "nxgi")
           \/ Passes("nxgi", "enable") \/ GivesUp \/ FreesDesktop
  BY <1>6 DEF Told, Passes, GivesUp, FreesDesktop, Late
<1> QED
  BY <1>1, <1>2, <1>3, <1>4, <1>5, <1>6, ServerStep

(* The surface of one window *)
Begun(w) == work[w].at = "paint" => \A b \in work[w].rect : surf[w][b] \in {"blank", Face(w, b)}

Painted(w) == \A b \in Buttons : surf[w][b] = Face(w, b) \/ Pending(w, b)

LEMMA SurfacesAre ==
  Surfaces <=> /\ \A w \in Windows : Begun(w)
               /\ Running /\ sAt \in Late => \A w \in Placed : Painted(w)
BY DEF Surfaces, Begun, Painted

(* A window to which nothing happens but that it may be sent something *)
LEMMA PaintedStays ==
  ASSUME NEW w, UNCHANGED <<work[w], surf[w], down[w]>>, \A c : RepaintOf(c, wq[w]) => RepaintOf(c, wq'[w])
  PROVE  (Begun(w) => Begun(w)') /\ (Painted(w) => Painted(w)')
<1>1. \A b : Face(w, b)' = Face(w, b)
  BY DEF Face
<1>2. \A b : Pending(w, b) => Pending(w, b)'
  BY DEF Pending
<1> QED
  BY <1>1, <1>2 DEF Begun, Painted

LEMMA SurfacesServer ==
  ASSUME Types, Starting, Surfaces, Server
  PROVE  Surfaces'
<1>1. UNCHANGED <<work, surf, down, halted>> /\ Running
  BY ServerStep DEF windowVars
<1>2. ASSUME NEW w \in Windows
      PROVE  Begun(w)'
  BY <1>1, SurfacesAre DEF Begun, Face
<1>3. ASSUME sAt' \in Late, NEW w \in Placed'
      PROVE  Painted(w)'
  <2>1. CASE sAt \notin Late
    BY <1>3, <2>1, PlacedServer
  <2>2. CASE sAt \in Late /\ w \in Placed /\ wq'[w] = wq[w]
    <3>1. Painted(w)
      BY <1>1, <2>2, SurfacesAre
    <3> QED
      BY <1>1, <2>2, <3>1, PaintedStays
  <2>3. CASE PlacesWindow /\ w = children /\ children \in Windows
    <3>1. wq'[w] = FirstMessages
      BY <2>3 DEF PlacesWindow, Types
    <3> QED
      BY <3>1, FirstMessagesAre DEF Painted, Pending
  <2>4. CASE sAt \in Late /\ PlacesWindow /\ children \in Windows /\ w \in Placed /\ children \notin Placed
    <3>1. w \in Windows /\ w # children
      BY <2>4, PlacedAre
    <3>2. wq'[w] = wq[w]
      BY <2>4, <3>1 DEF PlacesWindow, Types
    <3> QED
      BY <2>2, <2>4, <3>2
  <2> QED
    BY <1>3, <2>1, <2>2, <2>3, <2>4, PlacedServer
<1> QED
  BY <1>2, <1>3, SurfacesAre DEF Surfaces, Begun, Painted

LEMMA SurfacesDesktop ==
  ASSUME Types, Surfaces, Desktop
  PROVE  Surfaces'
<1>1. UNCHANGED <<work, surf, down, sAt, children>>
  BY DesktopStep DEF windowVars, serverVars
<1>2. \A w \in Windows : Begun(w)'
  BY <1>1, SurfacesAre DEF Begun, Face
<1>3. ASSUME Running', sAt' \in Late, NEW w \in Placed'
      PROVE  Painted(w)'
  <2>1. w \in Placed /\ w \in Windows /\ sAt \in Late
    BY <1>1, <1>3, PlacedAre DEF Placed
  <2>2. Painted(w)
    BY <2>1, DesktopStep, SurfacesAre
  <2>3. \A c : RepaintOf(c, wq[w]) => RepaintOf(c, wq'[w])
    BY <1>3, <2>1, DesktopTells DEF Running
  <2> QED
    BY <1>1, <2>2, <2>3, PaintedStays
<1> QED
  BY <1>2, <1>3 DEF Surfaces, Begun, Painted

LEMMA FacesAre == \A w, b : Face(w, b) \in {"pressed", "raised"}
BY DEF Face

(* What a window's step leaves of its own surface *)
LEMMA OwnSurface ==
  ASSUME Types, NEW w \in Windows, Window(w), Begun(w)
  PROVE  Begun(w)' /\ (Running' /\ Painted(w) => Painted(w)')
<1>1. CASE window_dispatch_mouse_message(w)
  <2> DEFINE m == Head(wq[w])
             hit == IF m.type # "move" /\ m.button = "left" THEN ButtonAt(m.x) ELSE {}
  <2>1. /\ Takes(w, {"move", "down", "up"}) /\ surf' = surf
        /\ down' = [down EXCEPT ![w] = IF m.type = "down" THEN @ \cup hit ELSE @ \ hit]
        /\ IF hit = {} THEN UNCHANGED work ELSE Goes(w, "ask", hit)
    BY <1>1 DEF window_dispatch_mouse_message
  <2> HIDE DEF hit
  <2>2. work[w] = Idle /\ \A c : RepaintOf(c, wq[w]) => RepaintOf(c, wq'[w])
    BY <2>1, TakenIs
  <2>3. work'[w] = IF hit = {} THEN Idle ELSE [at |-> "ask", rect |-> hit]
    BY <2>1, <2>2 DEF Goes, Types
  <2>4. \A b \in Buttons : b \notin hit => Face(w, b)' = Face(w, b)
    <3>1. \A b \in Buttons : b \notin hit => (b \in down'[w] <=> b \in down[w])
      BY <2>1 DEF Types
    <3> QED
      BY <3>1 DEF Face
  <2>5. \A b \in Buttons : b \notin hit /\ Pending(w, b) => Pending(w, b)'
    BY <2>2 DEF Pending, Idle
  <2>6. \A b \in Buttons : b \in hit => Pending(w, b)'
    BY <2>3 DEF Pending
  <2>7. Begun(w)'
    BY <2>3 DEF Begun, Idle
  <2> QED
    BY <2>1, <2>4, <2>5, <2>6, <2>7 DEF Painted
<1>2. CASE window_resize(w)
  <2>1. Takes(w, {"resize"}) /\ (halted' \/ Goes(w, "ask", Buttons))
        /\ ((halted' /\ UNCHANGED work) \/ Goes(w, "ask", Buttons))
    BY <1>2 DEF window_resize
  <2>2. work[w] = Idle
    BY <2>1, TakenIs
  <2>3. CASE Goes(w, "ask", Buttons)
    <3>1. work'[w] = [at |-> "ask", rect |-> Buttons]
      BY <2>3 DEF Goes, Types
    <3> QED
      BY <3>1 DEF Begun, Painted, Pending
  <2>4. CASE halted' /\ UNCHANGED work
    BY <2>2, <2>4 DEF Begun, Idle, Running
  <2> QED
    BY <2>1, <2>3, <2>4
<1>3. CASE AskItself(w)
  <2> DEFINE m == Repaint(work[w].rect)
  <2>1. /\ work[w].at = "ask" /\ ToWindow(w, m) /\ work'[w] = [at |-> "idle", rect |-> {}]
        /\ UNCHANGED <<surf, down>>
    BY <1>3 DEF AskItself, Goes, Types
  <2>2. work[w].rect \subseteq Buttons
    BY <2>1 DEF Types
  <2>3. m \in WindowMessage /\ m.type = "repaint" /\ m.rect = work[w].rect
    BY <2>2, RepaintIs
  <2> HIDE DEF m
  <2>4. halted' \/ \A c : RepaintOf(c, wq'[w]) <=> RepaintOf(c, wq[w]) \/ c \in work[w].rect
    BY <2>1, <2>3, ToldIs
  <2>5. Running' => \A b \in Buttons : Pending(w, b) => Pending(w, b)'
    BY <2>4 DEF Pending, Running
  <2> QED
    BY <2>1, <2>5 DEF Begun, Painted, Face
<1>4. CASE window_repaint(w)
  <2> DEFINE rect == Head(wq[w]).rect
  <2>1. /\ Takes(w, {"repaint"}) /\ Goes(w, "paint", rect) /\ UNCHANGED down
        /\ surf' = [surf EXCEPT ![w] = [b \in Buttons |-> IF b \in rect THEN "blank" ELSE @[b]]]
    BY <1>4 DEF window_repaint
  <2>2. /\ work[w] = Idle /\ rect \subseteq Buttons
        /\ \A c : RepaintOf(c, wq[w]) <=> RepaintOf(c, wq'[w]) \/ c \in rect
    BY <2>1, TakenIs DEF WindowMessage
  <2>3. work'[w] = [at |-> "paint", rect |-> rect]
    BY <2>1 DEF Goes, Types
  <2>4. \A b \in Buttons : surf'[w][b] = IF b \in rect THEN "blank" ELSE surf[w][b]
    BY <2>1 DEF Types
  <2> HIDE DEF rect
  <2>5. Begun(w)'
    BY <2>2, <2>3, <2>4 DEF Begun
  <2>6. \A b \in Buttons : Pending(w, b) => Pending(w, b)'
    BY <2>2, <2>3 DEF Pending, Idle
  <2>7. \A b \in Buttons : b \in rect => Pending(w, b)'
    BY <2>3 DEF Pending
  <2> QED
    BY <2>1, <2>4, <2>5, <2>6, <2>7 DEF Painted, Face
<1>5. CASE button_repaint(w)
  <2> DEFINE b0 == Min(Unpainted(w))
  <2>1. work[w].at = "paint" /\ surf' = [surf EXCEPT ![w][b0] = Face(w, b0)] /\ UNCHANGED <<work, wq, down>>
    BY <1>5 DEF button_repaint
  <2> HIDE DEF b0
  <2>2. work[w].rect \subseteq Buttons
    BY <2>1 DEF Types
  <2>3. \A b \in Buttons : surf'[w][b] = surf[w][b] \/ surf'[w][b] = Face(w, b)
    BY <2>1 DEF Types
  <2>4. Begun(w)'
    BY <2>1, <2>2, <2>3 DEF Begun, Face
  <2>5. \A b : (Pending(w, b) => Pending(w, b)') /\ Face(w, b)' = Face(w, b)
    BY <2>1 DEF Pending, Face
  <2> QED
    BY <2>3, <2>4, <2>5 DEF Painted
<1>6. CASE hj_control_request_parent_repaint(w)
  <2>1. work[w].at = "paint" /\ Unpainted(w) = {} /\ UNCHANGED <<surf, down, wq>>
    BY <1>6 DEF hj_control_request_parent_repaint
  <2>2. CASE desktop = "freed"
    <3>1. halted' /\ work' = work
      BY <1>6, <2>2 DEF hj_control_request_parent_repaint, Used
    <3> QED
      BY <2>1, <3>1 DEF Begun, Face, Running
  <2>3. CASE desktop # "freed"
    <3>1. work'[w].at = "tell"
      BY <1>6, <2>3 DEF hj_control_request_parent_repaint, Goes, Types
    <3>2. \A b \in work[w].rect : surf[w][b] = Face(w, b)
      BY <2>1 DEF Begun, Unpainted
    <3>3. \A b \in Buttons : Face(w, b)' = Face(w, b) /\ (Pending(w, b) => Pending(w, b)' \/ b \in work[w].rect)
      BY <2>1 DEF Face, Pending
    <3> QED
      BY <2>1, <3>1, <3>2, <3>3 DEF Begun, Painted
  <2> QED
    BY <2>2, <2>3
<1>7. CASE TellDesktop(w)
  <2>1. work[w].at = "tell" /\ UNCHANGED <<surf, down, wq>> /\ work'[w].at \in {"tell", "idle"}
    BY <1>7 DEF TellDesktop, Goes, Types
  <2>2. \A b \in Buttons : Face(w, b)' = Face(w, b) /\ (Pending(w, b) => Pending(w, b)')
    BY <2>1 DEF Face, Pending
  <2> QED
    BY <2>1, <2>2 DEF Begun, Painted
<1> QED
  BY <1>1, <1>2, <1>3, <1>4, <1>5, <1>6, <1>7 DEF Window

LEMMA SurfacesWindow ==
  ASSUME Types, Surfaces, NEW w \in Windows, Window(w)
  PROVE  Surfaces'
<1>1. /\ UNCHANGED <<sAt, children>> /\ Running
      /\ \A v \in Windows : v # w =>
           work'[v] = work[v] /\ wq'[v] = wq[v] /\ surf'[v] = surf[v] /\ down'[v] = down[v]
  BY WindowStep DEF serverVars
<1>2. \A v \in Windows : v # w => (Begun(v) => Begun(v)') /\ (Painted(v) => Painted(v)')
  BY <1>1, PaintedStays
<1>3. \A v \in Windows : Begun(v)'
  BY <1>2, OwnSurface, SurfacesAre
<1>4. ASSUME Running', sAt' \in Late, NEW v \in Placed'
      PROVE  Painted(v)'
  <2>1. v \in Placed /\ v \in Windows /\ sAt \in Late
    BY <1>1, <1>4, PlacedAre DEF Placed
  <2>2. Painted(v) /\ Begun(w)
    BY <1>1, <2>1, SurfacesAre
  <2> QED
    BY <1>2, <1>4, <2>1, <2>2, OwnSurface
<1> QED
  BY <1>3, <1>4 DEF Surfaces, Begun, Painted

LEMMA SurfacesKept ==
  ASSUME IInv, [Next]_vars
  PROVE  Surfaces'
<1>1. CASE UNCHANGED vars
  BY <1>1 DEF IInv, Surfaces, Placed, Pending, RepaintOf, Running, Face, vars, serverVars, windowVars
<1>2. CASE Move \/ Press \/ Release
  <2>1. UNCHANGED <<sAt, children, work, surf, down, wq, halted>>
    BY <1>2, MouseStep DEF serverVars, windowVars
  <2> QED
    BY <2>1 DEF IInv, Surfaces, Placed, Pending, RepaintOf, Running, Face
<1> QED
  BY <1>1, <1>2, SurfacesServer, SurfacesDesktop, SurfacesWindow DEF IInv, Next

-----------------------------------------------------------------------------
(* The desktop draws when it is asked for the first repaint. *)

LEMMA EnabledShorter ==
  ASSUME NEW M, NEW q, NEW q1, Bounded(q1, M), Shorter(q, q1), Enabled(q), q[1].type # "enable"
  PROVE  Enabled(q1) /\ q[1].type # "repaint"
<1>1. Len(q1) \in Nat /\ Len(q) = Len(q1) + 1 /\ \A i \in 1 .. Len(q1) : q1[i] = q[i + 1]
  BY DEF Bounded, Shorter
<1>2. PICK i \in 1 .. Len(q) : q[i].type = "enable" /\ \A j \in 1 .. i - 1 : q[j].type # "repaint"
  BY DEF Enabled
<1>3. i # 1 /\ i - 1 \in 1 .. Len(q1) /\ 1 \in 1 .. i - 1
  BY <1>1, <1>2
<1>4. q1[i - 1].type = "enable"
  BY <1>1, <1>2, <1>3
<1>5. \A j \in 1 .. (i - 1) - 1 : j \in 1 .. Len(q1) /\ j + 1 \in 1 .. i - 1
  BY <1>1, <1>3
<1> QED
  BY <1>1, <1>2, <1>3, <1>4, <1>5 DEF Enabled

LEMMA EnabledSend ==
  ASSUME NEW M, NEW q, Bounded(q, M), NEW ms \in Seq(M), Enabled(q)
  PROVE  Enabled(Send(q, ms))
<1> DEFINE q1 == Send(q, ms)
<1>1. /\ q1 \in Seq(M) /\ Len(q) <= Len(q1)
      /\ \A i \in 1 .. Len(q1) :
           IF i <= Len(q) THEN q1[i] = q[i] ELSE \E k \in 1 .. Len(ms) : q1[i] = ms[k]
  BY SendIs DEF Bounded
<1>2. Len(q) \in Nat
  BY DEF Bounded
<1> HIDE DEF q1
<1>3. \A i \in 1 .. Len(q) : i \in 1 .. Len(q1) /\ q1[i] = q[i]
  BY <1>1, <1>2
<1>4. PICK i \in 1 .. Len(q) : q[i].type = "enable" /\ \A j \in 1 .. i - 1 : q[j].type # "repaint"
  BY DEF Enabled
<1>5. \A j \in 1 .. i - 1 : j \in 1 .. Len(q)
  BY <1>2
<1>6. i \in 1 .. Len(q1) /\ q1[i].type = "enable" /\ \A j \in 1 .. i - 1 : q1[j].type # "repaint"
  BY <1>3, <1>4, <1>5
<1> QED
  BY <1>6 DEF Enabled, q1

LEMMA EnabledFirst ==
  ASSUME NEW M, NEW q, NEW m, NEW q1, Bounded(q, M), Longer(q, m, q1), m.type = "enable", None(q, "repaint")
  PROVE  Enabled(q1)
<1>1. Len(q) \in Nat /\ Len(q1) = Len(q) + 1 /\ q1[Len(q) + 1] = m
      /\ \A i \in 1 .. Len(q) : q1[i] = q[i]
  BY DEF Bounded, Longer
<1>2. Len(q) + 1 \in 1 .. Len(q1) /\ \A j \in 1 .. (Len(q) + 1) - 1 : j \in 1 .. Len(q)
  BY <1>1
<1> QED
  BY <1>1, <1>2 DEF Enabled, None

LEMMA EnabledLonger ==
  ASSUME NEW M, NEW q, NEW m, NEW q1, Bounded(q, M), Longer(q, m, q1), Enabled(q)
  PROVE  Enabled(q1)
<1>1. Len(q) \in Nat /\ Len(q1) = Len(q) + 1 /\ \A i \in 1 .. Len(q) : q1[i] = q[i] /\ i \in 1 .. Len(q1)
  BY DEF Bounded, Longer
<1>2. PICK i \in 1 .. Len(q) : q[i].type = "enable" /\ \A j \in 1 .. i - 1 : q[j].type # "repaint"
  BY DEF Enabled
<1>3. \A j \in 1 .. i - 1 : j \in 1 .. Len(q)
  BY <1>1
<1> QED
  BY <1>1, <1>2, <1>3 DEF Enabled

LEMMA DrawingServer ==
  ASSUME Types, Starting, Drawing, Server
  PROVE  Drawing'
<1>1. UNCHANGED <<drawing, halted>> /\ Running /\ Bounded(dq, DesktopMessage)
  BY ServerStep DEF desktopVars, Types
<1>2. CASE Told("disable", "wait", Msg("disable")) \/ Passes("wait", "nxgi") \/ Passes("nxgi", "enable")
           \/ GivesUp \/ FreesDesktop
  BY <1>2 DEF Told, Passes, GivesUp, FreesDesktop, Drawing, Late
<1>3. CASE Told("enable", "resize", Msg("enable"))
  <2>1. Longer(dq, Msg("enable"), dq') /\ Msg("enable").type = "enable"
    BY <1>1, <1>3, ServerMessages, BoundedAppend DEF Told
  <2>2. None(dq, "repaint")
    BY <1>3 DEF Told, Starting, Early
  <2>3. Enabled(dq')
    BY <1>1, <2>1, <2>2, EnabledFirst
  <2> QED
    BY <2>3 DEF Drawing
<1>4. CASE Told("resize", "repaint", Msg("resize")) \/ Told("repaint", "free event", Repaint(Cells))
  <2>1. PICK m \in DesktopMessage : Longer(dq, m, dq') /\ sAt \in {"resize", "repaint"}
    BY <1>1, <1>4, ServerMessages, BoundedAppend DEF Told
  <2>2. Enabled(dq) => Enabled(dq')
    BY <1>1, <2>1, EnabledLonger
  <2> QED
    BY <1>1, <2>1, <2>2 DEF Drawing, Running
<1>5. CASE Passes("subscribe", "read") \/ FreesEvent \/ AddsWindow \/ PlacesWindow
  <2>1. UNCHANGED dq /\ sAt \in Late
    BY <1>5 DEF Passes, FreesEvent, AddsWindow, PlacesWindow, Late
  <2> QED
    BY <1>1, <2>1 DEF Drawing, Running
<1>6. CASE henjin_process_mouse_events
  <2>1. PICK m \in DesktopMessage : dq' = Send(dq, <<m>>)
    BY <1>6, EventMessage
  <2>2. sAt \in Late
    BY <1>6, EventMessage DEF Late
  <2>3. <<m>> \in Seq(DesktopMessage)
    OBVIOUS
  <2>4. Enabled(dq) => Enabled(dq')
    BY <1>1, <2>1, <2>3, EnabledSend
  <2> QED
    BY <1>1, <2>2, <2>4 DEF Drawing, Running
<1> QED
  BY <1>2, <1>3, <1>4, <1>5, <1>6, ServerStep

LEMMA DrawingDesktop ==
  ASSUME Types, Starting, Answering, Drawing, Desktop
  PROVE  Drawing'
<1>1. UNCHANGED sAt /\ Running /\ Bounded(dq, DesktopMessage)
  BY DesktopStep DEF serverVars, Types
<1> SUFFICES ASSUME Running', sAt \in {"resize", "repaint"} \cup Late
             PROVE  drawing' \/ Enabled(dq')
  BY <1>1 DEF Drawing
<1>2. drawing \/ Enabled(dq)
  BY <1>1 DEF Drawing
<1>3. CASE EnableDrawing
  BY <1>3 DEF EnableDrawing, Running
<1>4. CASE DisableDrawing
  <2>1. dq[1].type = "disable" /\ 1 \in 1 .. Len(dq)
    BY <1>4, HeadIs DEF DisableDrawing
  <2>2. None(dq, "disable")
    BY DEF Starting, Answering, Late
  <2> QED
    BY <2>1, <2>2 DEF None
<1>5. ASSUME ~EnableDrawing, ~DisableDrawing
      PROVE  drawing' \/ Enabled(dq')
  <2>1. UNCHANGED drawing
    BY <1>5 DEF Desktop, desktop_resize, desktop_repaint, desktop_blit_subcontrol, desktop_mouse_move,
       desktop_mouse_move_handle_dragging, desktop_mouse_down, desktop_mouse_up, UseFreedDesktop, desktopVars
  <2>2. ~Handles("enable") \/ dq' = dq
    BY <1>5 DEF Desktop, desktop_resize, desktop_repaint, desktop_blit_subcontrol, desktop_mouse_move,
       desktop_mouse_move_handle_dragging, desktop_mouse_down, desktop_mouse_up, UseFreedDesktop, Handles
  <2>3. ASSUME NEW type, Handles(type), Enabled(dq), ~Handles("enable")
        PROVE  Enabled(Tail(dq)) /\ Bounded(Tail(dq), DesktopMessage)
    <3>1. Bounded(Tail(dq), DesktopMessage) /\ Shorter(dq, Tail(dq)) /\ dq[1].type = type
      BY <2>3, HeadIs
    <3>2. type # "enable"
      BY <2>3
    <3> QED
      BY <2>3, <3>1, <3>2, EnabledShorter
  <2>4. ASSUME NEW m \in DesktopMessage, dq' = Send(dq, <<m>>), Enabled(dq)
        PROVE  Enabled(dq')
    <3>1. <<m>> \in Seq(DesktopMessage)
      OBVIOUS
    <3> QED
      BY <1>1, <2>4, <3>1, EnabledSend
  <2>5. ASSUME NEW ms \in Seq(DesktopMessage), Handles("move"), dq' = Send(Tail(dq), ms), Enabled(dq), ~Handles("enable")
        PROVE  Enabled(dq')
    BY <2>3, <2>5, EnabledSend
  <2>6. Enabled(dq) => Enabled(dq')
    BY <2>2, <2>3, <2>4, <2>5, DesktopAsks
  <2> QED
    BY <1>2, <2>1, <2>6
<1> QED
  BY <1>3, <1>4, <1>5

LEMMA DrawingKept ==
  ASSUME IInv, [Next]_vars
  PROVE  Drawing'
<1>1. CASE UNCHANGED vars
  BY <1>1 DEF IInv, Drawing, Late, Enabled, Running, vars, serverVars, desktopVars
<1>2. CASE Move \/ Press \/ Release
  <2>1. UNCHANGED <<sAt, drawing, dq, halted>>
    BY <1>2, MouseStep DEF serverVars, desktopVars
  <2> QED
    BY <2>1 DEF IInv, Drawing, Enabled, Running
<1>3. ASSUME NEW w \in Windows, Window(w)
      PROVE  Drawing'
  <2>1. UNCHANGED <<sAt, drawing>> /\ Running
    BY <1>3, WindowStep DEF serverVars, desktopVars, IInv
  <2>2. Enabled(dq) => Enabled(dq')
    <3>1. Bounded(dq, DesktopMessage)
      BY DEF IInv, Types
    <3>2. ASSUME NEW m \in DesktopMessage, dq' = Send(dq, <<m>>)
          PROVE  Enabled(dq) => Enabled(dq')
      <4>1. <<m>> \in Seq(DesktopMessage)
        OBVIOUS
      <4> QED
        BY <3>1, <3>2, <4>1, EnabledSend
    <3> QED
      BY <1>3, <3>2, WindowTells DEF IInv
  <2> QED
    BY <2>1, <2>2 DEF IInv, Drawing, Running
<1> QED
  BY <1>1, <1>2, <1>3, DrawingServer, DrawingDesktop DEF IInv, Next

-----------------------------------------------------------------------------
(* The screen is right, or will be. *)

LEMMA AboveIs ==
  ASSUME Types, NEW c
  PROVE  /\ Above(c) \in Nat
         /\ Above(c) # 0 => Above(c) \in Placed /\ Above(c) \in Windows /\ c \in Bounds(Above(c))
         /\ \A w \in Placed : c \in Bounds(w) => w <= Above(c) /\ Above(c) # 0
<1> DEFINE S == {w \in Placed : c \in Bounds(w)}
<1>1. S \in SUBSET Windows /\ Placed \subseteq Windows
  BY PlacedAre
<1> HIDE DEF S
<1>2. LET t == Max({0} \cup S) IN t \in Nat /\ (t # 0 => t \in S) /\ \A w \in S : w <= t /\ t # 0
  BY <1>1, MaxTop
<1>3. Above(c) = Max({0} \cup S)
  BY DEF Above, S
<1>4. Above(c) \in Nat /\ (Above(c) # 0 => Above(c) \in S) /\ \A w \in S : w <= Above(c) /\ Above(c) # 0
  BY <1>2, <1>3
<1> QED
  BY <1>1, <1>4 DEF S

LEMMA AboveStays ==
  ASSUME NEW c, Placed' = Placed, \A w \in Placed : (c \in Bounds(w))' <=> c \in Bounds(w)
  PROVE  Above(c)' = Above(c)
<1>1. {w \in Placed : c \in Bounds(w)}' = {w \in Placed : c \in Bounds(w)}
  OBVIOUS
<1> QED
  BY <1>1 DEF Above

(* Nothing happens to a window that matters to what it shows. *)
KeptWindow(w) ==
  /\ pos'[w] = pos[w] /\ work'[w] = work[w] /\ surf'[w] = surf[w] /\ home'[w] = home[w]
  /\ w \in sized' <=> w \in sized
  /\ \A x : RepaintOf(x, wq[w]) => RepaintOf(x, wq'[w])

(* Nor to what the screen shows in a cell *)
KeptCell(c) ==
  /\ screen'[c].window = screen[c].window /\ screen'[c].part = screen[c].part
  /\ c \in Clock \/ (screen'[c].pointer = screen[c].pointer /\ (c = d_mouse') = (c = d_mouse))

LEMMA RightStays ==
  ASSUME NEW c \in Cells, Right(c), Above(c)' = Above(c), Above(c) # 0 => KeptWindow(Above(c)),
         KeptCell(c), Awaited(c) => Awaited(c)'
  PROVE  Right(c)'
<1>1. Part(c, Above(c))' = Part(c, Above(c))
  BY DEF Part, KeptWindow
<1>2. Correct(c) => Correct(c)'
  BY <1>1 DEF Correct, KeptCell
<1>3. Above(c) # 0 /\ Working(Above(c), c) => Working(Above(c), c)'
  BY DEF Working, KeptWindow
<1>4. Above(c) # 0 /\ New(Above(c), c) => New(Above(c), c)'
  BY DEF New, KeptWindow
<1> QED
  BY <1>2, <1>3, <1>4 DEF Right, KeptCell

(* A message that is sent to the desktop leaves what it has been asked for. *)
LEMMA AwaitedLonger ==
  ASSUME NEW c, Bounded(dq, DesktopMessage), Bounded(dq', DesktopMessage), UNCHANGED copying,
         dq' = dq \/ \E m : Longer(dq, m, dq'), Awaited(c)
  PROVE  Awaited(c)'
BY RepaintLonger DEF Awaited

LEMMA CurrentServer ==
  ASSUME Types, Types', Starting, Current, Server, ~lost', sAt' \in Late, NEW c \in Cells
  PROVE  Right(c)'
<1>1. UNCHANGED <<held, plan, desktopVars, windowVars, halted>> /\ Running /\ ~lost
  <2>1. lost => lost'
    BY DraggedServer, EventMessage
  <2> QED
    BY <2>1, ServerStep
<1>2. Bounded(dq, DesktopMessage) /\ Bounded(dq', DesktopMessage)
  BY DEF Types
<1>3. CASE sAt \notin Late
  <2>1. dq' = Append(dq, Repaint(Cells)) /\ ~Full(dq)
    BY <1>3, PlacedServer
  <2>2. Repaint(Cells) \in DesktopMessage /\ Repaint(Cells).type = "repaint" /\ Repaint(Cells).rect = Cells
    BY ServerMessages
  <2>3. Longer(dq, Repaint(Cells), dq')
    BY <1>2, <2>1, <2>2, BoundedAppend
  <2>4. RepaintOf(c, dq')
    BY <1>2, <2>2, <2>3, RepaintLonger
  <2> QED
    BY <2>4 DEF Right, Awaited
<1>4. CASE sAt \in Late
  <2>1. Right(c)
    BY <1>1, <1>4 DEF Current
  <2>2. Awaited(c) => Awaited(c)'
    <3>1. dq' = dq \/ \E m : Longer(dq, m, dq')
      <4>1. CASE henjin_process_mouse_events
        <5>1. PICK m \in DesktopMessage : dq' = Send(dq, <<m>>)
          BY <4>1, EventMessage
        <5> QED
          BY <1>2, <5>1, SentIs
      <4>2. CASE ~henjin_process_mouse_events
        BY <1>4, <4>2, ServerStep DEF Told, Passes, GivesUp, FreesEvent, AddsWindow, PlacesWindow, FreesDesktop, Late
      <4> QED
        BY <4>1, <4>2
    <3> QED
      BY <1>1, <1>2, <3>1, AwaitedLonger DEF desktopVars
  <2>3. KeptCell(c)
    BY <1>1 DEF KeptCell, desktopVars
  <2>4. CASE Placed' = Placed /\ UNCHANGED <<pos, wq>>
    <3>1. \A w : (c \in Bounds(w))' <=> c \in Bounds(w)
      BY <1>1, <2>4 DEF Bounds, windowVars
    <3>2. Above(c)' = Above(c)
      BY <2>4, <3>1, AboveStays
    <3>3. KeptWindow(Above(c))
      BY <1>1, <2>4 DEF KeptWindow, windowVars
    <3> QED
      BY <2>1, <2>2, <2>3, <3>2, <3>3, RightStays
  <2>5. CASE PlacesWindow /\ children \in Windows /\ children \notin Placed /\ Placed' = Placed \cup {children}
             /\ \A w \in Placed : w < children
    <3>1. PICK v \in Windows : v = children
      BY <2>5
    <3>2. PICK p \in Int : p = StartPos[v]
      BY Sizes
    <3>3. pos'[v] = p /\ (\A w \in Windows : w # v => pos'[w] = pos[w] /\ wq'[w] = wq[w])
      BY <2>5, <3>1, <3>2 DEF PlacesWindow, Types
    <3>4. sized' = {} /\ home'[v] = p
      <4>1. sAt = "place" /\ fault = "none"
        BY <2>5 DEF PlacesWindow, Starting
      <4>2. sized = {} /\ home = StartPos
        BY <4>1 DEF Starting, Started
      <4> QED
        BY <1>1, <3>2, <4>2 DEF windowVars
    <3>5. (c \in Bounds(v))' <=> c = p
      <4>1. Bounds(v)' = p .. p + 0
        BY <3>3, <3>4 DEF Bounds
      <4>2. c \in Int
        BY Sizes
      <4> QED
        BY <4>1, <4>2
    <3>6. v \in Nat /\ v # 0 /\ Placed' = Placed \cup {v}
          /\ \A w \in Placed : w \in Windows /\ w \in Nat /\ w # v /\ w < v
      <4>1. \A w \in Placed : w \in Windows
        BY PlacedAre
      <4> QED
        BY <2>5, <3>1, <4>1, WindowsAre
    <3> DEFINE S == {w \in Placed : c \in Bounds(w)}
               S1 == {w \in Placed' : (c \in Bounds(w))'}
    <3>7. S \in SUBSET Placed /\ S1 = S \cup (IF c = p THEN {v} ELSE {})
      <4>1. \A w \in Placed : (c \in Bounds(w))' <=> c \in Bounds(w)
        BY <1>1, <3>3, <3>6 DEF Bounds, windowVars
      <4> QED
        BY <3>5, <3>6, <4>1
    <3>8. Above(c) = Max({0} \cup S) /\ Above(c)' = Max({0} \cup S1)
      BY DEF Above
    <3> HIDE DEF S, S1
    <3>9. CASE c = p
      <4>1. S1 \in SUBSET Windows /\ v \in S1 /\ \A w \in S1 : w \in Nat /\ (w = v \/ w < v)
        BY <3>6, <3>7, <3>9
      <4>2. LET t == Max({0} \cup S1) IN t \in Nat /\ (t # 0 => t \in S1) /\ \A w \in S1 : w <= t /\ t # 0
        BY <4>1, MaxTop
      <4>3. Above(c)' \in S1 /\ v <= Above(c)'
        BY <3>8, <4>1, <4>2
      <4>4. Above(c)' = v
        <5>1. Above(c)' \in Nat /\ (Above(c)' = v \/ Above(c)' < v) /\ v <= Above(c)'
          BY <4>1, <4>3
        <5>2. \A t \in Nat : v <= t /\ (t = v \/ t < v) => t = v
          BY <3>6
        <5> QED
          BY <5>1, <5>2, Zenon
      <4>5. New(v, c)'
        BY <3>3, <3>4, <3>9 DEF New
      <4> QED
        BY <3>6, <4>4, <4>5 DEF Right
    <3>10. CASE c # p
      <4>1. Above(c)' = Above(c)
        BY <3>7, <3>8, <3>10
      <4>2. Above(c) # 0 => Above(c) \in Placed
        BY AboveIs
      <4>3. \A w \in Placed : KeptWindow(w)
        BY <1>1, <3>3, <3>6 DEF KeptWindow, windowVars
      <4> QED
        BY <2>1, <2>2, <2>3, <4>1, <4>2, <4>3, RightStays
    <3> QED
      BY <3>9, <3>10
  <2> QED
    BY <1>4, <2>4, <2>5, PlacedServer
<1> QED
  BY <1>3, <1>4

LEMMA UnplacedKept ==
  ASSUME Types, Starting, Unplaced, [Next]_vars
  PROVE  Unplaced'
<1>1. CASE UNCHANGED <<sAt, children, pos>>
  BY <1>1 DEF Unplaced, Placed
<1>2. CASE Server
  <2>1. CASE PlacesWindow
    <3>1. PICK v \in Windows : v = children /\ pos' = [pos EXCEPT ![v] = StartPos[v]]
      <4>1. children \in 1 .. plan.windows /\ plan.windows \in Windows
        BY <2>1 DEF PlacesWindow, Starting, Types
      <4>2. \A p \in Windows : \A k \in 1 .. p : k \in Windows
        BY Sizes
      <4> QED
        BY <2>1, <4>1, <4>2 DEF PlacesWindow
    <3>2. \A w \in Windows : w \notin Placed' => w \notin Placed /\ w # v
      <4>1. children' = children /\ children \in Nat /\ sAt = "place" /\ sAt' # "place"
        BY <2>1, Sizes DEF PlacesWindow, Types
      <4>2. Placed = 1 .. children - 1 /\ Placed' = 1 .. children
        BY <4>1 DEF Placed
      <4> QED
        BY <3>1, <4>1, <4>2, WindowsAre
    <3> QED
      BY <3>1, <3>2 DEF Unplaced, Types
  <2>2. ASSUME ~PlacesWindow
        PROVE  UNCHANGED pos /\ \A w \in Placed : w \in Placed'
    <3>1. CASE AddsWindow
      <4>1. children \in Nat /\ UNCHANGED pos /\ sAt = "windows" /\ sAt' = "place" /\ children' = children + 1
        BY <3>1, Sizes DEF Types, AddsWindow
      <4> QED
        BY <4>1 DEF Placed
    <3>2. CASE UNCHANGED <<pos, children>> /\ sAt' # "place"
      <4>1. children \in Nat
        BY Sizes DEF Types
      <4> QED
        BY <3>2, <4>1 DEF Placed
    <3>3. CASE henjin_process_mouse_events
      BY <3>3, EventMessage DEF Placed
    <3> DEFINE Frame == UNCHANGED <<pos, children>> /\ sAt' # "place"
    <3>4. ASSUME NEW from, NEW to, NEW m, to # "place", Told(from, to, m)
          PROVE  Frame
      BY <3>4 DEF Told
    <3>5. ASSUME NEW from, NEW to, to # "place", Passes(from, to)
          PROVE  Frame
      BY <3>5 DEF Passes
    <3>6. ASSUME GivesUp \/ FreesEvent \/ FreesDesktop
          PROVE  Frame
      BY <3>6 DEF GivesUp, FreesEvent, FreesDesktop
    <3> HIDE DEF Frame
    <3>7. Frame \/ AddsWindow \/ henjin_process_mouse_events
      <4>1. Told("disable", "wait", Msg("disable")) => Frame
        BY <3>4
      <4>2. Told("enable", "resize", Msg("enable")) => Frame
        BY <3>4
      <4>3. Told("resize", "repaint", Msg("resize")) => Frame
        BY <3>4
      <4>4. Told("repaint", "free event", Repaint(Cells)) => Frame
        BY <3>4
      <4>5. Passes("wait", "nxgi") => Frame
        BY <3>5
      <4>6. Passes("nxgi", "enable") => Frame
        BY <3>5
      <4>7. Passes("subscribe", "read") => Frame
        BY <3>5
      <4> QED
        BY <1>2, <2>2, <3>6, <4>1, <4>2, <4>3, <4>4, <4>5, <4>6, <4>7, ServerStep
    <3> QED
      BY <3>1, <3>2, <3>3, <3>7 DEF Frame
  <2> QED
    BY <2>1, <2>2 DEF Unplaced
<1>3. CASE desktop_mouse_move_handle_dragging
  <2>1. CASE pos' = pos
    BY <1>3, <2>1, DesktopStep DEF Unplaced, Placed, Desktop, serverVars
  <2>2. CASE pos' # pos
    <3>1. Dragged # {} /\ pos' = [pos EXCEPT ![Min(Dragged)] = DraggedTo(Min(Dragged), dTo)]
          /\ UNCHANGED <<sAt, children>>
      BY <1>3, <2>2 DEF desktop_mouse_move_handle_dragging, DesktopRest, serverVars
    <3>2. PICK v \in Windows : v \in Shown /\ drag[v].on /\ v = Min(Dragged)
      BY <3>1, FirstDragged DEF Dragged
    <3>3. Placed = Shown /\ Placed' = Placed
      BY <3>1, <3>2 DEF Starting, Placed, Shown
    <3> QED
      BY <3>1, <3>2, <3>3 DEF Unplaced, Types
  <2> QED
    BY <2>1, <2>2
<1>4. CASE Desktop
  <2>1. CASE ~desktop_mouse_move_handle_dragging
    <3>1. UNCHANGED pos
      BY <1>4, <2>1 DEF Desktop, DisableDrawing, EnableDrawing, desktop_resize, desktop_repaint, desktop_blit_subcontrol,
         desktop_mouse_move, desktop_mouse_down, desktop_mouse_up, UseFreedDesktop
    <3> QED
      BY <1>1, <1>4, <3>1, DesktopStep DEF serverVars
  <2> QED
    BY <1>3, <2>1
<1>5. ASSUME NEW w \in Windows, Window(w)
      PROVE  Unplaced'
  BY <1>1, <1>5, WindowStep DEF serverVars
<1>6. CASE Move \/ Press \/ Release
  BY <1>1, <1>6, MouseStep DEF serverVars
<1>7. CASE UNCHANGED vars
  BY <1>1, <1>7 DEF vars, serverVars
<1> QED
  BY <1>2, <1>4, <1>5, <1>6, <1>7 DEF Next

(* A step of the desktop that leaves where the window on top is *)
LEMMA DesktopKeeps ==
  ASSUME Types, Desktop, Running', NEW c \in Cells, Right(c), KeptCell(c), Awaited(c) => Awaited(c)',
         \A w \in Placed : (c \in Bounds(w))' <=> c \in Bounds(w),
         Above(c) # 0 => pos'[Above(c)] = pos[Above(c)]
  PROVE  Right(c)'
<1>1. UNCHANGED <<sAt, children, work, surf, home, sized>>
  BY DesktopStep DEF serverVars, windowVars
<1>2. Placed' = Placed
  BY <1>1 DEF Placed
<1>3. Above(c)' = Above(c)
  BY <1>2, AboveStays
<1>4. \A v \in Windows : \A x : RepaintOf(x, wq[v]) => RepaintOf(x, wq'[v])
  BY DesktopTells DEF Running
<1>5. Above(c) # 0 => KeptWindow(Above(c))
  <2>1. Above(c) # 0 => Above(c) \in Windows
    BY AboveIs
  <2> QED
    BY <1>1, <1>4, <2>1 DEF KeptWindow
<1> QED
  BY <1>3, <1>5, RightStays

(* The desktop takes a message that is not a repaint. *)
LEMMA TakenKeeps ==
  ASSUME Types, NEW type, type # "repaint", Handles(type), dq' = Tail(dq), UNCHANGED copying,
         NEW c
  PROVE  Awaited(c) => Awaited(c)'
<1>1. /\ Bounded(dq, DesktopMessage) /\ Bounded(dq', DesktopMessage) /\ Shorter(dq, dq') /\ dq[1].type = type
  BY HeadIs
<1>2. RepaintOf(c, dq) => RepaintOf(c, dq')
  BY <1>1, RepaintShorter
<1> QED
  BY <1>2 DEF Awaited

LEMMA SameBounds ==
  ASSUME UNCHANGED <<pos, sized>>, NEW c, NEW w
  PROVE  (c \in Bounds(w))' <=> c \in Bounds(w)
BY DEF Bounds

(* Where a dragged window has been and where it goes is asked for. *)
LEMMA UncoveredIs ==
  ASSUME NEW w, pos[w] \in Int, NEW new \in Int, NEW c \in Int,
         LET e == IF w \in sized THEN 2 ELSE 0
         IN c \in pos[w] .. pos[w] + e \/ c \in new .. new + e
  PROVE  c \in Uncovered(w, new)
<1> DEFINE a == pos[w]
           e == IF w \in sized THEN 2 ELSE 0
           Least(x) == x \in {a, new} /\ \A y \in {a, new} : x <= y
           Greatest(x) == x \in {a, new} /\ \A y \in {a, new} : x >= y
<1>1. a \in Int /\ e \in Int /\ (c \in a .. a + e \/ c \in new .. new + e)
  OBVIOUS
<1>2. Uncovered(w, new) = Min({a, new}) .. Max({a, new}) + e
  BY DEF Uncovered
<1> HIDE DEF a, e
<1>3. Least(IF a <= new THEN a ELSE new) /\ Greatest(IF a <= new THEN new ELSE a)
  BY <1>1
<1> HIDE DEF Least, Greatest
<1>4. Least(CHOOSE x : Least(x)) /\ Greatest(CHOOSE x : Greatest(x))
  BY <1>3, Zenon
<1>5. Min({a, new}) = CHOOSE x : Least(x)
  BY DEF Min, Least
<1>6. Max({a, new}) = CHOOSE x : Greatest(x)
  BY DEF Max, Greatest
<1> DEFINE l == Min({a, new})
           g == Max({a, new})
<1>7. /\ l \in {a, new} /\ l <= a /\ l <= new
      /\ g \in {a, new} /\ a <= g /\ new <= g
  BY <1>4, <1>5, <1>6 DEF Least, Greatest
<1> HIDE DEF l, g
<1>8. l \in Int /\ g \in Int
  BY <1>1, <1>7
<1>9. c \in l .. g + e
  BY <1>1, <1>7, <1>8
<1> QED
  BY <1>2, <1>9 DEF l, g

LEMMA CurrentRepaint ==
  ASSUME Types, Drawing, Current, desktop_repaint, ~lost, Running, Running', sAt \in Late, NEW c \in Cells
  PROVE  Right(c)'
<1>1. Right(c)
  BY DEF Current
<1>2. /\ Handles("repaint") /\ dq' = Tail(dq) /\ UNCHANGED <<d_mouse, pos>>
      /\ drawing => /\ copying' = Head(dq).rect
                    /\ screen' = [x \in Cells |-> [screen[x] EXCEPT !.pointer = @ /\ x \notin Clock]]
  BY DEF desktop_repaint, Taken
<1>3. /\ Bounded(dq, DesktopMessage) /\ Bounded(dq', DesktopMessage) /\ Shorter(dq, dq')
      /\ dq[1].type = "repaint" /\ Head(dq) = dq[1] /\ copying = {} /\ Len(dq) \in Nat \ {0}
  BY <1>2, HeadIs
<1>4. drawing
  <2>1. ~Enabled(dq)
    <3>1. \A i \in 1 .. Len(dq) : i = 1 \/ 1 \in 1 .. i - 1
      BY <1>3
    <3> QED
      BY <1>3, <3>1 DEF Enabled
  <2> QED
    BY <2>1 DEF Drawing
<1>5. Awaited(c) => Awaited(c)'
  <2>1. RepaintOf(c, dq) => RepaintOf(c, dq') \/ c \in Head(dq).rect
    BY <1>3, RepaintShorter
  <2> QED
    BY <1>2, <1>3, <1>4, <2>1 DEF Awaited
<1>6. KeptCell(c)
  <2>1. screen'[c] = [screen[c] EXCEPT !.pointer = @ /\ c \notin Clock]
    BY <1>2, <1>4
  <2>2. screen[c] \in Pictures
    BY DEF Types
  <2>3. ASSUME NEW s \in Pictures
        PROVE  LET t == [s EXCEPT !.pointer = @ /\ c \notin Clock] IN
               /\ t.window = s.window /\ t.part = s.part
               /\ c \in Clock \/ t.pointer = s.pointer
    BY DEF Pictures
  <2>4. /\ screen'[c].window = screen[c].window /\ screen'[c].part = screen[c].part
        /\ c \in Clock \/ screen'[c].pointer = screen[c].pointer
    BY <2>1, <2>2, <2>3
  <2> QED
    BY <1>2, <2>4 DEF KeptCell
<1>7. UNCHANGED sized
  BY DEF desktop_repaint, DesktopRest, windowVars
<1>8. Desktop
  BY DEF Desktop
<1> QED
  BY <1>1, <1>2, <1>5, <1>6, <1>7, <1>8, SameBounds, DesktopKeeps

LEMMA CurrentBlit ==
  ASSUME Types, Starting, Unplaced, Current, desktop_blit_subcontrol, ~lost, Running, Running', sAt \in Late,
         NEW c \in Cells
  PROVE  Right(c)'
<1>1. /\ UNCHANGED <<d_mouse, pos, dq, sized, sAt, children, surf>>
      /\ copying # {} /\ copying' = copying \ {Min(copying)}
      /\ screen' = [screen EXCEPT ![Min(copying)] = Picture(Min(copying))]
  BY DEF desktop_blit_subcontrol, DesktopRest, windowVars, serverVars
<1>2. CASE c # Min(copying)
  <2>1. screen'[c] = screen[c] /\ (Awaited(c) => Awaited(c)')
    BY <1>1, <1>2 DEF Types, Awaited
  <2>2. KeptCell(c)
    BY <1>1, <2>1 DEF KeptCell
  <2>3. Right(c) /\ Desktop
    BY DEF Current, Desktop
  <2> QED
    BY <1>1, <2>1, <2>2, <2>3, SameBounds, DesktopKeeps
<1>3. CASE c = Min(copying)
  <2>1. screen'[c] = [window |-> Top(c), part |-> Part(c, Top(c)), pointer |-> c = d_mouse]
    BY <1>1, <1>3, PictureIs DEF Types
  <2>2. Above(c)' = Above(c)
    <3>1. Placed' = Placed
      BY <1>1 DEF Placed
    <3> QED
      BY <1>1, <3>1, SameBounds, AboveStays
  <2>3. CASE Top(c) = Above(c)
    <3>1. Part(c, Above(c))' = Part(c, Above(c))
      BY <1>1, <2>2 DEF Part
    <3>2. screen'[c].window = Above(c) /\ screen'[c].part = Part(c, Above(c)) /\ screen'[c].pointer = (c = d_mouse)
      BY <2>1, <2>3
    <3>3. Correct(c)'
      BY <1>1, <2>2, <3>1, <3>2 DEF Correct
    <3> QED
      BY <3>3 DEF Right
  <2>4. CASE Top(c) # Above(c)
    <3>1. sAt = "place" /\ Top(c) = children /\ children \in Windows \ Placed
      <4>1. Top(c) # 0 /\ Top(c) \in Shown /\ Top(c) \in Windows /\ c \in Bounds(Top(c)) /\ Top(c) \notin Placed
        <5>1. \A w \in Placed : w \in Shown
          BY PlacedAre
        <5>2. Above(c) \in Nat /\ Top(c) \in Nat
          BY AboveIs, TopIs
        <5>3. Above(c) # 0 => Above(c) <= Top(c) /\ Top(c) # 0
          BY <5>1, AboveIs, TopIs
        <5>4. Top(c) # 0
          BY <2>4, <5>3
        <5>5. Top(c) \in Placed => Top(c) <= Above(c) /\ Above(c) # 0
          BY <5>4, AboveIs, TopIs
        <5>6. Top(c) \notin Placed
          <6>1. \A x, y \in Nat : x <= y /\ y <= x => x = y
            OBVIOUS
          <6> QED
            BY <2>4, <5>2, <5>3, <5>5, <6>1, Zenon
        <5> QED
          BY <5>4, <5>6, TopIs
      <4>2. children \in Nat
        BY Sizes DEF Types
      <4>3. \A w \in Shown : w \notin Placed => sAt = "place" /\ w = children
        BY <4>2 DEF Shown, Placed
      <4> QED
        BY <4>1, <4>3
    <3>2. pos[children] = 0 /\ sized = {}
      <4>1. ~Started
        BY <3>1 DEF Starting, Started
      <4> QED
        BY <3>1, <4>1 DEF Starting, Unplaced
    <3>3. c = 0
      <4>1. c \in Bounds(children)
        BY <3>1, TopIs, WindowsAre
      <4>2. Bounds(children) = 0 .. 0 + 0
        BY <3>2 DEF Bounds
      <4> QED
        BY <4>1, <4>2
    <3>4. Part(c, Top(c)) = "sliver"
      BY <3>1, <3>2, <3>3, WindowsAre DEF Part
    <3> QED
      BY <2>1, <3>3, <3>4 DEF Right
  <2> QED
    BY <2>3, <2>4
<1> QED
  BY <1>2, <1>3

LEMMA CurrentMove ==
  ASSUME Types, Current, desktop_mouse_move, ~lost', ~lost, Running, Running', sAt \in Late, NEW c \in Cells
  PROVE  Right(c)'
<1>1. PICK x \in Cells : x = Head(dq).x
  BY HeadIs DEF desktop_mouse_move
<1> DEFINE q == Tail(dq)
           m == Repaint({d_mouse})
           n == Repaint({x})
<1>2. /\ Handles("move") /\ d_mouse' = x /\ UNCHANGED <<copying, screen, pos, sized>>
      /\ x = d_mouse => dq' = Send(q, <<m>>) /\ ~Lost(q, <<m>>)
      /\ x # d_mouse => dq' = Send(q, <<m, n>>) /\ ~Lost(q, <<m, n>>)
  BY <1>1 DEF desktop_mouse_move, TakenAsking, DesktopRest, windowVars
<1>3. /\ Bounded(dq, DesktopMessage) /\ Bounded(q, DesktopMessage) /\ Shorter(dq, q)
      /\ dq[1].type = "move" /\ copying = {}
  BY <1>2, HeadIs
<1>4. /\ m \in DesktopMessage /\ m.type = "repaint" /\ m.rect = {d_mouse}
      /\ n \in DesktopMessage /\ n.type = "repaint" /\ n.rect = {x}
  BY RepaintIs DEF Types
<1>5. RepaintOf(c, dq) => RepaintOf(c, q)
  BY <1>3, RepaintShorter
<1>6. Bounded(dq', DesktopMessage)
  BY TypesDesktop DEF Types, Desktop
<1> HIDE DEF q, m, n
<1>7. /\ RepaintOf(c, q) => RepaintOf(c, dq')
      /\ x # d_mouse /\ (c = d_mouse \/ c = x) => RepaintOf(c, dq')
  <2>1. CASE x = d_mouse
    <3>1. Longer(q, m, dq')
      BY <1>2, <1>3, <1>4, <2>1, SentIs
    <3> QED
      BY <1>3, <1>6, <2>1, <3>1, RepaintLonger
  <2>2. CASE x # d_mouse
    <3>1. PICK q1 : Bounded(q1, DesktopMessage) /\ Longer(q, m, q1) /\ Longer(q1, n, dq')
      BY <1>2, <1>3, <1>4, <2>2, SentTwo
    <3>2. RepaintOf(c, q1) <=> RepaintOf(c, q) \/ c = d_mouse
      BY <1>3, <1>4, <3>1, RepaintLonger
    <3>3. RepaintOf(c, dq') <=> RepaintOf(c, q1) \/ c = x
      BY <1>4, <1>6, <3>1, RepaintLonger
    <3> QED
      BY <3>2, <3>3
  <2> QED
    BY <2>1, <2>2
<1>8. CASE x # d_mouse /\ (c = d_mouse \/ c = x)
  BY <1>7, <1>8 DEF Right, Awaited
<1>9. CASE ~(x # d_mouse /\ (c = d_mouse \/ c = x))
  <2>1. KeptCell(c)
    BY <1>2, <1>9 DEF KeptCell
  <2>2. Awaited(c) => Awaited(c)'
    BY <1>2, <1>3, <1>5, <1>7 DEF Awaited
  <2>3. Right(c) /\ Desktop
    BY DEF Current, Desktop
  <2> QED
    BY <1>2, <2>1, <2>2, <2>3, SameBounds, DesktopKeeps
<1> QED
  BY <1>8, <1>9

LEMMA CurrentDragging ==
  ASSUME Types, Starting, Current, desktop_mouse_move_handle_dragging, ~lost', ~lost, Running, Running',
         sAt \in Late, NEW c \in Cells
  PROVE  Right(c)'
<1>1. /\ UNCHANGED <<copying, screen, d_mouse, sized>> /\ Right(c) /\ Desktop /\ dTo # -1
  BY DEF desktop_mouse_move_handle_dragging, DesktopRest, windowVars, Current, Desktop
<1>2. KeptCell(c)
  BY <1>1 DEF KeptCell
<1>3. CASE UNCHANGED <<pos, dq>>
  <2>1. Awaited(c) => Awaited(c)'
    BY <1>1, <1>3 DEF Awaited
  <2> QED
    BY <1>1, <1>2, <1>3, <2>1, SameBounds, DesktopKeeps
<1>4. CASE ~(UNCHANGED <<pos, dq>>)
  <2>1. /\ Dragged # {} /\ pos' = [pos EXCEPT ![Min(Dragged)] = DraggedTo(Min(Dragged), dTo)]
        /\ ToDesktop(<<Repaint(Uncovered(Min(Dragged), DraggedTo(Min(Dragged), dTo)) \cap Cells)>>)
    BY <1>4 DEF desktop_mouse_move_handle_dragging
  <2>2. PICK v \in Windows : v = Min(Dragged) /\ v \in Shown /\ drag[v].on
    BY <2>1, FirstDragged DEF Dragged
  <2>3. PICK new \in Int : new = DraggedTo(v, dTo)
    <3>1. dTo \in Int /\ drag[v].from \in Int /\ drag[v].source \in Int
      BY Sizes DEF Types
    <3> QED
      BY <3>1 DEF DraggedTo
  <2> DEFINE rect == Uncovered(v, new) \cap Cells
             m == Repaint(rect)
  <2>4. pos' = [pos EXCEPT ![v] = new] /\ ToDesktop(<<m>>)
    BY <2>1, <2>2, <2>3
  <2>5. m \in DesktopMessage /\ m.type = "repaint" /\ m.rect = rect
    <3>1. rect \subseteq Cells
      OBVIOUS
    <3> QED
      BY <3>1, RepaintIs
  <2> HIDE DEF m, rect
  <2>6. Bounded(dq, DesktopMessage) /\ Bounded(dq', DesktopMessage)
    BY <1>1, TypesDesktop DEF Types
  <2>7. Longer(dq, m, dq')
    BY <2>4, <2>5, <2>6, SentIs DEF ToDesktop
  <2>8. RepaintOf(c, dq') <=> RepaintOf(c, dq) \/ c \in rect
    BY <2>5, <2>6, <2>7, RepaintLonger
  <2>9. CASE c \in rect
    BY <2>8, <2>9 DEF Right, Awaited
  <2>10. CASE c \notin rect
    <3>1. Awaited(c) => Awaited(c)'
      BY <1>1, <2>8 DEF Awaited
    <3>2. pos[v] \in Int /\ c \in Int /\ c \notin Uncovered(v, new)
      BY <2>10, Sizes DEF Types, rect
    <3>3. c \notin pos[v] .. pos[v] + (IF v \in sized THEN 2 ELSE 0)
          /\ c \notin new .. new + (IF v \in sized THEN 2 ELSE 0)
      BY <3>2, UncoveredIs
    <3>4. pos'[v] = new /\ \A w \in Windows : w # v => pos'[w] = pos[w]
      BY <2>4 DEF Types
    <3>5. ~((c \in Bounds(v))') /\ c \notin Bounds(v)
      BY <1>1, <3>3, <3>4 DEF Bounds
    <3>6. \A w \in Placed : (c \in Bounds(w))' <=> c \in Bounds(w)
      <4>1. \A w \in Windows : w # v => ((c \in Bounds(w))' <=> c \in Bounds(w))
        BY <1>1, <3>4 DEF Bounds
      <4> QED
        BY <3>5, <4>1, PlacedAre
    <3>7. Above(c) # 0 => pos'[Above(c)] = pos[Above(c)]
      <4>1. Above(c) # 0 => Above(c) \in Windows /\ c \in Bounds(Above(c))
        BY AboveIs
      <4>2. Above(c) # 0 => Above(c) # v
        BY <3>5, <4>1
      <4> QED
        BY <3>4, <4>1, <4>2
    <3> QED
      BY <1>1, <1>2, <3>1, <3>6, <3>7, DesktopKeeps
  <2> QED
    BY <2>9, <2>10
<1> QED
  BY <1>3, <1>4

LEMMA CurrentDesktop ==
  ASSUME Types, Starting, Unplaced, Drawing, Current, Desktop, ~lost', Running', sAt' \in Late, NEW c \in Cells
  PROVE  Right(c)'
<1>1. ~lost /\ Running /\ sAt \in Late /\ UNCHANGED sized
  BY DesktopStep DEF serverVars, windowVars
<1>2. Right(c)
  BY <1>1 DEF Current
<1>3. ASSUME NEW type, type # "repaint", Handles(type), Taken, UNCHANGED <<copying, screen, d_mouse, pos>>
      PROVE  Right(c)'
  <2>1. Awaited(c) => Awaited(c)'
    BY <1>3, TakenKeeps DEF Taken
  <2>2. KeptCell(c)
    BY <1>3 DEF KeptCell
  <2> QED
    BY <1>1, <1>2, <1>3, <2>1, <2>2, SameBounds, DesktopKeeps
<1>4. CASE DisableDrawing
  <2>1. Handles("disable") /\ Taken /\ UNCHANGED <<copying, screen, d_mouse, pos>>
    BY <1>4 DEF DisableDrawing
  <2> QED
    BY <1>3, <2>1
<1>5. CASE EnableDrawing
  <2>1. Handles("enable") /\ Taken /\ UNCHANGED <<copying, screen, d_mouse, pos>>
    BY <1>5 DEF EnableDrawing
  <2> QED
    BY <1>3, <2>1
<1>6. CASE desktop_resize
  <2>1. Handles("resize") /\ Taken /\ UNCHANGED <<copying, screen, d_mouse, pos>>
    BY <1>6 DEF desktop_resize, desktopVars
  <2> QED
    BY <1>3, <2>1
<1>7. CASE desktop_mouse_down
  <2>1. Handles("down") /\ Taken /\ UNCHANGED <<copying, screen, d_mouse, pos>>
    BY <1>7 DEF desktop_mouse_down
  <2> QED
    BY <1>3, <2>1
<1>8. CASE desktop_mouse_up
  <2>1. Handles("up") /\ Taken /\ UNCHANGED <<copying, screen, d_mouse, pos>>
    BY <1>8 DEF desktop_mouse_up
  <2> QED
    BY <1>3, <2>1
<1>9. CASE UseFreedDesktop
  BY <1>9 DEF UseFreedDesktop, Used, Running
<1> QED
  BY <1>1, <1>4, <1>5, <1>6, <1>7, <1>8, <1>9, CurrentRepaint, CurrentBlit, CurrentMove, CurrentDragging DEF Desktop

(* The window on top stays there. *)
LEMMA RightOwn ==
  ASSUME NEW c \in Cells, NEW w, w # 0, Right(c), Above(c) = w, Above(c)' = w, KeptCell(c),
         Awaited(c) => Awaited(c)',
         pos'[w] = pos[w], home'[w] = home[w], w \in sized' <=> w \in sized,
         c = pos[w] \/ surf'[w][c - pos[w] - 1] = surf[w][c - pos[w] - 1],
         Working(w, c) => Working(w, c)' \/ Awaited(c)',
         RepaintOf(c - pos[w] - 1, wq[w]) => RepaintOf(c - pos[w] - 1, wq'[w]),
         work[w].at = "ask" /\ c - pos[w] - 1 \in work[w].rect => RepaintOf(c - pos[w] - 1, wq'[w])
  PROVE  Right(c)'
<1>1. Part(c, Above(c))' = Part(c, Above(c))
  BY DEF Part
<1>2. Correct(c) => Correct(c)'
  BY <1>1 DEF Correct, KeptCell
<1>3. Working(Above(c), c)' <=> Working(w, c)'
  BY DEF Working
<1>4. New(w, c) => New(Above(c), c)'
  BY DEF New
<1> QED
  BY <1>2, <1>3, <1>4 DEF Right, KeptCell

LEMMA RightWorking ==
  ASSUME NEW c \in Cells, NEW w, w # 0, Above(c)' = w, Working(w, c)'
  PROVE  Right(c)'
BY DEF Right, Working

LEMMA CurrentResize ==
  ASSUME Types, NEW w \in Windows, window_resize(w), Running', NEW c \in Cells, Right(c), KeptCell(c),
         Awaited(c) => Awaited(c)', Placed' = Placed
  PROVE  Right(c)'
<1>1. /\ pos' = pos /\ sized' = sized \cup {w} /\ home' = [home EXCEPT ![w] = pos[w]]
      /\ Goes(w, "ask", Buttons)
  BY DEF window_resize, WindowRest, Running
<1>2. pos[w] \in Int /\ c \in Int /\ w # 0 /\ w \in Nat
  BY Sizes, WindowsAre DEF Types
<1>3. \A v \in Windows : v # w => KeptWindow(v)
  <2>1. Window(w)
    BY DEF Window
  <2> QED
    BY <1>1, <2>1, WindowStep DEF KeptWindow
<1> DEFINE S == {v \in Placed : c \in Bounds(v)}
           S1 == {v \in Placed' : (c \in Bounds(v))'}
<1>4. \A v \in Windows : v # w => ((c \in Bounds(v))' <=> c \in Bounds(v))
  BY <1>1 DEF Bounds
<1>5. c \in Bounds(w) => (c \in Bounds(w))'
  BY <1>1, <1>2 DEF Bounds
<1>6. S \subseteq S1 /\ S1 \subseteq S \cup {w} /\ S1 \in SUBSET Windows /\ S \in SUBSET Windows
  BY <1>4, <1>5, PlacedAre
<1>7. Above(c) = Max({0} \cup S) /\ Above(c)' = Max({0} \cup S1)
  BY DEF Above
<1>8. ASSUME w \in S1
      PROVE  (c \in Bounds(w))'
  BY <1>8
<1> HIDE DEF S, S1
<1>9. Above(c) \in Nat /\ (Above(c) # 0 => Above(c) \in S) /\ \A v \in S : v <= Above(c) /\ Above(c) # 0
  BY <1>6, <1>7, MaxTop
<1>10. PICK a \in Nat : /\ a = Above(c)' /\ (a # 0 => a \in S1) /\ \A v \in S1 : v <= a /\ a # 0
  <2>1. LET t == Max({0} \cup S1) IN t \in Nat /\ (t # 0 => t \in S1) /\ \A v \in S1 : v <= t /\ t # 0
    BY <1>6, MaxTop
  <2> QED
    BY <1>7, <2>1
<1>11. CASE a = w
  <2>1. (c \in Bounds(w))'
    BY <1>2, <1>8, <1>10, <1>11
  <2>2. c \in pos[w] .. pos[w] + 2
    BY <1>1, <2>1 DEF Bounds
  <2>3. c = pos[w] \/ c - pos[w] - 1 \in Buttons
    BY <1>2, <2>2 DEF Buttons
  <2>4. work'[w].at = "ask" /\ work'[w].rect = Buttons /\ pos'[w] = pos[w] /\ home'[w] = pos[w]
    BY <1>1 DEF Goes, Types
  <2>5. New(Above(c), c)' /\ Above(c)' # 0
    BY <1>2, <1>10, <1>11, <2>3, <2>4 DEF New
  <2> QED
    BY <2>5 DEF Right
<1>12. CASE a # w
  <2>1. a = Above(c)
    <3>1. a # 0 => a \in S
      BY <1>6, <1>10, <1>12
    <3>2. Above(c) # 0 => Above(c) \in S1
      BY <1>6, <1>9
    <3>3. a # 0 => a <= Above(c) /\ Above(c) # 0
      BY <1>9, <3>1
    <3>4. Above(c) # 0 => Above(c) <= a /\ a # 0
      BY <1>10, <3>2
    <3>5. \A x, y \in Nat : x <= y /\ y <= x => x = y
      OBVIOUS
    <3> QED
      BY <1>9, <3>3, <3>4, <3>5, Zenon
  <2>2. Above(c) # 0 => Above(c) \in Windows /\ Above(c) # w
    BY <1>12, <2>1, AboveIs
  <2>3. Above(c)' = Above(c)
    BY <1>10, <2>1
  <2> QED
    BY <1>3, <2>2, <2>3, RightStays
<1> QED
  BY <1>11, <1>12

(* What the thread of the window on top does to one of its cells *)
LEMMA CurrentOwn ==
  ASSUME Types, Types', NEW w \in Windows, Window(w), ~window_resize(w), ~lost', Running', NEW c \in Cells,
         Right(c), KeptCell(c), Awaited(c) => Awaited(c)', c \in Bounds(w), Above(c) = w, Above(c)' = w
  PROVE  Right(c)'
<1>1. pos' = pos /\ sized' = sized /\ home' = home /\ Running
  BY DEF Window, window_dispatch_mouse_message, AskItself, window_repaint, button_repaint,
     hj_control_request_parent_repaint, TellDesktop, WindowRest, Takes
<1>2. w # 0 /\ pos[w] \in Int /\ c \in Int
  BY Sizes, WindowsAre DEF Types
<1> DEFINE d == c - pos[w] - 1
<1>3. c = pos[w] \/ d \in Buttons
  <2>1. c \in pos[w] .. pos[w] + 2
    BY <1>2 DEF Bounds
  <2> QED
    BY <1>2, <2>1 DEF Buttons
<1>4. c = pos[w] + 1 + d
  BY <1>2
<1> HIDE DEF d
<1> DEFINE Kept == /\ c = pos[w] \/ surf'[w][d] = surf[w][d]
                   /\ Working(w, c) => Working(w, c)' \/ Awaited(c)'
                   /\ RepaintOf(d, wq[w]) => RepaintOf(d, wq'[w])
                   /\ work[w].at = "ask" /\ d \in work[w].rect => RepaintOf(d, wq'[w])
<1>5. ASSUME Kept
      PROVE  Right(c)'
  BY <1>1, <1>2, <1>5, RightOwn DEF d
<1>6. CASE window_dispatch_mouse_message(w)
  <2>1. Takes(w, {"move", "down", "up"}) /\ surf' = surf
    BY <1>6 DEF window_dispatch_mouse_message
  <2>2. work[w] = Idle /\ \A x : RepaintOf(x, wq[w]) => RepaintOf(x, wq'[w])
    BY <2>1, TakenIs
  <2>3. Kept
    BY <2>1, <2>2 DEF Working, Idle
  <2> QED
    BY <1>5, <2>3
<1>7. CASE AskItself(w)
  <2>1. work[w].at = "ask" /\ ToWindow(w, Repaint(work[w].rect)) /\ surf' = surf
    BY <1>7 DEF AskItself
  <2>2. work[w].rect \subseteq Buttons
    BY <2>1 DEF Types
  <2>3. /\ Repaint(work[w].rect) \in WindowMessage /\ Repaint(work[w].rect).type = "repaint"
        /\ Repaint(work[w].rect).rect = work[w].rect
    BY <2>2, RepaintIs
  <2>4. \A x : RepaintOf(x, wq'[w]) <=> RepaintOf(x, wq[w]) \/ x \in work[w].rect
    BY <2>1, <2>3, ToldIs DEF Running
  <2>5. Kept
    BY <2>1, <2>4 DEF Working
  <2> QED
    BY <1>5, <2>5
<1>8. CASE window_repaint(w)
  <2>1. PICK rect \in SUBSET Buttons :
          /\ rect = Head(wq[w]).rect /\ Takes(w, {"repaint"}) /\ Goes(w, "paint", rect)
          /\ surf' = [surf EXCEPT ![w] = [b \in Buttons |-> IF b \in rect THEN "blank" ELSE @[b]]]
    <3>1. Takes(w, {"repaint"})
      BY <1>8 DEF window_repaint
    <3>2. Head(wq[w]).rect \in SUBSET Buttons
      BY <3>1, TakenIs DEF WindowMessage
    <3> QED
      BY <1>8, <3>2 DEF window_repaint
  <2>2. work[w] = Idle /\ \A x : RepaintOf(x, wq[w]) => RepaintOf(x, wq'[w]) \/ x \in rect
    BY <2>1, TakenIs
  <2>3. work'[w] = [at |-> "paint", rect |-> rect]
    BY <2>1 DEF Goes, Types
  <2>4. CASE d \in rect
    <3>1. Working(w, c)'
      BY <1>1, <2>3, <2>4 DEF Working, d
    <3> QED
      BY <1>2, <3>1, RightWorking
  <2>5. CASE d \notin rect
    <3>1. c = pos[w] \/ surf'[w][d] = surf[w][d]
      BY <1>3, <2>1, <2>5 DEF Types
    <3>2. Kept
      BY <2>2, <2>5, <3>1 DEF Working, Idle
    <3> QED
      BY <1>5, <3>2
  <2> QED
    BY <2>4, <2>5
<1>9. CASE button_repaint(w)
  <2>1. work[w].at = "paint" /\ Unpainted(w) # {} /\ UNCHANGED <<work, wq>>
        /\ surf' = [surf EXCEPT ![w][Min(Unpainted(w))] = Face(w, Min(Unpainted(w)))]
    BY <1>9 DEF button_repaint
  <2>2. work[w].rect \subseteq Buttons
    BY <2>1 DEF Types
  <2>3. PICK b \in work[w].rect : b = Min(Unpainted(w))
    <3>1. Unpainted(w) \in SUBSET Nat /\ Unpainted(w) \subseteq work[w].rect
      BY <2>2 DEF Unpainted, Buttons
    <3> QED
      BY <2>1, <3>1, MinIs
  <2>4. CASE d \in work[w].rect
    <3>1. Working(w, c)'
      BY <1>1, <2>1, <2>4 DEF Working, d
    <3> QED
      BY <1>2, <3>1, RightWorking
  <2>5. CASE d \notin work[w].rect
    <3>1. c = pos[w] \/ surf'[w][d] = surf[w][d]
      BY <1>3, <2>1, <2>3, <2>5 DEF Types
    <3>2. Kept
      BY <1>1, <2>1, <3>1 DEF Working
    <3> QED
      BY <1>5, <3>2
  <2> QED
    BY <2>4, <2>5
<1>10. CASE hj_control_request_parent_repaint(w)
  <2>1. work[w].at = "paint" /\ UNCHANGED <<surf, wq>>
        /\ Goes(w, "tell", {pos[w] + 1 + b : b \in work[w].rect} \cap Cells)
    BY <1>10 DEF hj_control_request_parent_repaint, Used, Running
  <2>2. work'[w].at = "tell" /\ work'[w].rect = {pos[w] + 1 + b : b \in work[w].rect} \cap Cells
    BY <2>1 DEF Goes, Types
  <2>3. Working(w, c) => Working(w, c)'
    <3>1. Working(w, c) => d \in work[w].rect
      BY <2>1 DEF Working, d
    <3>2. d \in work[w].rect => c \in work'[w].rect
      BY <1>4, <2>2
    <3> QED
      BY <2>2, <3>1, <3>2 DEF Working
  <2>4. Kept
    BY <2>1, <2>3
  <2> QED
    BY <1>5, <2>4
<1>11. CASE TellDesktop(w)
  <2>1. work[w].at = "tell" /\ UNCHANGED <<surf, wq>> /\ ToDesktop(<<Repaint(work[w].rect)>>)
    BY <1>11 DEF TellDesktop, Used, Running
  <2>2. work[w].rect \subseteq Cells
    BY <2>1 DEF Types
  <2> DEFINE m == Repaint(work[w].rect)
  <2>3. m \in DesktopMessage /\ m.type = "repaint" /\ m.rect = work[w].rect
    BY <2>2, RepaintIs
  <2>4. Bounded(dq, DesktopMessage) /\ Bounded(dq', DesktopMessage)
    BY DEF Types
  <2>5. dq' = Send(dq, <<m>>) /\ ~Lost(dq, <<m>>)
    BY <2>1 DEF ToDesktop
  <2> HIDE DEF m
  <2>6. Longer(dq, m, dq')
    BY <2>3, <2>4, <2>5, SentIs
  <2>7. c \in work[w].rect => RepaintOf(c, dq')
    BY <2>3, <2>4, <2>6, RepaintLonger
  <2>8. Working(w, c) => Awaited(c)'
    BY <2>1, <2>7 DEF Working, Awaited
  <2>9. Kept
    BY <2>1, <2>8
  <2> QED
    BY <1>5, <2>9
<1> QED
  BY <1>6, <1>7, <1>8, <1>9, <1>10, <1>11 DEF Window

LEMMA CurrentWindow ==
  ASSUME Types, Types', Current, NEW w \in Windows, Window(w), ~lost', Running', sAt' \in Late, NEW c \in Cells
  PROVE  Right(c)'
<1>1. /\ UNCHANGED <<sAt, children, pos, desktopVars>> /\ Running /\ ~lost
      /\ \A v \in Windows : v # w => KeptWindow(v)
  BY WindowStep DEF serverVars, KeptWindow
<1>2. Right(c) /\ Placed' = Placed
  BY <1>1 DEF Current, Placed
<1>3. KeptCell(c)
  BY <1>1 DEF KeptCell, desktopVars
<1>4. Awaited(c) => Awaited(c)'
  <2>1. CASE UNCHANGED dq
    BY <1>1, <2>1 DEF Awaited, desktopVars
  <2>2. CASE TellDesktop(w) /\ ToDesktop(<<Repaint(work[w].rect)>>)
    <3>1. work[w].rect \subseteq Cells
      BY <2>2 DEF TellDesktop, Types
    <3>2. Repaint(work[w].rect) \in DesktopMessage
      BY <3>1, RepaintIs
    <3>3. Bounded(dq, DesktopMessage) /\ Bounded(dq', DesktopMessage)
      BY DEF Types
    <3>4. dq' = dq \/ Longer(dq, Repaint(work[w].rect), dq')
      BY <2>2, <3>2, <3>3, SentIs DEF ToDesktop
    <3> QED
      BY <1>1, <3>3, <3>4, AwaitedLonger DEF desktopVars
  <2> QED
    BY <2>1, <2>2, WindowStep
<1>5. CASE window_resize(w)
  BY <1>2, <1>3, <1>4, <1>5, CurrentResize
<1>6. CASE ~window_resize(w)
  <2>1. sized' = sized
    BY <1>6 DEF Window, window_dispatch_mouse_message, AskItself, window_repaint, button_repaint,
       hj_control_request_parent_repaint, TellDesktop
  <2>2. Above(c)' = Above(c)
    BY <1>1, <1>2, <2>1, SameBounds, AboveStays
  <2>3. CASE Above(c) = w
    <3>1. c \in Bounds(w)
      BY <2>3, AboveIs, WindowsAre
    <3> QED
      BY <1>2, <1>3, <1>4, <1>6, <2>2, <2>3, <3>1, CurrentOwn
  <2>4. CASE Above(c) # w
    <3>1. Above(c) # 0 => KeptWindow(Above(c))
      BY <1>1, <2>4, AboveIs
    <3> QED
      BY <1>2, <1>3, <1>4, <2>2, <3>1, RightStays
  <2> QED
    BY <2>3, <2>4
<1> QED
  BY <1>5, <1>6

LEMMA CurrentKept ==
  ASSUME IInv, [Next]_vars
  PROVE  Current'
<1> SUFFICES ASSUME ~lost', Running', sAt' \in Late, NEW c \in Cells
             PROVE  Right(c)'
  BY DEF Current
<1>1. Types /\ Types' /\ Starting /\ Unplaced /\ Drawing /\ Current
  BY TypesKept DEF IInv
<1>2. CASE Server
  BY <1>1, <1>2, CurrentServer
<1>3. CASE Desktop
  BY <1>1, <1>3, CurrentDesktop
<1>4. ASSUME NEW w \in Windows, Window(w)
      PROVE  Right(c)'
  BY <1>1, <1>4, CurrentWindow
<1>5. CASE Move \/ Press \/ Release \/ UNCHANGED vars
  <2>1. /\ UNCHANGED <<sAt, desktopVars, dq, children, pos, windowVars, wq, halted>> /\ ~lost
    BY <1>5, MouseStep DEF vars, serverVars
  <2>2. Right(c)
    BY <1>1, <2>1 DEF Current, Running
  <2>3. Placed' = Placed /\ KeptCell(c) /\ (Awaited(c) => Awaited(c)')
    BY <2>1 DEF Placed, KeptCell, Awaited, desktopVars
  <2>4. Above(c)' = Above(c)
    BY <2>1, <2>3, SameBounds, AboveStays DEF windowVars
  <2>5. KeptWindow(Above(c))
    BY <2>1 DEF KeptWindow, windowVars
  <2> QED
    BY <2>2, <2>3, <2>4, <2>5, RightStays
<1> QED
  BY <1>2, <1>3, <1>4, <1>5 DEF Next

-----------------------------------------------------------------------------
(* The theorems *)

LEMMA Initially ==
  ASSUME Init
  PROVE  IInv
<1>1. \A M : Bounded(<<>>, M)
  BY Sizes DEF Bounded
<1>2. Shown = {} /\ children = 0
  BY DEF Init, Shown
<1>3. Types
  <2>1. held \subseteq MouseButtons /\ ring \in Seq(EventType) /\ Len(ring) <= RingSize
    BY Sizes DEF Init
  <2>2. plan \in [windows : Windows, events : Nat, calm : BOOLEAN]
    BY HenjinAssumption DEF Init, Windows
  <2>3. /\ sAt \in Stages /\ ev \in {"clear", "signalled", "freed"} /\ desktop \in {"live", "freed"}
        /\ copying \subseteq Cells /\ drawing \in BOOLEAN /\ dTo \in {-1, d_mouse}
    BY DEF Init, Stages, Early
  <2>12. mouse \in Cells /\ d_mouse \in Cells /\ children \in 0 .. Len(StartPos)
    BY Sizes DEF Init
  <2>4. Nothing \in Pictures
    BY DEF Nothing, Pictures
  <2>5. screen \in [Cells -> Pictures]
    BY <2>4 DEF Init
  <2>6. Bounded(dq, DesktopMessage)
    BY <1>1 DEF Init
  <2>7. wq \in [Windows -> Seq(WindowMessage)] /\ \A w \in Windows : Bounded(wq[w], WindowMessage)
    BY <1>1 DEF Init
  <2>8. drag \in [Windows -> [on : BOOLEAN, source : Int, from : Int]]
    BY DEF Init, NoDrag
  <2>9. /\ work \in [Windows -> [at : {"idle", "ask", "paint", "tell"}, rect : SUBSET Int]]
        /\ \A w \in Windows : work[w].rect \subseteq IF work[w].at = "tell" THEN Cells ELSE Buttons
    BY DEF Init, Idle
  <2>10. surf \in [Windows -> [Buttons -> Faces]] /\ down \in [Windows -> SUBSET Buttons]
    BY DEF Init, Faces
  <2>11. /\ pos \in [Windows -> Int] /\ sized \subseteq Windows /\ home \in [Windows -> Int]
         /\ lost \in BOOLEAN /\ halted \in BOOLEAN
    BY Sizes DEF Init
  <2> QED
    BY <2>1, <2>2, <2>3, <2>5, <2>6, <2>7, <2>8, <2>9, <2>10, <2>11, <2>12 DEF Types
<1>4. Starting
  BY <1>2 DEF Init, Starting, Early, Late, Started, None, NoDrag
<1>5. Answering
  BY DEF Init, Answering, None, DisableOnce
<1>6. Following
  BY <1>2 DEF Init, Following, Follows, Moved, DragFollowsPointer, Dragged
<1>7. Releasing
  BY <1>2 DEF Init, Releasing, Released, Dragged
<1>8. Unplaced
  BY DEF Init, Unplaced
<1>9. Surfaces
  BY DEF Init, Surfaces, Idle, Late
<1>10. Drawing /\ Current
  BY DEF Init, Drawing, Current, Late
<1> QED
  BY <1>3, <1>4, <1>5, <1>6, <1>7, <1>8, <1>9, <1>10 DEF IInv

(* The strengthening is an inductive invariant. *)
THEOREM Invariant == Spec => []IInv
<1>1. ASSUME IInv, [Next]_vars
      PROVE  IInv'
  <2>1. Unplaced'
    BY <1>1, UnplacedKept DEF IInv
  <2> QED
    BY <1>1, <2>1, TypesKept, StartingKept, AnsweringKept, FollowingKept, ReleasingKept, SurfacesKept, DrawingKept,
       CurrentKept DEF IInv
<1> QED
  BY <1>1, Initially, PTL DEF Spec

LEMMA TypesEnough ==
  ASSUME Types
  PROVE  TypeOK
<1>1. /\ DOMAIN dq = 1 .. Len(dq) /\ \A i \in 1 .. Len(dq) : dq[i] \in DesktopMessage
      /\ Len(dq) <= QueueSize
  BY DEF Types, Bounded
<1>2. \A m \in DesktopMessage : WellFormed(m) /\ m.x \in Cells /\ m.rect \subseteq Cells
  BY DEF DesktopMessage, WellFormed, MessageTypes
<1>3. \A w \in Windows :
        /\ DOMAIN wq[w] = 1 .. Len(wq[w]) /\ \A i \in 1 .. Len(wq[w]) : wq[w][i] \in WindowMessage
        /\ Len(wq[w]) <= QueueSize
  BY DEF Types, Bounded
<1>4. \A m \in WindowMessage : WellFormed(m) /\ m.x \in 0 .. 2 /\ m.rect \subseteq Buttons
  BY DEF WindowMessage, WellFormed, MessageTypes
<1>5. \A w \in Windows : pos[w] \in Int /\ down[w] \subseteq Buttons
  BY DEF Types
<1> QED
  BY <1>1, <1>2, <1>3, <1>4, <1>5 DEF Types, TypeOK

(* The messages in the queues are of known types and stay in their bounds,  *)
(* at most QueueSize of them to a queue, and the pointer stays on the       *)
(* screen (hj_queue_message, nxgig_clip_point).                             *)
THEOREM TypeCorrect == Spec => []TypeOK
<1>1. IInv => TypeOK
  BY TypesEnough DEF IInv
<1> QED
  BY <1>1, Invariant, PTL

LEMMA DragsEnough ==
  ASSUME IInv
  PROVE  DragsFollow
<1>1. DOMAIN dq = 1 .. Len(dq)
  BY DEF IInv, Types, Bounded
<1>2. DragEnds
  BY <1>1 DEF IInv, Releasing, None, DragEnds
<1>3. DragFollowsPointer
  BY DEF IInv, Following, DragFollowsPointer
<1> QED
  BY <1>2, <1>3, TypesEnough DEF DragsFollow, IInv

(* The dragged window keeps up with the pointer to less than two pixels,    *)
(* and every drag ends with the release of the buttons                      *)
(* (desktop_mouse_move_handle_dragging, desktop_mouse_down,                 *)
(* desktop_mouse_up).                                                       *)
THEOREM DragsFollowPointer == Spec => []DragsFollow
<1>1. IInv => DragsFollow
  BY DragsEnough
<1> QED
  BY <1>1, Invariant, PTL

LEMMA ScreenEnough ==
  ASSUME IInv
  PROVE  ScreenCurrent
<1> SUFFICES ASSUME ~lost, Running, sAt = "read"
             PROVE  /\ \A c \in Cells :
                         \/ Shows(c) \/ RepaintOf(c, dq) \/ c \in copying
                         \/ Top(c) # 0 /\ (Working(Top(c), c) \/ New(Top(c), c))
                         \/ c = 0 /\ screen[c].part = "sliver"
                    /\ \A w \in Shown, b \in Buttons :
                         \/ surf[w][b] = Face(w, b) \/ RepaintOf(b, wq[w])
                         \/ work[w].at \in {"ask", "paint"} /\ b \in work[w].rect
  BY DEF ScreenCurrent
<1>1. Placed = Shown /\ sAt \in Late
  BY DEF Placed, Shown, Late
<1>2. ASSUME NEW c \in Cells
      PROVE  \/ Shows(c) \/ RepaintOf(c, dq) \/ c \in copying
             \/ Top(c) # 0 /\ (Working(Top(c), c) \/ New(Top(c), c))
             \/ c = 0 /\ screen[c].part = "sliver"
  <2>1. Above(c) = Top(c)
    BY <1>1 DEF Above, Top
  <2>2. /\ Picture(c).window = Top(c) /\ Picture(c).part = Part(c, Top(c))
        /\ Picture(c).pointer = (c = d_mouse)
    BY PictureIs
  <2>3. Correct(c) => Shows(c)
    BY <2>1, <2>2 DEF Correct, Shows
  <2>4. Right(c)
    BY <1>1 DEF IInv, Current
  <2> QED
    BY <2>1, <2>3, <2>4 DEF Right, Awaited
<1>3. ASSUME NEW w \in Shown, NEW b \in Buttons
      PROVE  \/ surf[w][b] = Face(w, b) \/ RepaintOf(b, wq[w])
             \/ work[w].at \in {"ask", "paint"} /\ b \in work[w].rect
  BY <1>1 DEF IInv, Surfaces, Pending
<1> QED
  BY <1>2, <1>3

(* Nothing on the screen stays wrong, but for the exceptions that           *)
(* ScreenCurrent names: what it does not show yet is on its way to it       *)
(* (desktop_repaint, window_repaint, hj_control_request_parent_repaint).    *)
THEOREM ScreenStaysCurrent == Spec => []ScreenCurrent
<1>1. IInv => ScreenCurrent
  BY ScreenEnough
<1> QED
  BY <1>1, Invariant, PTL

LEMMA FreedEnough ==
  ASSUME IInv
  PROVE  FreedUntouched
BY DEF IInv, Starting, Answering, FreedUntouched

(* The desktop signals the server's event while the server waits for it,    *)
(* unless the wait has failed, and the threads use the desktop after it was *)
(* freed only if the server has failed (henjin_set_resolution,              *)
(* hj_destroy_desktop).                                                     *)
THEOREM NothingFreedIsUsed == Spec => []FreedUntouched
<1>1. IInv => FreedUntouched
  BY FreedEnough
<1> QED
  BY <1>1, Invariant, PTL
=============================================================================
