-------------------------- MODULE PrimitivesProofs --------------------------
(***************************************************************************)
(* Proofs about the small objects that threads and drivers share, which    *)
(* are used apart from each other.  Event, for any threads and timeouts: a *)
(* signal is neither lost nor used twice, and a wait does not time out     *)
(* early.  Mutex, for any callers and any depth of recursion: it excludes, *)
(* and it is free when mutex_destroy returns.  RingBuffer, for every       *)
(* capacity, set of bytes and set of readers: it implements ByteFifo.      *)
(***************************************************************************)
EXTENDS Event, Mutex, RingBuffer, FiniteSetTheorems, SequenceTheorems, TLAPS

-----------------------------------------------------------------------------
(* Events *)

(* Waiters that have taken a signal and not returned yet. *)
InFlight == {t \in Threads : pc[t] = "ew_test" /\ seen[t] # 0}

Pending == IF state # 0 THEN 1 ELSE 0

(* OneWakePerSignal does not see the signal that a waiter holds between     *)
(* resetting the event and returning.                                       *)
SignalsPaid ==
  autoreset =>
    /\ IsFiniteSet(InFlight)
    /\ wakes + Cardinality(InFlight) + Pending <= signals

(* The local of a call is read only while the call is under way. *)
SeenInCall == \A t \in Threads : seen[t] # 0 => pc[t] = "ew_test"

IInv == TypeOK /\ SeenInCall /\ NoSignalLost /\ SignalsPaid

(* The clock fits a word. *)
LEMMA ClockType == TypeOK => timer_gettickcount \in 0..(WORD - 1)
<1> SUFFICES ASSUME TypeOK PROVE timer_gettickcount \in 0..(WORD - 1)
  OBVIOUS
<1> DEFINE x == (Scale * ticks) % WORD
<1>1. Scale * ticks \in Int
  BY EventAssumption DEF TypeOK
<1>2. x \in 0..(WORD - 1)
  BY <1>1, EventAssumption
<1> HIDE DEF x
<1>3. x \div Rate \in 0..x
  BY <1>2, EventAssumption
<1>4. x \div Rate \in 0..(WORD - 1)
  BY <1>2, <1>3, EventAssumption
<1> QED
  BY <1>4 DEF timer_gettickcount, x

LEMMA InitInv == Init => IInv
<1> SUFFICES ASSUME Init PROVE IInv
  OBVIOUS
<1> USE EventAssumption DEF Init
<1>0. 0 \in 0..(WORD - 1) /\ 0 \in Nat
  OBVIOUS
<1>1. TypeOK
  <2>1. /\ since \in [Threads -> 0..(WORD - 1)] /\ timeout \in [Threads -> 0..(WORD - 1)]
    BY <1>0
  <2> QED
    BY <1>0, <2>1 DEF TypeOK
<1>2. InFlight = {}
  BY DEF InFlight
<1>3. SignalsPaid
  BY <1>2, FS_EmptySet DEF SignalsPaid, Pending
<1> QED
  BY <1>1, <1>3 DEF IInv, SeenInCall, NoSignalLost

(* What is owed does not grow when each of its parts does not. *)
LEMMA LessOwed ==
  ASSUME NEW w \in Nat, NEW c \in Nat, NEW p \in Nat, NEW s \in Nat,
         NEW w1 \in Nat, NEW c1 \in Nat, NEW p1 \in Nat, NEW s1 \in Nat,
         w + c + p <= s, w1 <= w, c1 <= c, p1 - s1 <= p - s
  PROVE  w1 + c1 + p1 <= s1
  OBVIOUS

(* A step after which the same waiters, or fewer, hold a signal. *)
LEMMA FewerInFlight ==
  ASSUME TypeOK, TypeOK', SignalsPaid, InFlight' \subseteq InFlight,
         autoreset' = autoreset,
         wakes' <= wakes, Pending' - signals' <= Pending - signals
  PROVE  SignalsPaid'
<1> SUFFICES ASSUME autoreset
             PROVE  (/\ IsFiniteSet(InFlight)
                     /\ wakes + Cardinality(InFlight) + Pending <= signals)'
  BY Zenon DEF SignalsPaid
<1>1. IsFiniteSet(InFlight) /\ wakes + Cardinality(InFlight) + Pending <= signals
  BY DEF SignalsPaid
<1>2. /\ IsFiniteSet(InFlight') /\ Cardinality(InFlight') <= Cardinality(InFlight)
      /\ Cardinality(InFlight) \in Nat /\ Cardinality(InFlight') \in Nat
  BY <1>1, FS_Subset, FS_CardinalityType
<1>3. /\ wakes \in Nat /\ wakes' \in Nat /\ signals \in Nat /\ signals' \in Nat
      /\ Pending \in Nat /\ Pending' \in Nat
  BY DEF TypeOK, Pending
<1>4. wakes' + Cardinality(InFlight') + Pending' <= signals'
  BY <1>1, <1>2, <1>3, LessOwed
<1> QED
  BY <1>2, <1>4

LEMMA StepInv == IInv /\ [Next]_vars => IInv'
<1> SUFFICES ASSUME IInv, [Next]_vars PROVE IInv'
  OBVIOUS
<1>a. TypeOK /\ SeenInCall /\ NoSignalLost /\ SignalsPaid
  BY DEF IInv
<1> USE EventAssumption DEF vars, eventVars, callVars
<1>1. CASE UNCHANGED vars
  BY <1>1 DEF IInv, TypeOK, SeenInCall, NoSignalLost, SignalsPaid, InFlight, Pending
<1>2. CASE timer_irq_handler
  <2>1. TypeOK'
    BY <1>a, <1>2 DEF timer_irq_handler, TypeOK
  <2> QED
    BY <1>a, <1>2, <2>1
       DEF timer_irq_handler, IInv, SeenInCall, NoSignalLost, SignalsPaid, InFlight, Pending
<1>3. CASE event_signal
  <2>1. TypeOK'
    BY <1>a, <1>3 DEF event_signal, TypeOK
  <2>2. InFlight' = InFlight /\ Pending' - signals' <= Pending - signals
    BY <1>a, <1>3 DEF event_signal, InFlight, Pending, TypeOK
  <2>3. SignalsPaid'
    BY <1>a, <1>3, <2>1, <2>2, FewerInFlight DEF event_signal, TypeOK
  <2>4. SeenInCall' /\ NoSignalLost'
    BY <1>a, <1>3 DEF event_signal, SeenInCall, NoSignalLost, TypeOK
  <2> QED
    BY <2>1, <2>3, <2>4 DEF IInv
<1>4. CASE event_reset
  <2>1. TypeOK'
    BY <1>a, <1>4 DEF event_reset, TypeOK
  <2>2. InFlight' = InFlight /\ Pending' - signals' <= Pending - signals
    BY <1>a, <1>4 DEF event_reset, InFlight, Pending, TypeOK
  <2>3. SignalsPaid'
    BY <1>a, <1>4, <2>1, <2>2, FewerInFlight DEF event_reset, TypeOK
  <2>4. SeenInCall' /\ NoSignalLost'
    BY <1>a, <1>4 DEF event_reset, SeenInCall, NoSignalLost
  <2> QED
    BY <2>1, <2>3, <2>4 DEF IInv
<1>5. ASSUME NEW t \in Threads, NEW ms \in Timeouts, NEW l \in {"ew_read", "sleep"},
             NEW time \in 0..(WORD - 1), Begin(t, l, ms, time)
      PROVE  IInv'
  <2>1. TypeOK'
    BY <1>a, <1>5 DEF Begin, TypeOK
  <2>2. pc[t] = "idle" /\ pc' = [pc EXCEPT ![t] = l] /\ UNCHANGED <<seen, state, unseen, autoreset, wakes, signals>>
    BY <1>5 DEF Begin
  <2>3. InFlight' = InFlight
    BY <1>a, <2>2 DEF InFlight, TypeOK
  <2>4. SeenInCall' /\ NoSignalLost'
    BY <1>a, <2>2 DEF SeenInCall, NoSignalLost, TypeOK
  <2> QED
    BY <1>a, <2>1, <2>2, <2>3, <2>4 DEF IInv, SignalsPaid, Pending
<1>6. ASSUME NEW t \in Threads, ew_read(t)
      PROVE  IInv'
  <2>1. /\ pc[t] = "ew_read" /\ pc' = [pc EXCEPT ![t] = "ew_test"]
        /\ seen' = [seen EXCEPT ![t] = state]
        /\ state' = IF state # 0 /\ autoreset THEN 0 ELSE state
        /\ UNCHANGED <<ticks, autoreset, signals, unseen, since, timeout, result, started, wakes>>
    BY <1>6 DEF ew_read, StateAfterRead
  <2>2. TypeOK'
    BY <1>a, <2>1 DEF TypeOK
  <2>3. SeenInCall' /\ NoSignalLost'
    BY <1>a, <2>1 DEF SeenInCall, NoSignalLost, TypeOK
  <2>4. CASE state = 0
    <3>1. InFlight' = InFlight
      BY <1>a, <2>1, <2>4 DEF InFlight, TypeOK
    <3> QED
      BY <1>a, <2>1, <2>2, <2>3, <2>4, <3>1 DEF IInv, SignalsPaid, Pending
  <2>5. CASE state # 0
    <3>1. InFlight' = InFlight \cup {t} /\ t \notin InFlight
      BY <1>a, <2>1, <2>5 DEF InFlight, TypeOK
    <3>2. SignalsPaid'
      <4> SUFFICES ASSUME autoreset
                   PROVE  /\ IsFiniteSet(InFlight')
                          /\ wakes' + Cardinality(InFlight') + Pending' <= signals'
        BY <2>1 DEF SignalsPaid
      <4>1. IsFiniteSet(InFlight) /\ wakes + Cardinality(InFlight) + 1 <= signals
        BY <1>a, <2>5 DEF SignalsPaid, Pending
      <4>2. IsFiniteSet(InFlight') /\ Cardinality(InFlight') = Cardinality(InFlight) + 1
        BY <3>1, <4>1, FS_AddElement
      <4>3. Cardinality(InFlight) \in Nat /\ wakes \in Nat /\ signals \in Nat
        BY <1>a, <4>1, FS_CardinalityType DEF TypeOK
      <4>4. Pending' = 0 /\ wakes' = wakes /\ signals' = signals
        BY <2>1, <2>5 DEF Pending
      <4> QED
        BY <4>1, <4>2, <4>3, <4>4
    <3> QED
      BY <2>2, <2>3, <3>2 DEF IInv
  <2> QED
    BY <2>4, <2>5
<1>7. ASSUME NEW t \in Threads, ew_test(t)
      PROVE  IInv'
  <2>a. pc[t] = "ew_test" /\ UNCHANGED <<ticks, state, autoreset, signals, timeout, started>>
    BY <1>7 DEF ew_test
  <2>1. CASE /\ seen[t] = 0 /\ UNCHANGED <<unseen, wakes>>
             /\ \/ pc' = [pc EXCEPT ![t] = "ew_read"] /\ UNCHANGED <<result, seen, since>>
                \/ /\ pc' = [pc EXCEPT ![t] = "idle"]
                   /\ result' = [result EXCEPT ![t] = "E_TIMEDOUT"]
                   /\ seen' = [seen EXCEPT ![t] = 0] /\ since' = [since EXCEPT ![t] = 0]
    <3>1. TypeOK'
      BY <1>a, <2>a, <2>1 DEF TypeOK
    <3>2. SeenInCall' /\ NoSignalLost'
      BY <1>a, <2>a, <2>1 DEF SeenInCall, NoSignalLost, TypeOK
    <3>3. InFlight' = InFlight
      BY <1>a, <2>a, <2>1 DEF InFlight, TypeOK
    <3> QED
      BY <1>a, <2>a, <2>1, <3>1, <3>2, <3>3 DEF IInv, SignalsPaid, Pending
  <2>2. CASE /\ seen[t] # 0 /\ unseen' = FALSE
             /\ wakes' = IF autoreset THEN wakes + 1 ELSE wakes
             /\ pc' = [pc EXCEPT ![t] = "idle"]
             /\ result' = [result EXCEPT ![t] = "S_OK"]
             /\ seen' = [seen EXCEPT ![t] = 0] /\ since' = [since EXCEPT ![t] = 0]
    <3>0. /\ wakes' \in Nat /\ 0 \in 0..(WORD - 1)
          /\ since' \in [Threads -> 0..(WORD - 1)] /\ seen' \in [Threads -> Nat]
      <4>1. 0 \in 0..(WORD - 1) /\ 0 \in Nat
        OBVIOUS
      <4>2. wakes' \in Nat
        BY <1>a, <2>2 DEF TypeOK
      <4> QED
        BY <1>a, <2>2, <4>1, <4>2 DEF TypeOK
    <3>1. TypeOK'
      BY <1>a, <2>a, <2>2, <3>0 DEF TypeOK
    <3>2. SeenInCall' /\ NoSignalLost'
      BY <1>a, <2>a, <2>2 DEF SeenInCall, NoSignalLost, TypeOK
    <3>3. InFlight' = InFlight \ {t} /\ t \in InFlight
      BY <1>a, <2>a, <2>2 DEF InFlight, TypeOK
    <3>4. SignalsPaid'
      <4> SUFFICES ASSUME autoreset
                   PROVE  /\ IsFiniteSet(InFlight')
                          /\ wakes' + Cardinality(InFlight') + Pending' <= signals'
        BY <2>a DEF SignalsPaid
      <4>1. IsFiniteSet(InFlight) /\ wakes + Cardinality(InFlight) + Pending <= signals
        BY <1>a DEF SignalsPaid
      <4>2. IsFiniteSet(InFlight') /\ Cardinality(InFlight') = Cardinality(InFlight) - 1
        BY <3>3, <4>1, FS_RemoveElement
      <4>3. Cardinality(InFlight) \in Nat /\ wakes \in Nat /\ signals \in Nat
        BY <1>a, <4>1, FS_CardinalityType DEF TypeOK
      <4>4. Pending' = Pending /\ Pending \in {0, 1} /\ wakes' = wakes + 1 /\ signals' = signals
        BY <2>a, <2>2 DEF Pending
      <4> QED
        BY <4>1, <4>2, <4>3, <4>4
    <3> QED
      BY <3>1, <3>2, <3>4 DEF IInv
  <2> QED
    BY <1>7, <2>1, <2>2 DEF ew_test, Return
<1>8. ASSUME NEW t \in Threads, sl_test(t)
      PROVE  IInv'
  <2>1. /\ pc[t] = "sleep" /\ pc' = [pc EXCEPT ![t] = "idle"]
        /\ result' = [result EXCEPT ![t] = "slept"]
        /\ seen' = [seen EXCEPT ![t] = 0] /\ since' = [since EXCEPT ![t] = 0]
        /\ UNCHANGED <<ticks, eventVars, timeout, started, wakes>>
    BY <1>8 DEF sl_test, Return
  <2>2. TypeOK'
    BY <1>a, <2>1 DEF TypeOK
  <2>3. InFlight' = InFlight
    BY <1>a, <2>1 DEF InFlight, TypeOK
  <2>4. SeenInCall' /\ NoSignalLost'
    BY <1>a, <2>1 DEF SeenInCall, NoSignalLost, TypeOK
  <2> QED
    BY <1>a, <2>1, <2>2, <2>3, <2>4 DEF IInv, SignalsPaid, Pending
<1>9. ASSUME NEW t \in Threads, NEW ms \in Timeouts, ew_begin(t, ms) \/ sl_begin(t, ms)
      PROVE  IInv'
  <2>1. timer_gettickcount \in 0..(WORD - 1)
    BY <1>a, ClockType
  <2>2. ms \in Int /\ (timer_gettickcount + ms) % WORD \in 0..(WORD - 1)
    BY <2>1
  <2> QED
    BY <1>5, <1>9, <2>1, <2>2 DEF ew_begin, sl_begin
<1> QED
  BY <1>1, <1>2, <1>3, <1>4, <1>6, <1>7, <1>8, <1>9 DEF Next, Step

LEMMA Invariance == Spec => []IInv
<1> QED
  BY InitInv, StepInv, PTL DEF Spec

(* event_waitfor, event_signal and event_reset: a signal stays in the event *)
(* or with a waiter until one succeeds or the event is reset, and an        *)
(* auto-reset event releases one waiter per signal, whatever the clock and  *)
(* the timeouts do.                                                         *)
THEOREM EventKeepsSignals == Spec => []SignalsKept
<1>1. IInv => SignalsKept
  <2> SUFFICES ASSUME TypeOK, NoSignalLost, SignalsPaid PROVE OneWakePerSignal
    BY DEF IInv, SignalsKept
  <2> SUFFICES ASSUME autoreset PROVE wakes + Pending <= signals
    BY DEF OneWakePerSignal, Pending
  <2>1. Cardinality(InFlight) \in Nat /\ wakes + Cardinality(InFlight) + Pending <= signals
    BY FS_CardinalityType DEF SignalsPaid
  <2>2. wakes \in Nat /\ signals \in Nat /\ Pending \in {0, 1}
    BY DEF TypeOK, Pending
  <2> QED
    BY <2>1, <2>2
<1> QED
  BY <1>1, Invariance, PTL
-----------------------------------------------------------------------------
(* Division rounds down, so it is monotone and lets multiples of the        *)
(* divisor through.                                                         *)
LEMMA DivMonotone ==
  ASSUME NEW a \in Int, NEW b \in Int, a <= b, NEW d \in Nat \ {0}
  PROVE  a \div d <= b \div d
  OBVIOUS

LEMMA DivShift ==
  ASSUME NEW a \in Int, NEW q \in Int, NEW d \in Nat \ {0}
  PROVE  (a + d * q) \div d = a \div d + q
  OBVIOUS

LEMMA DivMod ==
  ASSUME NEW a \in Int, NEW d \in Nat \ {0}
  PROVE  a \div d \in Int /\ a % d \in 0..(d - 1) /\ a = d * (a \div d) + (a % d)
<1>1. a \div d \in Int /\ a % d \in 0..(d - 1)
  OBVIOUS
<1>2. a = d * (a \div d) + (a % d)
  OBVIOUS
<1> QED
  BY <1>1, <1>2

(* What the clock shows at tick n. *)
Clock(n) == ((Scale * n) % WORD) \div Rate

(* As long as it has not started again, the clock measures time exactly. *)
LEMMA ClockMeasures ==
  ASSUME NEW m \in Nat, NEW n \in Nat, m <= n,
         (Scale * m) \div WORD = (Scale * n) \div WORD
  PROVE  Clock(n) - Clock(m) = (Scale * (n - m)) \div Rate
<1> DEFINE s == Scale \div Rate
           x == Scale * m
           y == Scale * n
           d == s * (n - m)
<1>1. s \in Int /\ Scale = Rate * s
  BY DivMod, EventAssumption, RateAssumption
<1>2. x \in Int /\ y \in Int /\ d \in Int /\ Scale * (n - m) \in Int
  BY <1>1, EventAssumption
<1>3. y - x = Scale * (n - m)
  BY EventAssumption
<1>4. Scale * (n - m) = Rate * d
  BY <1>1, EventAssumption
<1>5. x = WORD * (x \div WORD) + (x % WORD) /\ y = WORD * (y \div WORD) + (y % WORD)
  BY <1>2, DivMod, EventAssumption
<1>6. x % WORD \in Int /\ y % WORD \in Int /\ x \div WORD \in Int /\ y \div WORD \in Int
  BY <1>2, DivMod, EventAssumption
<1>7. WORD * (x \div WORD) = WORD * (y \div WORD) /\ WORD * (x \div WORD) \in Int
  BY <1>6, EventAssumption
<1> HIDE DEF d
<1>8. Rate * d \in Int
  BY <1>2, EventAssumption
<1>9. y % WORD = (x % WORD) + Rate * d
  <2> DEFINE u == WORD * (x \div WORD)
             v == WORD * (y \div WORD)
             e == Rate * d
             f == x % WORD
             g == y % WORD
  <2>1. u = v /\ u \in Int /\ e \in Int /\ f \in Int /\ g \in Int
    BY <1>6, <1>7, <1>8
  <2>2. x = u + f /\ y = v + g /\ y - x = e /\ x \in Int /\ y \in Int
    BY <1>2, <1>3, <1>4, <1>5
  <2> HIDE DEF x, y, u, v, e, f, g
  <2>3. g = f + e
    BY <2>1, <2>2
  <2> QED
    BY <2>3 DEF e, f, g
<1>10. (y % WORD) \div Rate = (x % WORD) \div Rate + d
  <2> DEFINE f == x % WORD
             g == y % WORD
  <2>1. f \in Int /\ g = f + Rate * d
    BY <1>6, <1>9
  <2> HIDE DEF x, y, f, g
  <2>2. g \div Rate = f \div Rate + d
    BY <1>2, <2>1, DivShift, EventAssumption
  <2> QED
    BY <2>2 DEF f, g
<1>11. (0 + Rate * d) \div Rate = 0 \div Rate + d /\ 0 \div Rate = 0
  BY <1>2, DivShift, EventAssumption
<1>12. (Scale * (n - m)) \div Rate = d
  BY <1>2, <1>4, <1>8, <1>11
<1>13. (x % WORD) \div Rate \in Int
  BY <1>6, DivMod, EventAssumption
<1> QED
  BY <1>2, <1>10, <1>12, <1>13 DEF Clock

(* A wait knows what the clock showed when it began, and has no result yet. *)
WaitInv ==
  \A t \in Threads :
    /\ started[t] <= ticks
    /\ pc[t] \in {"ew_read", "ew_test"} => since[t] = Clock(started[t])
    /\ pc[t] # "idle" => result[t] = "none"

TimeInv == WaitInv /\ TimeoutNotEarly

(* The test of a wait that has begun at tick m fails before its time. *)
LEMMA ElapsedTest ==
  ASSUME TypeOK, NEW t \in Threads, started[t] <= ticks, since[t] = Clock(started[t]),
         TimedOut(t)
  PROVE  Passed(started[t]) >= timeout[t] \/ Wrapped(t)
<1> SUFFICES ASSUME ~Wrapped(t) PROVE Passed(started[t]) >= timeout[t]
  OBVIOUS
<1>1. started[t] \in Nat /\ ticks \in Nat /\ since[t] \in 0..(WORD - 1)
  BY DEF TypeOK
<1>2. Clock(ticks) - Clock(started[t]) = Passed(started[t])
  BY <1>1, ClockMeasures DEF Wrapped, Passed
<1>3. timer_gettickcount = Clock(ticks) /\ timer_gettickcount \in 0..(WORD - 1)
  BY ClockType DEF timer_gettickcount, Clock
<1>4. ticks - started[t] \in Nat
  BY <1>1
<1>5. Scale * (ticks - started[t]) \in Nat
  BY <1>4, EventAssumption
<1>6. Passed(started[t]) \in Nat
  <2> DEFINE x == Scale * (ticks - started[t])
  <2>1. x \in Nat
    BY <1>5
  <2> HIDE DEF x
  <2>2. x \div Rate \in Nat
    BY <2>1, EventAssumption
  <2> QED
    BY <2>2 DEF x, Passed
<1> DEFINE e == timer_gettickcount - since[t]
<1>7. e = Passed(started[t]) /\ e \in 0..(WORD - 1)
  <2>1. e = Passed(started[t])
    BY <1>2, <1>3
  <2>2. e <= timer_gettickcount /\ e \in Nat
    BY <1>1, <1>3, <1>6, <2>1
  <2> HIDE DEF e
  <2> QED
    BY <1>3, <2>1, <2>2, EventAssumption
<1>8. WORD * WORD \in Nat /\ WORD <= WORD * WORD
  BY EventAssumption
<1>9. e % (WORD * WORD) = e
  <2> DEFINE q == WORD * WORD
  <2> HIDE DEF e, q
  <2>1. q \in Nat /\ WORD <= q /\ e \in 0..(WORD - 1) /\ WORD \in Nat \ {0}
    BY <1>7, <1>8, EventAssumption DEF q
  <2>2. e % q = e
    BY <2>1
  <2> QED
    BY <2>2 DEF q
<1> QED
  BY <1>7, <1>9 DEF TimedOut

LEMMA TimeInit == Init => TimeInv
<1> QED
  BY DEF Init, TimeInv, WaitInv, TimeoutNotEarly

(* Time goes on: what has passed does not become less, and a clock that has *)
(* started again has done so for good.                                      *)
LEMMA LaterStill ==
  ASSUME TypeOK, ticks' = ticks + 1, NEW t \in Threads, started[t] <= ticks,
         started'[t] = started[t], timeout'[t] = timeout[t],
         Passed(started[t]) >= timeout[t] \/ Wrapped(t)
  PROVE  (Passed(started[t]) >= timeout[t] \/ Wrapped(t))'
<1> DEFINE n == started[t]
           x == Scale * (ticks - n)
           y == Scale * (ticks + 1 - n)
<1>1. n \in Nat /\ ticks \in Nat /\ timeout[t] \in Nat
  BY EventAssumption DEF TypeOK
<1>2. x \in Int /\ y \in Int /\ x <= y
  BY <1>1, EventAssumption
<1>3. x \div Rate <= y \div Rate /\ x \div Rate \in Int /\ y \div Rate \in Int
  BY <1>2, DivMonotone, DivMod, EventAssumption
<1>4. Passed(started[t]) = x \div Rate /\ Passed(started[t])' = y \div Rate
  <2>1. Passed(started[t])' = (Scale * (ticks' - started'[t])) \div Rate
    BY DEF Passed
  <2>2. ticks' - started'[t] = ticks + 1 - n
    BY <1>1
  <2>4. Passed(started[t])' = y \div Rate
    BY <2>1, <2>2
  <2>3. Passed(started[t]) = x \div Rate
    BY DEF Passed
  <2> QED
    BY <2>3, <2>4
<1> DEFINE a == Scale * n
           b == Scale * ticks
           c == Scale * (ticks + 1)
<1>5. a \in Int /\ b \in Int /\ c \in Int /\ a <= b /\ b <= c
  BY <1>1, EventAssumption
<1>6. /\ a \div WORD <= b \div WORD /\ b \div WORD <= c \div WORD
      /\ a \div WORD \in Int /\ b \div WORD \in Int /\ c \div WORD \in Int
  BY <1>5, DivMonotone, DivMod, EventAssumption
<1>7. /\ Wrapped(t) <=> a \div WORD # b \div WORD
      /\ Wrapped(t)' <=> a \div WORD # c \div WORD
  BY DEF Wrapped
<1>8. Wrapped(t) => Wrapped(t)'
  BY <1>6, <1>7
<1>9. Passed(started[t]) >= timeout[t] => (Passed(started[t]) >= timeout[t])'
  BY <1>1, <1>3, <1>4
<1> QED
  BY <1>8, <1>9

(* A step that leaves the clock and the calls of the others alone. *)
LEMMA OneCall ==
  ASSUME TypeOK, TimeInv, ticks' = ticks, NEW t \in Threads,
         \A u \in Threads \ {t} :
           /\ pc'[u] = pc[u] /\ since'[u] = since[u] /\ timeout'[u] = timeout[u]
           /\ started'[u] = started[u] /\ result'[u] = result[u],
         /\ started'[t] <= ticks
         /\ pc'[t] \in {"ew_read", "ew_test"} => since'[t] = Clock(started'[t])
         /\ pc'[t] # "idle" => result'[t] = "none"
         /\ result'[t] = "E_TIMEDOUT" => (Passed(started[t]) >= timeout[t] \/ Wrapped(t))'
  PROVE  TimeInv'
<1>1. ASSUME NEW u \in Threads \ {t}, result'[u] = "E_TIMEDOUT"
      PROVE  (Passed(started[u]) >= timeout[u] \/ Wrapped(u))'
  BY <1>1 DEF TimeInv, TimeoutNotEarly, Passed, Wrapped
<1>2. TimeoutNotEarly'
  BY <1>1 DEF TimeoutNotEarly
<1>3. WaitInv'
  BY DEF TimeInv, WaitInv, Clock
<1> QED
  BY <1>2, <1>3 DEF TimeInv

LEMMA TimeStep == TypeOK /\ TimeInv /\ [Next]_vars => TimeInv'
<1> SUFFICES ASSUME TypeOK, TimeInv, [Next]_vars PROVE TimeInv'
  OBVIOUS
<1> USE DEF vars, eventVars, callVars
<1>1. CASE UNCHANGED <<ticks, callVars>>
  BY <1>1 DEF TimeInv, WaitInv, TimeoutNotEarly, Passed, Wrapped, Clock
<1>2. CASE timer_irq_handler
  <2>1. ticks' = ticks + 1 /\ ticks \in Nat /\ UNCHANGED callVars
    BY <1>2 DEF timer_irq_handler, TypeOK
  <2>2. WaitInv'
    <3>1. \A t \in Threads : started[t] \in Nat /\ started[t] <= ticks
      BY DEF TypeOK, TimeInv, WaitInv
    <3> QED
      BY <2>1, <3>1 DEF TimeInv, WaitInv, Clock
  <2>3. ASSUME NEW t \in Threads, result'[t] = "E_TIMEDOUT"
        PROVE  (Passed(started[t]) >= timeout[t] \/ Wrapped(t))'
    BY <2>1, <2>3, LaterStill DEF TimeInv, TimeoutNotEarly, WaitInv
  <2> QED
    BY <2>2, <2>3 DEF TimeInv, TimeoutNotEarly
<1>3. CASE event_signal \/ event_reset
  BY <1>1, <1>3 DEF event_signal, event_reset
<1>4. ASSUME NEW t \in Threads, NEW ms, NEW time, NEW l,
             Begin(t, l, ms, time), l = "sleep" \/ time = timer_gettickcount
      PROVE  TimeInv'
  <2>1. /\ pc'[t] = l /\ since'[t] = time /\ started'[t] = ticks /\ result'[t] = "none"
        /\ ticks' = ticks /\ ticks \in Nat
        /\ \A u \in Threads \ {t} :
             /\ pc'[u] = pc[u] /\ since'[u] = since[u] /\ timeout'[u] = timeout[u]
             /\ started'[u] = started[u] /\ result'[u] = result[u]
    BY <1>4 DEF Begin, TypeOK
  <2>2. time = timer_gettickcount => time = Clock(ticks)
    BY DEF timer_gettickcount, Clock
  <2> QED
    BY <1>4, <2>1, <2>2, OneCall
<1>5. ASSUME NEW t \in Threads, ew_read(t) PROVE TimeInv'
  <2>1. /\ pc[t] = "ew_read" /\ pc' = [pc EXCEPT ![t] = "ew_test"] /\ pc'[t] = "ew_test"
        /\ UNCHANGED <<ticks, since, timeout, result, started>>
        /\ \A u \in Threads \ {t} : pc'[u] = pc[u]
    BY <1>5 DEF ew_read, TypeOK
  <2>2. since[t] = Clock(started[t]) /\ result[t] = "none" /\ started[t] <= ticks
    BY <2>1 DEF TimeInv, WaitInv
  <2> QED
    BY <2>1, <2>2, OneCall
<1>6. ASSUME NEW t \in Threads, NEW r, pc[t] # "idle", Return(t, r),
             UNCHANGED <<ticks, timeout, started>>,
             r = "E_TIMEDOUT" => pc[t] = "ew_test" /\ TimedOut(t)
      PROVE  TimeInv'
  <2>1. /\ pc'[t] = "idle" /\ result'[t] = r
        /\ \A u \in Threads \ {t} : /\ pc'[u] = pc[u] /\ since'[u] = since[u]
                                    /\ result'[u] = result[u]
    BY <1>6 DEF Return, TypeOK
  <2>2. started[t] <= ticks /\ (pc[t] = "ew_test" => since[t] = Clock(started[t]))
    BY DEF TimeInv, WaitInv
  <2>3. r = "E_TIMEDOUT" => (Passed(started[t]) >= timeout[t] \/ Wrapped(t))'
    <3> SUFFICES ASSUME r = "E_TIMEDOUT"
                 PROVE  (Passed(started[t]) >= timeout[t] \/ Wrapped(t))'
      OBVIOUS
    <3>1. Passed(started[t]) >= timeout[t] \/ Wrapped(t)
      BY <1>6, <2>2, ElapsedTest
    <3> QED
      BY <1>6, <3>1 DEF Passed, Wrapped
  <2> QED
    BY <1>6, <2>1, <2>2, <2>3, OneCall
<1>7. ASSUME NEW t \in Threads, ew_test(t) PROVE TimeInv'
  <2>1. CASE pc' = [pc EXCEPT ![t] = "ew_read"] /\ UNCHANGED <<result, seen, since, unseen, wakes>>
    <3>1. /\ pc[t] = "ew_test" /\ pc'[t] = "ew_read"
          /\ UNCHANGED <<ticks, since, timeout, result, started>>
          /\ \A u \in Threads \ {t} : pc'[u] = pc[u]
      BY <1>7, <2>1 DEF ew_test, TypeOK
    <3>2. since[t] = Clock(started[t]) /\ result[t] = "none" /\ started[t] <= ticks
      BY <3>1 DEF TimeInv, WaitInv
    <3> QED
      BY <3>1, <3>2, OneCall
  <2>2. CASE Return(t, "S_OK")
    BY <1>6, <1>7, <2>2 DEF ew_test
  <2>3. CASE TimedOut(t) /\ Return(t, "E_TIMEDOUT")
    BY <1>6, <1>7, <2>3 DEF ew_test
  <2> QED
    BY <1>7, <2>1, <2>2, <2>3 DEF ew_test
<1>8. ASSUME NEW t \in Threads, sl_test(t) PROVE TimeInv'
  BY <1>6, <1>8 DEF sl_test
<1> QED
  BY <1>1, <1>2, <1>3, <1>4, <1>5, <1>7, <1>8 DEF Next, Step, ew_begin, sl_begin

(* event_waitfor and timer_gettickcount: a wait that fails has lasted at    *)
(* least its timeout, or the 32-bit clock has started again meanwhile.      *)
THEOREM WaitsAreNotCutShort == Spec => []TimeoutNotEarly
<1>1. IInv => TypeOK
  BY DEF IInv
<1>2. TimeInv => TimeoutNotEarly
  BY DEF TimeInv
<1> QED
  BY <1>1, <1>2, Invariance, TimeInit, TimeStep, PTL DEF Spec

-----------------------------------------------------------------------------
(* Mutexes *)

(* Once mutex_destroy has left its loop the counter stays at 0.             *)
LeftFree ==
  \A t \in Callers : destroy[t] \in {"leave", "done"} => lock_count = 0

(* The inductive invariant. *)
MutexInv == MutexTypeOK /\ MutualExclusion /\ LeftFree

(* A fresh mutex is free. *)
LEMMA MutexInitOK == mutex_create => MutexInv
<1> SUFFICES ASSUME mutex_create PROVE MutexInv
  OBVIOUS
<1>1. lock_count = 0 /\ held = [t \in Callers |-> 0] /\ destroy = [t \in Callers |-> "no"]
  BY DEF mutex_create
<1>2. MutexTypeOK
  <2>1. held \in [Callers -> Nat] /\ lock_count \in Nat
    BY <1>1
  <2>2. destroy \in [Callers -> {"no", "wait", "leave", "done"}]
    BY <1>1
  <2>3. panic \in BOOLEAN /\ owner \in Callers \cup {NOBODY}
    BY Zenon DEF mutex_create
  <2> QED
    BY <2>1, <2>2, <2>3 DEF MutexTypeOK
<1>3. MutualExclusion
  BY <1>1 DEF MutualExclusion
<1>4. LeftFree
  BY <1>1 DEF LeftFree
<1> QED
  BY <1>2, <1>3, <1>4 DEF MutexInv

(* mutex_lock lets in the owner, or anybody when the mutex is free. *)
LEMMA MutexLockStep ==
  ASSUME MutexInv, NEW t \in Callers, mutex_lock(t)
  PROVE  MutexInv'
<1>1. CASE ~Pass(t)
  <2>1. UNCHANGED <<lock_count, owner, held, destroy>> /\ panic' = TRUE
    BY <1>1 DEF mutex_lock
  <2> QED
    BY <2>1 DEF MutexInv, MutexTypeOK, MutualExclusion, LeftFree
<1>2. CASE Pass(t)
  <2>1. /\ owner' = (IF lock_count = 0 THEN t ELSE owner)
        /\ lock_count' = lock_count + 1
        /\ held' = [held EXCEPT ![t] = @ + 1]
        /\ UNCHANGED <<panic, destroy>>
    BY <1>2 DEF mutex_lock
  <2>2. owner' = t
    BY <1>2, <2>1 DEF Pass
  <2>3. MutexTypeOK'
    BY <2>1, <2>2 DEF MutexInv, MutexTypeOK
  <2>4. MutualExclusion'
    <3> SUFFICES ASSUME NEW u \in Callers
                 PROVE  held'[u] = IF owner' = u THEN lock_count' ELSE 0
      BY DEF MutualExclusion
    <3>1. held[u] = (IF owner = u THEN lock_count ELSE 0) /\ held \in [Callers -> Nat]
      BY DEF MutexInv, MutualExclusion, MutexTypeOK
    <3>2. CASE u = t
      BY <1>2, <2>1, <2>2, <3>1, <3>2 DEF MutexInv, MutexTypeOK, Pass
    <3>3. CASE u # t
      BY <1>2, <2>1, <2>2, <3>1, <3>3 DEF MutexInv, MutexTypeOK, Pass
    <3> QED
      BY <3>2, <3>3
  <2>5. \A u \in Callers : destroy[u] \notin {"leave", "done"}
    <3>1. CASE held[t] > 0
      <4>1. lock_count # 0
        BY <3>1 DEF MutexInv, MutualExclusion, MutexTypeOK
      <4> QED
        BY <4>1 DEF MutexInv, LeftFree
    <3>2. CASE \A u \in Callers : destroy[u] = "no"
      BY <3>2
    <3> QED
      BY <3>1, <3>2 DEF mutex_lock, InUse
  <2>6. LeftFree'
    BY <2>1, <2>2, <2>5 DEF LeftFree
  <2> QED
    BY <2>3, <2>4, <2>6 DEF MutexInv
<1> QED
  BY <1>1, <1>2

(* mutex_unlock counts down for the owner only. *)
LEMMA MutexUnlockStep ==
  ASSUME MutexInv, NEW t \in Callers, mutex_unlock(t)
  PROVE  MutexInv'
<1>1. CASE ~(Owned(t) /\ lock_count > 0)
  <2>1. UNCHANGED <<lock_count, owner, held, destroy>> /\ panic' = TRUE
    BY <1>1 DEF mutex_unlock
  <2> QED
    BY <2>1 DEF MutexInv, MutexTypeOK, MutualExclusion, LeftFree
<1>2. CASE Owned(t) /\ lock_count > 0
  <2>1. /\ lock_count' = lock_count - 1
        /\ held' = [held EXCEPT ![t] = @ - 1]
        /\ UNCHANGED <<owner, panic, destroy>>
    BY <1>2 DEF mutex_unlock
  <2>2. owner = t /\ held[t] = lock_count /\ lock_count \in Nat /\ lock_count > 0
    BY <1>2 DEF Owned, MutexInv, MutexTypeOK, MutualExclusion
  <2>3. MutexTypeOK'
    BY <2>1, <2>2 DEF MutexInv, MutexTypeOK
  <2>4. MutualExclusion'
    BY <2>1, <2>2 DEF MutexInv, MutexTypeOK, MutualExclusion
  <2>5. LeftFree'
    BY <2>1, <2>2 DEF MutexInv, LeftFree
  <2> QED
    BY <2>3, <2>4, <2>5 DEF MutexInv
<1> QED
  BY <1>1, <1>2

(* mutex_destroy leaves its loop when it finds the counter 0. *)
LEMMA MutexDestroyStep ==
  ASSUME MutexInv, NEW t \in Callers, md_check(t) \/ md_return(t)
  PROVE  MutexInv'
<1>1. UNCHANGED <<lock_count, owner, held, panic>>
  BY DEF md_check, md_return
<1>2. /\ destroy' \in [Callers -> {"no", "wait", "leave", "done"}]
      /\ \A u \in Callers : destroy'[u] \in {"leave", "done"} => lock_count = 0
  <2>1. CASE md_check(t)
    BY <2>1 DEF md_check, StillHeld, MutexInv, MutexTypeOK, LeftFree
  <2>2. CASE md_return(t)
    BY <2>2 DEF md_return, MutexInv, MutexTypeOK, LeftFree
  <2> QED
    BY <2>1, <2>2
<1> QED
  BY <1>1, <1>2 DEF MutexInv, MutexTypeOK, MutualExclusion, LeftFree

(* The invariant holds in every reachable state. *)
LEMMA MutexInvariance == MutexSpec => []MutexInv
<1>1. MutexInv /\ [MutexNext]_mutexVars => MutexInv'
  <2> SUFFICES ASSUME MutexInv, [MutexNext]_mutexVars PROVE MutexInv'
    OBVIOUS
  <2>1. CASE UNCHANGED mutexVars
    BY <2>1 DEF mutexVars, MutexInv, MutexTypeOK, MutualExclusion, LeftFree
  <2>2. CASE MutexNext
    BY <2>2, MutexLockStep, MutexUnlockStep, MutexDestroyStep DEF MutexNext
  <2> QED
    BY <2>1, <2>2
<1> QED
  BY <1>1, MutexInitOK, PTL DEF MutexSpec

(* The counters of mutex_lock and mutex_unlock never go negative. *)
THEOREM MutexTypeCorrect == MutexSpec => []MutexTypeOK
<1>1. MutexInv => MutexTypeOK
  BY DEF MutexInv
<1> QED
  BY <1>1, MutexInvariance, PTL

(* Whatever calls of mutex_lock and mutex_unlock threads make, the counter  *)
(* is the owner's depth and nobody else is inside.                          *)
THEOREM MutexExcludes == MutexSpec => []MutualExclusion
<1>1. MutexInv => MutualExclusion
  BY DEF MutexInv
<1> QED
  BY <1>1, MutexInvariance, PTL

(* When mutex_destroy returns, nobody is inside the mutex. *)
THEOREM MutexFreeWhenDestroyed == MutexSpec => []DestroyedIsFree
<1>1. MutexInv => DestroyedIsFree
  BY DEF MutexInv, MutualExclusion, LeftFree, DestroyedIsFree
<1> QED
  BY <1>1, MutexInvariance, PTL

-----------------------------------------------------------------------------
(* Ring buffers: arithmetic of the pointers *)

(* The distance from r to w around the ring. *)
Used(r, w) == IF r > w THEN Capacity - (r - w) ELSE w - r

(* The two sizes as functions of the pointers. *)
LEMMA Sizes ==
  ASSUME NEW r \in 0..Capacity, NEW w \in 0..Capacity,
         r = read_pointer, w = write_pointer
  PROVE  /\ rb_get_read_size = Used(r, w)
         /\ rb_get_write_size = Capacity - 1 - Used(r, w)
         /\ Used(r, w) \in 0..Capacity
BY RingAssumption DEF rb_get_read_size, rb_get_write_size, Used

(* A writer's pointer moves away from the reader's by what was written. *)
LEMMA AdvanceWriter ==
  ASSUME NEW r \in 0..Capacity, NEW w \in 0..Capacity, NEW n \in Nat,
         Used(r, w) + n <= Capacity - 1
  PROVE  /\ Advance(w, n) \in 0..Capacity
         /\ Used(r, Advance(w, n)) = Used(r, w) + n
BY RingAssumption DEF Used, Advance, Wraps

(* A reader's pointer moves towards the writer's by what was read. *)
LEMMA AdvanceReader ==
  ASSUME NEW r \in 0..Capacity, NEW w \in 0..Capacity, NEW n \in Nat,
         Used(r, w) <= Capacity - 1, n <= Used(r, w)
  PROVE  /\ Advance(r, n) \in 0..Capacity
         /\ Used(Advance(r, n), w) = Used(r, w) - n
BY RingAssumption DEF Used, Advance, Wraps

(* Places behind an advanced pointer. *)
LEMMA AtAdvance ==
  ASSUME NEW p \in 0..Capacity, NEW n \in Nat, NEW i \in Nat, n + i < Capacity
  PROVE  At(Advance(p, n), i) = At(p, n + i)
BY RingAssumption DEF At, Advance, Wraps

(* The writer's place is behind the contents. *)
LEMMA AtWriter ==
  ASSUME NEW r \in 0..Capacity, NEW w \in 0..Capacity, NEW i \in Nat,
         Used(r, w) + i < Capacity
  PROVE  At(w, i) = At(r, Used(r, w) + i)
BY RingAssumption DEF At, Used

(* Fewer than Capacity places are distinct slots of the buffer. *)
LEMMA AtSlots ==
  ASSUME NEW p \in 0..Capacity
  PROVE  /\ \A i \in 0..(Capacity - 1) : At(p, i) \in Slots
         /\ \A i, j \in 0..(Capacity - 1) : At(p, i) = At(p, j) => i = j
BY RingAssumption DEF At, Slots

(* What a write stores: the data behind write_pointer, nothing else. *)
LEMMA StoredIs ==
  ASSUME RingTypeOK, NEW data \in Seq(Bytes), Len(data) < Capacity
  PROVE  /\ Stored(data) \in [Slots -> Bytes]
         /\ \A i \in 1..Len(data) : Stored(data)[At(write_pointer, i - 1)] = data[i]
         /\ \A j \in Slots : (\A i \in 1..Len(data) : j # At(write_pointer, i - 1))
                              => Stored(data)[j] = buffer[j]
<1> DEFINE w == write_pointer
           n == Len(data)
           s1 == Capacity - write_pointer
           new == Stored(data)
<1>1. /\ n \in Nat /\ n < Capacity /\ w \in 0..Capacity /\ s1 \in 0..Capacity
      /\ \A i \in 1..n : data[i] \in Bytes
      /\ Capacity \in Nat \ {0}
      /\ \A j \in Slots : buffer[j] \in Bytes
  BY RingAssumption DEF RingTypeOK
<1>2. CASE Wraps(w, n)
  <2>1. n > s1
    BY <1>1, <1>2 DEF Wraps
  <2>2. new = memcpy(memcpy(buffer, w, data, 1, s1), 0, data, s1 + 1, n - s1)
    BY <1>2 DEF Stored
  <2>3. \A j \in Slots : new[j] = IF j < n - s1 THEN data[s1 + 1 + j]
                                   ELSE IF w <= j THEN data[1 + j - w] ELSE buffer[j]
    BY <1>1, <2>1, <2>2 DEF memcpy, Slots
  <2>4. new \in [Slots -> Bytes]
    <3>1. ASSUME NEW j \in Slots PROVE new[j] \in Bytes
      <4>1. CASE j < n - s1
        <5>1. s1 + 1 + j \in 1..n
          BY <1>1, <4>1 DEF Slots
        <5> QED
          BY <1>1, <2>3, <4>1, <5>1
      <4>2. CASE ~(j < n - s1) /\ w <= j
        <5>1. 1 + j - w \in 1..n
          BY <1>1, <2>1, <4>2 DEF Slots
        <5> QED
          BY <1>1, <2>3, <4>2, <5>1
      <4>3. CASE ~(j < n - s1) /\ ~(w <= j)
        BY <1>1, <2>3, <4>3
      <4> QED
        BY <4>1, <4>2, <4>3
    <3>2. new = [j \in Slots |-> new[j]]
      BY <2>2 DEF memcpy
    <3> QED
      BY <3>1, <3>2
  <2>5. ASSUME NEW i \in 1..n PROVE new[At(w, i - 1)] = data[i]
    <3>1. CASE i <= s1
      <4>1. /\ At(w, i - 1) = w + i - 1 /\ w + i - 1 \in Slots
            /\ ~(w + i - 1 < n - s1) /\ w <= w + i - 1 /\ 1 + (w + i - 1) - w = i
        BY <1>1, <2>1, <3>1 DEF At, Slots
      <4> QED
        BY <2>3, <4>1
    <3>2. CASE i > s1
      <4>1. /\ At(w, i - 1) = i - 1 - s1 /\ i - 1 - s1 \in Slots
            /\ i - 1 - s1 < n - s1 /\ s1 + 1 + (i - 1 - s1) = i
        BY <1>1, <2>1, <3>2 DEF At, Slots
      <4> QED
        BY <2>3, <4>1
    <3> QED
      BY <1>1, <3>1, <3>2
  <2>6. ASSUME NEW j \in Slots, \A i \in 1..n : j # At(w, i - 1)
        PROVE  new[j] = buffer[j]
    <3>1. ASSUME j < n - s1 PROVE FALSE
      <4> DEFINE i == j + 1 + s1
      <4>1. i \in 1..n /\ At(w, i - 1) = j
        BY <1>1, <2>1, <3>1 DEF At, Slots
      <4> HIDE DEF i
      <4> QED
        BY <4>1, <2>6
    <3>2. ASSUME w <= j PROVE FALSE
      <4> DEFINE i == j + 1 - w
      <4>1. i \in 1..n /\ At(w, i - 1) = j
        BY <1>1, <2>1, <3>2 DEF At, Slots
      <4> HIDE DEF i
      <4> QED
        BY <4>1, <2>6
    <3> QED
      BY <2>3, <3>1, <3>2
  <2> QED
    BY <2>4, <2>5, <2>6
<1>3. CASE ~Wraps(w, n)
  <2>1. w + n <= Capacity
    BY <1>1, <1>3 DEF Wraps
  <2>2. new = memcpy(buffer, w, data, 1, n)
    BY <1>3 DEF Stored
  <2>3. \A j \in Slots : new[j] = IF w <= j /\ j < w + n THEN data[1 + j - w]
                                   ELSE buffer[j]
    BY <2>2 DEF memcpy
  <2>4. new \in [Slots -> Bytes]
    <3>1. ASSUME NEW j \in Slots PROVE new[j] \in Bytes
      <4>1. CASE w <= j /\ j < w + n
        <5>1. 1 + j - w \in 1..n
          BY <1>1, <4>1 DEF Slots
        <5> QED
          BY <1>1, <2>3, <4>1, <5>1
      <4>2. CASE ~(w <= j /\ j < w + n)
        BY <1>1, <2>3, <4>2
      <4> QED
        BY <4>1, <4>2
    <3>2. new = [j \in Slots |-> new[j]]
      BY <2>2 DEF memcpy
    <3> QED
      BY <3>1, <3>2
  <2>5. ASSUME NEW i \in 1..n PROVE new[At(w, i - 1)] = data[i]
    <3>1. /\ At(w, i - 1) = w + i - 1 /\ w + i - 1 \in Slots
          /\ w <= w + i - 1 /\ w + i - 1 < w + n /\ 1 + (w + i - 1) - w = i
      BY <1>1, <2>1 DEF At, Slots
    <3> QED
      BY <2>3, <3>1
  <2>6. ASSUME NEW j \in Slots, \A i \in 1..n : j # At(w, i - 1)
        PROVE  new[j] = buffer[j]
    <3>1. ASSUME w <= j, j < w + n PROVE FALSE
      <4> DEFINE i == j + 1 - w
      <4>1. i \in 1..n /\ At(w, i - 1) = j
        BY <1>1, <2>1, <3>1 DEF At, Slots
      <4> HIDE DEF i
      <4> QED
        BY <4>1, <2>6
    <3> QED
      BY <2>3, <3>1
  <2> QED
    BY <2>4, <2>5, <2>6
<1> QED
  BY <1>2, <1>3

(* A read fetches the oldest bytes. *)
LEMMA FetchedIs ==
  ASSUME RingTypeOK, NEW n \in Nat, n < Capacity
  PROVE  Fetched(n) = [i \in 1..n |-> buffer[At(read_pointer, i - 1)]]
<1>1. read_pointer \in 0..Capacity /\ Capacity \in Nat \ {0}
  BY RingAssumption DEF RingTypeOK
<1>2. CASE Wraps(read_pointer, n)
  <2>1. \A i \in 1..n : (IF i <= Capacity - read_pointer THEN buffer[read_pointer + i - 1]
                        ELSE buffer[i - (Capacity - read_pointer) - 1])
                       = buffer[At(read_pointer, i - 1)]
    <3> SUFFICES ASSUME NEW i \in 1..n
                 PROVE  (IF i <= Capacity - read_pointer THEN buffer[read_pointer + i - 1]
                         ELSE buffer[i - (Capacity - read_pointer) - 1])
                        = buffer[At(read_pointer, i - 1)]
      OBVIOUS
    <3>1. CASE i <= Capacity - read_pointer
      <4>1. At(read_pointer, i - 1) = read_pointer + i - 1
        BY <1>1, <3>1 DEF At
      <4> QED
        BY <3>1, <4>1
    <3>2. CASE ~(i <= Capacity - read_pointer)
      <4>1. At(read_pointer, i - 1) = i - (Capacity - read_pointer) - 1
        BY <1>1, <3>2 DEF At
      <4> QED
        BY <3>2, <4>1
    <3> QED
      BY <3>1, <3>2
  <2> QED
    BY <1>2, <2>1 DEF Fetched
<1>3. CASE ~Wraps(read_pointer, n)
  <2>1. \A i \in 1..n : At(read_pointer, i - 1) = read_pointer + i - 1
    BY <1>1, <1>3 DEF At, Wraps
  <2> QED
    BY <1>3, <2>1 DEF Fetched
<1> QED
  BY <1>2, <1>3
-----------------------------------------------------------------------------
(* The invariant and the refinement.                                        *)

(* What every step keeps: the types, the free byte, and that rb_read_upto   *)
(* asks for no more than its caller did.                                    *)
RingInv == RingTypeOK /\ OneByteFree /\ size \in [Readers -> 0..MaxLen]

(* The contents are a sequence as long as rb_get_read_size says. *)
LEMMA ContentsIs ==
  ASSUME RingTypeOK, OneByteFree
  PROVE  /\ Contents \in Seq(Bytes) /\ Len(Contents) = rb_get_read_size
         /\ rb_get_read_size = Used(read_pointer, write_pointer)
         /\ rb_get_write_size = Capacity - 1 - rb_get_read_size
         /\ rb_get_read_size \in 0..(Capacity - 1)
         /\ \A i \in 1..rb_get_read_size : Contents[i] = buffer[At(read_pointer, i - 1)]
<1>1. read_pointer \in 0..Capacity /\ write_pointer \in 0..Capacity /\ Capacity \in Nat \ {0}
  BY RingAssumption DEF RingTypeOK
<1>2. /\ rb_get_read_size = Used(read_pointer, write_pointer)
      /\ rb_get_write_size = Capacity - 1 - rb_get_read_size
      /\ rb_get_read_size \in 0..(Capacity - 1)
  BY <1>1, Sizes DEF OneByteFree
<1>3. ASSUME NEW i \in 1..rb_get_read_size PROVE buffer[At(read_pointer, i - 1)] \in Bytes
  <2>1. i - 1 \in 0..(Capacity - 1)
    BY <1>1, <1>2
  <2>2. At(read_pointer, i - 1) \in Slots
    BY <1>1, <2>1, AtSlots
  <2> QED
    BY <2>2 DEF RingTypeOK
<1>4. Contents \in [1..rb_get_read_size -> Bytes]
  BY <1>3 DEF Contents
<1>5. \A i \in 1..rb_get_read_size : Contents[i] = buffer[At(read_pointer, i - 1)]
  BY DEF Contents
<1>6. ASSUME NEW m \in Nat, Contents \in [1..m -> Bytes]
      PROVE  Contents \in Seq(Bytes) /\ Len(Contents) = m
  BY <1>6
<1>7. rb_get_read_size \in Nat
  BY <1>1, <1>2
<1> QED
  BY <1>2, <1>4, <1>5, <1>6, <1>7

(* The concatenation of two sequences, place by place. *)
LEMMA ConcatIs ==
  ASSUME NEW a \in Seq(Bytes), NEW b \in Seq(Bytes), NEW m \in Nat, NEW n \in Nat,
         Len(a) = m, Len(b) = n
  PROVE  a \o b = [i \in 1..(m + n) |-> IF i <= m THEN a[i] ELSE b[i - m]]
<1>1. /\ a \o b \in Seq(Bytes) /\ Len(a \o b) = m + n
      /\ \A i \in 1..(m + n) : (a \o b)[i] = IF i <= m THEN a[i] ELSE b[i - m]
  BY ConcatProperties
<1>2. DOMAIN (a \o b) = 1..(m + n)
  BY <1>1, LenProperties
<1>3. a \o b = [i \in 1..(m + n) |-> (a \o b)[i]]
  BY <1>1, <1>2, LenProperties
<1> QED
  BY <1>1, <1>3

(* A write appends its data. *)
LEMMA WriteStep ==
  ASSUME RingInv, NEW n \in 0..MaxLen, NEW data \in [1..n -> Bytes], rb_write(data)
  PROVE  RingInv' /\ FifoStep
<1> DEFINE k == rb_get_read_size
<1>1. /\ n \in Nat /\ data \in Seq(Bytes) /\ Len(data) = n
      /\ Capacity \in Nat \ {0}
      /\ read_pointer \in 0..Capacity /\ write_pointer \in 0..Capacity
  BY RingAssumption, LenProperties DEF RingInv, RingTypeOK
<1>2. /\ Contents \in Seq(Bytes) /\ Len(Contents) = k /\ k \in 0..(Capacity - 1)
      /\ k = Used(read_pointer, write_pointer) /\ rb_get_write_size = Capacity - 1 - k
      /\ \A i \in 1..k : Contents[i] = buffer[At(read_pointer, i - 1)]
  BY ContentsIs DEF RingInv
<1>3. CASE rb_get_write_size < n
  <2>1. /\ Delivers(<<"write", data>>, "E_BUFFEROVERFLOW", <<>>)
        /\ UNCHANGED <<buffer, read_pointer, write_pointer, size>>
    BY <1>1, <1>3 DEF rb_write
  <2>0. call' \in Calls /\ ret' = "E_BUFFEROVERFLOW" /\ out' \in Seq(Bytes)
    BY <1>1, <2>1 DEF Delivers, Calls
  <2>2. RingInv'
    BY <2>0, <2>1 DEF RingInv, RingTypeOK, OneByteFree, rb_get_write_size, rb_get_read_size
  <2>3. Contents' = Contents
    BY <2>1 DEF Contents, rb_get_read_size
  <2>4. Len(Contents) + n > Capacity - 1
    BY <1>1, <1>2, <1>3
  <2>5. Fifo!Write(data)
    BY <1>1, <2>1, <2>3, <2>4 DEF Fifo!Write, Fifo!Reply, Delivers
  <2> QED
    BY <2>2, <2>5 DEF FifoStep
<1>4. CASE ~(rb_get_write_size < n)
  <2>1. /\ Delivers(<<"write", data>>, "S_OK", <<>>) /\ buffer' = Stored(data)
        /\ write_pointer' = Advance(write_pointer, n)
        /\ UNCHANGED <<read_pointer, size>>
    BY <1>1, <1>4 DEF rb_write
  <2>0. call' \in Calls /\ ret' = "S_OK" /\ out' \in Seq(Bytes)
    BY <1>1, <2>1 DEF Delivers, Calls
  <2>2. k + n <= Capacity - 1 /\ n < Capacity /\ k \in Nat /\ n \in Nat /\ Capacity \in Nat
    BY <1>1, <1>2, <1>4
  <2>3. write_pointer' \in 0..Capacity /\ Used(read_pointer, write_pointer') = k + n
    BY <1>1, <1>2, <2>1, <2>2, AdvanceWriter
  <2>4. /\ buffer' \in [Slots -> Bytes]
        /\ \A i \in 1..n : buffer'[At(write_pointer, i - 1)] = data[i]
        /\ \A j \in Slots : (\A i \in 1..n : j # At(write_pointer, i - 1))
                              => buffer'[j] = buffer[j]
    BY <1>1, <2>1, <2>2, StoredIs DEF RingInv
  <2>5. rb_get_read_size' = k + n /\ rb_get_write_size' = Capacity - 1 - (k + n)
    BY <1>1, <2>1, <2>3 DEF rb_get_read_size, rb_get_write_size, Used
  <2>6. RingInv'
    <3>1. RingTypeOK'
      BY <2>0, <2>1, <2>3, <2>4 DEF RingInv, RingTypeOK
    <3>2. OneByteFree'
      BY <1>1, <1>2, <2>2, <2>5 DEF OneByteFree
    <3> QED
      BY <2>1, <3>1, <3>2 DEF RingInv
  <2> HIDE DEF k
  <2>7. ASSUME NEW i \in 1..k PROVE buffer'[At(read_pointer, i - 1)] = Contents[i]
    <3>1. i - 1 \in 0..(Capacity - 1) /\ At(read_pointer, i - 1) \in Slots
      BY <1>1, <1>2, AtSlots
    <3>2. ASSUME NEW m \in 1..n PROVE At(read_pointer, i - 1) # At(write_pointer, m - 1)
      <4> DEFINE q == k + (m - 1)
      <4>1. m - 1 \in Nat /\ k + (m - 1) < Capacity /\ q \in 0..(Capacity - 1) /\ q # i - 1
        BY <2>2
      <4>2. At(write_pointer, m - 1) = At(read_pointer, q)
        BY <1>1, <1>2, <4>1, AtWriter
      <4> HIDE DEF q
      <4> QED
        BY <1>1, <3>1, <4>1, <4>2, AtSlots
    <3>3. buffer'[At(read_pointer, i - 1)] = buffer[At(read_pointer, i - 1)]
      BY <2>4, <3>1, <3>2
    <3> QED
      BY <1>2, <3>3
  <2>8. ASSUME NEW i \in 1..(k + n), ~(i <= k)
        PROVE  buffer'[At(read_pointer, i - 1)] = data[i - k]
    <3> DEFINE m == i - k
    <3>1. m \in 1..n /\ m - 1 \in Nat /\ k + (m - 1) < Capacity /\ k + (m - 1) = i - 1
      BY <2>2, <2>8
    <3> HIDE DEF m
    <3>2. At(write_pointer, m - 1) = At(read_pointer, k + (m - 1))
      <4>1. Used(read_pointer, write_pointer) + (m - 1) < Capacity
        BY <1>2, <3>1
      <4> QED
        BY <1>1, <1>2, <3>1, <4>1, AtWriter
    <3>3. buffer'[At(read_pointer, i - 1)] = data[m]
      BY <2>4, <3>1, <3>2
    <3> QED
      BY <3>3 DEF m
  <2>9. Contents' = Contents \o data
    <3>1. Contents' = [i \in 1..(k + n) |-> buffer'[At(read_pointer, i - 1)]]
      BY <2>1, <2>5 DEF Contents, At
    <3>2. Contents \o data
            = [i \in 1..(k + n) |-> IF i <= k THEN Contents[i] ELSE data[i - k]]
      <4>1. ASSUME NEW c \in Seq(Bytes), Len(c) = k
            PROVE  c \o data = [i \in 1..(k + n) |-> IF i <= k THEN c[i] ELSE data[i - k]]
        BY <1>1, <2>2, <4>1, ConcatIs
      <4> QED
        BY <1>2, <4>1
    <3>3. \A i \in 1..(k + n) : buffer'[At(read_pointer, i - 1)]
                                = IF i <= k THEN Contents[i] ELSE data[i - k]
      <4> SUFFICES ASSUME NEW i \in 1..(k + n)
                   PROVE  buffer'[At(read_pointer, i - 1)]
                          = IF i <= k THEN Contents[i] ELSE data[i - k]
        OBVIOUS
      <4>1. i <= k => i \in 1..k
        BY <2>2
      <4> QED
        BY <4>1, <2>7, <2>8
    <3> QED
      BY <3>1, <3>2, <3>3
  <2>10. Fifo!Write(data)
    BY <1>1, <1>2, <2>1, <2>2, <2>9 DEF Fifo!Write, Fifo!Reply, Delivers
  <2> QED
    BY <2>6, <2>10 DEF FifoStep
<1> QED
  BY <1>3, <1>4

(* A read takes the oldest bytes. *)
LEMMA ReadStep ==
  ASSUME RingInv, NEW n \in 0..MaxLen, Read(n), size' \in [Readers -> 0..MaxLen]
  PROVE  RingInv' /\ Fifo!Take(n)
<1> DEFINE k == rb_get_read_size
<1>1. /\ n \in Nat /\ Capacity \in Nat \ {0} /\ size' \in [Readers -> Nat]
      /\ read_pointer \in 0..Capacity /\ write_pointer \in 0..Capacity
  BY RingAssumption DEF RingInv, RingTypeOK
<1>2. /\ Contents \in Seq(Bytes) /\ Len(Contents) = k /\ k \in 0..(Capacity - 1)
      /\ k = Used(read_pointer, write_pointer)
      /\ \A i \in 1..k : Contents[i] = buffer[At(read_pointer, i - 1)]
  BY ContentsIs DEF RingInv
<1>3. CASE k < n
  <2>1. /\ Delivers(<<"read", n>>, "E_BUFFERUNDERFLOW", <<>>)
        /\ UNCHANGED <<buffer, read_pointer, write_pointer>>
    BY <1>3 DEF Read, TooFew
  <2>0. call' \in Calls /\ ret' = "E_BUFFERUNDERFLOW" /\ out' \in Seq(Bytes)
    BY <1>1, <2>1 DEF Delivers, Calls
  <2>2. RingInv'
    BY <1>1, <2>0, <2>1 DEF RingInv, RingTypeOK, OneByteFree, rb_get_write_size, rb_get_read_size
  <2>3. Contents' = Contents
    BY <2>1 DEF Contents, rb_get_read_size
  <2>4. n > Len(Contents)
    BY <1>1, <1>2, <1>3
  <2>5. Fifo!Take(n)
    BY <2>1, <2>3, <2>4 DEF Fifo!Take, Fifo!Reply, Delivers
  <2> QED
    BY <2>2, <2>5
<1>4. CASE ~(k < n)
  <2>1. /\ Delivers(<<"read", n>>, "S_OK", Fetched(n))
        /\ ret' = "S_OK" /\ out' = Fetched(n)
        /\ read_pointer' = Advance(read_pointer, n)
        /\ UNCHANGED <<buffer, write_pointer>>
    BY <1>4 DEF Read, TooFew, Delivers
  <2>0. call' \in Calls
    BY <1>1, <2>1 DEF Delivers, Calls
  <2>2. n <= k /\ n < Capacity
    BY <1>1, <1>2, <1>4
  <2>3. read_pointer' \in 0..Capacity /\ Used(read_pointer', write_pointer) = k - n
    BY <1>1, <1>2, <2>1, <2>2, AdvanceReader
  <2>4. rb_get_read_size' = k - n /\ rb_get_write_size' = Capacity - 1 - (k - n)
    BY <1>1, <2>1, <2>3 DEF rb_get_read_size, rb_get_write_size, Used
  <2>5. out' = [i \in 1..n |-> buffer[At(read_pointer, i - 1)]]
    BY <1>1, <2>1, <2>2, FetchedIs DEF RingInv
  <2> HIDE DEF k
  <2>6. out' = [i \in 1..n |-> Contents[i]]
    BY <1>1, <1>2, <2>2, <2>5
  <2>7. out' \in Seq(Bytes) /\ out' = SubSeq(Contents, 1, n)
    BY <1>1, <1>2, <2>2, <2>6
  <2>8. RingInv'
    <3>1. RingTypeOK'
      BY <1>1, <2>0, <2>1, <2>3, <2>7 DEF RingInv, RingTypeOK
    <3>2. OneByteFree'
      BY <1>1, <1>2, <2>2, <2>4 DEF OneByteFree
    <3> QED
      BY <3>1, <3>2 DEF RingInv
  <2>9. ASSUME NEW i \in 1..(k - n)
        PROVE  buffer[At(read_pointer', i - 1)] = Contents[i + n]
    <3> DEFINE q == i + n
    <3>1. i - 1 \in Nat /\ n + (i - 1) < Capacity /\ q \in 1..k /\ n + (i - 1) = q - 1
      BY <1>1, <1>2, <2>2
    <3>2. At(read_pointer', i - 1) = At(read_pointer, n + (i - 1))
      BY <1>1, <2>1, <3>1, AtAdvance
    <3> HIDE DEF q
    <3>3. buffer[At(read_pointer', i - 1)] = Contents[q]
      BY <1>2, <3>1, <3>2
    <3> QED
      BY <3>3 DEF q
  <2>10. Contents' = SubSeq(Contents, n + 1, k)
    <3>1. Contents' = [i \in 1..(k - n) |-> buffer[At(read_pointer', i - 1)]]
      BY <2>1, <2>4 DEF Contents, At
    <3>2. Contents' = [i \in 1..(k - n) |-> Contents[i + n]]
      BY <2>9, <3>1
    <3> QED
      BY <1>1, <1>2, <2>2, <3>2
  <2>11. Fifo!Take(n)
    BY <1>1, <1>2, <2>1, <2>2, <2>7, <2>10 DEF Fifo!Take, Fifo!Reply, Delivers
  <2> QED
    BY <2>8, <2>11
<1> QED
  BY <1>3, <1>4

(* rb_read_upto asks for as many bytes as there are, or finds none. *)
LEMMA SizeStep ==
  ASSUME RingInv, NEW t \in Readers, NEW max \in 0..MaxLen, ru_size(t, max)
  PROVE  RingInv' /\ FifoStep
<1>1. /\ max \in Nat /\ rb_get_read_size \in 0..(Capacity - 1)
      /\ Capacity \in Nat \ {0} /\ MaxLen \in Nat /\ Len(Contents) = rb_get_read_size
  BY RingAssumption, ContentsIs DEF RingInv
<1>2. SizeUpto(max) \in 0..MaxLen /\ SizeUpto(max) = Fifo!Least(max, Len(Contents))
  BY <1>1 DEF SizeUpto, Fifo!Least
<1>3. UNCHANGED <<buffer, read_pointer, write_pointer>>
  BY DEF ru_size
<1>4. Contents' = Contents
  BY <1>3 DEF Contents, rb_get_read_size
<1>5. RingInv'
  <2>1. size' \in [Readers -> 0..MaxLen] /\ size' \in [Readers -> Nat]
    BY <1>1, <1>2 DEF ru_size, RingInv
  <2>2. /\ ret' \in {"S_OK", "E_BUFFEROVERFLOW", "E_BUFFERUNDERFLOW"}
        /\ call' \in Calls /\ out' \in Seq(Bytes)
    <3>1. CASE SizeUpto(max) = 0
      <4>1. call' = <<"upto", max>> /\ ret' = "E_BUFFERUNDERFLOW" /\ out' = <<>>
        BY <3>1 DEF ru_size, Delivers
      <4> QED
        BY <1>1, <4>1 DEF Calls
    <3>2. CASE SizeUpto(max) # 0
      <4>1. UNCHANGED <<call, ret, out>>
        BY <3>2 DEF ru_size
      <4> QED
        BY <4>1 DEF RingInv, RingTypeOK
    <3> QED
      BY <3>1, <3>2
  <2> QED
    BY <1>3, <2>1, <2>2 DEF RingInv, RingTypeOK, OneByteFree, rb_get_write_size, rb_get_read_size
<1>6. Fifo!Ask(t, max)
  BY <1>2, <1>4 DEF ru_size, Fifo!Ask, Fifo!Reply, Delivers
<1> QED
  BY <1>5, <1>6 DEF FifoStep

(* Every step keeps RingInv and is a step of the queue or a stutter. *)
LEMMA StepRefines ==
  ASSUME RingInv, [RingNext]_ringVars
  PROVE  RingInv' /\ [FifoStep]_<<Contents, size, call, ret, out>>
<1>1. CASE \E n \in 0..MaxLen : \E data \in [1..n -> Bytes] : rb_write(data)
  BY <1>1, WriteStep
<1>2. ASSUME NEW t \in Readers, NEW len \in 0..MaxLen, rb_read(t, len)
      PROVE  RingInv' /\ FifoStep
  <2>1. RingInv' /\ Fifo!Take(len) /\ UNCHANGED size
    BY <1>2, ReadStep DEF rb_read, RingInv
  <2> QED
    BY <2>1 DEF FifoStep, Fifo!Read
<1>3. ASSUME NEW t \in Readers, NEW len \in 0..MaxLen, ru_size(t, len)
      PROVE  RingInv' /\ FifoStep
  BY <1>3, SizeStep
<1>4. ASSUME NEW t \in Readers, ru_read(t)
      PROVE  RingInv' /\ FifoStep
  <2>1. size[t] \in 0..MaxLen /\ Read(size[t]) /\ size' \in [Readers -> 0..MaxLen]
    BY <1>4, RingAssumption DEF ru_read, RingInv
  <2>2. RingInv' /\ Fifo!Take(size[t])
    BY <2>1, ReadStep
  <2>3. size[t] # 0 /\ size' = [size EXCEPT ![t] = 0]
    BY <1>4 DEF ru_read
  <2> QED
    BY <2>2, <2>3 DEF FifoStep, Fifo!ReadWanted
<1>5. CASE UNCHANGED ringVars
  <2>1. Contents' = Contents
    BY <1>5 DEF ringVars, Contents, rb_get_read_size
  <2>2. RingInv'
    BY <1>5 DEF ringVars, RingInv, RingTypeOK, OneByteFree, rb_get_write_size, rb_get_read_size
  <2> QED
    BY <1>5, <2>1, <2>2 DEF ringVars
<1> QED
  BY <1>1, <1>2, <1>3, <1>4, <1>5 DEF RingNext

(* Initially the buffer is empty. *)
LEMMA InitRefines == RingInit => RingInv /\ FifoInit
<1> SUFFICES ASSUME RingInit PROVE RingInv /\ FifoInit
  OBVIOUS
<1>1. rb_get_read_size = 0 /\ rb_get_write_size = Capacity - 1
  BY RingAssumption DEF RingInit, rb_get_read_size, rb_get_write_size
<1>2. RingInv
  BY <1>1, RingAssumption DEF RingInit, RingInv, RingTypeOK, OneByteFree, Calls
<1>3. Contents = <<>>
  BY <1>1 DEF Contents
<1> QED
  BY <1>2, <1>3 DEF RingInit, FifoInit, Fifo!Init

(* rb_write and rb_read keep both pointers within the buffer or at its end. *)
THEOREM RingTypeCorrect == RingSpec => []RingTypeOK
<1>1. RingInv => RingTypeOK
  BY DEF RingInv
<1> QED
  BY <1>1, InitRefines, StepRefines, PTL DEF RingSpec

(* rb_write never fills the last byte: full and empty stay different. *)
THEOREM RingOneByteFree == RingSpec => []OneByteFree
<1>1. RingInv => OneByteFree
  BY DEF RingInv
<1> QED
  BY <1>1, InitRefines, StepRefines, PTL DEF RingSpec

(* rb_write, rb_read and rb_read_upto implement a bounded queue of bytes,   *)
(* in the form TLC checks.                                                  *)
THEOREM RingImplementsFifo == RingSpec => ImplementsFifo
BY InitRefines, StepRefines, PTL DEF RingSpec, ImplementsFifo

(* The same as a refinement of the abstract specification. *)
THEOREM RingRefinesByteFifo == RingSpec => Fifo!Spec
<1>1. FifoInit => Fifo!Init
  BY DEF FifoInit
<1>2. [FifoStep]_<<Contents, size, call, ret, out>> => [Fifo!Next]_(Fifo!vars)
  <2>1. ASSUME FifoStep PROVE Fifo!Next
    <3>1. ASSUME NEW n \in 0..MaxLen, NEW data \in [1..n -> Bytes] PROVE data \in Seq(Bytes)
      BY RingAssumption
    <3>2. 0..MaxLen \subseteq Nat
      OBVIOUS
    <3> QED
      BY <2>1, <3>1, <3>2 DEF FifoStep, Fifo!Next
  <2> QED
    BY <2>1 DEF Fifo!vars
<1> QED
  BY <1>1, <1>2, RingImplementsFifo, PTL DEF ImplementsFifo, Fifo!Spec
=============================================================================
