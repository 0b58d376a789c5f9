-------------------------------- MODULE Event --------------------------------
(***************************************************************************)
(* K_EVENT (syncobjs.c) and the millisecond clock it waits by (timer.c).   *)
(* An interrupt handler or a thread signals, threads wait with a timeout.  *)
(* A section under e->lock is one step, since it has interrupts off on the *)
(* only CPU; between the section and the timeout test the timer may tick   *)
(* and the event may be signalled.                                         *)
(***************************************************************************)
EXTENDS Integers

CONSTANTS
  Threads,
  Timeouts,     \* the timeouts and sleeping times in use, in milliseconds
  Scale,        \* 1000 milliseconds
  Rate,         \* __timer_rate, ticks in Scale milliseconds
  WORD,         \* 2^32
  MaxTicks,     \* bounds of the model: ticks and signals in a behaviour
  MaxSignals

ASSUME EventAssumption ==
  /\ Scale \in Nat \ {0} /\ Rate \in Nat \ {0} /\ WORD \in Nat \ {0}
  /\ MaxTicks \in Nat /\ MaxSignals \in Nat
  /\ Timeouts \subseteq 0..(WORD - 1)

(* timer_initialize is called with 20: a tick is a whole number of          *)
(* milliseconds.                                                            *)
ASSUME RateAssumption == Scale % Rate = 0

VARIABLES
  ticks,          \* __timer_ticks
  state,          \* e->state
  autoreset,      \* e->autoreset
  pc,             \* where each thread is
  seen,           \* state, the local of event_waitfor
  since,          \* initial_time of event_waitfor, end of timer_sleep
  timeout,        \* the argument of the call in progress
  result,         \* what the last call returned
  started,        \* the tick at which the call began
  signals, wakes, \* signals so far; S_OK returns of an auto-reset event
  unseen          \* a signal since the last S_OK or reset

eventVars == <<state, autoreset, signals, unseen>>
callVars  == <<pc, seen, since, timeout, result, started, wakes>>
vars == <<ticks, eventVars, callVars>>

Init ==
  /\ ticks = 0
  /\ state = 0 /\ autoreset \in BOOLEAN
  /\ pc = [t \in Threads |-> "idle"]
  /\ seen = [t \in Threads |-> 0] /\ since = [t \in Threads |-> 0]
  /\ timeout = [t \in Threads |-> 0]
  /\ result = [t \in Threads |-> "none"]
  /\ started = [t \in Threads |-> 0]
  /\ signals = 0 /\ wakes = 0 /\ unseen = FALSE

-----------------------------------------------------------------------------
(* The clock: the product is cut to 32 bits before it is divided. *)
timer_gettickcount == ((Scale * ticks) % WORD) \div Rate

(* Milliseconds that have really passed since tick n. *)
Passed(n) == (Scale * (ticks - n)) \div Rate

timer_irq_handler ==
  /\ ticks < MaxTicks
  /\ ticks' = ticks + 1
  /\ UNCHANGED <<eventVars, callVars>>

-----------------------------------------------------------------------------
(* Events. *)

event_signal ==
  /\ signals < MaxSignals
  /\ state' = state + 1
  /\ signals' = signals + 1 /\ unseen' = TRUE
  /\ UNCHANGED <<ticks, autoreset, callVars>>

event_reset ==
  /\ state' = 0 /\ unseen' = FALSE
  /\ UNCHANGED <<ticks, autoreset, signals, callVars>>

Begin(t, label, ms, time) ==
  /\ pc[t] = "idle"
  /\ pc' = [pc EXCEPT ![t] = label]
  /\ timeout' = [timeout EXCEPT ![t] = ms]
  /\ since' = [since EXCEPT ![t] = time]
  /\ started' = [started EXCEPT ![t] = ticks]
  /\ result' = [result EXCEPT ![t] = "none"]
  /\ UNCHANGED <<ticks, eventVars, seen, wakes>>

Return(t, hr) ==
  /\ pc' = [pc EXCEPT ![t] = "idle"]
  /\ result' = [result EXCEPT ![t] = hr]
  /\ seen' = [seen EXCEPT ![t] = 0] /\ since' = [since EXCEPT ![t] = 0]  \* out of scope

ew_begin(t, ms) == Begin(t, "ew_read", ms, timer_gettickcount)

(* Mutant: the state is never reset. *)
StateAfterRead_no_autoreset == state

StateAfterRead == IF state # 0 /\ autoreset THEN 0 ELSE state

ew_read(t) ==
  /\ pc[t] = "ew_read"
  /\ seen' = [seen EXCEPT ![t] = state]
  /\ state' = StateAfterRead
  /\ pc' = [pc EXCEPT ![t] = "ew_test"]
  /\ UNCHANGED <<ticks, autoreset, signals, unseen, since, timeout, result, started, wakes>>

(* Mutants of the timeout: a millisecond early; never for a timeout above   *)
(* 0, because the initial time is read afresh on every pass.                *)
TimedOut_one_early(t) == timer_gettickcount - since[t] + 1 >= timeout[t]
TimedOut_afresh(t) == timer_gettickcount - timer_gettickcount >= timeout[t]

(* The difference is taken in 64 bits although the clock has 32. *)
TimedOut(t) == (timer_gettickcount - since[t]) % (WORD * WORD) >= timeout[t]

ew_test(t) ==
  /\ pc[t] = "ew_test"
  /\ \/ /\ seen[t] = 0 /\ TimedOut(t)
        /\ Return(t, "E_TIMEDOUT")
        /\ UNCHANGED <<unseen, wakes>>
     \/ /\ seen[t] = 0 /\ ~TimedOut(t)                   \* yield, try again
        /\ pc' = [pc EXCEPT ![t] = "ew_read"]
        /\ UNCHANGED <<result, seen, since, unseen, wakes>>
     \/ /\ seen[t] # 0
        /\ Return(t, "S_OK")
        /\ wakes' = IF autoreset THEN wakes + 1 ELSE wakes
        /\ unseen' = FALSE
  /\ UNCHANGED <<ticks, state, autoreset, signals, timeout, started>>

-----------------------------------------------------------------------------
(* timer_sleep: computes the end, then loops until end >= now. *)

sl_begin(t, ms) == Begin(t, "sleep", ms, (timer_gettickcount + ms) % WORD)

sl_test(t) ==
  /\ pc[t] = "sleep"
  /\ since[t] >= timer_gettickcount
  /\ Return(t, "slept")
  /\ UNCHANGED <<ticks, eventVars, timeout, started, wakes>>

Step(t) == ew_read(t) \/ ew_test(t) \/ sl_test(t)

Next ==
  \/ timer_irq_handler
  \/ event_signal
  \/ event_reset
  \/ \E t \in Threads, ms \in Timeouts : ew_begin(t, ms) \/ sl_begin(t, ms)
  \/ \E t \in Threads : Step(t)

Spec == Init /\ [][Next]_vars

(* The timer ticks and the scheduler runs every thread (Scheduler's         *)
(* EveryThreadRuns).                                                        *)
FairSpec == Spec /\ WF_vars(timer_irq_handler) /\ \A t \in Threads : WF_vars(Step(t))

-----------------------------------------------------------------------------
(* event_waitfor and event_reset never make the unsigned state negative,   *)
(* and times stay in 32 bits.                                              *)
TypeOK ==
  /\ ticks \in Nat /\ state \in Nat /\ autoreset \in BOOLEAN
  /\ pc \in [Threads -> {"idle", "ew_read", "ew_test", "sleep"}]
  /\ seen \in [Threads -> Nat] /\ since \in [Threads -> 0..(WORD - 1)]
  /\ timeout \in [Threads -> 0..(WORD - 1)]
  /\ result \in [Threads -> {"none", "S_OK", "E_TIMEDOUT", "slept"}]
  /\ started \in [Threads -> Nat]
  /\ signals \in Nat /\ wakes \in Nat /\ unseen \in BOOLEAN

(* A signal is not lost, even one that arrives between the look at the      *)
(* state and the timeout test of a wait that fails: it stays in the event   *)
(* until a wait succeeds or the event is reset.                             *)
NoSignalLost ==
  unseen => state # 0 \/ \E t \in Threads : pc[t] = "ew_test" /\ seen[t] # 0

(* An auto-reset event releases at most one waiter per signal. *)
OneWakePerSignal ==
  autoreset => wakes + (IF state # 0 THEN 1 ELSE 0) <= signals

(* Signals are neither lost nor used twice. *)
SignalsKept == TypeOK /\ NoSignalLost /\ OneWakePerSignal

(* The 32-bit clock starts again from 0 every WORD / Scale ticks. *)
Wrapped(t) == (Scale * started[t]) \div WORD # (Scale * ticks) \div WORD

(* A wait that fails has lasted at least its timeout, or the clock has      *)
(* started again meanwhile: that ends every wait at once, since the         *)
(* difference is taken in 64 bits.                                          *)
TimeoutNotEarly ==
  \A t \in Threads :
    result[t] = "E_TIMEDOUT" => Passed(started[t]) >= timeout[t] \/ Wrapped(t)

NotWaiting(t) == pc[t] = "idle" \/ Wrapped(t)

(* A wait returns once its time is over, unless the clock starts again      *)
(* before the waiter looks at it.                                           *)
WaitReturns ==
  \A t \in Threads :
    pc[t] \in {"ew_read", "ew_test"} /\ Passed(started[t]) >= timeout[t] ~> NotWaiting(t)
=============================================================================
