--------------------------- MODULE SchedulerProofs ---------------------------
(***************************************************************************)
(* Proofs about Scheduler, for any number of threads and processes and any *)
(* limits that satisfy SchedAssumption.  The inductive invariant has six   *)
(* parts: the types; what the program counters imply (Control); processes  *)
(* that are not in process_array yet (Unlisted); who holds the locks       *)
(* (Locks); the shape of the run queue (Queue); and the limits.            *)
(***************************************************************************)
EXTENDS Scheduler, TLAPS, SequenceTheorems

-----------------------------------------------------------------------------
(* Control.                                                                 *)

(* Thread t is inside sched_create_process, which keeps interrupts off. *)
InCreateProcess(t) ==
  /\ c_ret[t] = "cp_done"
  /\ pc[t] \in {"ct_check", "ct_lock", "ct_body", "ct_sched", "ct_flush", "ct_rel",
                "q_lock", "q_link", "cp_done"}

NoIrq(t) ==
  \/ pc[t] \in {"ct_body", "ct_flush", "q_link", "ex_body", "cp_done"}
  \/ InCreateProcess(t)

(* t has allocated a thread that has never been in the run queue. *)
Fresh(t) ==
  \/ pc[t] \in {"ct_sched", "ct_flush", "ct_rel"}
  \/ pc[t] \in {"q_lock", "q_link"} /\ (c_ret[t] = "cp_done" \/ c_proc[t] = KernelProc)

(* t is loading an image whose main thread is in the run queue already. *)
Loading(t) ==
  \/ pc[t] \in {"cp_done", "elf_load"}
  \/ pc[t] \in {"q_lock", "q_link"} /\ c_ret[t] = "run" /\ c_proc[t] # KernelProc

Control ==
  /\ current = NULL \/ current = cpu
  /\ current = NULL /\ cpu # NULL => pc[cpu] = "dead"
  /\ \A t \in Threads :
       /\ pc[t] = "dead" <=> process[t] = NULL
       /\ pc[t] \notin {"run", "dead"} => process[t] = KernelProc
       /\ NoIrq(t) => cpu = t /\ ~iflag
       /\ InCreateProcess(t) /\ pc[t] \in {"ct_body", "ct_flush", "ct_rel", "q_link"}
            => ~c_if[t]
       /\ pc[t] \in {"ct_check", "ct_lock", "ct_body", "ct_sched", "ct_flush", "ct_rel",
                     "q_lock", "q_link", "cp_done", "elf_load"} => c_proc[t] \in Procs
       /\ pc[t] \in {"ct_check", "ct_lock", "ct_body", "ct_sched", "ct_flush", "ct_rel"}
            /\ c_ret[t] = "run" => c_proc[t] = KernelProc
       /\ InCreateProcess(t) \/ Loading(t) => c_proc[t] # KernelProc
       /\ pc[t] \in {"cp_done", "elf_load"} => c_ret[t] = "cp_done"
       /\ pc[t] \in {"ex_lock", "ex_body"} => Returns(t)
       /\ Fresh(t) \/ Loading(t) => /\ c_new[t] \in Threads
                                    /\ pc[c_new[t]] = "run"
                                    /\ process[c_new[t]] = c_proc[t]
                                    /\ Returns(c_new[t])
  /\ pc[MainThread] # "dead" /\ pc[IdleThread] # "dead"
  /\ InSeq(process_array, KernelProc)

(* A process outside process_array has no thread before                     *)
(* sched_create_process has made its first, so the thread limit never ends  *)
(* sched_create_process with process_array_lock held.                       *)
Unlisted ==
  /\ \A t \in Threads : InCreateProcess(t) /\ pc[t] \in {"ct_check", "ct_lock", "ct_body"}
                          => thread_count[c_proc[t]] = 0
  /\ \A p \in Procs : \/ InSeq(process_array, p)
                       \/ thread_count[p] = 0
                       \/ \E t \in Threads : InCreateProcess(t) /\ c_proc[t] = p

-----------------------------------------------------------------------------
(* Locks.                                                                   *)
HoldsSchedLock(t) == pc[t] \in {"ct_flush", "ct_rel", "q_link", "ex_body"}

Locks ==
  /\ sched_lock => \E t \in Threads : HoldsSchedLock(t)
  /\ array_lock => \E t \in Threads : InCreateProcess(t)
  /\ \A p \in Procs : proc_lock[p] =>
       \E t \in Threads : pc[t] = "ct_body" /\ c_proc[t] = p

-----------------------------------------------------------------------------
(* Queue.                                                                   *)

(* The thread that t is loading comes right before t in round-robin order:  *)
(* it is the last one of the queue when t runs.                             *)
LoadedPrecedes(t) ==
  /\ current = t => run_queue # <<>> /\ run_queue[Len(run_queue)] = c_new[t]
  /\ \A i \in 1..Len(run_queue) : run_queue[i] = t =>
       \/ i = 1 /\ current = c_new[t]
       \/ i > 1 /\ run_queue[i - 1] = c_new[t]

Queue ==
  /\ \A i, j \in 1..Len(run_queue) : run_queue[i] = run_queue[j] => i = j
  /\ \A i \in 1..Len(run_queue) :
       run_queue[i] # current /\ process[run_queue[i]] # NULL
  /\ current # NULL => process[current] # NULL
  /\ \A t \in Threads :
       /\ process[t] # NULL => \/ t = current
                               \/ InSeq(run_queue, t)
                               \/ \E u \in Threads : Fresh(u) /\ c_new[u] = t
       /\ Fresh(t) => c_new[t] # current /\ ~InSeq(run_queue, c_new[t])
       /\ Loading(t) => LoadedPrecedes(t)
       /\ pc[t] = "q_link" => q_last[t] = IF run_queue = <<>> THEN NULL
                                          ELSE run_queue[Len(run_queue)]
  /\ \A t, u \in Threads : Fresh(t) /\ Fresh(u) /\ c_new[t] = c_new[u] => t = u

(* A step that moves neither the queue nor a thread into or out of it. *)
FrameStep ==
  /\ UNCHANGED <<run_queue, current, process>>
  /\ \A u \in Threads :
       /\ Fresh(u)' <=> Fresh(u)
       /\ Loading(u)' => Loading(u)
       /\ Fresh(u)' \/ Loading(u)' => c_new'[u] = c_new[u]
       /\ pc'[u] = "q_link" => q_last'[u] = IF run_queue = <<>> THEN NULL
                                            ELSE run_queue[Len(run_queue)]

(* The inductive invariant: no part but the types and the limits is kept    *)
(* without the others.                                                      *)
IInv == TypeOK /\ Control /\ Unlisted /\ Locks /\ Queue /\ ThreadLimit

-----------------------------------------------------------------------------
(* Facts about the operators.                                               *)

(* The prefix of a sequence up to a position of it. *)
LEMMA PrefixType ==
  ASSUME NEW S, NEW q \in Seq(S), NEW k \in 1..Len(q)
  PROVE  /\ SubSeq(q, 1, k) \in Seq(S)
         /\ Len(SubSeq(q, 1, k)) = k
         /\ \A i \in 1..k : SubSeq(q, 1, k)[i] = q[i]
OBVIOUS

(* The rest of a non-empty queue is a queue. *)
LEMMA TailType ==
  ASSUME NEW S, NEW q \in Seq(S), q # <<>>
  PROVE  Tail(q) \in Seq(S)
OBVIOUS

(* A member of a queue sits at its Position. *)
LEMMA PositionIs ==
  ASSUME NEW S, NEW q \in Seq(S), NEW t, InSeq(q, t)
  PROVE  Position(q, t) \in 1..Len(q) /\ q[Position(q, t)] = t
BY DEF InSeq, Position

(* A thread is in an extended queue if it was in the queue or is the new one. *)
LEMMA InSeqAppend ==
  ASSUME NEW S, NEW q \in Seq(S), NEW e \in S, NEW x
  PROVE  InSeq(Append(q, e), x) <=> InSeq(q, x) \/ x = e
<1>1. ASSUME InSeq(Append(q, e), x)
      PROVE  InSeq(q, x) \/ x = e
  <2>1. PICK i \in 1..Len(Append(q, e)) : Append(q, e)[i] = x
    BY <1>1 DEF InSeq
  <2>2. i = Len(q) + 1 \/ i \in 1..Len(q)
    BY <2>1, AppendProperties
  <2> QED
    BY <2>1, <2>2, AppendProperties DEF InSeq
<1>2. ASSUME InSeq(q, x) \/ x = e
      PROVE  InSeq(Append(q, e), x)
  <2>1. CASE x = e
    <3>1. Len(q) + 1 \in 1..Len(Append(q, e))
      BY AppendProperties
    <3> QED
      BY <2>1, <3>1, AppendProperties DEF InSeq
  <2>2. CASE InSeq(q, x)
    <3>1. PICK i \in 1..Len(q) : q[i] = x
      BY <2>2 DEF InSeq
    <3>2. i \in 1..Len(Append(q, e)) /\ Append(q, e)[i] = x
      BY <3>1, AppendProperties
    <3> QED
      BY <3>2 DEF InSeq
  <2> QED
    BY <1>2, <2>1, <2>2
<1> QED
  BY <1>1, <1>2

(* Linking a thread keeps every thread's links links. *)
LEMMA LinkAfterType ==
  ASSUME NEW q \in Seq(Threads), NEW last, NEW t \in Threads
  PROVE  LinkAfter(q, last, t) \in Seq(Threads)
<1>1. CASE last = NULL
  BY <1>1 DEF LinkAfter
<1>2. CASE last # NULL /\ InSeq(q, t)
  BY <1>2, PositionIs, PrefixType DEF LinkAfter
<1>3. CASE last # NULL /\ ~InSeq(q, t) /\ InSeq(q, last)
  <2>1. SubSeq(q, 1, Position(q, last)) \in Seq(Threads)
    BY <1>3, PositionIs, PrefixType
  <2> QED
    BY <1>3, <2>1 DEF LinkAfter
<1>4. CASE last # NULL /\ ~InSeq(q, t) /\ ~InSeq(q, last)
  BY <1>4 DEF LinkAfter
<1> QED
  BY <1>1, <1>2, <1>3, <1>4

(* What sched_update does to the queue: nothing, or one round-robin step. *)
LEMMA SchedUpdateEffect ==
  ASSUME TypeOK, halt = "no", sched_update
  PROVE  \/ /\ UNCHANGED <<run_queue, current, cpu, eflags, iflag>>
            /\ \/ halt' = "no"
               \/ halt' = "fault"
               \/ halt' = "panic" /\ (run_queue = <<>> \/ Head(run_queue) = current)
         \/ /\ halt' = "no"
            /\ run_queue # <<>>
            /\ current' = Head(run_queue) /\ cpu' = Head(run_queue)
            /\ iflag' = eflags[Head(run_queue)]
            /\ \/ current = NULL /\ run_queue' = Tail(run_queue) /\ UNCHANGED eflags
               \/ /\ current # NULL /\ run_queue' = Tail(Append(run_queue, current))
                  /\ eflags' = [eflags EXCEPT ![current] = iflag]
<1> USE DEF queueVars
<1>1. CASE ~sched_enabled
  BY <1>1 DEF sched_update
<1>2. CASE sched_enabled /\ SwitchOutcome # "no"
  BY <1>2 DEF sched_update, SwitchOutcome
<1>3. CASE sched_enabled /\ SwitchOutcome = "no"
  <2>1. run_queue # <<>>
    BY <1>3 DEF SwitchOutcome
  <2> QED
    BY <1>3, <2>1 DEF sched_update, sched_switch_to_thread
<1> QED
  BY <1>1, <1>2, <1>3

(* A thread that executes kernel code is the current thread and alive. *)
LEMMA RunningIsCurrent ==
  ASSUME TypeOK, Control, NEW t \in Threads, cpu = t, pc[t] # "dead"
  PROVE  current = t /\ process[t] \in Procs
BY SchedAssumption DEF TypeOK, Control

-----------------------------------------------------------------------------
(* Types.                                                                   *)

(* Boot establishes the types. *)
LEMMA TypeInit == Init => TypeOK
<1> SUFFICES ASSUME Init PROVE TypeOK
  OBVIOUS
<1> USE SchedAssumption DEF Init
<1>1. run_queue \in Seq(Threads) /\ process_array \in Seq(Procs)
  OBVIOUS
<1>2. /\ pc \in [Threads -> PCs]
      /\ process \in [Threads -> Procs \cup {NULL}]
  BY DEF PCs
<1>3. thread_count \in [Procs -> Int] /\ region_count \in [Procs -> Nat]
  OBVIOUS
<1> QED
  BY <1>1, <1>2, <1>3 DEF TypeOK

(* The timer's sched_update keeps the types. *)
LEMMA SchedUpdateType ==
  ASSUME TypeOK, halt = "no", sched_update
  PROVE  /\ run_queue' \in Seq(Threads)
         /\ current' \in Threads \cup {NULL} /\ cpu' \in Threads \cup {NULL}
         /\ iflag' \in BOOLEAN /\ eflags' \in [Threads -> BOOLEAN]
         /\ halt' \in {"no", "panic", "fault", "spin"}
<1>1. CASE UNCHANGED <<run_queue, current, cpu, eflags, iflag>> /\ halt' \in {"no", "panic", "fault"}
  BY <1>1 DEF TypeOK
<1>2. CASE /\ halt' = "no" /\ run_queue # <<>>
           /\ current' = Head(run_queue) /\ cpu' = Head(run_queue)
           /\ iflag' = eflags[Head(run_queue)]
           /\ \/ current = NULL /\ run_queue' = Tail(run_queue) /\ UNCHANGED eflags
              \/ /\ current # NULL /\ run_queue' = Tail(Append(run_queue, current))
                 /\ eflags' = [eflags EXCEPT ![current] = iflag]
  <2>1. Head(run_queue) \in Threads
    BY <1>2 DEF TypeOK
  <2>2. current # NULL => Append(run_queue, current) \in Seq(Threads)
    BY DEF TypeOK
  <2>3. current # NULL => Tail(Append(run_queue, current)) \in Seq(Threads)
    <3> SUFFICES ASSUME current # NULL PROVE Tail(Append(run_queue, current)) \in Seq(Threads)
      OBVIOUS
    <3>1. run_queue \in Seq(Threads) /\ current \in Threads
      BY DEF TypeOK
    <3>2. Append(run_queue, current) # <<>>
      BY <3>1, AppendProperties
    <3> QED
      BY <3>2, <2>2, TailType
  <2>4. Tail(run_queue) \in Seq(Threads)
    BY <1>2, TailType DEF TypeOK
  <2>5. run_queue' \in Seq(Threads)
    BY <1>2, <2>3, <2>4
  <2> QED
    BY <1>2, <2>1, <2>5 DEF TypeOK
<1> QED
  BY <1>1, <1>2, SchedUpdateEffect

(* Every step keeps the types. *)
LEMMA TypeStep == TypeOK /\ Control /\ [Next]_vars => TypeOK'
<1> SUFFICES ASSUME TypeOK, Control, [Next]_vars
             PROVE  TypeOK'
  OBVIOUS
<1> USE SchedAssumption DEF vars, queueVars, lockVars, procVars, callVars, TypeOK, PCs
<1>1. CASE UNCHANGED vars
  BY <1>1
<1>2. CASE timer_irq_handler
  <2>1. halt = "no" /\ sched_update
    BY <1>2 DEF timer_irq_handler
  <2> HIDE DEF TypeOK
  <2>2. /\ run_queue' \in Seq(Threads)
        /\ current' \in Threads \cup {NULL} /\ cpu' \in Threads \cup {NULL}
        /\ iflag' \in BOOLEAN /\ eflags' \in [Threads -> BOOLEAN]
        /\ halt' \in {"no", "panic", "fault", "spin"}
    BY <2>1, SchedUpdateType
  <2> QED
    BY <2>2, <1>2 DEF timer_irq_handler, TypeOK
<1>3. ASSUME NEW t \in Threads, ThreadStep(t)
      PROVE  TypeOK'
  <2>a. cpu = t /\ pc[t] # "dead" => current = t /\ process[t] \in Procs
    BY RunningIsCurrent
  <2>b. pc[t] \in {"ct_check", "ct_lock", "ct_body", "ct_sched", "ct_flush", "ct_rel",
                   "q_lock", "q_link", "cp_done", "elf_load"} => c_proc[t] \in Procs
    BY DEF Control
  <2>1. CASE sched_yield(t)
    <3>1. halt = "no" /\ sched_update
      BY <2>1 DEF sched_yield, Calling, Running
    <3> HIDE DEF TypeOK
    <3>2. /\ run_queue' \in Seq(Threads)
          /\ current' \in Threads \cup {NULL} /\ cpu' \in Threads \cup {NULL}
          /\ iflag' \in BOOLEAN /\ eflags' \in [Threads -> BOOLEAN]
          /\ halt' \in {"no", "panic", "fault", "spin"}
      BY <3>1, SchedUpdateType
    <3> QED
      BY <3>2, <2>1 DEF sched_yield, TypeOK
  <2>2. CASE \E bool \in BOOLEAN : sched_enable(t, bool)
    BY <2>2, <2>a, <2>b DEF sched_enable, Calling, Running
  <2>3. CASE \E label \in {"gc_lock", "ct_cur", "cp_lock"} : Call(t, label)
    BY <2>3, <2>a, <2>b DEF Call, Calling, Running, Goto
  <2>4. CASE Returns(t) /\ Call(t, "ex_lock")
    BY <2>4, <2>a, <2>b DEF Call, Calling, Running, Goto
  <2>5. CASE sched_get_current(t)
    BY <2>5, <2>a, <2>b DEF sched_get_current, Running, Goto
  <2>6. CASE ct_current_proc(t)
    BY <2>6, <2>a, <2>b DEF ct_current_proc, Running, Goto
  <2>7. CASE ct_check_limit(t)
    BY <2>7, <2>a, <2>b DEF ct_check_limit, Running, Goto
  <2>8. CASE ct_lock_proc(t)
    BY <2>8, <2>a, <2>b DEF ct_lock_proc, Running, Goto, ClearIF
  <2>9. CASE ct_setup_thread(t)
    <3>1. CASE ~RegionsFit(c_proc[t], process[t])
      BY <2>9, <3>1 DEF ct_setup_thread, Running
    <3>2. CASE RegionsFit(c_proc[t], process[t])
      <4>1. PICK new \in Threads :
              /\ c_new' = [c_new EXCEPT ![t] = new]
              /\ process' = [process EXCEPT ![new] = c_proc[t]]
              /\ eflags' = [eflags EXCEPT ![new] = TRUE]
              /\ pc' = [pc EXCEPT ![t] = "ct_sched", ![new] = "run"]
        BY <2>9, <3>2 DEF ct_setup_thread, Running
      <4>2. c_proc[t] \in Procs
        BY <2>9, <2>b DEF ct_setup_thread, Running
      <4>3. /\ c_new' \in [Threads -> Threads \cup {NULL}]
            /\ process' \in [Threads -> Procs \cup {NULL}]
            /\ eflags' \in [Threads -> BOOLEAN]
            /\ pc' \in [Threads -> PCs]
        BY <4>1, <4>2
      <4>4. /\ thread_count' = [thread_count EXCEPT ![c_proc[t]] = thread_count[c_proc[t]] + 1]
            /\ region_count' = [region_count EXCEPT
                   ![c_proc[t]] = region_count[c_proc[t]] + StackRegions(c_proc[t])]
            /\ proc_lock' = [proc_lock EXCEPT ![c_proc[t]] = FALSE]
        BY <2>9, <3>2 DEF ct_setup_thread
      <4>5. thread_count' \in [Procs -> Int]
        BY <4>2, <4>4
      <4>6. region_count' \in [Procs -> Nat]
        <5>1. StackRegions(c_proc[t]) \in Nat
          BY DEF StackRegions
        <5>2. region_count[c_proc[t]] + StackRegions(c_proc[t]) \in Nat
          BY <5>1, <4>2
        <5> QED
          BY <4>4, <5>2, <4>2
      <4>7. proc_lock' \in [Procs -> BOOLEAN]
        BY <4>2, <4>4
      <4> QED
        BY <2>9, <3>2, <4>3, <4>5, <4>6, <4>7 DEF ct_setup_thread, Running, RestoreIF
    <3> QED
      BY <3>1, <3>2
  <2>10. CASE ct_lock_sched(t)
    BY <2>10, <2>a, <2>b DEF ct_lock_sched, Running, Goto, ClearIF
  <2>11. CASE ct_refresh_page_dir(t)
    BY <2>11, <2>a, <2>b DEF ct_refresh_page_dir, Running, Goto, hal_flush_pagedir
  <2>12. CASE ct_unlock_sched(t)
    BY <2>12, <2>a, <2>b DEF ct_unlock_sched, Running, Goto, RestoreIF
  <2>13. CASE aq_lock_and_walk(t)
    <3>1. run_queue # <<>> => run_queue[Len(run_queue)] \in Threads
      OBVIOUS
    <3>2. q_last' \in [Threads -> Threads \cup {NULL}]
      BY <2>13, <3>1 DEF aq_lock_and_walk
    <3> QED
      BY <2>13, <3>2 DEF aq_lock_and_walk, Running, Goto, ClearIF
  <2>14. CASE aq_link_and_unlock(t)
    <3>1. c_new[t] \in Threads
      BY <2>14 DEF aq_link_and_unlock, Running, Control, Fresh, Loading
    <3>2. run_queue' \in Seq(Threads)
      BY <2>14, <3>1, LinkAfterType DEF aq_link_and_unlock
    <3>3. c_proc' \in [Threads -> Procs \cup {NULL}] /\ c_new' \in [Threads -> Threads \cup {NULL}]
      BY <2>14 DEF aq_link_and_unlock
    <3> QED
      BY <2>14, <3>2, <3>3 DEF aq_link_and_unlock, Running, Goto, RestoreIF
  <2>15. CASE cp_lock_array(t)
    <3>1. CASE Len(process_array) >= MAX_PROCESSES
      BY <2>15, <3>1 DEF cp_lock_array, Running, Goto
    <3>2. CASE ~(Len(process_array) >= MAX_PROCESSES)
      <4>1. c_proc' \in [Threads -> Procs \cup {NULL}]
        BY <2>15, <3>2 DEF cp_lock_array
      <4> QED
        BY <2>15, <3>2, <4>1 DEF cp_lock_array, Running, Goto, ClearIF
    <3> QED
      BY <3>1, <3>2
  <2>16. CASE cp_add_process(t)
    <3>1. process_array' \in Seq(Procs)
      BY <2>16, <2>b DEF cp_add_process, Running
    <3> QED
      BY <2>16, <3>1 DEF cp_add_process, Running, Goto, RestoreIF
  <2>17. CASE elf_load_from_memory(t)
    <3> DEFINE full == \/ region_count[process[t]] >= MAX_VM_REGIONS
                       \/ region_count[c_proc[t]] + ELF_REGIONS > MAX_VM_REGIONS
    <3>1. CASE full
      BY <2>17, <3>1 DEF elf_load_from_memory, Running
    <3>2. CASE ~full
      <4>2. c_proc[t] \in Procs
        BY <2>17, <2>b DEF elf_load_from_memory, Running
      <4>3. region_count[c_proc[t]] + ELF_REGIONS \in Nat
        BY <4>2
      <4>4. region_count' = [region_count EXCEPT ![c_proc[t]] = region_count[c_proc[t]] + ELF_REGIONS]
        BY <2>17, <3>2 DEF elf_load_from_memory
      <4>5. mapped' = [mapped EXCEPT ![c_proc[t]] = TRUE]
        BY <2>17, <3>2 DEF elf_load_from_memory
      <4>1. region_count' \in [Procs -> Nat] /\ mapped' \in [Procs -> BOOLEAN]
        BY <4>2, <4>3, <4>4, <4>5
      <4> HIDE DEF full
      <4> QED
        BY <2>17, <3>2, <4>1 DEF elf_load_from_memory, Running, Goto, full
    <3> QED
      BY <3>1, <3>2
  <2>18. CASE ex_lock_sched(t)
    BY <2>18, <2>a, <2>b DEF ex_lock_sched, Running, Goto, ClearIF
  <2>19. CASE ex_leave(t)
    <3>1. current = t /\ process[t] \in Procs
      BY <2>19, <2>a DEF ex_leave, Running
    <3>2. thread_count' \in [Procs -> Int]
      BY <2>19, <3>1 DEF ex_leave, destroy_thread_struct
    <3>3. process' \in [Threads -> Procs \cup {NULL}]
      BY <2>19, <3>1 DEF ex_leave, destroy_thread_struct
    <3> QED
      BY <2>19, <3>1, <3>2, <3>3 DEF ex_leave, Running, Goto, RestoreIF, destroy_thread_struct
  <2>20. CASE spinlock_acquire_busy(t)
    BY <2>20, <2>a, <2>b DEF spinlock_acquire_busy, Running, ClearIF
  <2> QED
    BY <1>3, <2>1, <2>2, <2>3, <2>4, <2>5, <2>6, <2>7, <2>8, <2>9, <2>10, <2>11, <2>12, <2>13, <2>14, <2>15, <2>16, <2>17, <2>18, <2>19, <2>20 DEF ThreadStep, KernelStep
<1> QED
  BY <1>1, <1>2, <1>3 DEF Next


-----------------------------------------------------------------------------
(* Control.                                                                 *)

(* Boot establishes Control. *)
LEMMA ControlInit == Init => Control
BY SchedAssumption DEF Init, Control, InCreateProcess, NoIrq, Fresh, Loading, Returns, InSeq

(* Every step keeps the relation between a thread's place in the code and its state. *)
LEMMA ControlStep == TypeOK /\ Control /\ Queue /\ [Next]_vars => Control'
<1> SUFFICES ASSUME TypeOK, Control, Queue, [Next]_vars
             PROVE  Control'
  OBVIOUS
<1> USE SchedAssumption DEF vars, queueVars, lockVars, procVars, callVars, Control, InCreateProcess, NoIrq, Fresh, Loading, Returns, TypeOK, PCs
<1>1. CASE UNCHANGED vars
  BY <1>1
<1>2. CASE timer_irq_handler
  <2>1. halt = "no" /\ sched_update /\ iflag
    BY <1>2 DEF timer_irq_handler
  <2>2. UNCHANGED <<lockVars, sched_enabled, procVars, pc, callVars>>
    BY <1>2 DEF timer_irq_handler
  <2>3. \A u \in Threads : ~NoIrq(u)
    BY <2>1
  <2>4. CASE UNCHANGED <<run_queue, current, cpu, eflags, iflag>>
    BY <2>2, <2>4
  <2>5. CASE run_queue # <<>> /\ current' = Head(run_queue) /\ cpu' = Head(run_queue)
    <3>1. Head(run_queue) \in Threads
      BY <2>5
    <3> QED
      BY <3>1, <2>2, <2>3, <2>5
  <2> QED
    BY <2>1, <2>4, <2>5, SchedUpdateEffect
<1>3. ASSUME NEW t \in Threads, ThreadStep(t)
      PROVE  Control'
  <2>a. /\ cpu = t /\ pc[t] # "dead" => current = t /\ process[t] \in Procs
        /\ \A u \in Threads : Fresh(u) => c_new[u] # current
    BY RunningIsCurrent DEF Queue
  <2>1. CASE sched_yield(t)
    <3>1. halt = "no" /\ sched_update /\ cpu = t /\ pc[t] = "run"
      BY <2>1 DEF sched_yield, Calling, Running
    <3> QED
      BY <3>1, <2>1, SchedUpdateEffect DEF sched_yield
  <2>2. CASE \E bool \in BOOLEAN : sched_enable(t, bool)
    BY <2>2 DEF sched_enable, Calling, Running
  <2>3. CASE \E label \in {"gc_lock", "ct_cur", "cp_lock"} : Call(t, label)
    <3>1. PICK label \in {"gc_lock", "ct_cur", "cp_lock"} : Call(t, label)
      BY <2>3
    <3>2. /\ pc' = [pc EXCEPT ![t] = label] /\ pc[t] = "run" /\ cpu = t
          /\ process[t] = KernelProc
          /\ UNCHANGED <<queueVars, iflag, lockVars, halt, sched_enabled, procVars, callVars>>
      BY <3>1 DEF Call, Calling, Running, Goto
    <3>3. \A u \in Threads : Fresh(u) \/ Loading(u) => c_new[u] # t
      BY <3>2, <2>a
    <3> QED
      BY <3>2, <3>3
  <2>4. CASE Returns(t) /\ Call(t, "ex_lock")
    <3>2. /\ pc' = [pc EXCEPT ![t] = "ex_lock"] /\ pc[t] = "run" /\ cpu = t
          /\ process[t] = KernelProc /\ Returns(t)
          /\ UNCHANGED <<queueVars, iflag, lockVars, halt, sched_enabled, procVars, callVars>>
      BY <2>4 DEF Call, Calling, Running, Goto
    <3>3. \A u \in Threads : Fresh(u) \/ Loading(u) => c_new[u] # t
      BY <3>2, <2>a
    <3> QED
      BY <3>2, <3>3
  <2>5. CASE sched_get_current(t)
    BY <2>5 DEF sched_get_current, Running, Goto
  <2>6. CASE ct_current_proc(t)
    BY <2>6 DEF ct_current_proc, Running, Goto
  <2>7. CASE ct_check_limit(t)
    BY <2>7 DEF ct_check_limit, Running, Goto
  <2>8. CASE ct_lock_proc(t)
    BY <2>8 DEF ct_lock_proc, Running, Goto, ClearIF
  <2>9. CASE ct_setup_thread(t)
    <3>1. CASE ~RegionsFit(c_proc[t], process[t])
      BY <2>9, <3>1 DEF ct_setup_thread, Running
    <3>2. CASE RegionsFit(c_proc[t], process[t])
      <4>1. PICK new \in Threads :
              /\ process[new] = NULL
              /\ c_new' = [c_new EXCEPT ![t] = new]
              /\ process' = [process EXCEPT ![new] = c_proc[t]]
              /\ pc' = [pc EXCEPT ![t] = "ct_sched", ![new] = "run"]
        BY <2>9, <3>2 DEF ct_setup_thread, Running
      <4>2. /\ pc[t] = "ct_body" /\ cpu = t
            /\ RestoreIF(c_if[t])
            /\ UNCHANGED <<current, cpu, process_array, c_proc, c_if, c_ret>>
        BY <2>9, <3>2 DEF ct_setup_thread, Running
      <4>3. new \notin {MainThread, IdleThread} /\ new # t /\ pc[new] = "dead"
        BY <4>1, <4>2
      <4> QED
        BY <4>1, <4>2, <4>3 DEF RestoreIF
    <3> QED
      BY <3>1, <3>2
  <2>10. CASE ct_lock_sched(t)
    BY <2>10 DEF ct_lock_sched, Running, Goto, ClearIF
  <2>11. CASE ct_refresh_page_dir(t)
    BY <2>11 DEF ct_refresh_page_dir, Running, Goto, hal_flush_pagedir
  <2>12. CASE ct_unlock_sched(t)
    BY <2>12 DEF ct_unlock_sched, Running, Goto, RestoreIF
  <2>13. CASE aq_lock_and_walk(t)
    BY <2>13 DEF aq_lock_and_walk, Running, Goto, ClearIF
  <2>14. CASE aq_link_and_unlock(t)
    BY <2>14 DEF aq_link_and_unlock, Running, Goto, RestoreIF, LinkAfter
  <2>15. CASE cp_lock_array(t)
    <3>1. CASE Len(process_array) >= MAX_PROCESSES
      BY <2>15, <3>1 DEF cp_lock_array, Running, Goto
    <3>2. CASE ~(Len(process_array) >= MAX_PROCESSES)
      <4>1. PICK p \in Procs :
              /\ ~InSeq(process_array, p)
              /\ iflag' = FALSE
              /\ c_proc' = [c_proc EXCEPT ![t] = p]
              /\ c_ret' = [c_ret EXCEPT ![t] = "cp_done"]
              /\ pc' = [pc EXCEPT ![t] = "ct_check"]
              /\ UNCHANGED <<c_new, c_if, q_last>>
        BY <2>15, <3>2 DEF cp_lock_array, ClearIF, Goto
      <4>2. p # KernelProc
        BY <4>1
      <4>3. /\ pc[t] = "cp_lock" /\ cpu = t
            /\ UNCHANGED <<queueVars, sched_lock, proc_lock, halt, sched_enabled, procVars>>
        BY <2>15, <3>2 DEF cp_lock_array, Running
      <4> QED
        BY <4>1, <4>2, <4>3
    <3> QED
      BY <3>1, <3>2
  <2>16. CASE cp_add_process(t)
    <3>1. InSeq(process_array', KernelProc)
      <4>1. process_array' = Append(process_array, c_proc[t]) /\ c_proc[t] \in Procs
        BY <2>16 DEF cp_add_process, Running
      <4> QED
        BY <4>1, AppendProperties DEF InSeq
    <3> QED
      BY <2>16, <3>1 DEF cp_add_process, Running, Goto, RestoreIF
  <2>17. CASE elf_load_from_memory(t)
    <3> DEFINE full == \/ region_count[process[t]] >= MAX_VM_REGIONS
                       \/ region_count[c_proc[t]] + ELF_REGIONS > MAX_VM_REGIONS
    <3>1. CASE full
      BY <2>17, <3>1 DEF elf_load_from_memory, Running
    <3>2. CASE ~full
      <4>1. /\ c_ret' = [c_ret EXCEPT ![t] = "run"]
            /\ pc' = [pc EXCEPT ![t] = "q_lock"]
            /\ pc[t] = "elf_load"
            /\ UNCHANGED <<queueVars, iflag, process, process_array, c_proc, c_new, c_if>>
        BY <2>17, <3>2 DEF elf_load_from_memory, Running, Goto
      <4> QED
        BY <4>1
    <3> QED
      BY <3>1, <3>2
  <2>18. CASE ex_lock_sched(t)
    BY <2>18 DEF ex_lock_sched, Running, Goto, ClearIF
  <2>19. CASE ex_leave(t)
    BY <2>19 DEF ex_leave, Running, Goto, RestoreIF, destroy_thread_struct
  <2>20. CASE spinlock_acquire_busy(t)
    BY <2>20 DEF spinlock_acquire_busy, Running, ClearIF
  <2> QED
    BY <1>3, <2>1, <2>2, <2>3, <2>4, <2>5, <2>6, <2>7, <2>8, <2>9, <2>10, <2>11, <2>12, <2>13, <2>14, <2>15, <2>16, <2>17, <2>18, <2>19, <2>20 DEF ThreadStep, KernelStep
<1> QED
  BY <1>1, <1>2, <1>3 DEF Next


-----------------------------------------------------------------------------
(* Locks.                                                                   *)

(* Boot establishes Unlisted. *)
LEMMA UnlistedInit == Init => Unlisted
BY SchedAssumption DEF Init, Unlisted, InCreateProcess, InSeq

(* A thread under construction stays out of every list until it is linked. *)
LEMMA UnlistedStep == TypeOK /\ Control /\ Unlisted /\ [Next]_vars => Unlisted'
<1> SUFFICES ASSUME TypeOK, Control, Unlisted, [Next]_vars
             PROVE  Unlisted'
  OBVIOUS
<1> USE SchedAssumption DEF vars, queueVars, lockVars, procVars, callVars, Unlisted, InCreateProcess, TypeOK
<1>1. CASE UNCHANGED vars
  BY <1>1
<1>2. CASE timer_irq_handler
  <2>1. UNCHANGED <<lockVars, procVars, pc, callVars>>
    BY <1>2 DEF timer_irq_handler
  <2> QED
    BY <2>1
<1>3. ASSUME NEW t \in Threads, ThreadStep(t)
      PROVE  Unlisted'
  <2>1. CASE sched_yield(t)
    <3>1. UNCHANGED <<lockVars, procVars, pc, callVars>>
      BY <2>1 DEF sched_yield
    <3> QED
      BY <3>1
  <2>2. CASE \E bool \in BOOLEAN : sched_enable(t, bool)
    BY <2>2 DEF sched_enable, Calling, Running
  <2>3. CASE \E label \in {"gc_lock", "ct_cur", "cp_lock"} : Call(t, label)
    <3>1. /\ pc[t] = "run" /\ UNCHANGED <<thread_count, process_array, c_proc, c_ret>>
          /\ \E label \in {"gc_lock", "ct_cur", "cp_lock"} : pc' = [pc EXCEPT ![t] = label]
      BY <2>3 DEF Call, Calling, Running, Goto
    <3>2. \A u \in Threads : /\ InCreateProcess(u)' <=> InCreateProcess(u)
                             /\ InCreateProcess(u) => c_proc'[u] = c_proc[u]
                             /\ pc'[u] \in {"ct_check", "ct_lock", "ct_body"} =>
                                  pc[u] \in {"ct_check", "ct_lock", "ct_body"}
      BY <3>1
    <3> HIDE DEF InCreateProcess
    <3> QED
      BY <3>1, <3>2
  <2>4. CASE Returns(t) /\ Call(t, "ex_lock")
    BY <2>4 DEF Call, Calling, Running, Goto
  <2>5. CASE sched_get_current(t)
    BY <2>5 DEF sched_get_current, Running, Goto
  <2>6. CASE ct_current_proc(t)
    BY <2>6 DEF ct_current_proc, Running, Goto
  <2>7. CASE ct_check_limit(t)
    BY <2>7 DEF ct_check_limit, Running, Goto
  <2>8. CASE ct_lock_proc(t)
    BY <2>8 DEF ct_lock_proc, Running, Goto, ClearIF
  <2>9. CASE ct_setup_thread(t)
    <3>1. CASE ~RegionsFit(c_proc[t], process[t])
      BY <2>9, <3>1 DEF ct_setup_thread, Running
    <3>2. CASE RegionsFit(c_proc[t], process[t])
      <4>1. PICK new \in Threads :
              /\ process[new] = NULL
              /\ pc' = [pc EXCEPT ![t] = "ct_sched", ![new] = "run"]
        BY <2>9, <3>2 DEF ct_setup_thread, Running
      <4>2. new # t /\ pc[new] = "dead"
        BY <4>1, <2>9 DEF Control, ct_setup_thread, Running
      <4>3. /\ pc[t] = "ct_body" /\ c_proc[t] \in Procs
            /\ thread_count' = [thread_count EXCEPT ![c_proc[t]] = thread_count[c_proc[t]] + 1]
            /\ UNCHANGED <<process_array, c_proc, c_ret>>
        BY <2>9, <3>2 DEF ct_setup_thread, Running, Control
      <4>4. c_ret[t] = "run" => InSeq(process_array, c_proc[t])
        BY <4>3 DEF Control
      <4>5. c_ret[t] = "cp_done" => cpu = t /\ \A u \in Threads : InCreateProcess(u) => u = t
        BY <4>3 DEF Control, NoIrq
      <4>6. c_ret[t] \in {"run", "cp_done"}
        OBVIOUS
      <4>7. \A u \in Threads : InCreateProcess(u) => cpu = u
        BY DEF Control, NoIrq
      <4>8. cpu = t
        BY <2>9 DEF ct_setup_thread, Running
      <4>9. \A u \in Threads : /\ InCreateProcess(u)' <=> InCreateProcess(u)
                               /\ c_proc'[u] = c_proc[u]
        BY <4>1, <4>2, <4>3
      <4>10. \A u \in Threads : InCreateProcess(u)' => pc'[u] = "ct_sched"
        <5>1. pc'[t] = "ct_sched"
          BY <4>1, <4>2
        <5> HIDE DEF InCreateProcess
        <5> QED
          BY <5>1, <4>7, <4>8, <4>9
      <4>11. InSeq(process_array, c_proc[t]) \/ InCreateProcess(t)
        BY <4>3, <4>4, <4>6
      <4> HIDE DEF InCreateProcess
      <4> QED
        BY <4>3, <4>9, <4>10, <4>11
    <3> QED
      BY <3>1, <3>2
  <2>10. CASE ct_lock_sched(t)
    BY <2>10 DEF ct_lock_sched, Running, Goto, ClearIF
  <2>11. CASE ct_refresh_page_dir(t)
    BY <2>11 DEF ct_refresh_page_dir, Running, Goto, hal_flush_pagedir
  <2>12. CASE ct_unlock_sched(t)
    BY <2>12 DEF ct_unlock_sched, Running, Goto, RestoreIF
  <2>13. CASE aq_lock_and_walk(t)
    BY <2>13 DEF aq_lock_and_walk, Running, Goto, ClearIF
  <2>14. CASE aq_link_and_unlock(t)
    <3>1. /\ pc[t] = "q_link" /\ pc' = [pc EXCEPT ![t] = c_ret[t]]
          /\ UNCHANGED <<thread_count, process_array, c_ret>>
          /\ \A u \in Threads : u # t \/ c_ret[t] = "cp_done" => c_proc'[u] = c_proc[u]
      BY <2>14 DEF aq_link_and_unlock, Running, Goto
    <3>2. \A u \in Threads : /\ InCreateProcess(u)' <=> InCreateProcess(u)
                             /\ InCreateProcess(u) => c_proc'[u] = c_proc[u]
                             /\ pc'[u] \in {"ct_check", "ct_lock", "ct_body"} =>
                                  pc[u] \in {"ct_check", "ct_lock", "ct_body"}
      BY <3>1
    <3> HIDE DEF InCreateProcess
    <3> HIDE DEF TypeOK
    <3>3. UNCHANGED <<thread_count, process_array>>
      BY <3>1
    <3> QED
      BY <3>2, <3>3
  <2>15. CASE cp_lock_array(t)
    <3>1. CASE Len(process_array) >= MAX_PROCESSES
      <4>1. /\ pc[t] = "cp_lock" /\ pc' = [pc EXCEPT ![t] = "run"]
            /\ UNCHANGED <<thread_count, process_array, c_proc, c_ret>>
        BY <2>15, <3>1 DEF cp_lock_array, Running, Goto
      <4> QED
        BY <4>1
    <3>2. CASE ~(Len(process_array) >= MAX_PROCESSES)
      <4>1. PICK p \in Procs :
              /\ ~InSeq(process_array, p)
              /\ c_proc' = [c_proc EXCEPT ![t] = p]
              /\ c_ret' = [c_ret EXCEPT ![t] = "cp_done"]
              /\ pc' = [pc EXCEPT ![t] = "ct_check"]
        BY <2>15, <3>2 DEF cp_lock_array, Goto
      <4>2. /\ pc[t] = "cp_lock" /\ cpu = t
            /\ UNCHANGED procVars
        BY <2>15, <3>2 DEF cp_lock_array, Running
      <4>3. \A u \in Threads : ~InCreateProcess(u)
        BY <4>2 DEF Control, NoIrq
      <4>4. thread_count[p] = 0
        BY <4>1, <4>3
      <4> QED
        BY <4>1, <4>2, <4>3, <4>4
    <3> QED
      BY <3>1, <3>2
  <2>16. CASE cp_add_process(t)
    <3>1. /\ process_array' = Append(process_array, c_proc[t]) /\ c_proc[t] \in Procs
          /\ pc[t] = "cp_done" /\ cpu = t /\ pc' = [pc EXCEPT ![t] = "elf_load"]
          /\ UNCHANGED <<thread_count, c_proc, c_ret>>
      BY <2>16 DEF cp_add_process, Running, Goto, Control
    <3>2. \A p \in Procs : InSeq(process_array, p) \/ p = c_proc[t] => InSeq(process_array', p)
      BY <3>1, InSeqAppend
    <3>3. \A u \in Threads : InCreateProcess(u) => u = t
      BY <3>1 DEF Control, NoIrq
    <3> QED
      BY <3>1, <3>2, <3>3
  <2>17. CASE elf_load_from_memory(t)
    <3>1. /\ UNCHANGED <<thread_count, process_array, c_proc>>
          /\ pc[t] = "elf_load"
          /\ \/ UNCHANGED <<pc, c_ret>>
             \/ c_ret' = [c_ret EXCEPT ![t] = "run"] /\ pc' = [pc EXCEPT ![t] = "q_lock"]
      BY <2>17 DEF elf_load_from_memory, Running, Goto
    <3>2. \A u \in Threads : /\ InCreateProcess(u)' <=> InCreateProcess(u)
                             /\ InCreateProcess(u) => c_proc'[u] = c_proc[u]
                             /\ pc'[u] \in {"ct_check", "ct_lock", "ct_body"} =>
                                  pc[u] \in {"ct_check", "ct_lock", "ct_body"}
      BY <3>1
    <3> HIDE DEF InCreateProcess
    <3> QED
      BY <3>1, <3>2
  <2>18. CASE ex_lock_sched(t)
    BY <2>18 DEF ex_lock_sched, Running, Goto, ClearIF
  <2>19. CASE ex_leave(t)
    <3>1. CASE current # t
      BY <2>19, <3>1, RunningIsCurrent DEF ex_leave, Running
    <3>2. CASE current = t
      <4>1. /\ pc[t] = "ex_body" /\ pc' = [pc EXCEPT ![t] = "dead"]
            /\ thread_count' = [thread_count EXCEPT ![process[t]] = thread_count[process[t]] - 1]
            /\ UNCHANGED <<process_array, c_proc, c_ret>>
        BY <2>19, <3>2 DEF ex_leave, destroy_thread_struct, Running, Goto
      <4>2. process[t] = KernelProc /\ InSeq(process_array, KernelProc)
        BY <4>1 DEF Control
      <4>3. \A u \in Threads : InCreateProcess(u) => c_proc[u] # KernelProc
        BY DEF Control
      <4>4. \A u \in Threads : /\ InCreateProcess(u)' <=> InCreateProcess(u)
                               /\ InCreateProcess(u) => u # t
        BY <4>1
      <4> HIDE DEF InCreateProcess
      <4> QED
        BY <4>1, <4>2, <4>3, <4>4
    <3> QED
      BY <3>1, <3>2
  <2>20. CASE spinlock_acquire_busy(t)
    BY <2>20 DEF spinlock_acquire_busy, Running, ClearIF
  <2> QED
    BY <1>3, <2>1, <2>2, <2>3, <2>4, <2>5, <2>6, <2>7, <2>8, <2>9, <2>10, <2>11, <2>12, <2>13, <2>14, <2>15, <2>16, <2>17, <2>18, <2>19, <2>20 DEF ThreadStep, KernelStep
<1> QED
  BY <1>1, <1>2, <1>3 DEF Next

(* All spinlocks are free at boot. *)
LEMMA LocksInit == Init => Locks
BY DEF Init, Locks

(* Every step keeps the owner of each spinlock. *)
LEMMA LocksStep == TypeOK /\ Control /\ Unlisted /\ Locks /\ [Next]_vars => Locks'
<1> SUFFICES ASSUME TypeOK, Control, Unlisted, Locks, [Next]_vars
             PROVE  Locks'
  OBVIOUS
<1> USE SchedAssumption DEF vars, queueVars, lockVars, procVars, callVars, Locks, HoldsSchedLock, InCreateProcess, TypeOK
<1>1. CASE UNCHANGED vars
  BY <1>1
<1>2. CASE timer_irq_handler
  <2>1. UNCHANGED <<lockVars, procVars, pc, callVars>>
    BY <1>2 DEF timer_irq_handler
  <2> QED
    BY <2>1
<1>3. ASSUME NEW t \in Threads, ThreadStep(t)
      PROVE  Locks'
  <2>1. CASE sched_yield(t)
    <3>1. UNCHANGED <<lockVars, procVars, pc, callVars>>
      BY <2>1 DEF sched_yield
    <3> QED
      BY <3>1
  <2>2. CASE \E bool \in BOOLEAN : sched_enable(t, bool)
    BY <2>2 DEF sched_enable, Calling, Running
  <2>3. CASE \E label \in {"gc_lock", "ct_cur", "cp_lock"} : Call(t, label)
    BY <2>3 DEF Call, Calling, Running, Goto
  <2>4. CASE Returns(t) /\ Call(t, "ex_lock")
    BY <2>4 DEF Call, Calling, Running, Goto
  <2>5. CASE sched_get_current(t)
    BY <2>5 DEF sched_get_current, Running, Goto
  <2>6. CASE ct_current_proc(t)
    BY <2>6 DEF ct_current_proc, Running, Goto
  <2>7. CASE ct_check_limit(t)
    <3>1. /\ pc[t] = "ct_check" /\ cpu = t
          /\ UNCHANGED <<sched_lock, array_lock, proc_lock, c_proc, c_ret>>
          /\ pc' = [pc EXCEPT ![t] =
                      IF thread_count[c_proc[t]] >= MAX_THREADS THEN "run" ELSE "ct_lock"]
      BY <2>7 DEF ct_check_limit, Running, Goto
    <3>a. InCreateProcess(t) => thread_count[c_proc[t]] = 0
      BY <3>1 DEF Unlisted
    <3>b. InCreateProcess(t) => ~(thread_count[c_proc[t]] >= MAX_THREADS)
      BY <3>a
    <3>2. InCreateProcess(t) => pc' = [pc EXCEPT ![t] = "ct_lock"]
      BY <3>1, <3>b
    <3> QED
      BY <3>1, <3>2
  <2>8. CASE ct_lock_proc(t)
    BY <2>8 DEF ct_lock_proc, Running, Goto, ClearIF
  <2>9. CASE ct_setup_thread(t)
    <3>1. CASE ~RegionsFit(c_proc[t], process[t])
      BY <2>9, <3>1 DEF ct_setup_thread, Running
    <3>2. CASE RegionsFit(c_proc[t], process[t])
      <4>1. PICK new \in Threads :
              /\ process[new] = NULL
              /\ pc' = [pc EXCEPT ![t] = "ct_sched", ![new] = "run"]
        BY <2>9, <3>2 DEF ct_setup_thread, Running
      <4>2. new # t /\ pc[new] = "dead"
        BY <4>1, <2>9 DEF Control, ct_setup_thread, Running
      <4>3. /\ pc[t] = "ct_body" /\ c_proc[t] \in Procs
            /\ proc_lock' = [proc_lock EXCEPT ![c_proc[t]] = FALSE]
            /\ UNCHANGED <<sched_lock, array_lock, c_proc, c_ret>>
        BY <2>9, <3>2 DEF ct_setup_thread, Running, Control
      <4>4. \A u \in Threads : /\ InCreateProcess(u)' <=> InCreateProcess(u)
                               /\ HoldsSchedLock(u) => HoldsSchedLock(u)'
                               /\ pc[u] = "ct_body" /\ u # t => pc'[u] = "ct_body"
        BY <4>1, <4>2, <4>3
      <4> HIDE DEF InCreateProcess, HoldsSchedLock
      <4> QED
        BY <4>3, <4>4
    <3> QED
      BY <3>1, <3>2
  <2>10. CASE ct_lock_sched(t)
    BY <2>10 DEF ct_lock_sched, Running, Goto, ClearIF
  <2>11. CASE ct_refresh_page_dir(t)
    BY <2>11 DEF ct_refresh_page_dir, Running, Goto, hal_flush_pagedir
  <2>12. CASE ct_unlock_sched(t)
    BY <2>12 DEF ct_unlock_sched, Running, Goto, RestoreIF
  <2>13. CASE aq_lock_and_walk(t)
    BY <2>13 DEF aq_lock_and_walk, Running, Goto, ClearIF
  <2>14. CASE aq_link_and_unlock(t)
    <3>1. /\ pc[t] = "q_link" /\ pc' = [pc EXCEPT ![t] = c_ret[t]]
          /\ sched_lock' = FALSE /\ UNCHANGED <<array_lock, proc_lock, c_ret>>
          /\ \A u \in Threads : u # t => c_proc'[u] = c_proc[u]
      BY <2>14 DEF aq_link_and_unlock, Running, Goto
    <3>2. \A u \in Threads : /\ InCreateProcess(u)' <=> InCreateProcess(u)
                             /\ HoldsSchedLock(u) /\ sched_lock' => HoldsSchedLock(u)'
                             /\ pc[u] = "ct_body" => pc'[u] = "ct_body" /\ c_proc'[u] = c_proc[u]
      BY <3>1
    <3> HIDE DEF InCreateProcess, HoldsSchedLock
    <3> HIDE DEF TypeOK
    <3>3. sched_lock' = FALSE /\ UNCHANGED <<array_lock, proc_lock>>
      BY <3>1
    <3> QED
      BY <3>2, <3>3
  <2>15. CASE cp_lock_array(t)
    <3>1. CASE Len(process_array) >= MAX_PROCESSES
      BY <2>15, <3>1 DEF cp_lock_array, Running, Goto
    <3>2. CASE ~(Len(process_array) >= MAX_PROCESSES)
      <4>1. PICK p \in Procs :
              /\ c_proc' = [c_proc EXCEPT ![t] = p]
              /\ c_ret' = [c_ret EXCEPT ![t] = "cp_done"]
              /\ pc' = [pc EXCEPT ![t] = "ct_check"]
        BY <2>15, <3>2 DEF cp_lock_array, Goto
      <4>2. pc[t] = "cp_lock" /\ UNCHANGED <<sched_lock, proc_lock>>
        BY <2>15, <3>2 DEF cp_lock_array, Running
      <4> QED
        BY <4>1, <4>2
    <3> QED
      BY <3>1, <3>2
  <2>16. CASE cp_add_process(t)
    BY <2>16 DEF cp_add_process, Running, Goto, RestoreIF
  <2>17. CASE elf_load_from_memory(t)
    <3>1. /\ UNCHANGED <<lockVars, c_proc>>
          /\ pc[t] = "elf_load"
          /\ \/ UNCHANGED <<pc, c_ret>>
             \/ c_ret' = [c_ret EXCEPT ![t] = "run"] /\ pc' = [pc EXCEPT ![t] = "q_lock"]
      BY <2>17 DEF elf_load_from_memory, Running, Goto
    <3>2. \A u \in Threads : /\ InCreateProcess(u)' <=> InCreateProcess(u)
                             /\ HoldsSchedLock(u) /\ sched_lock' => HoldsSchedLock(u)'
                             /\ pc[u] = "ct_body" => pc'[u] = "ct_body" /\ c_proc'[u] = c_proc[u]
      BY <3>1
    <3> HIDE DEF InCreateProcess, HoldsSchedLock
    <3> QED
      BY <3>1, <3>2
  <2>18. CASE ex_lock_sched(t)
    BY <2>18 DEF ex_lock_sched, Running, Goto, ClearIF
  <2>19. CASE ex_leave(t)
    BY <2>19 DEF ex_leave, Running, Goto, RestoreIF, destroy_thread_struct
  <2>20. CASE spinlock_acquire_busy(t)
    BY <2>20 DEF spinlock_acquire_busy, Running, ClearIF
  <2> QED
    BY <1>3, <2>1, <2>2, <2>3, <2>4, <2>5, <2>6, <2>7, <2>8, <2>9, <2>10, <2>11, <2>12, <2>13, <2>14, <2>15, <2>16, <2>17, <2>18, <2>19, <2>20 DEF ThreadStep, KernelStep
<1> QED
  BY <1>1, <1>2, <1>3 DEF Next


-----------------------------------------------------------------------------
(* Limits.                                                                  *)

(* The boot threads fit into the thread table. *)
LEMMA LimitInit == Init => ThreadLimit
BY SchedAssumption DEF Init, ThreadLimit

(* Every step keeps the thread table within its limit. *)
LEMMA LimitStep == TypeOK /\ Control /\ ThreadLimit /\ [Next]_vars => ThreadLimit'
<1> SUFFICES ASSUME TypeOK, Control, ThreadLimit, [Next]_vars
             PROVE  ThreadLimit'
  OBVIOUS
<1> USE SchedAssumption DEF vars, queueVars, lockVars, procVars, callVars
<1>1. CASE UNCHANGED <<thread_count, region_count>>
  BY <1>1 DEF ThreadLimit
<1>2. ASSUME NEW t \in Threads, ct_setup_thread(t)
      PROVE  ThreadLimit'
  <2> DEFINE p == c_proc[t]
  <2>1. p \in Procs
    BY <1>2 DEF ct_setup_thread, Running, Control
  <2>2. CASE ~RegionsFit(p, process[t])
    BY <1>1, <1>2, <2>2 DEF ct_setup_thread
  <2>3. CASE RegionsFit(p, process[t])
    <3>1. /\ thread_count' = [thread_count EXCEPT ![p] = thread_count[p] + 1]
          /\ region_count' = [region_count EXCEPT ![p] = region_count[p] + StackRegions(p)]
      BY <1>2, <2>3 DEF ct_setup_thread
    <3>2. StackRegions(p) \in {1, 2}
      BY DEF StackRegions
    <3>3. region_count[p] + StackRegions(p) <= MAX_VM_REGIONS
      BY <2>3 DEF RegionsFit
    <3> HIDE DEF p
    <3> QED
      BY <2>1, <3>1, <3>2, <3>3 DEF ThreadLimit, TypeOK
  <2> QED
    BY <2>2, <2>3
<1>3. ASSUME NEW t \in Threads, elf_load_from_memory(t)
      PROVE  ThreadLimit'
  <2> DEFINE p == c_proc[t]
  <2>1. p \in Procs
    BY <1>3 DEF elf_load_from_memory, Running, Control
  <2>2. CASE UNCHANGED procVars
    BY <1>1, <2>2
  <2>3. CASE /\ region_count[p] + ELF_REGIONS <= MAX_VM_REGIONS
             /\ region_count' = [region_count EXCEPT ![p] = region_count[p] + ELF_REGIONS]
             /\ UNCHANGED thread_count
    <3> HIDE DEF p
    <3> QED
      BY <2>1, <2>3 DEF ThreadLimit, TypeOK
  <2>4. \/ UNCHANGED procVars
        \/ /\ ~(region_count[p] + ELF_REGIONS > MAX_VM_REGIONS)
           /\ region_count' = [region_count EXCEPT ![p] = region_count[p] + ELF_REGIONS]
           /\ UNCHANGED thread_count
    BY <1>3 DEF elf_load_from_memory
  <2>5. region_count[p] \in Nat
    BY <2>1 DEF TypeOK
  <2> HIDE DEF p
  <2> QED
    BY <2>2, <2>3, <2>4, <2>5
<1>4. ASSUME NEW t \in Threads, ex_leave(t)
      PROVE  ThreadLimit'
  <2>1. current = t /\ process[t] \in Procs
    BY <1>4, RunningIsCurrent DEF ex_leave, Running
  <2>2. /\ thread_count' = [thread_count EXCEPT ![process[t]] = thread_count[process[t]] - 1]
        /\ UNCHANGED region_count
    BY <1>4, <2>1 DEF ex_leave, destroy_thread_struct
  <2> QED
    BY <2>1, <2>2 DEF ThreadLimit, TypeOK
<1>5. \/ UNCHANGED <<thread_count, region_count>>
      \/ \E t \in Threads : ct_setup_thread(t) \/ elf_load_from_memory(t) \/ ex_leave(t)
  BY DEF Next, timer_irq_handler, ThreadStep, KernelStep, sched_yield, sched_enable, Call,
     sched_get_current, ct_current_proc, ct_check_limit, ct_lock_proc, ct_lock_sched,
     ct_refresh_page_dir, ct_unlock_sched, aq_lock_and_walk, aq_link_and_unlock,
     cp_lock_array, cp_add_process, ex_lock_sched, spinlock_acquire_busy
<1> QED
  BY <1>1, <1>2, <1>3, <1>4, <1>5


-----------------------------------------------------------------------------
(* The run queue.                                                           *)

(* Linking behind the last thread of the queue appends. *)
LEMMA LinkFresh ==
  ASSUME NEW q \in Seq(Threads), NEW n \in Threads, ~InSeq(q, n), NULL \notin Threads,
         \A i, j \in 1..Len(q) : q[i] = q[j] => i = j,
         NEW last, last = IF q = <<>> THEN NULL ELSE q[Len(q)]
  PROVE  LinkAfter(q, last, n) = Append(q, n)
<1>1. CASE q = <<>>
  BY <1>1 DEF LinkAfter
<1>2. CASE q # <<>>
  <2>1. Len(q) \in 1..Len(q) /\ last = q[Len(q)] /\ last # NULL
    BY <1>2
  <2>2. InSeq(q, last)
    BY <2>1 DEF InSeq
  <2>3. Position(q, last) = Len(q)
    BY <2>1, <2>2, PositionIs
  <2>4. SubSeq(q, 1, Len(q)) = q
    BY <1>2, SubSeqFull
  <2> QED
    BY <2>1, <2>2, <2>3, <2>4 DEF LinkAfter
<1> QED
  BY <1>1, <1>2

(* Linking the last thread of the queue again changes nothing. *)
LEMMA LinkLast ==
  ASSUME NEW q \in Seq(Threads), NEW n \in Threads, q # <<>>, q[Len(q)] = n,
         NULL \notin Threads, \A i, j \in 1..Len(q) : q[i] = q[j] => i = j
  PROVE  LinkAfter(q, n, n) = q
<1>1. Len(q) \in 1..Len(q)
  OBVIOUS
<1>2. InSeq(q, n)
  BY <1>1 DEF InSeq
<1>3. Position(q, n) = Len(q)
  BY <1>1, <1>2, PositionIs
<1>4. SubSeq(q, 1, Len(q)) = q
  BY SubSeqFull
<1> QED
  BY <1>2, <1>3, <1>4 DEF LinkAfter

(* A round-robin step shifts the queue by one place, current to its end. *)
LEMMA Rotate ==
  ASSUME NEW q \in Seq(Threads), q # <<>>, NEW c \in Threads \cup {NULL}, NEW r,
         \/ c = NULL /\ r = Tail(q)
         \/ c # NULL /\ r = Tail(Append(q, c))
  PROVE  /\ r \in Seq(Threads)
         /\ Len(q) \in Nat \ {0} /\ Len(r) = IF c = NULL THEN Len(q) - 1 ELSE Len(q)
         /\ \A i \in 1..(Len(q) - 1) : r[i] = q[i + 1]
         /\ c # NULL => r[Len(q)] = c
         /\ Head(q) = q[1]
<1>1. CASE c = NULL /\ r = Tail(q)
  BY <1>1, HeadTailProperties
<1>2. CASE c # NULL /\ r = Tail(Append(q, c))
  <2>1. /\ Append(q, c) \in Seq(Threads) /\ Append(q, c) # <<>>
        /\ Len(Append(q, c)) = Len(q) + 1
        /\ \A i \in 1..Len(q) : Append(q, c)[i] = q[i]
        /\ Append(q, c)[Len(q) + 1] = c
    BY <1>2, AppendProperties
  <2>2. /\ r \in Seq(Threads) /\ Len(r) = Len(q)
        /\ \A i \in 1..Len(q) : r[i] = Append(q, c)[i + 1]
    BY <1>2, <2>1, HeadTailProperties
  <2>3. \A i \in 1..(Len(q) - 1) : r[i] = q[i + 1]
    BY <2>1, <2>2
  <2>4. r[Len(q)] = c
    BY <2>1, <2>2
  <2> QED
    BY <1>2, <2>2, <2>3, <2>4
<1> QED
  BY <1>1, <1>2

(* The boot threads form the first run queue. *)
LEMMA QueueInit == Init => Queue
<1> SUFFICES ASSUME Init PROVE Queue
  OBVIOUS
<1> USE SchedAssumption DEF Init
<1>1. /\ Len(run_queue) = 2 /\ run_queue[1] = MainThread /\ run_queue[2] = IdleThread
  OBVIOUS
<1>2. \A t \in Threads : ~Fresh(t) /\ ~Loading(t) /\ pc[t] # "q_link"
  BY DEF Fresh, Loading
<1>3. \A t \in Threads : process[t] # NULL => InSeq(run_queue, t)
  BY <1>1 DEF InSeq
<1>4. /\ \A i, j \in 1..Len(run_queue) : run_queue[i] = run_queue[j] => i = j
      /\ \A i \in 1..Len(run_queue) : run_queue[i] \in {MainThread, IdleThread}
  BY <1>1
<1>5. \A t \in {MainThread, IdleThread} : t # current /\ process[t] # NULL
  OBVIOUS
<1>6. current = NULL
  OBVIOUS
<1> QED
  BY <1>2, <1>3, <1>4, <1>5, <1>6 DEF Queue

(* A step that touches neither links nor threads keeps the queue. *)
LEMMA QueueFrame ==
  ASSUME TypeOK, Queue, FrameStep
  PROVE  Queue'
<1>1. /\ \A i, j \in 1..Len(run_queue') : run_queue'[i] = run_queue'[j] => i = j
      /\ \A i \in 1..Len(run_queue') :
           run_queue'[i] # current' /\ process'[run_queue'[i]] # NULL
      /\ current' # NULL => process'[current'] # NULL
  BY DEF Queue, FrameStep
<1>2. ASSUME NEW t \in Threads
      PROVE  /\ process'[t] # NULL => \/ t = current'
                                       \/ InSeq(run_queue', t)
                                       \/ \E u \in Threads : Fresh(u)' /\ c_new'[u] = t
             /\ Fresh(t)' => c_new'[t] # current' /\ ~InSeq(run_queue', c_new'[t])
             /\ pc'[t] = "q_link" => q_last'[t] = IF run_queue' = <<>> THEN NULL
                                                  ELSE run_queue'[Len(run_queue')]
  BY <1>2 DEF Queue, FrameStep
<1>3. ASSUME NEW t \in Threads, Loading(t)'
      PROVE  LoadedPrecedes(t)'
  BY <1>3 DEF Queue, FrameStep, LoadedPrecedes
<1>4. \A t, u \in Threads : Fresh(t)' /\ Fresh(u)' /\ c_new'[t] = c_new'[u] => t = u
  BY DEF Queue, FrameStep
<1> QED
  BY <1>1, <1>2, <1>3, <1>4 DEF Queue

(* A context switch. *)
LEMMA QueueSwitch ==
  ASSUME TypeOK, Control, Queue, halt = "no", sched_update,
         UNCHANGED <<process, pc, callVars>>, \A u \in Threads : pc[u] # "q_link"
  PROVE  Queue'
<1> USE SchedAssumption DEF callVars
<1>0. \A u \in Threads : /\ Fresh(u)' <=> Fresh(u)
                         /\ Loading(u)' <=> Loading(u)
                         /\ c_new'[u] = c_new[u]
                         /\ Loading(u) => c_new[u] \in Threads
  BY DEF Fresh, Loading, Control
<1>1. CASE UNCHANGED <<run_queue, current, cpu, eflags, iflag>>
  <2>1. FrameStep
    BY <1>0, <1>1 DEF FrameStep
  <2> QED
    BY <2>1, QueueFrame
<1>2. CASE /\ run_queue # <<>> /\ current' = Head(run_queue)
           /\ \/ current = NULL /\ run_queue' = Tail(run_queue)
              \/ current # NULL /\ run_queue' = Tail(Append(run_queue, current))
  <2> DEFINE q == run_queue
             r == run_queue'
             N == Len(run_queue)
  <2>1. q \in Seq(Threads) /\ q # <<>> /\ current \in Threads \cup {NULL}
    BY <1>2 DEF TypeOK
  <2>a. /\ N = Len(q) /\ current' = Head(q)
        /\ \/ current = NULL /\ r = Tail(q)
           \/ current # NULL /\ r = Tail(Append(q, current))
    BY <1>2
  <2>3. /\ \A i, j \in 1..N : q[i] = q[j] => i = j
        /\ \A i \in 1..N : q[i] # current /\ process[q[i]] # NULL
        /\ current # NULL => process[current] # NULL
    BY DEF Queue
  <2> HIDE DEF q, r, N
  <2>2. /\ r \in Seq(Threads)
        /\ N \in Nat \ {0} /\ Len(r) = IF current = NULL THEN N - 1 ELSE N
        /\ \A i \in 1..(N - 1) : r[i] = q[i + 1]
        /\ current # NULL => r[N] = current
        /\ current' = q[1]
    BY <2>1, <2>a, Rotate
  <2>4. \A i \in 1..Len(r) : \/ i \in 1..(N - 1) /\ i + 1 \in 1..N /\ r[i] = q[i + 1]
                             \/ i = N /\ current # NULL /\ r[i] = current
    BY <2>2
  <2>5. \A i, j \in 1..Len(r) : r[i] = r[j] => i = j
    BY <2>2, <2>3, <2>4
  <2>6. \A i \in 1..Len(r) : r[i] # current' /\ process'[r[i]] # NULL
    BY <2>2, <2>3, <2>4
  <2>7. process'[current'] # NULL
    BY <2>2, <2>3
  <2>8. \A t : InSeq(r, t) \/ t = current' <=> InSeq(q, t) \/ (t = current /\ t # NULL)
    <3>1. ASSUME NEW t, InSeq(r, t) \/ t = current'
          PROVE  InSeq(q, t) \/ (t = current /\ t # NULL)
      <4>1. CASE t = current'
        <5>1. 1 \in 1..N /\ q[1] = t
          BY <4>1, <2>2
        <5> QED
          BY <5>1, <2>a DEF InSeq
      <4>2. CASE InSeq(r, t)
        <5>1. PICK i \in 1..Len(r) : r[i] = t
          BY <4>2 DEF InSeq
        <5>2. CASE i + 1 \in 1..N /\ q[i + 1] = t
          BY <5>2, <2>a DEF InSeq
        <5> QED
          BY <5>1, <5>2, <2>4
      <4> QED
        BY <3>1, <4>1, <4>2
    <3>2. ASSUME NEW t, InSeq(q, t) \/ (t = current /\ t # NULL)
          PROVE  InSeq(r, t) \/ t = current'
      <4>1. CASE t = current /\ t # NULL
        <5>1. N \in 1..Len(r) /\ r[N] = t
          BY <4>1, <2>2
        <5> QED
          BY <5>1 DEF InSeq
      <4>2. CASE InSeq(q, t)
        <5>1. PICK i \in 1..N : q[i] = t
          BY <4>2, <2>a DEF InSeq
        <5>2. CASE i = 1
          BY <5>1, <5>2, <2>2
        <5>3. CASE i # 1
          <6>1. i - 1 \in 1..(N - 1) /\ i - 1 \in 1..Len(r)
            BY <5>1, <5>3, <2>2
          <6>2. r[i - 1] = q[i]
            BY <6>1, <5>1, <2>2
          <6> QED
            BY <6>1, <6>2, <5>1 DEF InSeq
        <5> QED
          BY <5>2, <5>3
      <4> QED
        BY <3>2, <4>1, <4>2
    <3> QED
      BY <3>1, <3>2
  <2>9. ASSUME NEW t \in Threads
        PROVE  /\ process'[t] # NULL => \/ t = current'
                                        \/ InSeq(r, t)
                                        \/ \E u \in Threads : Fresh(u)' /\ c_new'[u] = t
               /\ Fresh(t)' => c_new'[t] # current' /\ ~InSeq(r, c_new'[t])
    <3>1. /\ process[t] # NULL => \/ t = current
                                  \/ InSeq(q, t)
                                  \/ \E u \in Threads : Fresh(u) /\ c_new[u] = t
          /\ Fresh(t) => c_new[t] # current /\ ~InSeq(q, c_new[t])
      BY DEF Queue, q
    <3> QED
      BY <3>1, <2>8, <1>0
  <2>10. ASSUME NEW t \in Threads, Loading(t)'
         PROVE  LoadedPrecedes(t)'
    <3>1. /\ c_new[t] \in Threads /\ c_new'[t] = c_new[t]
          /\ current = t => q[N] = c_new[t]
          /\ \A i \in 1..N : q[i] = t => \/ i = 1 /\ current = c_new[t]
                                         \/ i > 1 /\ q[i - 1] = c_new[t]
      BY <2>10, <1>0 DEF Queue, LoadedPrecedes, q, N
    <3>2. current' = t => r # <<>> /\ r[Len(r)] = c_new[t]
      <4> SUFFICES ASSUME current' = t PROVE r # <<>> /\ r[Len(r)] = c_new[t]
        OBVIOUS
      <4>1. q[1] = t /\ 1 \in 1..N
        BY <2>2
      <4>2. current = c_new[t]
        BY <3>1, <4>1
      <4> QED
        BY <4>2, <2>2, <3>1
    <3>3. ASSUME NEW i \in 1..Len(r), r[i] = t
          PROVE  \/ i = 1 /\ current' = c_new[t]
                 \/ i > 1 /\ r[i - 1] = c_new[t]
      <4>1. CASE i \in 1..(N - 1) /\ i + 1 \in 1..N /\ r[i] = q[i + 1]
        <5>1. q[i] = c_new[t]
          BY <3>1, <3>3, <4>1, <2>2
        <5>2. i > 1 => r[i - 1] = q[i]
          BY <4>1, <2>2
        <5> QED
          BY <5>1, <5>2, <2>2, <4>1
      <4>2. CASE i = N /\ current # NULL /\ r[i] = current
        <5>1. q[N] = c_new[t]
          BY <3>1, <3>3, <4>2
        <5>2. N > 1 => r[N - 1] = q[N]
          BY <2>2
        <5> QED
          BY <5>1, <5>2, <2>2, <4>2
      <4> QED
        BY <4>1, <4>2, <2>4
    <3> QED
      BY <3>1, <3>2, <3>3 DEF LoadedPrecedes, r
  <2>11. \A t \in Threads : pc'[t] # "q_link"
    OBVIOUS
  <2>12. \A t, u \in Threads : Fresh(t)' /\ Fresh(u)' /\ c_new'[t] = c_new'[u] => t = u
    BY <1>0 DEF Queue
  <2> QED
    BY <2>5, <2>6, <2>7, <2>9, <2>10, <2>11, <2>12 DEF Queue, r
<1> QED
  BY <1>1, <1>2, SchedUpdateEffect

(* sched_add_thread_to_run_queue appends a fresh thread, and leaves the     *)
(* queue alone when it is called again for the thread just queued.          *)
LEMMA QueueLink ==
  ASSUME TypeOK, Control, Queue, NEW t \in Threads, aq_link_and_unlock(t)
  PROVE  Queue'
<1> USE SchedAssumption DEF procVars
<1>1. /\ pc[t] = "q_link" /\ cpu = t
      /\ run_queue' = LinkAfter(run_queue, q_last[t], c_new[t])
      /\ pc' = [pc EXCEPT ![t] = c_ret[t]]
      /\ UNCHANGED <<current, process, c_ret>>
      /\ \A u \in Threads : u # t => c_new'[u] = c_new[u] /\ c_proc'[u] = c_proc[u]
      /\ c_ret[t] = "cp_done" => c_new'[t] = c_new[t]
  BY DEF aq_link_and_unlock, Running, Goto, TypeOK
<1>2. current = t /\ process[t] \in Procs
  BY <1>1, RunningIsCurrent
<1>3. /\ run_queue \in Seq(Threads) /\ pc \in [Threads -> PCs]
      /\ c_ret[t] \in {"run", "cp_done"}
      /\ \A i, j \in 1..Len(run_queue) : run_queue[i] = run_queue[j] => i = j
      /\ q_last[t] = IF run_queue = <<>> THEN NULL ELSE run_queue[Len(run_queue)]
  BY <1>1 DEF TypeOK, Queue
<1>4. /\ \A u \in Threads \ {t} : /\ Fresh(u)' <=> Fresh(u)
                                  /\ Loading(u)' <=> Loading(u)
                                  /\ pc'[u] = pc[u]
      /\ ~Fresh(t)'
      /\ Loading(t)' <=> c_ret[t] = "cp_done"
      /\ Fresh(t) \/ Loading(t)
      /\ Loading(t) => c_ret[t] = "run" /\ ~Fresh(t)
  BY <1>1, <1>3 DEF Fresh, Loading
<1>5. \A u \in Threads : pc'[u] # "q_link"
  BY <1>1, <1>3, <1>4 DEF Control, NoIrq
<1>6. c_new[t] \in Threads /\ pc[c_new[t]] = "run"
  BY <1>4 DEF Control
<1>7. CASE Loading(t)
  <2>1. run_queue # <<>> /\ run_queue[Len(run_queue)] = c_new[t]
    BY <1>2, <1>7 DEF Queue, LoadedPrecedes
  <2>2. run_queue' = run_queue
    BY <1>1, <1>3, <1>6, <2>1, LinkLast
  <2>3. FrameStep
    BY <1>1, <1>4, <1>5, <1>7, <2>2 DEF FrameStep
  <2> QED
    BY <2>3, QueueFrame
<1>8. CASE Fresh(t)
  <2> DEFINE q == run_queue
             r == run_queue'
             n == c_new[t]
  <2>1. ~InSeq(q, n) /\ n # current /\ n \in Threads /\ process[n] # NULL
    BY <1>6, <1>8 DEF Queue, Control, TypeOK
  <2>2. r = Append(q, n)
    BY <1>1, <1>3, <2>1, LinkFresh
  <2>3. /\ \A i, j \in 1..Len(q) : q[i] = q[j] => i = j
        /\ \A i \in 1..Len(q) : q[i] # current /\ process[q[i]] # NULL
        /\ q \in Seq(Threads)
    BY <1>3 DEF Queue
  <2>4. \A i \in 1..Len(q) : q[i] # n
    BY <2>1 DEF InSeq
  <2>5. /\ \A x : InSeq(r, x) <=> InSeq(q, x) \/ x = n
        /\ r # <<>> /\ Len(r) = Len(q) + 1 /\ r[Len(q) + 1] = n
        /\ \A i \in 1..Len(q) : r[i] = q[i]
    BY <2>1, <2>2, <2>3, InSeqAppend, AppendProperties
  <2>6. ASSUME NEW u \in Threads, Fresh(u) PROVE u = t \/ c_new[u] # n
    BY <1>8, <2>6 DEF Queue
  <2>7. Len(q) \in Nat
    BY <2>3
  <2> HIDE DEF q, r, n
  <2>8. \A i \in 1..Len(r) : i \in 1..Len(q) \/ i = Len(q) + 1
    BY <2>5, <2>7
  <2>9. \A i, j \in 1..Len(r) : r[i] = r[j] => i = j
    BY <2>3, <2>4, <2>5, <2>8
  <2>10. \A i \in 1..Len(r) : r[i] # current' /\ process'[r[i]] # NULL
    BY <1>1, <2>1, <2>3, <2>5, <2>8
  <2>11. process'[current'] # NULL
    BY <1>1, <1>2
  <2>12. ASSUME NEW v \in Threads
         PROVE  /\ process'[v] # NULL => \/ v = current'
                                         \/ InSeq(r, v)
                                         \/ \E u \in Threads : Fresh(u)' /\ c_new'[u] = v
                /\ Fresh(v)' => c_new'[v] # current' /\ ~InSeq(r, c_new'[v])
    <3>1. /\ process[v] # NULL => \/ v = current
                                  \/ InSeq(q, v)
                                  \/ \E u \in Threads : Fresh(u) /\ c_new[u] = v
          /\ Fresh(v) => c_new[v] # current /\ ~InSeq(q, c_new[v])
      BY DEF Queue, q
    <3>2. ASSUME NEW u \in Threads, Fresh(u), c_new[u] = v
          PROVE  v = n \/ (Fresh(u)' /\ c_new'[u] = v)
      BY <3>2, <1>1, <1>4 DEF n
    <3>3. ASSUME Fresh(v)'
          PROVE  v # t /\ Fresh(v) /\ c_new'[v] = c_new[v] /\ c_new[v] # n
      BY <3>3, <1>1, <1>4, <2>6
    <3> QED
      BY <3>1, <3>2, <3>3, <1>1, <2>5
  <2>13. ASSUME NEW u \in Threads, Loading(u)'
         PROVE  LoadedPrecedes(u)'
    <3>1. CASE u = t
      <4>1. c_new'[t] = n
        BY <1>1, <1>4, <2>13, <3>1 DEF n
      <4>2. r[Len(r)] = n
        BY <2>5
      <4>3. \A i \in 1..Len(r) : r[i] # t
        BY <1>2, <1>1, <2>10
      <4> QED
        BY <3>1, <4>1, <4>2, <4>3, <2>5 DEF LoadedPrecedes, r
    <3>2. CASE u # t
      <4>1. Loading(u) /\ c_new'[u] = c_new[u] /\ u # current' /\ u # n
        BY <3>2, <1>1, <1>2, <1>4, <1>6, <2>13 DEF Loading, n
      <4>2. \A i \in 1..Len(q) : q[i] = u => \/ i = 1 /\ current = c_new[u]
                                             \/ i > 1 /\ q[i - 1] = c_new[u]
        BY <4>1 DEF Queue, LoadedPrecedes, q
      <4>3. \A i \in 1..Len(r) : r[i] = u => \/ i = 1 /\ current' = c_new[u]
                                             \/ i > 1 /\ r[i - 1] = c_new[u]
        <5> SUFFICES ASSUME NEW i \in 1..Len(r), r[i] = u
                     PROVE  \/ i = 1 /\ current' = c_new[u]
                            \/ i > 1 /\ r[i - 1] = c_new[u]
          OBVIOUS
        <5>1. i \in 1..Len(q) /\ q[i] = u
          BY <2>5, <2>8, <4>1
        <5>2. i > 1 => r[i - 1] = q[i - 1]
          BY <5>1, <2>5, <2>7
        <5> QED
          BY <5>1, <5>2, <4>2, <1>1
      <4> QED
        BY <4>1, <4>3 DEF LoadedPrecedes, r
    <3> QED
      BY <3>1, <3>2
  <2>14. \A u, v \in Threads : Fresh(u)' /\ Fresh(v)' /\ c_new'[u] = c_new'[v] => u = v
    BY <1>1, <1>4 DEF Queue
  <2> QED
    BY <1>5, <2>9, <2>10, <2>11, <2>12, <2>13, <2>14 DEF Queue, r
<1> QED
  BY <1>4, <1>7, <1>8

(* A thread that leaves is in no list when its descriptor is freed. *)
LEMMA QueueExit ==
  ASSUME TypeOK, Control, Queue, NEW t \in Threads, ex_leave(t)
  PROVE  Queue'
<1> USE SchedAssumption
<1>1. pc[t] = "ex_body" /\ cpu = t /\ UNCHANGED <<run_queue, callVars>>
  BY DEF ex_leave, Running
<1>2. current = t /\ process[t] = KernelProc
  BY <1>1, RunningIsCurrent DEF Control
<1>3. /\ current' = NULL
      /\ process' = [process EXCEPT ![t] = NULL]
      /\ pc' = [pc EXCEPT ![t] = "dead"]
  BY <1>2 DEF ex_leave, destroy_thread_struct, Goto
<1>4. \A u \in Threads : /\ Fresh(u)' <=> Fresh(u)
                         /\ Loading(u)' <=> Loading(u)
                         /\ c_new'[u] = c_new[u]
                         /\ pc'[u] # "q_link"
                         /\ Fresh(u) \/ Loading(u) => c_new[u] \in Threads \ {t}
  <2>1. \A u \in Threads : /\ Fresh(u)' <=> Fresh(u)
                           /\ Loading(u)' <=> Loading(u)
                           /\ c_new'[u] = c_new[u]
    BY <1>1, <1>3 DEF Fresh, Loading, callVars, TypeOK
  <2>2. \A u \in Threads : pc'[u] # "q_link"
    BY <1>1, <1>3 DEF Control, NoIrq, TypeOK
  <2>3. \A u \in Threads : Fresh(u) \/ Loading(u) => c_new[u] \in Threads \ {t}
    BY <1>1 DEF Control
  <2> QED
    BY <2>1, <2>2, <2>3
<1>5. \A i \in 1..Len(run_queue) : run_queue[i] \in Threads \ {t}
  BY <1>2 DEF Queue, TypeOK
<1>6. /\ \A i, j \in 1..Len(run_queue') : run_queue'[i] = run_queue'[j] => i = j
      /\ \A i \in 1..Len(run_queue') :
           run_queue'[i] # current' /\ process'[run_queue'[i]] # NULL
  BY <1>1, <1>3, <1>5 DEF Queue, TypeOK
<1>7. ASSUME NEW v \in Threads
      PROVE  /\ process'[v] # NULL => \/ v = current'
                                      \/ InSeq(run_queue', v)
                                      \/ \E u \in Threads : Fresh(u)' /\ c_new'[u] = v
             /\ Fresh(v)' => c_new'[v] # current' /\ ~InSeq(run_queue', c_new'[v])
  <2>1. process'[v] # NULL => process[v] # NULL /\ v # t
    BY <1>3 DEF TypeOK
  <2> QED
    BY <2>1, <1>1, <1>2, <1>3, <1>4 DEF Queue
<1>8. ASSUME NEW u \in Threads, Loading(u)'
      PROVE  LoadedPrecedes(u)'
  <2>1. Loading(u) /\ c_new'[u] = c_new[u] /\ c_new[u] # current
    BY <1>2, <1>4, <1>8
  <2>2. \A i \in 1..Len(run_queue) : run_queue[i] = u => i > 1 /\ run_queue[i - 1] = c_new[u]
    BY <2>1 DEF Queue, LoadedPrecedes
  <2> QED
    BY <1>1, <1>3, <2>1, <2>2 DEF LoadedPrecedes
<1>9. \A u, v \in Threads : Fresh(u)' /\ Fresh(v)' /\ c_new'[u] = c_new'[v] => u = v
  BY <1>4 DEF Queue
<1> QED
  BY <1>3, <1>4, <1>6, <1>7, <1>8, <1>9 DEF Queue

(* A new descriptor is in no list. *)
LEMMA QueueCreate ==
  ASSUME TypeOK, Control, Queue, NEW t \in Threads, ct_setup_thread(t),
         RegionsFit(c_proc[t], process[t])
  PROVE  Queue'
<1> USE SchedAssumption
<1>1. /\ pc[t] = "ct_body" /\ cpu = t
      /\ UNCHANGED <<run_queue, current, c_proc, c_ret, q_last>>
  BY DEF ct_setup_thread, Running
<1>2. PICK n \in Threads : /\ process[n] = NULL
                           /\ c_new' = [c_new EXCEPT ![t] = n]
                           /\ process' = [process EXCEPT ![n] = c_proc[t]]
                           /\ pc' = [pc EXCEPT ![t] = "ct_sched", ![n] = "run"]
  BY DEF ct_setup_thread
<1>3. c_proc[t] \in Procs /\ pc[n] = "dead" /\ n # t
  BY <1>1, <1>2 DEF Control
<1>4. n # current /\ ~InSeq(run_queue, n)
  BY <1>2 DEF Queue, InSeq
<1>5. /\ \A u \in Threads \ {t} : /\ Fresh(u)' <=> Fresh(u)
                                  /\ c_new'[u] = c_new[u]
                                  /\ Fresh(u) => c_new[u] # n
      /\ \A u \in Threads : Loading(u)' => u # t /\ Loading(u)
      /\ Fresh(t)' /\ ~Fresh(t) /\ c_new'[t] = n
  <2>1. /\ pc'[t] = "ct_sched" /\ pc'[n] = "run" /\ c_new'[t] = n
        /\ \A u \in Threads \ {t} : c_new'[u] = c_new[u] /\ (u # n => pc'[u] = pc[u])
    BY <1>2, <1>3 DEF TypeOK
  <2>2. \A u \in Threads \ {t} : Fresh(u)' <=> Fresh(u)
    BY <1>1, <1>3, <2>1 DEF Fresh
  <2>3. \A u \in Threads : Fresh(u) => c_new[u] # n
    BY <1>3 DEF Control
  <2>4. \A u \in Threads : Loading(u)' => u # t /\ Loading(u)
    BY <1>1, <1>3, <2>1 DEF Loading
  <2>5. Fresh(t)' /\ ~Fresh(t)
    BY <1>1, <2>1 DEF Fresh
  <2> QED
    BY <2>1, <2>2, <2>3, <2>4, <2>5
<1>6. \A u \in Threads : pc'[u] # "q_link"
  <2>1. \A u \in Threads : u = t \/ u = n \/ pc'[u] = pc[u]
    BY <1>2 DEF TypeOK
  <2>2. pc'[t] = "ct_sched" /\ pc'[n] = "run"
    BY <1>2, <1>3 DEF TypeOK
  <2>3. \A u \in Threads : pc[u] = "q_link" => u = t
    BY <1>1 DEF Control, NoIrq
  <2> QED
    BY <2>1, <2>2, <2>3
<1>7. /\ \A i, j \in 1..Len(run_queue') : run_queue'[i] = run_queue'[j] => i = j
      /\ \A i \in 1..Len(run_queue') :
           run_queue'[i] # current' /\ process'[run_queue'[i]] # NULL
      /\ current' # NULL => process'[current'] # NULL
  BY <1>1, <1>2, <1>3 DEF Queue, TypeOK
<1>8. ASSUME NEW v \in Threads
      PROVE  /\ process'[v] # NULL => \/ v = current'
                                      \/ InSeq(run_queue', v)
                                      \/ \E u \in Threads : Fresh(u)' /\ c_new'[u] = v
             /\ Fresh(v)' => c_new'[v] # current' /\ ~InSeq(run_queue', c_new'[v])
  <2>1. process'[v] # NULL => process[v] # NULL \/ v = n
    BY <1>2 DEF TypeOK
  <2>2. process[v] # NULL => \/ v = current
                             \/ InSeq(run_queue, v)
                             \/ \E u \in Threads \ {t} : Fresh(u) /\ c_new[u] = v
    BY <1>5 DEF Queue
  <2>3. Fresh(v) => c_new[v] # current /\ ~InSeq(run_queue, c_new[v])
    BY DEF Queue
  <2> QED
    BY <2>1, <2>2, <2>3, <1>1, <1>4, <1>5
<1>9. ASSUME NEW u \in Threads, Loading(u)'
      PROVE  LoadedPrecedes(u)'
  <2>1. LoadedPrecedes(u) /\ c_new'[u] = c_new[u]
    BY <1>5, <1>9 DEF Queue
  <2> QED
    BY <2>1, <1>1 DEF LoadedPrecedes
<1>10. \A u, v \in Threads : Fresh(u)' /\ Fresh(v)' /\ c_new'[u] = c_new'[v] => u = v
  BY <1>5 DEF Queue
<1> QED
  BY <1>6, <1>7, <1>8, <1>9, <1>10 DEF Queue

(* Every step keeps the run queue. *)
LEMMA QueueStep == TypeOK /\ Control /\ Queue /\ [Next]_vars => Queue'
<1> SUFFICES ASSUME TypeOK, Control, Queue, [Next]_vars
             PROVE  Queue'
  OBVIOUS
<1> USE SchedAssumption DEF vars, queueVars, lockVars, procVars, callVars, Fresh, Loading
<1>1. CASE UNCHANGED vars
  <2>1. FrameStep
    <3>1. UNCHANGED <<run_queue, current, process, pc, c_new, c_proc, c_ret, q_last>>
      BY <1>1
    <3>2. \A u \in Threads : pc[u] = "q_link" => q_last[u] = IF run_queue = <<>> THEN NULL
                                                             ELSE run_queue[Len(run_queue)]
      BY DEF Queue
    <3> QED
      BY <3>1, <3>2 DEF FrameStep
  <2> QED
    BY <2>1, QueueFrame
<1>2. CASE timer_irq_handler
  <2>1. halt = "no" /\ iflag /\ sched_update /\ UNCHANGED <<process, pc, callVars>>
    BY <1>2 DEF timer_irq_handler
  <2>2. \A u \in Threads : pc[u] # "q_link"
    BY <2>1 DEF Control, NoIrq
  <2> QED
    BY <2>1, <2>2, QueueSwitch
<1>3. ASSUME NEW t \in Threads, ThreadStep(t)
      PROVE  Queue'
  <2>a. /\ pc \in [Threads -> PCs] /\ c_ret \in [Threads -> {"run", "cp_done"}]
        /\ c_proc \in [Threads -> Procs \cup {NULL}]
        /\ c_new \in [Threads -> Threads \cup {NULL}]
        /\ q_last \in [Threads -> Threads \cup {NULL}]
        /\ \A u \in Threads :
             /\ pc[u] = "q_link" => cpu = u
             /\ pc[u] = "ct_rel" /\ c_ret[u] = "run" => c_proc[u] = KernelProc
             /\ pc[u] \in {"cp_done", "elf_load"} => c_proc[u] # KernelProc
    BY DEF TypeOK, Control, NoIrq, Loading
  <2>1. CASE sched_yield(t)
    <3>1. /\ halt = "no" /\ cpu = t /\ pc[t] = "run" /\ sched_update
          /\ UNCHANGED <<process, pc, callVars>>
      BY <2>1 DEF sched_yield, Calling, Running
    <3>2. \A u \in Threads : pc[u] # "q_link"
      BY <3>1 DEF Control, NoIrq
    <3> QED
      BY <3>1, <3>2, QueueSwitch
  <2>2. CASE \E bool \in BOOLEAN : sched_enable(t, bool)
    <3>1. FrameStep
      BY <2>2, <2>a DEF FrameStep, sched_enable, Calling, Running
    <3> QED
      BY <3>1, QueueFrame
  <2>3. CASE \E label \in {"gc_lock", "ct_cur", "cp_lock"} : Call(t, label)
    <3>1. FrameStep
      BY <2>3, <2>a DEF FrameStep, Call, Calling, Running, Goto
    <3> QED
      BY <3>1, QueueFrame
  <2>4. CASE Returns(t) /\ Call(t, "ex_lock")
    <3>1. FrameStep
      BY <2>4, <2>a DEF FrameStep, Call, Calling, Running, Goto
    <3> QED
      BY <3>1, QueueFrame
  <2>5. CASE sched_get_current(t)
    <3>1. FrameStep
      BY <2>5, <2>a DEF FrameStep, sched_get_current, Running, Goto
    <3> QED
      BY <3>1, QueueFrame
  <2>6. CASE ct_current_proc(t)
    <3>1. FrameStep
      BY <2>6, <2>a DEF FrameStep, ct_current_proc, Running, Goto
    <3> QED
      BY <3>1, QueueFrame
  <2>7. CASE ct_check_limit(t)
    <3>1. FrameStep
      BY <2>7, <2>a DEF FrameStep, ct_check_limit, Running, Goto
    <3> QED
      BY <3>1, QueueFrame
  <2>8. CASE ct_lock_proc(t)
    <3>1. FrameStep
      BY <2>8, <2>a DEF FrameStep, ct_lock_proc, Running, Goto, ClearIF
    <3> QED
      BY <3>1, QueueFrame
  <2>9. CASE ct_setup_thread(t)
    <3>1. CASE RegionsFit(c_proc[t], process[t])
      BY <2>9, <3>1, QueueCreate
    <3>2. CASE ~RegionsFit(c_proc[t], process[t])
      <4>1. FrameStep
        BY <2>9, <2>a, <3>2 DEF FrameStep, ct_setup_thread, Running
      <4> QED
        BY <4>1, QueueFrame
    <3> QED
      BY <3>1, <3>2
  <2>10. CASE ct_lock_sched(t)
    <3>1. FrameStep
      BY <2>10, <2>a DEF FrameStep, ct_lock_sched, Running, Goto, ClearIF
    <3> QED
      BY <3>1, QueueFrame
  <2>11. CASE ct_refresh_page_dir(t)
    <3>1. FrameStep
      BY <2>11, <2>a DEF FrameStep, ct_refresh_page_dir, Running, Goto, hal_flush_pagedir
    <3> QED
      BY <3>1, QueueFrame
  <2>12. CASE ct_unlock_sched(t)
    <3>1. FrameStep
      BY <2>12, <2>a DEF FrameStep, ct_unlock_sched, Running, Goto, RestoreIF
    <3> QED
      BY <3>1, QueueFrame
  <2>13. CASE aq_lock_and_walk(t)
    <3>1. FrameStep
      BY <2>13, <2>a DEF FrameStep, aq_lock_and_walk, Running, Goto, ClearIF
    <3> QED
      BY <3>1, QueueFrame
  <2>14. CASE aq_link_and_unlock(t)
    BY <2>14, QueueLink
  <2>15. CASE cp_lock_array(t)
    <3>1. FrameStep
      BY <2>15, <2>a DEF FrameStep, cp_lock_array, Running, Goto, ClearIF
    <3> QED
      BY <3>1, QueueFrame
  <2>16. CASE cp_add_process(t)
    <3>1. FrameStep
      BY <2>16, <2>a DEF FrameStep, cp_add_process, Running, Goto, RestoreIF
    <3> QED
      BY <3>1, QueueFrame
  <2>17. CASE elf_load_from_memory(t)
    <3>1. FrameStep
      BY <2>17, <2>a DEF FrameStep, elf_load_from_memory, Running, Goto
    <3> QED
      BY <3>1, QueueFrame
  <2>18. CASE ex_lock_sched(t)
    <3>1. FrameStep
      BY <2>18, <2>a DEF FrameStep, ex_lock_sched, Running, Goto, ClearIF
    <3> QED
      BY <3>1, QueueFrame
  <2>19. CASE ex_leave(t)
    BY <2>19, QueueExit
  <2>20. CASE spinlock_acquire_busy(t)
    <3>1. FrameStep
      BY <2>20, <2>a DEF FrameStep, spinlock_acquire_busy, LockBusy
    <3> QED
      BY <3>1, QueueFrame
  <2> QED
    BY <1>3, <2>1, <2>2, <2>3, <2>4, <2>5, <2>6, <2>7, <2>8, <2>9, <2>10, <2>11, <2>12, <2>13, <2>14, <2>15, <2>16, <2>17, <2>18, <2>19, <2>20 DEF ThreadStep, KernelStep
<1> QED
  BY <1>1, <1>2, <1>3 DEF Next


-----------------------------------------------------------------------------
(* Address spaces.                                                          *)

(* t is creating and loading a process. *)
Making(t) == InCreateProcess(t) \/ pc[t] = "elf_load"

(* A process with a thread is mapped, or its creator is still at it. *)
Mapped ==
  /\ mapped[KernelProc]
  /\ \A p \in Procs :
       \/ mapped[p]
       \/ \A t \in Threads : process[t] # p
       \/ \E u \in Threads : Making(u) /\ c_proc[u] = p

(* A step of t keeps Mapped if no process gets a thread and t, if it is     *)
(* making a process, goes on with it.                                       *)
LEMMA MappedFrame ==
  ASSUME Mapped, NEW t \in Threads,
         \A p \in Procs : mapped[p] => mapped'[p],
         \A u \in Threads : process'[u] = process[u] \/ process'[u] = NULL,
         \A u \in Threads \ {t} :
           pc'[u] = pc[u] /\ c_ret'[u] = c_ret[u] /\ c_proc'[u] = c_proc[u],
         Making(t) => \/ Making(t)' /\ c_proc'[t] = c_proc[t]
                      \/ mapped'[c_proc[t]]
  PROVE  Mapped'
<1>1. mapped'[KernelProc]
  BY SchedAssumption DEF Mapped
<1>2. ASSUME NEW u \in Threads \ {t}, Making(u) PROVE Making(u)'
  BY <1>2 DEF Making, InCreateProcess
<1>3. ASSUME NEW p \in Procs, ~mapped'[p]
      PROVE  \/ \A u \in Threads : process'[u] # p
             \/ \E u \in Threads : Making(u)' /\ c_proc'[u] = p
  <2>1. CASE \A u \in Threads : process[u] # p
    BY <2>1, SchedAssumption
  <2>2. ASSUME NEW u \in Threads, Making(u), c_proc[u] = p
        PROVE  Making(u)' /\ c_proc'[u] = p
    BY <1>2, <1>3, <2>2
  <2> QED
    BY <1>3, <2>1, <2>2 DEF Mapped
<1> QED
  BY <1>1, <1>3 DEF Mapped

(* Every step keeps Mapped. *)
LEMMA MappedStep == IInv /\ Mapped /\ [Next]_vars => Mapped'
<1> SUFFICES ASSUME IInv, Mapped, [Next]_vars PROVE Mapped'
  OBVIOUS
<1>a. TypeOK /\ Control /\ Unlisted
  BY DEF IInv
<1> USE SchedAssumption DEF vars, queueVars, lockVars, procVars, callVars
<1>1. CASE UNCHANGED <<mapped, process, pc, c_proc, c_ret>>
  BY <1>1 DEF Mapped, Making, InCreateProcess
<1>2. ASSUME NEW t \in Threads, UNCHANGED <<mapped, process, c_proc, c_ret>>,
             NEW l, pc' = [pc EXCEPT ![t] = l],
             InCreateProcess(t) => l \in {"ct_lock", "ct_body", "ct_flush", "ct_rel", "q_lock", "q_link"},
             pc[t] # "elf_load"
      PROVE  Mapped'
  <2>1. Making(t) => Making(t)'
    BY <1>a, <1>2 DEF Making, InCreateProcess, TypeOK
  <2> QED
    BY <1>a, <1>2, <2>1, MappedFrame DEF TypeOK
<1>3. ASSUME NEW t \in Threads, ct_check_limit(t)
      PROVE  Mapped'
  <2>1. InCreateProcess(t) => ~(thread_count[c_proc[t]] >= MAX_THREADS)
    BY <1>a, <1>3 DEF ct_check_limit, Running, Unlisted
  <2> QED
    BY <1>2, <1>3, <2>1 DEF ct_check_limit, Goto, Running
<1>4. ASSUME NEW t \in Threads, ct_current_proc(t)
      PROVE  Mapped'
  <2>1. ~Making(t)
    BY <1>4 DEF ct_current_proc, Running, Making, InCreateProcess
  <2> QED
    BY <1>a, <1>4, <2>1, MappedFrame DEF ct_current_proc, Goto, Running, TypeOK
<1>5. ASSUME NEW t \in Threads, ct_setup_thread(t)
      PROVE  Mapped'
  <2>1. CASE UNCHANGED <<mapped, process, pc, c_proc, c_ret>>
    BY <1>1, <2>1
  <2>2. CASE \E new \in {u \in Threads : process[u] = NULL} :
               /\ process' = [process EXCEPT ![new] = c_proc[t]]
               /\ pc' = [pc EXCEPT ![t] = "ct_sched", ![new] = "run"]
               /\ UNCHANGED <<mapped, c_proc, c_ret>>
    <3>1. PICK new \in {u \in Threads : process[u] = NULL} :
               /\ process' = [process EXCEPT ![new] = c_proc[t]]
               /\ pc' = [pc EXCEPT ![t] = "ct_sched", ![new] = "run"]
               /\ UNCHANGED <<mapped, c_proc, c_ret>>
      BY <2>2
    <3>2. pc[t] = "ct_body" /\ c_proc[t] \in Procs /\ new # t
      BY <1>a, <1>5 DEF ct_setup_thread, Running, Control
    <3>3. pc[new] = "dead"
      BY <1>a DEF Control
    <3>4. ASSUME NEW u \in Threads, Making(u) PROVE Making(u)'
      <4>1. CASE u = t
        BY <1>a, <3>1, <3>2, <3>4, <4>1 DEF Making, InCreateProcess, TypeOK
      <4>2. CASE u = new
        BY <3>3, <3>4, <4>2 DEF Making, InCreateProcess
      <4>3. CASE u \notin {t, new}
        BY <1>a, <3>1, <3>4, <4>3 DEF Making, InCreateProcess, TypeOK
      <4> QED
        BY <4>1, <4>2, <4>3
    <3>5. mapped[c_proc[t]] \/ Making(t)
      BY <1>a, <3>2 DEF Control, Making, InCreateProcess, Mapped, TypeOK
    <3>6. ASSUME NEW p \in Procs
          PROVE  \/ mapped'[p]
                 \/ \A u \in Threads : process'[u] # p
                 \/ \E u \in Threads : Making(u)' /\ c_proc'[u] = p
      <4>1. CASE p = c_proc[t]
        BY <3>1, <3>4, <3>5, <4>1
      <4>2. CASE p # c_proc[t]
        <5>1. \A u \in Threads : process'[u] = p => process[u] = p
          BY <1>a, <3>1, <4>2 DEF TypeOK
        <5> QED
          BY <3>1, <3>4, <5>1 DEF Mapped
      <4> QED
        BY <4>1, <4>2
    <3> QED
      BY <3>1, <3>6 DEF Mapped
  <2> QED
    BY <1>5, <2>1, <2>2 DEF ct_setup_thread
<1>6. ASSUME NEW t \in Threads, aq_link_and_unlock(t)
      PROVE  Mapped'
  <2>1. /\ pc[t] = "q_link" /\ pc' = [pc EXCEPT ![t] = c_ret[t]]
        /\ UNCHANGED <<mapped, process, c_ret>>
        /\ \/ c_ret[t] = "run" /\ c_proc' = [c_proc EXCEPT ![t] = NULL]
           \/ c_ret[t] # "run" /\ UNCHANGED c_proc
    BY <1>6 DEF aq_link_and_unlock, Running, Goto
  <2>2. Making(t) => Making(t)' /\ c_proc'[t] = c_proc[t]
    BY <1>a, <2>1 DEF Making, InCreateProcess, TypeOK
  <2> QED
    BY <1>a, <2>1, <2>2, MappedFrame DEF TypeOK
<1>7. ASSUME NEW t \in Threads, cp_lock_array(t)
      PROVE  Mapped'
  <2>1. ~Making(t)
    BY <1>7 DEF cp_lock_array, Running, Making, InCreateProcess
  <2>2. /\ UNCHANGED <<mapped, process>>
        /\ \A u \in Threads \ {t} : pc'[u] = pc[u] /\ c_ret'[u] = c_ret[u] /\ c_proc'[u] = c_proc[u]
    BY <1>a, <1>7 DEF cp_lock_array, Goto, TypeOK
  <2> QED
    BY <2>1, <2>2, MappedFrame
<1>8. ASSUME NEW t \in Threads, cp_add_process(t)
      PROVE  Mapped'
  <2>1. Making(t)'
    BY <1>a, <1>8 DEF cp_add_process, Goto, Making, TypeOK
  <2> QED
    BY <1>a, <1>8, <2>1, MappedFrame DEF cp_add_process, Goto, TypeOK
<1>9. ASSUME NEW t \in Threads, elf_load_from_memory(t)
      PROVE  Mapped'
  <2>1. CASE UNCHANGED <<mapped, process, pc, c_proc, c_ret>>
    BY <1>1, <2>1
  <2>2. CASE /\ mapped' = [mapped EXCEPT ![c_proc[t]] = TRUE]
             /\ c_ret' = [c_ret EXCEPT ![t] = "run"] /\ pc' = [pc EXCEPT ![t] = "q_lock"]
             /\ UNCHANGED <<process, c_proc>>
    <3>1. c_proc[t] \in Procs
      BY <1>a, <1>9 DEF elf_load_from_memory, Running, Control
    <3>2. mapped'[c_proc[t]] /\ \A p \in Procs : mapped[p] => mapped'[p]
      BY <1>a, <2>2, <3>1 DEF TypeOK
    <3>3. \A u \in Threads \ {t} : pc'[u] = pc[u] /\ c_ret'[u] = c_ret[u] /\ c_proc'[u] = c_proc[u]
      BY <1>a, <2>2 DEF TypeOK
    <3> QED
      BY <2>2, <3>2, <3>3, MappedFrame
  <2> QED
    BY <1>9, <2>1, <2>2 DEF elf_load_from_memory, Goto
<1>10. ASSUME NEW t \in Threads, ex_leave(t)
       PROVE  Mapped'
  <2>1. CASE UNCHANGED <<mapped, process, pc, c_proc, c_ret>>
    BY <1>1, <2>1
  <2>2. CASE /\ process' = [process EXCEPT ![t] = NULL] /\ pc' = [pc EXCEPT ![t] = "dead"]
             /\ UNCHANGED <<mapped, c_proc, c_ret>>
    <3>1. ~Making(t)
      BY <1>10 DEF ex_leave, Running, Making, InCreateProcess
    <3> QED
      BY <1>a, <2>2, <3>1, MappedFrame DEF TypeOK
  <2> QED
    BY <1>10, <2>1, <2>2 DEF ex_leave, Goto, destroy_thread_struct
<1>11. ASSUME NEW t \in Threads,
              \/ ct_lock_proc(t) \/ ct_lock_sched(t) \/ ct_refresh_page_dir(t)
              \/ ct_unlock_sched(t) \/ aq_lock_and_walk(t)
       PROVE  Mapped'
  BY <1>2, <1>11 DEF ct_lock_proc, ct_lock_sched, ct_refresh_page_dir, ct_unlock_sched,
     aq_lock_and_walk, Running, Goto
<1>12. ASSUME NEW t \in Threads,
              \/ sched_get_current(t) \/ ex_lock_sched(t)
              \/ \E l \in {"gc_lock", "ct_cur", "cp_lock", "ex_lock"} : Call(t, l)
       PROVE  Mapped'
  <2>1. PICK l : pc' = [pc EXCEPT ![t] = l] /\ UNCHANGED <<mapped, process, c_proc, c_ret>>
    BY <1>12 DEF sched_get_current, ex_lock_sched, Call, Goto
  <2>2. pc[t] \in {"gc_lock", "ex_lock", "run"}
    BY <1>12 DEF sched_get_current, ex_lock_sched, Call, Calling, Running
  <2> QED
    BY <1>2, <2>1, <2>2 DEF InCreateProcess
<1>13. CASE timer_irq_handler \/ UNCHANGED vars
  BY <1>1, <1>13 DEF timer_irq_handler
<1>14. ASSUME NEW t \in Threads,
              \/ sched_yield(t) \/ (\E bool \in BOOLEAN : sched_enable(t, bool))
              \/ spinlock_acquire_busy(t)
       PROVE  Mapped'
  BY <1>1, <1>14 DEF sched_yield, sched_enable, spinlock_acquire_busy
<1> QED
  BY <1>3, <1>4, <1>5, <1>6, <1>7, <1>8, <1>9, <1>10, <1>11, <1>12, <1>13, <1>14
     DEF Next, ThreadStep, KernelStep

-----------------------------------------------------------------------------
(* The theorems.                                                            *)

(* The conjunction of the six parts is inductive, so it always holds. *)
LEMMA Invariance == Spec => []IInv
<1>1. Init => IInv
  BY TypeInit, ControlInit, UnlistedInit, LocksInit, QueueInit, LimitInit DEF IInv
<1>2. IInv /\ [Next]_vars => IInv'
  <2> SUFFICES ASSUME IInv, [Next]_vars PROVE IInv'
    OBVIOUS
  <2>1. TypeOK /\ Control /\ Unlisted /\ Locks /\ Queue /\ ThreadLimit
    BY DEF IInv
  <2>2. TypeOK' /\ Control' /\ Queue'
    BY <2>1, TypeStep, ControlStep, QueueStep
  <2>3. Unlisted' /\ Locks' /\ ThreadLimit'
    BY <2>1, UnlistedStep, LocksStep, LimitStep
  <2> QED
    BY <2>2, <2>3 DEF IInv
<1> QED
  BY <1>1, <1>2, PTL DEF Spec

(* Every variable keeps its type: in particular every link of the run       *)
(* queue leads to a thread descriptor.                                      *)
THEOREM TypeCorrect == Spec => []TypeOK
<1>1. IInv => TypeOK
  BY DEF IInv
<1> QED
  BY <1>1, Invariance, PTL

(* The run queue and current describe the live threads exactly, although    *)
(* elf_load_from_memory enqueues the main thread of a process twice         *)
(* (elf.c, sched_add_thread_to_run_queue in scheduler.c): no preemption     *)
(* between the two calls can put another thread behind it.                  *)
THEOREM QueueCorrect == Spec => []NoThreadLost
<1>1. IInv => NoThreadLost
  <2> SUFFICES ASSUME TypeOK, Queue PROVE NoThreadLost
    BY DEF IInv
  <2>1. ~InSeq(run_queue, current)
    BY DEF Queue, InSeq
  <2>2. ASSUME NEW t \in Threads
        PROVE  /\ (t = current \/ InSeq(run_queue, t)) => process[t] # NULL
               /\ process[t] # NULL => t = current \/ InSeq(run_queue, t) \/ BeingCreated(t)
    <3>1. t = current => process[t] # NULL
      BY SchedAssumption DEF Queue
    <3>2. InSeq(run_queue, t) => process[t] # NULL
      BY DEF Queue, InSeq
    <3>3. process[t] # NULL => t = current \/ InSeq(run_queue, t) \/ BeingCreated(t)
      BY DEF Queue, BeingCreated, Fresh
    <3> QED
      BY <3>1, <3>2, <3>3
  <2> QED
    BY <2>1, <2>2 DEF NoThreadLost, Queue
<1> QED
  BY <1>1, Invariance, PTL

(* The thread table of a process never overflows although                   *)
(* sched_create_thread tests its limit before it locks the process.         *)
THEOREM ThreadLimitHolds == Spec => []ThreadLimit
<1>1. IInv => ThreadLimit
  BY DEF IInv
<1> QED
  BY <1>1, Invariance, PTL

(* A held spinlock keeps interrupts disabled, except in sched_create_thread *)
(* behind hal_flush_pagedir.                                                *)
THEOREM LockHolderSafe == Spec => []LockHolderNotPreempted
<1>1. IInv => LockHolderNotPreempted
  <2> SUFFICES ASSUME TypeOK, Control, Locks,
                      sched_lock \/ array_lock \/ \E p \in Procs : proc_lock[p]
               PROVE  ~iflag \/ \E t \in Threads : pc[t] = "ct_rel"
    BY DEF IInv, LockHolderNotPreempted
  <2>1. \A t \in Threads : NoIrq(t) => ~iflag
    BY DEF Control
  <2>2. CASE sched_lock
    BY <2>1, <2>2 DEF Locks, HoldsSchedLock, NoIrq
  <2>3. CASE array_lock
    BY <2>1, <2>3 DEF Locks, NoIrq
  <2>4. CASE \E p \in Procs : proc_lock[p]
    BY <2>1, <2>4 DEF Locks, NoIrq
  <2> QED
    BY <2>2, <2>3, <2>4
<1> QED
  BY <1>1, Invariance, PTL

(* A thread spins on a held spinlock, which on one CPU hangs the machine,   *)
(* only when the holder was preempted in the window that hal_flush_pagedir  *)
(* opens in sched_create_thread.                                            *)
THEOREM HangCause == Spec => []HangOnlyAfterFlush
<1>1. Init => HangOnlyAfterFlush
  BY DEF Init, HangOnlyAfterFlush
<1>2. IInv /\ HangOnlyAfterFlush /\ [Next]_vars => HangOnlyAfterFlush'
  <2> SUFFICES ASSUME IInv, HangOnlyAfterFlush, [Next]_vars, halt' = "spin"
               PROVE  sched_lock' /\ \E t \in Threads \ {cpu'} : pc'[t] = "ct_rel"
    BY DEF HangOnlyAfterFlush
  <2>1. CASE halt = "spin"
    <3>1. UNCHANGED vars
      BY <2>1 DEF Next, timer_irq_handler, ThreadStep, KernelStep, sched_yield,
         sched_enable, Call, Calling, Running, sched_get_current, ct_current_proc,
         ct_check_limit, ct_lock_proc, ct_setup_thread, ct_lock_sched,
         ct_refresh_page_dir, ct_unlock_sched, aq_lock_and_walk, aq_link_and_unlock,
         cp_lock_array, cp_add_process, elf_load_from_memory, ex_lock_sched, ex_leave,
         spinlock_acquire_busy
    <3> QED
      BY <2>1, <3>1 DEF HangOnlyAfterFlush, vars, queueVars, lockVars
  <2>2. CASE halt # "spin"
    <3>1. \A u \in Threads : ~(sched_yield(u) \/ timer_irq_handler)
      <4>1. halt = "no" /\ sched_update => halt' # "spin"
        BY SchedUpdateEffect DEF IInv
      <4> QED
        BY <4>1 DEF sched_yield, timer_irq_handler, Calling, Running
    <3>2. PICK t \in Threads : spinlock_acquire_busy(t)
      BY <2>2, <3>1, SchedAssumption DEF Next, ThreadStep, KernelStep,
         sched_enable, Call, sched_get_current, ct_current_proc, vars,
         ct_check_limit, ct_lock_proc, ct_setup_thread, ct_lock_sched,
         ct_refresh_page_dir, ct_unlock_sched, aq_lock_and_walk, aq_link_and_unlock,
         cp_lock_array, cp_add_process, elf_load_from_memory, ex_lock_sched, ex_leave
    <3>3. /\ cpu = t /\ LockBusy(t)
          /\ UNCHANGED <<cpu, pc, sched_lock>>
      BY <3>2 DEF spinlock_acquire_busy, queueVars, lockVars
    <3>4. TypeOK /\ Control /\ Locks
      BY DEF IInv
    <3>5. \A u \in Threads : NoIrq(u) => u = t
      BY <3>3, <3>4 DEF Control
    <3>6. CASE /\ pc[t] \in {"gc_lock", "ct_cur", "ct_sched", "q_lock", "ex_lock"}
               /\ sched_lock
      <4>1. PICK u \in Threads : HoldsSchedLock(u)
        BY <3>4, <3>6 DEF Locks
      <4>2. u # t /\ pc[u] = "ct_rel"
        BY <3>5, <3>6, <4>1 DEF HoldsSchedLock, NoIrq
      <4> QED
        BY <3>3, <3>6, <4>2
    <3>7. CASE pc[t] = "ct_lock" /\ proc_lock[c_proc[t]]
      <4>1. c_proc[t] \in Procs
        BY <3>4, <3>7 DEF Control
      <4>2. PICK u \in Threads : pc[u] = "ct_body"
        BY <3>4, <3>7, <4>1 DEF Locks
      <4> QED
        BY <3>5, <3>7, <4>2 DEF NoIrq
    <3>8. CASE pc[t] = "cp_lock" /\ array_lock
      <4>1. PICK u \in Threads : InCreateProcess(u)
        BY <3>4, <3>8 DEF Locks
      <4> QED
        BY <3>5, <3>8, <4>1 DEF NoIrq, InCreateProcess
    <3> QED
      BY <3>3, <3>6, <3>7, <3>8 DEF LockBusy
  <2> QED
    BY <2>1, <2>2
<1> QED
  BY <1>1, <1>2, Invariance, PTL DEF Spec

(* sched_update and sched_exit_thread never reach their panics: the two     *)
(* permanent threads keep the run queue from running empty, and a thread    *)
(* that leaves is the current one.                                          *)
THEOREM SchedulerNeverPanics == Spec => []PanicOnlyOnFullRegions
<1>1. Init => PanicOnlyOnFullRegions
  BY DEF Init, PanicOnlyOnFullRegions
<1>2. IInv /\ PanicOnlyOnFullRegions /\ [Next]_vars => PanicOnlyOnFullRegions'
  <2> SUFFICES ASSUME IInv, PanicOnlyOnFullRegions, [Next]_vars, halt' = "panic"
               PROVE  cpu' # NULL /\ pc'[cpu'] \in {"ct_body", "elf_load"}
    BY DEF PanicOnlyOnFullRegions
  <2>a. TypeOK /\ Control /\ Queue
    BY DEF IInv
  <2>1. CASE halt = "panic"
    <3>1. UNCHANGED vars
      BY <2>1 DEF Next, timer_irq_handler, ThreadStep, KernelStep, sched_yield,
         sched_enable, Call, Calling, Running, sched_get_current, ct_current_proc,
         ct_check_limit, ct_lock_proc, ct_setup_thread, ct_lock_sched,
         ct_refresh_page_dir, ct_unlock_sched, aq_lock_and_walk, aq_link_and_unlock,
         cp_lock_array, cp_add_process, elf_load_from_memory, ex_lock_sched, ex_leave,
         spinlock_acquire_busy
    <3> QED
      BY <2>1, <3>1 DEF PanicOnlyOnFullRegions, vars, queueVars
  <2>2. CASE halt # "panic"
    <3>1. run_queue # <<>> /\ Head(run_queue) # current
      <4>1. \A t \in {MainThread, IdleThread} : /\ t \in Threads /\ process[t] # NULL
                                                /\ ~\E u \in Threads : Fresh(u) /\ c_new[u] = t
        BY <2>a, SchedAssumption DEF Control, Returns
      <4>2. \A t \in {MainThread, IdleThread} : t = current \/ InSeq(run_queue, t)
        BY <2>a, <4>1 DEF Queue
      <4>3. InSeq(run_queue, MainThread) \/ InSeq(run_queue, IdleThread)
        BY <4>2, SchedAssumption
      <4>4. Len(run_queue) \in Nat \ {0}
        BY <2>a, <4>3 DEF InSeq, TypeOK
      <4>5. run_queue # <<>> /\ Head(run_queue) = run_queue[1]
        BY <2>a, <4>4 DEF TypeOK
      <4> QED
        BY <2>a, <4>4, <4>5 DEF Queue
    <3>2. halt = "no" /\ sched_update => halt' # "panic"
      BY <2>a, <3>1, SchedUpdateEffect
    <3>3. \A u \in Threads : ~(sched_yield(u) \/ timer_irq_handler)
      BY <3>2 DEF sched_yield, timer_irq_handler, Calling, Running
    <3>4. PICK t \in Threads : ct_setup_thread(t) \/ elf_load_from_memory(t) \/ ex_leave(t)
      BY <2>2, <3>3, SchedAssumption DEF Next, ThreadStep, KernelStep,
         sched_enable, Call, sched_get_current, ct_current_proc, vars,
         ct_check_limit, ct_lock_proc, ct_lock_sched, spinlock_acquire_busy,
         ct_refresh_page_dir, ct_unlock_sched, aq_lock_and_walk, aq_link_and_unlock,
         cp_lock_array, cp_add_process, ex_lock_sched
    <3>5. CASE ct_setup_thread(t)
      BY <2>2, <2>a, <3>5, SchedAssumption DEF ct_setup_thread, Running
    <3>6. CASE elf_load_from_memory(t)
      BY <2>2, <2>a, <3>6, SchedAssumption DEF elf_load_from_memory, Running, queueVars
    <3>7. CASE ex_leave(t)
      <4>1. halt = "no" /\ cpu = t /\ pc[t] = "ex_body"
        BY <3>7 DEF ex_leave, Running
      <4>2. current = t
        BY <2>a, <4>1, RunningIsCurrent
      <4> QED
        BY <2>2, <3>7, <4>1, <4>2 DEF ex_leave
    <3> QED
      BY <3>4, <3>5, <3>6, <3>7
  <2> QED
    BY <2>1, <2>2
<1> QED
  BY <1>1, <1>2, Invariance, PTL DEF Spec

(* A switch to a process without the kernel mapped faults; it has one       *)
(* cause: sched_create_process queues the first thread of a process before  *)
(* elf_load_from_memory has mapped the kernel and the image into it.        *)
THEOREM FaultCause == Spec => []FaultOnlyWhileLoading
<1>1. Init => Mapped /\ FaultOnlyWhileLoading
  <2> SUFFICES ASSUME Init PROVE Mapped /\ FaultOnlyWhileLoading
    OBVIOUS
  <2>1. \A p \in Procs : mapped[p] \/ \A t \in Threads : process[t] # p
    BY SchedAssumption DEF Init
  <2>2. mapped[KernelProc] /\ halt = "no"
    BY SchedAssumption DEF Init
  <2> QED
    BY <2>1, <2>2 DEF Mapped, FaultOnlyWhileLoading
<1>2. IInv /\ Mapped /\ FaultOnlyWhileLoading /\ [Next]_vars => FaultOnlyWhileLoading'
  <2> SUFFICES ASSUME IInv, Mapped, FaultOnlyWhileLoading, [Next]_vars, halt' = "fault"
               PROVE  FaultOnlyWhileLoading'
    BY DEF FaultOnlyWhileLoading
  <2>a. TypeOK /\ Control /\ Queue
    BY DEF IInv
  <2>1. CASE halt = "fault"
    <3>1. UNCHANGED vars
      BY <2>1 DEF Next, timer_irq_handler, ThreadStep, KernelStep, sched_yield,
         sched_enable, Call, Calling, Running, sched_get_current, ct_current_proc,
         ct_check_limit, ct_lock_proc, ct_setup_thread, ct_lock_sched,
         ct_refresh_page_dir, ct_unlock_sched, aq_lock_and_walk, aq_link_and_unlock,
         cp_lock_array, cp_add_process, elf_load_from_memory, ex_lock_sched, ex_leave,
         spinlock_acquire_busy
    <3> QED
      BY <2>1, <3>1 DEF FaultOnlyWhileLoading, vars, queueVars, procVars, callVars
  <2>2. CASE halt # "fault"
    <3>1. /\ sched_update
          /\ UNCHANGED <<process, c_proc, c_ret>>
      BY <2>2, SchedAssumption DEF Next, timer_irq_handler, ThreadStep, KernelStep, sched_yield,
         sched_enable, Call, sched_get_current, ct_current_proc, vars, procVars, callVars,
         ct_check_limit, ct_lock_proc, ct_setup_thread, ct_lock_sched,
         ct_refresh_page_dir, ct_unlock_sched, aq_lock_and_walk, aq_link_and_unlock,
         cp_lock_array, cp_add_process, elf_load_from_memory, ex_lock_sched, ex_leave,
         spinlock_acquire_busy
    <3>2. /\ run_queue # <<>> /\ ~mapped[process[Head(run_queue)]]
          /\ run_queue' = run_queue
      BY <2>2, <3>1 DEF sched_update, SwitchOutcome, queueVars
    <3>3. Len(run_queue) \in Nat \ {0} /\ Head(run_queue) = run_queue[1]
      BY <2>a, <3>2 DEF TypeOK
    <3>4. Head(run_queue) \in Threads /\ process[Head(run_queue)] \in Procs
      BY <2>a, <3>2, <3>3 DEF Queue, TypeOK
    <3>5. PICK u \in Threads : Making(u) /\ c_proc[u] = process[Head(run_queue)]
      BY <3>2, <3>4 DEF Mapped
    <3>6. c_ret[u] = "cp_done"
      BY <2>a, <3>5 DEF Making, InCreateProcess, Control
    <3> QED
      BY <3>1, <3>2, <3>5, <3>6 DEF FaultOnlyWhileLoading
  <2> QED
    BY <2>1, <2>2
<1> QED
  BY <1>1, <1>2, MappedStep, Invariance, PTL DEF Spec

(* The machine stops for the three reasons that the theorems above name.    *)
THEOREM StopCauses == Spec => []HaltCause
<1>1. HangOnlyAfterFlush /\ PanicOnlyOnFullRegions /\ FaultOnlyWhileLoading => HaltCause
  BY DEF HaltCause
<1> QED
  BY <1>1, HangCause, SchedulerNeverPanics, FaultCause, PTL

=============================================================================
