------------------------------ MODULE Scheduler ------------------------------
(***************************************************************************)
(* The thread scheduler of the kernel (scheduler.c) on its single CPU,     *)
(* with the spinlocks (syncobjs.c) and the interrupt flag that its         *)
(* atomicity rests on, the tail of the assembly routine hal_flush_pagedir  *)
(* (hal.asm), and the part of the ELF loader (elf.c) that enqueues the     *)
(* main thread of a new process.                                           *)
(*                                                                         *)
(* A thread runs until it yields or the timer interrupt preempts it, and   *)
(* the timer interrupt is taken only while the interrupt flag is set.  A   *)
(* critical section is therefore several steps of its thread here: that    *)
(* nothing else happens between them is a consequence of spinlock_acquire  *)
(* clearing the flag, not an assumption.                                   *)
(*                                                                         *)
(* A thread spinning on a held spinlock has interrupts disabled, so on one *)
(* CPU it spins forever: that state, a panic (hlt with interrupts off) and *)
(* a fault in an address space without the kernel are final (halt).        *)
(***************************************************************************)
EXTENDS Integers, Sequences

CONSTANTS
  Threads,          \* addresses of K_THREAD descriptors
  Procs,            \* addresses of K_PROCESS descriptors
  KernelProc,       \* kernel_proc, the only process in kernel mode
  MainThread,       \* runs kernel_main_thread, which never returns
  IdleThread,       \* runs kernel_idle_task, which never returns
  NULL,
  MAX_THREADS,      \* scheduler.h
  MAX_PROCESSES,    \* scheduler.h
  MAX_VM_REGIONS,   \* scheduler.h
  ELF_REGIONS       \* regions the ELF loader maps: the kernel and the segments

ASSUME SchedAssumption ==
  /\ KernelProc \in Procs
  /\ MainThread \in Threads /\ IdleThread \in Threads
  /\ MainThread # IdleThread
  /\ NULL \notin Threads /\ NULL \notin Procs
  /\ MAX_THREADS \in Nat /\ MAX_PROCESSES \in Nat
  /\ MAX_VM_REGIONS \in Nat /\ ELF_REGIONS \in Nat
  /\ MAX_THREADS >= 2 /\ MAX_PROCESSES >= 1 /\ MAX_VM_REGIONS >= 3
  /\ MAX_VM_REGIONS <= MAX_THREADS          \* scheduler.h gives both the value 32
  /\ ELF_REGIONS + 2 <= MAX_VM_REGIONS

VARIABLES
  run_queue,      \* sched_state.run_queue, head first
  current,        \* sched_state.current
  cpu,            \* the thread whose code the CPU executes, NULL during boot
  iflag,          \* the IF bit of EFLAGS on the CPU
  eflags,         \* the IF bit each suspended thread gets back from IRET
  sched_lock,     \* sched_state.lock
  array_lock,     \* process_array_lock
  proc_lock,      \* K_PROCESS.lock of each process
  halt,           \* "no", or why the machine makes no further step
  sched_enabled,
  process,        \* K_THREAD.process; NULL: no descriptor at this address
  thread_count,   \* K_PROCESS.thread_count
  region_count,   \* K_PROCESS.region_count
  mapped,         \* the image and the kernel are mapped in the process
  process_array,
  pc,             \* where each thread is
  c_proc, c_new,  \* proc and t of the sched_create_thread in progress
  c_if, p_if,     \* the IF state that the inner/outer release restores
  c_ret,          \* where sched_create_thread/add_thread_to_run_queue return
  q_last          \* last, in sched_add_thread_to_run_queue

queueVars == <<run_queue, current, cpu, eflags>>
lockVars  == <<sched_lock, array_lock, proc_lock>>
procVars  == <<process, thread_count, region_count, mapped, process_array>>
callVars  == <<c_proc, c_new, c_if, p_if, c_ret, q_last>>
vars == <<queueVars, iflag, lockVars, halt, sched_enabled, procVars, pc, callVars>>

PCs == {"run",                                        \* the thread's own code
        "gc_lock",                                    \* sched_get_current_*
        "ct_cur", "ct_check", "ct_lock", "ct_body",   \* sched_create_thread
        "ct_sched", "ct_flush", "ct_rel",
        "q_lock", "q_link",                           \* ..add_thread_to_run_queue
        "cp_lock", "cp_done",                         \* sched_create_process
        "elf_load",                                   \* elf_load_from_memory
        "ex_lock", "ex_body", "dead"}                 \* sched_exit_thread

-----------------------------------------------------------------------------
(* The boot CPU context spins at the end of sched_initialize: the kernel    *)
(* process exists with its image region and the stacks of two threads.      *)
Init ==
  /\ run_queue = <<MainThread, IdleThread>>
  /\ current = NULL /\ cpu = NULL
  /\ iflag = TRUE
  /\ eflags = [t \in Threads |-> TRUE]
  /\ sched_lock = FALSE /\ array_lock = FALSE
  /\ proc_lock = [p \in Procs |-> FALSE]
  /\ halt = "no"
  /\ sched_enabled = TRUE
  /\ process = [t \in Threads |->
                  IF t \in {MainThread, IdleThread} THEN KernelProc ELSE NULL]
  /\ thread_count = [p \in Procs |-> IF p = KernelProc THEN 2 ELSE 0]
  /\ region_count = [p \in Procs |-> IF p = KernelProc THEN 3 ELSE 0]
  /\ mapped = [p \in Procs |-> p = KernelProc]
  /\ process_array = <<KernelProc>>
  /\ pc = [t \in Threads |-> IF t \in {MainThread, IdleThread} THEN "run" ELSE "dead"]
  /\ c_proc = [t \in Threads |-> NULL] /\ c_new = [t \in Threads |-> NULL]
  /\ c_if = [t \in Threads |-> FALSE] /\ p_if = [t \in Threads |-> FALSE]
  /\ c_ret = [t \in Threads |-> "run"]
  /\ q_last = [t \in Threads |-> NULL]

Running(t, label) == halt = "no" /\ cpu = t /\ pc[t] = label

(* The running thread is about to call the scheduler from its own code.     *)
(* Kernel threads other than kernel_idle_task do: no system call reaches    *)
(* these operations from a user process.                                    *)
Calling(t) == Running(t, "run") /\ process[t] = KernelProc /\ t # IdleThread

Goto(t, label) == pc' = [pc EXCEPT ![t] = label]

-----------------------------------------------------------------------------
(* Context switch.                                                          *)

(* What becomes of the machine when sched_update switches to the head of   *)
(* the run queue: both panics are raised with interrupts off, and loading  *)
(* cr3 of a process without the kernel mapped faults on the next fetch.    *)
SwitchOutcome ==
  IF run_queue = <<>> THEN "panic"
  ELSE IF Head(run_queue) = current THEN "panic"
  ELSE IF ~mapped[process[Head(run_queue)]] THEN "fault"
  ELSE "no"

sched_switch_to_thread(t) ==
  /\ current' = t /\ cpu' = t
  /\ iflag' = eflags[t]

(* Mutants of sched_update: current is saved without the test for NULL; the *)
(* thread to run next is taken from the tail; current is not queued again.  *)
sched_update_no_null_test ==
  /\ halt' = SwitchOutcome
  /\ run_queue' = Tail(Append(run_queue, current))
  /\ sched_switch_to_thread(Head(run_queue))
  /\ UNCHANGED eflags

sched_update_from_tail ==
  /\ halt' = SwitchOutcome
  /\ IF current = NULL THEN run_queue' = Tail(run_queue)
     ELSE run_queue' = <<current>> \o Tail(run_queue)
  /\ sched_switch_to_thread(Head(run_queue))
  /\ UNCHANGED eflags

sched_update_drops_current ==
  /\ run_queue # <<>>
  /\ halt' = SwitchOutcome
  /\ run_queue' = Tail(run_queue)
  /\ sched_switch_to_thread(Head(run_queue))
  /\ UNCHANGED eflags

sched_update ==
  \/ /\ ~sched_enabled
     /\ UNCHANGED <<queueVars, iflag, halt>>
  \/ /\ sched_enabled
     /\ halt' = SwitchOutcome
     /\ IF SwitchOutcome # "no"
        THEN UNCHANGED <<queueVars, iflag>>
        ELSE /\ IF current = NULL
                THEN /\ run_queue' = Tail(run_queue)
                     /\ UNCHANGED eflags
                ELSE /\ run_queue' = Tail(Append(run_queue, current))
                     /\ eflags' = [eflags EXCEPT ![current] = iflag]
             /\ sched_switch_to_thread(Head(run_queue))

(* IRQ0: taken between two instructions whenever interrupts are enabled. *)
timer_irq_handler ==
  /\ halt = "no" /\ iflag
  /\ sched_update
  /\ UNCHANGED <<lockVars, sched_enabled, procVars, pc, callVars>>

(* int 0x81 from a thread's own code. *)
sched_yield(t) ==
  /\ Calling(t)
  /\ sched_update
  /\ UNCHANGED <<lockVars, sched_enabled, procVars, pc, callVars>>

sched_enable(t, bool) ==
  /\ Calling(t)
  /\ sched_enabled' = bool
  /\ UNCHANGED <<queueVars, iflag, lockVars, halt, procVars, pc, callVars>>

-----------------------------------------------------------------------------
(* Spinlocks.  spinlock_acquire saves IF, clears it and takes the lock; if  *)
(* the lock is held it never returns (Spin below).                          *)

(* Mutant: the lock is always released with sti. *)
RestoreIF_always_sti(if_state) == iflag' = (if_state \in BOOLEAN)

ClearIF == iflag' = FALSE

RestoreIF(if_state) == iflag' = (iflag \/ if_state)

(* The lock that the thread is about to acquire is held. *)
LockBusy(t) ==
  CASE pc[t] \in {"gc_lock", "ct_cur", "ct_sched", "q_lock", "ex_lock"} -> sched_lock
    [] pc[t] = "ct_lock" -> proc_lock[c_proc[t]]
    [] pc[t] = "cp_lock" -> array_lock
    [] OTHER -> FALSE

spinlock_acquire_busy(t) ==
  /\ halt = "no" /\ cpu = t
  /\ LockBusy(t)
  /\ halt' = "spin"
  /\ ClearIF
  /\ UNCHANGED <<queueVars, lockVars, sched_enabled, procVars, pc, callVars>>

(* A call of one of the operations below. *)
Call(t, label) ==
  /\ Calling(t)
  /\ Goto(t, label)
  /\ UNCHANGED <<queueVars, iflag, lockVars, halt, sched_enabled, procVars, callVars>>

(* sched_get_current_proc/pid/tid: a read under sched_state.lock. *)
sched_get_current(t) ==
  /\ Running(t, "gc_lock") /\ ~LockBusy(t)
  /\ Goto(t, "run")
  /\ UNCHANGED <<queueVars, iflag, lockVars, halt, sched_enabled, procVars, callVars>>

-----------------------------------------------------------------------------
(* sched_create_thread.                                                     *)

(* proc = NULL: the new thread joins the caller's process. *)
ct_current_proc(t) ==
  /\ Running(t, "ct_cur") /\ ~LockBusy(t)
  /\ c_proc' = [c_proc EXCEPT ![t] = process[current]]
  /\ c_ret' = [c_ret EXCEPT ![t] = "run"]
  /\ Goto(t, "ct_check")
  /\ UNCHANGED <<queueVars, iflag, lockVars, halt, sched_enabled, procVars,
                 c_new, c_if, p_if, q_last>>

(* The thread limit is tested before the process is locked. *)
ct_check_limit(t) ==
  /\ Running(t, "ct_check")
  /\ Goto(t, IF thread_count[c_proc[t]] >= MAX_THREADS THEN "run" ELSE "ct_lock")
  /\ UNCHANGED <<queueVars, iflag, lockVars, halt, sched_enabled, procVars, callVars>>

ct_lock_proc(t) ==
  /\ Running(t, "ct_lock") /\ ~LockBusy(t)
  /\ c_if' = [c_if EXCEPT ![t] = iflag]
  /\ ClearIF
  /\ proc_lock' = [proc_lock EXCEPT ![c_proc[t]] = TRUE]
  /\ Goto(t, "ct_body")
  /\ UNCHANGED <<queueVars, sched_lock, array_lock, halt, sched_enabled, procVars,
                 c_proc, c_new, p_if, c_ret, q_last>>

(* Regions that stay mapped for the stacks of a thread of process p. *)
StackRegions(p) == IF p = KernelProc THEN 1 ELSE 2

(* Mutant: the region limit is exceeded by one. *)
RegionsFit_off_by_one(p, creator) ==
  /\ region_count[p] + StackRegions(p) <= MAX_VM_REGIONS + 1
  /\ region_count[creator] <= MAX_VM_REGIONS

(* vmm_map_region panics on a full region table.  The stacks go to p, and  *)
(* the new kernel stack is filled in through a temporary region of the     *)
(* creator's process.                                                      *)
RegionsFit(p, creator) ==
  /\ region_count[p] + StackRegions(p) <= MAX_VM_REGIONS
  /\ (IF creator = p THEN region_count[p] + StackRegions(p) ELSE region_count[creator])
       < MAX_VM_REGIONS

(* Fill in the descriptor, map the stacks, count the thread, unlock. *)
ct_setup_thread(t) ==
  /\ Running(t, "ct_body")
  /\ LET p == c_proc[t] IN
     IF ~RegionsFit(p, process[t])
     THEN /\ halt' = "panic"
          /\ UNCHANGED <<iflag, eflags, proc_lock, procVars, pc, c_new>>
     ELSE /\ \E new \in {u \in Threads : process[u] = NULL} :
               /\ c_new' = [c_new EXCEPT ![t] = new]
               /\ process' = [process EXCEPT ![new] = p]
               /\ eflags' = [eflags EXCEPT ![new] = TRUE]
               /\ pc' = [pc EXCEPT ![t] = "ct_sched", ![new] = "run"]
          /\ thread_count' = [thread_count EXCEPT ![p] = @ + 1]
          /\ region_count' = [region_count EXCEPT ![p] = @ + StackRegions(p)]
          /\ proc_lock' = [proc_lock EXCEPT ![p] = FALSE]
          /\ RestoreIF(c_if[t])
          /\ UNCHANGED <<halt, mapped, process_array>>
  /\ UNCHANGED <<run_queue, current, cpu, sched_lock, array_lock, sched_enabled,
                 c_proc, c_if, p_if, c_ret, q_last>>

ct_lock_sched(t) ==
  /\ Running(t, "ct_sched") /\ ~LockBusy(t)
  /\ c_if' = [c_if EXCEPT ![t] = iflag]
  /\ ClearIF
  /\ sched_lock' = TRUE
  /\ Goto(t, "ct_flush")
  /\ UNCHANGED <<queueVars, array_lock, proc_lock, halt, sched_enabled, procVars,
                 c_proc, c_new, p_if, c_ret, q_last>>

(* hal_flush_pagedir ends with sti, whatever IF was. *)
hal_flush_pagedir == iflag' = TRUE

ct_refresh_page_dir(t) ==
  /\ Running(t, "ct_flush")
  /\ IF current # NULL /\ process[current] = c_proc[t]
     THEN hal_flush_pagedir
     ELSE UNCHANGED iflag
  /\ Goto(t, "ct_rel")
  /\ UNCHANGED <<queueVars, lockVars, halt, sched_enabled, procVars, callVars>>

(* Mutant: the early path forgets to release sched_state.lock. *)
ct_unlock_sched_forgotten(t) ==
  /\ Running(t, "ct_rel")
  /\ Goto(t, "q_lock")
  /\ UNCHANGED <<queueVars, iflag, lockVars, halt, sched_enabled, procVars, callVars>>

ct_unlock_sched(t) ==
  /\ Running(t, "ct_rel")
  /\ sched_lock' = FALSE
  /\ RestoreIF(c_if[t])
  /\ Goto(t, "q_lock")
  /\ UNCHANGED <<queueVars, array_lock, proc_lock, halt, sched_enabled, procVars, callVars>>

-----------------------------------------------------------------------------
(* sched_add_thread_to_run_queue: lock and walk to the last thread, then    *)
(* link the new one behind it and unlock.                                   *)

InSeq(q, t) == \E i \in 1..Len(q) : q[i] = t

Position(q, t) == CHOOSE i \in 1..Len(q) : q[i] = t

(* Mutant: the new thread is put in front of the queue. *)
LinkAfter_front(q, last, t) == IF last = NULL THEN <<t>> ELSE <<t>> \o q

(* last->next = t; t->next = NULL.  Linking a thread that is in the list    *)
(* already cuts off what follows it; linking behind a thread that has left  *)
(* the list does not change the list.                                       *)
LinkAfter(q, last, t) ==
  IF last = NULL THEN <<t>>
  ELSE IF InSeq(q, t) THEN SubSeq(q, 1, Position(q, t))
  ELSE IF InSeq(q, last) THEN Append(SubSeq(q, 1, Position(q, last)), t)
  ELSE q

aq_lock_and_walk(t) ==
  /\ Running(t, "q_lock") /\ ~LockBusy(t)
  /\ c_if' = [c_if EXCEPT ![t] = iflag]
  /\ ClearIF
  /\ sched_lock' = TRUE
  /\ q_last' = [q_last EXCEPT ![t] = IF run_queue = <<>> THEN NULL
                                     ELSE run_queue[Len(run_queue)]]
  /\ Goto(t, "q_link")
  /\ UNCHANGED <<queueVars, array_lock, proc_lock, halt, sched_enabled, procVars,
                 c_proc, c_new, p_if, c_ret>>

aq_link_and_unlock(t) ==
  /\ Running(t, "q_link")
  /\ run_queue' = LinkAfter(run_queue, q_last[t], c_new[t])
  /\ sched_lock' = FALSE
  /\ RestoreIF(c_if[t])
  /\ Goto(t, c_ret[t])
  /\ q_last' = [q_last EXCEPT ![t] = NULL]              \* out of scope
  /\ c_if' = [c_if EXCEPT ![t] = FALSE]
  /\ IF c_ret[t] = "run"
     THEN /\ c_proc' = [c_proc EXCEPT ![t] = NULL]
          /\ c_new' = [c_new EXCEPT ![t] = NULL]
     ELSE UNCHANGED <<c_proc, c_new>>
  /\ UNCHANGED <<current, cpu, eflags, array_lock, proc_lock, halt, sched_enabled,
                 procVars, p_if, c_ret>>

-----------------------------------------------------------------------------
(* sched_create_process and the end of elf_load_from_memory, which calls it.*)

cp_lock_array(t) ==
  /\ Running(t, "cp_lock") /\ ~LockBusy(t)
  /\ IF Len(process_array) >= MAX_PROCESSES
     THEN /\ Goto(t, "run")
          /\ UNCHANGED <<iflag, array_lock, callVars>>
     ELSE \E p \in {r \in Procs : ~InSeq(process_array, r)} :
          /\ p_if' = [p_if EXCEPT ![t] = iflag]
          /\ ClearIF
          /\ array_lock' = TRUE
          /\ c_proc' = [c_proc EXCEPT ![t] = p]
          /\ c_ret' = [c_ret EXCEPT ![t] = "cp_done"]
          /\ Goto(t, "ct_check")
          /\ UNCHANGED <<c_new, c_if, q_last>>
  /\ UNCHANGED <<queueVars, sched_lock, proc_lock, halt, sched_enabled, procVars>>

cp_add_process(t) ==
  /\ Running(t, "cp_done")
  /\ process_array' = Append(process_array, c_proc[t])
  /\ array_lock' = FALSE
  /\ RestoreIF(p_if[t])
  /\ Goto(t, "elf_load")
  /\ UNCHANGED <<queueVars, sched_lock, proc_lock, halt, sched_enabled, process,
                 thread_count, region_count, mapped, callVars>>

(* Map the kernel and the segments into the new process, each segment       *)
(* copied through a temporary region of the loader's process, and enqueue   *)
(* threads[0] of the process - which sched_create_thread has done already.  *)
elf_load_from_memory(t) ==
  /\ Running(t, "elf_load")
  /\ IF \/ region_count[process[t]] >= MAX_VM_REGIONS
        \/ region_count[c_proc[t]] + ELF_REGIONS > MAX_VM_REGIONS
     THEN halt' = "panic" /\ UNCHANGED <<procVars, pc, c_ret>>
     ELSE /\ mapped' = [mapped EXCEPT ![c_proc[t]] = TRUE]
          /\ region_count' = [region_count EXCEPT ![c_proc[t]] = @ + ELF_REGIONS]
          /\ c_ret' = [c_ret EXCEPT ![t] = "run"]
          /\ Goto(t, "q_lock")
          /\ UNCHANGED <<halt, process, thread_count, process_array>>
  /\ UNCHANGED <<queueVars, iflag, lockVars, sched_enabled, c_proc, c_new, c_if,
                 p_if, q_last>>

-----------------------------------------------------------------------------
(* sched_exit_thread: entered when a kernel thread's procedure returns.     *)

Returns(t) == t \notin {MainThread, IdleThread}

ex_lock_sched(t) ==
  /\ Running(t, "ex_lock") /\ ~LockBusy(t)
  /\ c_if' = [c_if EXCEPT ![t] = iflag]
  /\ ClearIF
  /\ sched_lock' = TRUE
  /\ Goto(t, "ex_body")
  /\ UNCHANGED <<queueVars, array_lock, proc_lock, halt, sched_enabled, procVars,
                 c_proc, c_new, p_if, c_ret, q_last>>

(* The descriptor is freed, the kernel stack stays mapped; the CPU keeps    *)
(* executing the dead thread's loop until the next timer interrupt.         *)
destroy_thread_struct(t) ==
  /\ process' = [process EXCEPT ![t] = NULL]
  /\ thread_count' = [thread_count EXCEPT ![process[t]] = @ - 1]
  /\ UNCHANGED <<region_count, mapped, process_array>>

ex_leave(t) ==
  /\ Running(t, "ex_body")
  /\ IF current # t
     THEN halt' = "panic" /\ UNCHANGED <<current, iflag, sched_lock, procVars, pc>>
     ELSE /\ current' = NULL
          /\ destroy_thread_struct(t)
          /\ sched_lock' = FALSE
          /\ RestoreIF(c_if[t])
          /\ Goto(t, "dead")
          /\ UNCHANGED halt
  /\ UNCHANGED <<run_queue, cpu, eflags, array_lock, proc_lock, sched_enabled, callVars>>

-----------------------------------------------------------------------------
(* One instruction stretch of the running thread inside the kernel. *)
KernelStep(t) ==
  \/ sched_get_current(t)
  \/ ct_current_proc(t)
  \/ ct_check_limit(t)
  \/ ct_lock_proc(t)
  \/ ct_setup_thread(t)
  \/ ct_lock_sched(t)
  \/ ct_refresh_page_dir(t)
  \/ ct_unlock_sched(t)
  \/ aq_lock_and_walk(t)
  \/ aq_link_and_unlock(t)
  \/ cp_lock_array(t)
  \/ cp_add_process(t)
  \/ elf_load_from_memory(t)
  \/ ex_lock_sched(t)
  \/ ex_leave(t)
  \/ spinlock_acquire_busy(t)

ThreadStep(t) ==
  \/ sched_yield(t)
  \/ \E bool \in BOOLEAN : sched_enable(t, bool)
  \/ Call(t, "gc_lock")
  \/ Call(t, "ct_cur")
  \/ Call(t, "cp_lock")
  \/ Returns(t) /\ Call(t, "ex_lock")
  \/ KernelStep(t)

Next ==
  \/ timer_irq_handler
  \/ \E t \in Threads : ThreadStep(t)

Spec == Init /\ [][Next]_vars

(* The timer keeps interrupting, and its period is long enough for a thread *)
(* that gets the CPU again and again to get through the kernel code it is   *)
(* in.                                                                      *)
Fairness ==
  /\ WF_vars(timer_irq_handler)
  /\ \A t \in Threads : SF_vars(KernelStep(t))

FairSpec == Spec /\ Fairness

-----------------------------------------------------------------------------
(* Properties.                                                              *)

(* Every pointer of the scheduler leads to a descriptor or is NULL, and a   *)
(* thread is only ever at a place in the code that exists.                  *)
TypeOK ==
  /\ run_queue \in Seq(Threads)
  /\ current \in Threads \cup {NULL} /\ cpu \in Threads \cup {NULL}
  /\ iflag \in BOOLEAN /\ eflags \in [Threads -> BOOLEAN]
  /\ sched_lock \in BOOLEAN /\ array_lock \in BOOLEAN
  /\ proc_lock \in [Procs -> BOOLEAN]
  /\ halt \in {"no", "panic", "fault", "spin"}
  /\ sched_enabled \in BOOLEAN
  /\ process \in [Threads -> Procs \cup {NULL}]
  /\ thread_count \in [Procs -> Int] /\ region_count \in [Procs -> Nat]
  /\ mapped \in [Procs -> BOOLEAN]
  /\ process_array \in Seq(Procs)
  /\ pc \in [Threads -> PCs]
  /\ c_proc \in [Threads -> Procs \cup {NULL}]
  /\ c_new \in [Threads -> Threads \cup {NULL}]
  /\ c_if \in [Threads -> BOOLEAN] /\ p_if \in [Threads -> BOOLEAN]
  /\ c_ret \in [Threads -> {"run", "cp_done"}]
  /\ q_last \in [Threads -> Threads \cup {NULL}]

(* sched_create_thread of u has made t but not enqueued it yet. *)
BeingCreated(t) ==
  \E u \in Threads : /\ pc[u] \in {"ct_sched", "ct_flush", "ct_rel", "q_lock", "q_link"}
                     /\ c_new[u] = t

(* The run queue and current describe the threads of the machine exactly:   *)
(* no thread is queued twice, the current one is not queued, only live      *)
(* descriptors are reachable, and every live thread whose creation is       *)
(* complete is current or queued - although elf_load_from_memory enqueues   *)
(* the main thread of a process a second time.                              *)
NoThreadLost ==
  /\ \A i, j \in 1..Len(run_queue) : run_queue[i] = run_queue[j] => i = j
  /\ ~InSeq(run_queue, current)
  /\ \A t \in Threads :
       /\ (t = current \/ InSeq(run_queue, t)) => process[t] # NULL
       /\ process[t] # NULL => t = current \/ InSeq(run_queue, t) \/ BeingCreated(t)

(* The spinlock hang has one cause: a thread preempted in                   *)
(* sched_create_thread after hal_flush_pagedir has set IF again, with       *)
(* sched_state.lock held.                                                   *)
HangOnlyAfterFlush ==
  halt = "spin" => sched_lock /\ \E t \in Threads \ {cpu} : pc[t] = "ct_rel"

(* Apart from that one window, a held spinlock keeps interrupts disabled    *)
(* and its holder on the CPU.                                               *)
LockHolderNotPreempted ==
  (sched_lock \/ array_lock \/ \E p \in Procs : proc_lock[p])
    => ~iflag \/ \E t \in Threads : pc[t] = "ct_rel"

(* The thread table never overflows although its limit is tested outside    *)
(* the lock: the region table, which keeps the stacks of dead threads, is   *)
(* full first.                                                              *)
ThreadLimit ==
  \A p \in Procs : /\ thread_count[p] <= region_count[p]
                   /\ region_count[p] <= MAX_VM_REGIONS
                   /\ thread_count[p] <= MAX_THREADS

(* A timer interrupt always finds a thread to switch to: sched_update and   *)
(* sched_exit_thread never reach their panics, only mapping into a full     *)
(* region table panics.                                                     *)
PanicOnlyOnFullRegions ==
  halt = "panic" => cpu # NULL /\ pc[cpu] \in {"ct_body", "elf_load"}

(* A switch to a process without the kernel mapped, which faults, has one   *)
(* cause: the process's first thread is queued by sched_create_process and  *)
(* runs before elf_load_from_memory has mapped kernel and image.            *)
FaultOnlyWhileLoading ==
  halt = "fault" => \E t \in Threads : /\ c_proc[t] = process[Head(run_queue)]
                                       /\ c_ret[t] = "cp_done"

(* The machine stops for these three reasons and no other. *)
HaltCause == HangOnlyAfterFlush /\ PanicOnlyOnFullRegions /\ FaultOnlyWhileLoading

(* Round robin: a queued thread gets the CPU, unless the machine stops or   *)
(* scheduling is switched off.                                              *)
EveryThreadRuns ==
  \A t \in Threads :
    InSeq(run_queue, t) ~> (current = t \/ halt # "no" \/ ~sched_enabled)

(* A call into the scheduler returns, unless the machine stops or           *)
(* scheduling is switched off.                                              *)
CallsReturn ==
  \A t \in Threads :
    pc[t] # "run" ~> (pc[t] \in {"run", "dead"} \/ halt # "no" \/ ~sched_enabled)
=============================================================================
