-------------------------------- MODULE Mutex --------------------------------
(***************************************************************************)
(* K_MUTEX (syncobjs.c): a recursive mutex whose fields are guarded by an  *)
(* inner spinlock.  The spinlock clears IF and there is one CPU, so each   *)
(* section under it is one step; a panic under it stops the machine.       *)
(* mutex_destroy looks at the counter in one section and returns later.    *)
(***************************************************************************)
EXTENDS Integers

CONSTANTS
  Callers,      \* the threads that use the mutex
  NOBODY,
  MaxDepth      \* bounds recursion in TLC

ASSUME MutexAssumption == NOBODY \notin Callers /\ MaxDepth \in Nat

VARIABLES
  lock_count,   \* m->lock_count
  owner,        \* m->pid, m->tid: the last thread that took the mutex
  held,         \* how often each thread has locked and not unlocked
  destroy,      \* where each thread is in mutex_destroy
  panic         \* HalKernelPanic under inner_lock

mutexVars == <<lock_count, owner, held, destroy, panic>>

mutex_create ==
  /\ lock_count = 0 /\ owner = NOBODY
  /\ held = [t \in Callers |-> 0]
  /\ destroy = [t \in Callers |-> "no"]
  /\ panic = FALSE

(* The object is out of everyone's reach once a thread destroys it: only    *)
(* threads that hold it already may still use it.                           *)
InUse(t) ==
  /\ ~panic /\ destroy[t] = "no"
  /\ held[t] > 0 \/ \A u \in Callers : destroy[u] = "no"

(* Mutant: anybody passes. *)
Pass_no_owner_test(t) == t \in Callers

Pass(t) == lock_count = 0 \/ owner = t

Owned(t) == owner = t

mutex_lock(t) ==
  /\ InUse(t) /\ lock_count < MaxDepth
  /\ IF Pass(t)
     THEN /\ owner' = IF lock_count = 0 THEN t ELSE owner
          /\ lock_count' = lock_count + 1
          /\ held' = [held EXCEPT ![t] = @ + 1]
          /\ UNCHANGED panic
     ELSE panic' = TRUE /\ UNCHANGED <<owner, lock_count, held>>
  /\ UNCHANGED destroy

(* Any thread may call it, rightly or not. *)
mutex_unlock(t) ==
  /\ InUse(t)
  /\ IF Owned(t) /\ lock_count > 0
     THEN /\ lock_count' = lock_count - 1
          /\ held' = [held EXCEPT ![t] = @ - 1]
          /\ UNCHANGED panic
     ELSE panic' = TRUE /\ UNCHANGED <<lock_count, held>>
  /\ UNCHANGED <<owner, destroy>>

(* Mutant: waits only for locks of the destroying thread itself. *)
StillHeld_by_self(t) == lock_count # 0 /\ owner = t

StillHeld(t) == lock_count # 0

(* One look at the counter: leave the loop or yield and look again. *)
md_check(t) ==
  /\ ~panic /\ destroy[t] \in {"no", "wait"}
  /\ \A u \in Callers \ {t} : destroy[u] = "no"
  /\ destroy' = [destroy EXCEPT ![t] = IF StillHeld(t) THEN "wait" ELSE "leave"]
  /\ UNCHANGED <<lock_count, owner, held, panic>>

md_return(t) ==
  /\ ~panic /\ destroy[t] = "leave"
  /\ destroy' = [destroy EXCEPT ![t] = "done"]
  /\ UNCHANGED <<lock_count, owner, held, panic>>

MutexNext == \E t \in Callers : mutex_lock(t) \/ mutex_unlock(t) \/ md_check(t) \/ md_return(t)

MutexSpec == mutex_create /\ [][MutexNext]_mutexVars

-----------------------------------------------------------------------------
(* mutex_unlock takes nothing off a depth of 0: no counter goes negative. *)
MutexTypeOK ==
  /\ lock_count \in Nat /\ owner \in Callers \cup {NOBODY}
  /\ held \in [Callers -> Nat]
  /\ destroy \in [Callers -> {"no", "wait", "leave", "done"}]
  /\ panic \in BOOLEAN

(* The counter is the recursion depth of the owner and nobody else is       *)
(* inside, whatever sequence of mutex_lock and mutex_unlock calls, matching *)
(* or not, has been made.                                                   *)
MutualExclusion ==
  \A t \in Callers : held[t] = IF owner = t THEN lock_count ELSE 0

(* When mutex_destroy returns nobody is inside and nobody gets in again, so *)
(* its caller may free the storage.                                         *)
DestroyedIsFree ==
  \A t \in Callers : destroy[t] = "done" => \A u \in Callers : held[u] = 0

(* The retry loop of mutex_lock: a thread that finds the mutex locked by    *)
(* another thread waits, it does not stop the machine.                      *)
ContentionWaits ==
  [][\A t \in Callers : mutex_lock(t) => ~panic']_mutexVars
=============================================================================
