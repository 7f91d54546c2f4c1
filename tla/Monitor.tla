-------------------------------- MODULE Monitor --------------------------------
(***************************************************************************)
(* sync.rs, one Monitor and the threads that use it, with or without a     *)
(* handshake.  The raw mutex, the holder id and the recursion count are    *)
(* three separate words, touched in separate steps.  Threads is the set of *)
(* thread ids, NoHolder is u64::MAX and RecLimit is the number of values   *)
(* of the usize counter, which wraps.                                      *)
(*                                                                         *)
(* Whether a thread that asks to leave the parked state may, is up to the  *)
(* collector (module Handshake); here it is either.                        *)
(*                                                                         *)
(* DropClearsHolder is FALSE for the code as it is: MonitorGuard::drop     *)
(* releases the mutex and leaves its thread's id in holder (sync.rs:226).  *)
(* TRUE is the same code with the one store the recursive mutex of the     *)
(* type's documentation needs; every other step is the same in both.       *)
(* UnlockForgets is FALSE for the code as it is: unlock_completely drops   *)
(* the guard it was given when it has unlocked (sync.rs:61-62).  TRUE is   *)
(* the code that forgets it.                                               *)
(* ScopePanicDepth is MaxDepth for the code as it is: wait_with_handshake   *)
(* may fail the assertion that ends its parked_scope (threads.rs:918) in a *)
(* thread with any number of guards, when it has given all of them up.     *)
(* With 1 it may fail in a thread that has no other guard; with 0 never.   *)
(***************************************************************************)
EXTENDS Integers

CONSTANTS
  Threads,
  NoHolder,
  MaxDepth,          (* bound on the guards one thread nests *)
  RecLimit,
  DropClearsHolder,
  UnlockForgets,
  ScopePanicDepth

ASSUME MonitorAssumption ==
  /\ NoHolder \notin Threads
  /\ MaxDepth \in Nat \ {0}
  /\ RecLimit \in Nat
  /\ RecLimit > MaxDepth
  /\ DropClearsHolder \in BOOLEAN
  /\ UnlockForgets \in BOOLEAN
  /\ ScopePanicDepth \in 0..MaxDepth

VARIABLES
  raw,        (* parking_lot's raw mutex is locked; it has no owner        *)
  holder,     (* Monitor::holder                                           *)
  rec,        (* Monitor::rec_count                                        *)
  waiters,    (* threads queued in Monitor::cvar                           *)
  pc,         (* where a thread is inside an operation; "idle" outside     *)
  guards,     (* MonitorGuards the thread's frames keep alive              *)
  saved,      (* the local rec_count of wait_no_handshake, or the          *)
              (* RecCount of unlock_completely                             *)
  handshake   (* threads in wait_with_handshake                            *)

vars == <<raw, holder, rec, waiters, pc, guards, saved, handshake>>

Plus1(n)  == IF n = RecLimit - 1 THEN 0 ELSE n + 1
Minus1(n) == IF n = 0 THEN RecLimit - 1 ELSE n - 1

At(t, from, to) ==
  /\ pc[t] = from
  /\ pc' = [pc EXCEPT ![t] = to]

Init ==
  /\ raw = FALSE
  /\ holder = NoHolder
  /\ rec = 0
  /\ waiters = {}
  /\ pc = [t \in Threads |-> "idle"]
  /\ guards = [t \in Threads |-> 0]
  /\ saved = [t \in Threads |-> 0]
  /\ handshake = {}

-------------------------------------------------------------------------------
(* lock_no_handshake *)

(* holder is loaded without the mutex, and alone decides the branch. *)
LockCall(t) ==
  /\ guards[t] < MaxDepth
  /\ At(t, "idle", IF holder = t THEN "lock_rec" ELSE "lock_raw")
  /\ UNCHANGED <<raw, holder, rec, waiters, guards, saved, handshake>>

LockRaw(t) ==
  /\ ~raw
  /\ raw' = TRUE
  /\ At(t, "lock_raw", "lock_own")
  /\ UNCHANGED <<holder, rec, waiters, guards, saved, handshake>>

LockOwn(t) ==
  /\ At(t, "lock_own", "idle")
  /\ holder' = t
  /\ rec' = Plus1(rec)
  /\ guards' = [guards EXCEPT ![t] = @ + 1]
  /\ UNCHANGED <<raw, waiters, saved, handshake>>

(* lock_with_handshake: the thread parks, locks, and keeps the mutex only  *)
(* if nobody has blocked it meanwhile.                                     *)
LockWithHandshake(t) ==
  /\ guards[t] < MaxDepth
  /\ At(t, "idle", IF holder = t THEN "lock_rec" ELSE "park")
  /\ UNCHANGED <<raw, holder, rec, waiters, guards, saved, handshake>>

LockParked(t) ==
  /\ ~raw
  /\ raw' = TRUE
  /\ At(t, "park", "parked")
  /\ UNCHANGED <<holder, rec, waiters, guards, saved, handshake>>

LeaveParked(t) ==
  /\ At(t, "parked", IF t \in handshake THEN "awake" ELSE "lock_own")
  /\ handshake' = handshake \ {t}
  /\ UNCHANGED <<raw, holder, rec, waiters, guards, saved>>

StayParked(t) ==
  /\ At(t, "parked", "park")
  /\ raw' = FALSE
  /\ UNCHANGED <<holder, rec, waiters, guards, saved, handshake>>

(* make_guard_unchecked: a guard without touching the mutex. *)
LockRec(t) ==
  /\ At(t, "lock_rec", "idle")
  /\ rec' = Plus1(rec)
  /\ guards' = [guards EXCEPT ![t] = @ + 1]
  /\ UNCHANGED <<raw, holder, waiters, saved, handshake>>

-------------------------------------------------------------------------------
(* MonitorGuard::drop: only the guard that takes the count from 1 to 0     *)
(* unlocks, the others leak their MutexGuard.                              *)

(* Slips: the value after the decrement is tested, and every guard unlocks. *)
DropTestsNewCount(t, place, unlocking) ==
  /\ At(t, place, IF Minus1(rec) = 1 THEN unlocking ELSE place)
  /\ rec' = Minus1(rec)
  /\ holder' = IF DropClearsHolder /\ Minus1(rec) = 1 THEN NoHolder ELSE holder
  /\ guards' = [guards EXCEPT ![t] = @ - 1]
  /\ UNCHANGED <<raw, waiters, saved, handshake>>

DropAlwaysUnlocks(t, place, unlocking) ==
  /\ At(t, place, unlocking)
  /\ rec' = Minus1(rec)
  /\ holder' = IF DropClearsHolder THEN NoHolder ELSE holder
  /\ guards' = [guards EXCEPT ![t] = @ - 1]
  /\ UNCHANGED <<raw, waiters, saved, handshake>>

Drop(t, place, unlocking) ==
  /\ At(t, place, IF rec = 1 THEN unlocking ELSE place)
  /\ rec' = Minus1(rec)
  /\ holder' = IF DropClearsHolder /\ rec = 1 THEN NoHolder ELSE holder
  /\ guards' = [guards EXCEPT ![t] = @ - 1]
  /\ UNCHANGED <<raw, waiters, saved, handshake>>

DropGuard(t) ==
  /\ guards[t] > 0
  /\ Drop(t, "idle", "unlock_raw")

(* The guards of a thread that panics are dropped as it unwinds, all but   *)
(* the one that leak has emptied.                                          *)
UnwindGuard(t) ==
  \/ guards[t] > 0 /\ Drop(t, "panicked", "unwind_raw")
  \/ guards[t] > 1 /\ Drop(t, "leaked", "leaked_raw")

UnlockRaw(t) ==
  /\ pc[t] \in {"unlock_raw", "unwind_raw", "leaked_raw"}
  /\ pc' = [pc EXCEPT ![t] = CASE pc[t] = "unlock_raw" -> "idle"
                               [] pc[t] = "unwind_raw" -> "panicked"
                               [] OTHER                -> "leaked"]
  /\ raw' = FALSE
  /\ UNCHANGED <<holder, rec, waiters, guards, saved, handshake>>

-------------------------------------------------------------------------------
(* wait_no_handshake and wait_with_handshake *)

WaitSwap(t) ==
  /\ guards[t] > 0
  /\ At(t, "idle", "wait")
  /\ saved' = [saved EXCEPT ![t] = rec]
  /\ rec' = 0
  /\ holder' = NoHolder
  /\ UNCHANGED <<raw, waiters, guards, handshake>>

(* wait_with_handshake, in a thread that parked_scope finds Running. *)
WaitWithHandshake(t) ==
  /\ guards[t] > 0
  /\ At(t, "idle", "wait")
  /\ saved' = [saved EXCEPT ![t] = rec]
  /\ rec' = 0
  /\ holder' = NoHolder
  /\ handshake' = handshake \union {t}
  /\ UNCHANGED <<raw, waiters, guards>>

(* The coordinator has stored RunningToBlock: the assertion that begins    *)
(* parked_scope fails, and the guard is dropped with the thread's others.  *)
WaitRefused(t) ==
  /\ guards[t] > 0
  /\ At(t, "idle", "panicked")
  /\ UNCHANGED <<raw, holder, rec, waiters, guards, saved, handshake>>

(* parking_lot queues the caller and unlocks the mutex as one step, and    *)
(* wakes nobody without a notification.                                    *)
WaitSleep(t) ==
  /\ At(t, "wait", "asleep")
  /\ waiters' = waiters \union {t}
  /\ raw' = FALSE
  /\ UNCHANGED <<holder, rec, guards, saved, handshake>>

(* Slip: the woken thread does not wait for the mutex. *)
WaitBarges(t) ==
  /\ t \notin waiters
  /\ raw' = TRUE
  /\ At(t, "asleep", "awake")
  /\ UNCHANGED <<holder, rec, waiters, guards, saved, handshake>>

WaitRelock(t) ==
  /\ t \notin waiters
  /\ ~raw
  /\ At(t, "asleep", "awake")
  /\ raw' = TRUE
  /\ UNCHANGED <<holder, rec, waiters, guards, saved, handshake>>

(* Slip: the nesting at the wait is forgotten. *)
WaitRestoresOne(t) ==
  /\ At(t, "awake", IF t \in handshake THEN "unlock_all" ELSE "idle")
  /\ rec' = 1
  /\ holder' = t
  /\ saved' = [saved EXCEPT ![t] = 0]
  /\ UNCHANGED <<raw, waiters, guards, handshake>>

WaitRestore(t) ==
  /\ At(t, "awake", IF t \in handshake THEN "unlock_all" ELSE "idle")
  /\ rec' = saved[t]
  /\ holder' = t
  /\ saved' = [saved EXCEPT ![t] = 0]
  /\ UNCHANGED <<raw, waiters, guards, handshake>>

-------------------------------------------------------------------------------
(* unlock_completely, for wait_with_handshake or on its own, and relocking *)

UnlockCompletely(t) ==
  /\ guards[t] > 0
  /\ At(t, "idle", "unlock_all")
  /\ UNCHANGED <<raw, holder, rec, waiters, guards, saved, handshake>>

UnlockSwap(t) ==
  /\ At(t, "unlock_all", "unlock_all_raw")
  /\ saved' = [saved EXCEPT ![t] = rec]
  /\ rec' = 0
  /\ holder' = NoHolder
  /\ UNCHANGED <<raw, waiters, guards, handshake>>

UnlockAllRaw(t) ==
  /\ At(t, "unlock_all_raw", "unlocked")
  /\ raw' = FALSE
  /\ UNCHANGED <<holder, rec, waiters, guards, saved, handshake>>

(* The guard is dropped, or forgotten, when the mutex is free for others.  *)
EndOfGuard(t) ==
  /\ At(t, "unlocked", IF t \in handshake THEN "scope_end" ELSE "relock")
  /\ IF UnlockForgets THEN UNCHANGED <<raw, holder, rec>>
     ELSE /\ rec' = Minus1(rec)
          /\ raw' = (raw /\ rec # 1)
          /\ holder' = IF DropClearsHolder /\ rec = 1 THEN NoHolder ELSE holder
  /\ UNCHANGED <<waiters, guards, saved, handshake>>

(* The end of parked_scope: the thread is still Running, or it panics.     *)
(* The guard of the wait is gone and its count is lost; the thread's other *)
(* guards are left to be dropped.                                          *)
ScopeReturns(t) ==
  /\ At(t, "scope_end", "park")
  /\ UNCHANGED <<raw, holder, rec, waiters, guards, saved, handshake>>

ScopePanics(t) ==
  /\ guards[t] <= ScopePanicDepth
  /\ At(t, "scope_end", "panicked")
  /\ guards' = [guards EXCEPT ![t] = @ - 1]
  /\ saved' = [saved EXCEPT ![t] = 0]
  /\ handshake' = handshake \ {t}
  /\ UNCHANGED <<raw, holder, rec, waiters>>

(* relock_no_handshake; relock_with_handshake locks as LockParked does, and *)
(* both give the guard the count that was saved, as WaitRestore does.      *)
RelockNoHandshake(t) ==
  /\ ~raw
  /\ At(t, "relock", "awake")
  /\ raw' = TRUE
  /\ UNCHANGED <<holder, rec, waiters, guards, saved, handshake>>

-------------------------------------------------------------------------------
(* MonitorGuard::leak takes the MutexGuard, and panics in the drop of what *)
(* is left of the guard.                                                   *)

Leak(t) ==
  /\ guards[t] > 0
  /\ At(t, "idle", "leaked")
  /\ UNCHANGED <<raw, holder, rec, waiters, guards, saved, handshake>>

-------------------------------------------------------------------------------
(* notify_all and notify_one: neither needs the lock. *)

NotifyAll(t) ==
  /\ pc[t] = "idle"
  /\ waiters' = {}
  /\ UNCHANGED <<raw, holder, rec, pc, guards, saved, handshake>>

NotifyOne(t) ==
  /\ pc[t] = "idle"
  /\ \E u \in waiters : waiters' = waiters \ {u}
  /\ UNCHANGED <<raw, holder, rec, pc, guards, saved, handshake>>

-------------------------------------------------------------------------------

Step(t) ==
  \/ LockCall(t) \/ LockRaw(t) \/ LockOwn(t) \/ LockRec(t)
  \/ LockWithHandshake(t) \/ LockParked(t) \/ LeaveParked(t) \/ StayParked(t)
  \/ DropGuard(t) \/ UnlockRaw(t)
  \/ WaitSwap(t) \/ WaitWithHandshake(t) \/ WaitRefused(t) \/ WaitSleep(t)
  \/ WaitRelock(t) \/ WaitRestore(t)
  \/ UnlockCompletely(t) \/ UnlockSwap(t) \/ UnlockAllRaw(t) \/ EndOfGuard(t)
  \/ ScopeReturns(t) \/ ScopePanics(t) \/ RelockNoHandshake(t)
  \/ Leak(t) \/ UnwindGuard(t)
  \/ NotifyAll(t) \/ NotifyOne(t)

Next == \E t \in Threads : Step(t)

Spec == Init /\ [][Next]_vars

-------------------------------------------------------------------------------
(* Properties *)

Pcs == {"idle", "lock_raw", "lock_own", "lock_rec", "unlock_raw",
        "wait", "asleep", "awake", "park", "parked",
        "unlock_all", "unlock_all_raw", "unlocked", "scope_end", "relock",
        "panicked", "unwind_raw", "leaked", "leaked_raw"}

(* The words of the monitor and of its callers have their types, and       *)
(* rec_count never wraps: it stays within the nesting of the callers.      *)
TypeOK ==
  /\ raw \in BOOLEAN
  /\ holder \in Threads \union {NoHolder}
  /\ rec \in 0..MaxDepth
  /\ waiters \in SUBSET Threads
  /\ pc \in [Threads -> Pcs]
  /\ guards \in [Threads -> 0..MaxDepth]
  /\ saved \in [Threads -> 0..MaxDepth]
  /\ handshake \in SUBSET Threads

(* A thread has given its levels up while it waits or has unlocked them    *)
(* all; otherwise its guard gives it the protected value (Deref, DerefMut). *)
Waiting(t) ==
  \/ pc[t] \in {"asleep", "awake", "unlocked", "scope_end", "relock"}
  \/ pc[t] \in {"park", "parked"} /\ t \in handshake

Holds(t) == guards[t] > 0 /\ ~Waiting(t)

(* sync.rs:16: the monitor controls concurrent access: two threads never   *)
(* have live guards of the same monitor at once.                           *)
MutualExclusion ==
  \A t, u \in Threads : Holds(t) /\ Holds(u) => t = u

(* The count belongs to the thread that holds the monitor: outside its own *)
(* operations, and while it unwinds, it is the number of its guards, and   *)
(* the holder word names it, so the next lock is seen as recursive and the *)
(* last drop unlocks.                                                      *)
CountIsDepth ==
  \A t \in Threads :
    guards[t] > 0 /\ pc[t] \in {"idle", "panicked", "leaked"}
      => holder = t /\ rec = guards[t] /\ raw

-------------------------------------------------------------------------------
(* Refinement: a guard is a level of the abstract lock.                    *)

Abstract == INSTANCE RecursiveMonitor WITH
  depth   <- [t \in Threads |-> IF Waiting(t) THEN 0 ELSE guards[t]],
  saved   <- [t \in Threads |-> IF Waiting(t) THEN guards[t] ELSE 0],
  waiters <- waiters

(* The three words together behave as one recursive mutex with a condition *)
(* variable: no interleaving of the unsynchronised holder check with       *)
(* locking, waiting, waking or unlocking is visible to a caller.           *)
ImplementsRecursiveMonitor == Abstract!Spec

===============================================================================
