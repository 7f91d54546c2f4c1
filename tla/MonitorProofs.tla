----------------------------- MODULE MonitorProofs -----------------------------
(***************************************************************************)
(* Proofs about Monitor, for any set of threads, any nesting bound and any *)
(* width of the recursion counter.  They are about the monitor whose drop  *)
(* clears the holder and whose unlock_completely forgets its guard, and    *)
(* whose parked_scope, when it panics after the wait with a handshake,     *)
(* does so in a thread that has no other guard.  The run MonitorAsWritten  *)
(* is the counterexample for the one as written.                           *)
(***************************************************************************)
EXTENDS Monitor, TLAPS

(* What the code lacks, and what its users have to see to. *)
Repaired == DropClearsHolder /\ UnlockForgets
PanicsUnnested == ScopePanicDepth <= 1

(* The steps between which a thread owns the raw mutex. *)
Settled == {"idle", "lock_rec", "unlock_all", "panicked", "leaked"}
Between == {"lock_own", "unlock_raw", "unwind_raw", "awake", "wait", "parked",
            "unlock_all_raw"}

OwnsRaw(t) ==
  \/ pc[t] \in Between
  \/ pc[t] \in Settled /\ guards[t] > 0

(* What a thread's own words say at each place of an operation. *)
Local(t) ==
  /\ pc[t] \in {"lock_raw", "lock_own", "unlock_raw", "unwind_raw"} => guards[t] = 0
  /\ pc[t] \in {"lock_rec", "unlock_all", "leaked"} => guards[t] > 0
  /\ pc[t] \in {"wait", "asleep", "awake", "unlock_all_raw", "unlocked",
                "scope_end", "relock"} =>
       guards[t] > 0 /\ saved[t] = guards[t]
  /\ pc[t] \in {"park", "parked"} =>
       IF t \in handshake THEN guards[t] > 0 /\ saved[t] = guards[t] ELSE guards[t] = 0
  /\ pc[t] = "lock_rec" => guards[t] < MaxDepth
  /\ t \in waiters => pc[t] = "asleep"
  /\ t \in handshake => pc[t] \notin {"idle", "lock_raw", "lock_own", "lock_rec",
                                      "unlock_raw", "relock", "panicked",
                                      "unwind_raw", "leaked"}
  /\ pc[t] = "scope_end" => t \in handshake
  /\ pc[t] # "leaked_raw"

(* What the monitor's words say about the thread that owns the raw mutex,  *)
(* and what they say when nobody does.                                     *)
Owned(t) ==
  /\ OwnsRaw(t) => raw
  /\ pc[t] \in Settled /\ guards[t] > 0 => holder = t /\ rec = guards[t]
  /\ pc[t] \in Between => holder = NoHolder /\ rec = 0
  /\ holder = t => pc[t] \in Settled /\ guards[t] > 0

IInv ==
  /\ TypeOK
  /\ \A t \in Threads : Local(t) /\ Owned(t)
  /\ \A t, u \in Threads : OwnsRaw(t) /\ OwnsRaw(u) => t = u
  /\ ~raw => holder = NoHolder /\ rec = 0

-------------------------------------------------------------------------------

LEMMA InitEstablishes == Init => IInv
<1> SUFFICES ASSUME Init PROVE IInv
  OBVIOUS
<1> USE MonitorAssumption DEF Init, MonitorAssumption
<1>1. TypeOK
  <2>1. 0 \in 0..MaxDepth /\ "idle" \in Pcs
    BY DEF Pcs
  <2> QED
    BY <2>1 DEF TypeOK
<1>2. ASSUME NEW t \in Threads PROVE Local(t) /\ Owned(t) /\ ~OwnsRaw(t)
  BY <1>2 DEF Local, Owned, OwnsRaw, Settled, Between
<1> QED
  BY <1>1, <1>2 DEF IInv

(* Every step of sync.rs keeps the ownership discipline, because the drop  *)
(* that releases the mutex also gives up the holder word.                  *)
LEMMA StepPreserves ==
  ASSUME Repaired, PanicsUnnested, IInv, [Next]_vars
  PROVE  IInv'
<1> USE MonitorAssumption DEF MonitorAssumption, Repaired, PanicsUnnested
<1> USE DEF IInv, TypeOK, Pcs, Local, Owned, OwnsRaw, Settled, Between, At
<1>1. CASE UNCHANGED vars
  BY <1>1 DEF vars
<1>2. ASSUME NEW t \in Threads, LockCall(t) PROVE IInv'
  BY <1>2 DEF LockCall
<1>3. ASSUME NEW t \in Threads, LockRaw(t) PROVE IInv'
  BY <1>3 DEF LockRaw
<1>4. ASSUME NEW t \in Threads, LockOwn(t) PROVE IInv'
  BY <1>4 DEF LockOwn, Plus1
<1>5. ASSUME NEW t \in Threads, LockRec(t) PROVE IInv'
  BY <1>5 DEF LockRec, Plus1
<1>6. ASSUME NEW t \in Threads, DropGuard(t) PROVE IInv'
  BY <1>6 DEF DropGuard, Drop, Minus1
<1>7. ASSUME NEW t \in Threads, UnlockRaw(t) PROVE IInv'
  <2> USE <1>7 DEF UnlockRaw
  <2>1. TypeOK'
    OBVIOUS
  <2>2. ASSUME NEW u \in Threads \ {t}
        PROVE  ~OwnsRaw(u)' /\ Local(u)' /\ Owned(u)'
    BY <2>2
  <2>3. ~OwnsRaw(t)' /\ Local(t)' /\ Owned(t)'
    OBVIOUS
  <2>4. holder' = NoHolder /\ rec' = 0
    OBVIOUS
  <2> QED
    BY <2>1, <2>2, <2>3, <2>4
<1>8. ASSUME NEW t \in Threads, WaitSwap(t) PROVE IInv'
  BY <1>8 DEF WaitSwap
<1>9. ASSUME NEW t \in Threads, WaitSleep(t) PROVE IInv'
  <2> USE <1>9 DEF WaitSleep
  <2>1. TypeOK'
    OBVIOUS
  <2>2. ASSUME NEW u \in Threads \ {t}
        PROVE  ~OwnsRaw(u)' /\ Local(u)' /\ Owned(u)'
    BY <2>2
  <2>3. ~OwnsRaw(t)' /\ Local(t)' /\ Owned(t)'
    OBVIOUS
  <2>4. holder' = NoHolder /\ rec' = 0
    OBVIOUS
  <2> QED
    BY <2>1, <2>2, <2>3, <2>4
<1>10. ASSUME NEW t \in Threads, WaitRelock(t) PROVE IInv'
  BY <1>10 DEF WaitRelock
<1>11. ASSUME NEW t \in Threads, WaitRestore(t) PROVE IInv'
  BY <1>11 DEF WaitRestore
<1>12. ASSUME NEW t \in Threads, NotifyAll(t) PROVE IInv'
  BY <1>12 DEF NotifyAll
<1>13. ASSUME NEW t \in Threads, NotifyOne(t) PROVE IInv'
  BY <1>13 DEF NotifyOne
<1>14. ASSUME NEW t \in Threads, LockWithHandshake(t) PROVE IInv'
  BY <1>14 DEF LockWithHandshake
<1>15. ASSUME NEW t \in Threads, LockParked(t) PROVE IInv'
  BY <1>15 DEF LockParked
<1>16. ASSUME NEW t \in Threads, LeaveParked(t) PROVE IInv'
  BY <1>16 DEF LeaveParked
<1>17. ASSUME NEW t \in Threads, StayParked(t) PROVE IInv'
  <2> USE <1>17 DEF StayParked
  <2>1. TypeOK'
    OBVIOUS
  <2>2. ASSUME NEW u \in Threads \ {t}
        PROVE  ~OwnsRaw(u)' /\ Local(u)' /\ Owned(u)'
    BY <2>2
  <2>3. ~OwnsRaw(t)' /\ Local(t)' /\ Owned(t)'
    OBVIOUS
  <2>4. holder' = NoHolder /\ rec' = 0
    OBVIOUS
  <2> QED
    BY <2>1, <2>2, <2>3, <2>4
<1>18. ASSUME NEW t \in Threads, WaitWithHandshake(t) PROVE IInv'
  BY <1>18 DEF WaitWithHandshake
<1>19. ASSUME NEW t \in Threads, UnlockCompletely(t) PROVE IInv'
  BY <1>19 DEF UnlockCompletely
<1>20. ASSUME NEW t \in Threads, UnlockSwap(t) PROVE IInv'
  BY <1>20 DEF UnlockSwap
<1>21. ASSUME NEW t \in Threads, UnlockAllRaw(t) PROVE IInv'
  <2> USE <1>21 DEF UnlockAllRaw
  <2>1. TypeOK'
    OBVIOUS
  <2>2. ASSUME NEW u \in Threads \ {t}
        PROVE  ~OwnsRaw(u)' /\ Local(u)' /\ Owned(u)'
    BY <2>2
  <2>3. ~OwnsRaw(t)' /\ Local(t)' /\ Owned(t)'
    OBVIOUS
  <2>4. holder' = NoHolder /\ rec' = 0
    OBVIOUS
  <2> QED
    BY <2>1, <2>2, <2>3, <2>4
<1>22. ASSUME NEW t \in Threads, EndOfGuard(t) PROVE IInv'
  BY <1>22 DEF EndOfGuard
<1>23. ASSUME NEW t \in Threads, RelockNoHandshake(t) PROVE IInv'
  BY <1>23 DEF RelockNoHandshake
<1>24. ASSUME NEW t \in Threads, Leak(t) PROVE IInv'
  BY <1>24 DEF Leak
<1>25. ASSUME NEW t \in Threads, UnwindGuard(t) PROVE IInv'
  BY <1>25 DEF UnwindGuard, Drop, Minus1
<1>26. ASSUME NEW t \in Threads, WaitRefused(t) PROVE IInv'
  BY <1>26 DEF WaitRefused
<1>27. ASSUME NEW t \in Threads, ScopeReturns(t) PROVE IInv'
  BY <1>27 DEF ScopeReturns
<1>28. ASSUME NEW t \in Threads, ScopePanics(t) PROVE IInv'
  BY <1>28 DEF ScopePanics
<1> QED
  BY <1>1, <1>2, <1>3, <1>4, <1>5, <1>6, <1>7, <1>8, <1>9,
     <1>10, <1>11, <1>12, <1>13, <1>14, <1>15, <1>16, <1>17, <1>18,
     <1>19, <1>20, <1>21, <1>22, <1>23, <1>24, <1>25, <1>26,
     <1>27, <1>28 DEF Next, Step

LEMMA Inductive ==
  ASSUME Repaired, PanicsUnnested
  PROVE  Spec => []IInv
<1>1. IInv /\ [Next]_vars => IInv'
  BY StepPreserves
<1> QED
  BY <1>1, InitEstablishes, PTL DEF Spec

-------------------------------------------------------------------------------

(* sync.rs:53-218: whatever the interleaving of lock, drop, wait and       *)
(* notify, the words of the monitor keep their types and rec_count never   *)
(* passes the nesting bound, so the usize cannot wrap.                     *)
THEOREM TypeCorrect ==
  ASSUME Repaired, PanicsUnnested
  PROVE  Spec => []TypeOK
<1>1. IInv => TypeOK
  BY DEF IInv
<1> QED
  BY <1>1, Inductive, PTL

(* sync.rs:16: at most one thread at a time can reach the protected value. *)
THEOREM Exclusion ==
  ASSUME Repaired, PanicsUnnested
  PROVE  Spec => []MutualExclusion
<1>1. IInv => MutualExclusion
  <2> SUFFICES ASSUME IInv, NEW t \in Threads, NEW u \in Threads,
                      Holds(t), Holds(u)
               PROVE  t = u
    BY DEF MutualExclusion
  <2>1. ASSUME NEW v \in Threads, Holds(v) PROVE OwnsRaw(v)
    BY <2>1 DEF IInv, TypeOK, Pcs, Local, Holds, Waiting, OwnsRaw, Settled, Between
  <2> QED
    BY <2>1 DEF IInv
<1> QED
  BY <1>1, Inductive, PTL

(* sync.rs:53-232: outside an operation the count is the number   *)
(* of guards of the thread the holder word names, and the mutex is locked. *)
THEOREM CountCorrect ==
  ASSUME Repaired, PanicsUnnested
  PROVE  Spec => []CountIsDepth
<1>1. IInv => CountIsDepth
  BY DEF IInv, Owned, OwnsRaw, Settled, CountIsDepth
<1> QED
  BY <1>1, Inductive, PTL

-------------------------------------------------------------------------------
(* The fine-grained monitor implements the recursive mutex.                *)

(* Whoever owns the raw mutex keeps every other thread's level at zero.    *)
LEMMA OwnerIsAlone ==
  ASSUME IInv, NEW t \in Threads, OwnsRaw(t)
  PROVE  Abstract!FreeFor(t)
<1> SUFFICES ASSUME NEW u \in Threads \ {t}, ~Waiting(u)
             PROVE  guards[u] = 0
  BY DEF Abstract!FreeFor
<1>1. ~OwnsRaw(u)
  BY DEF IInv
<1> QED
  BY <1>1 DEF IInv, TypeOK, Pcs, Local, OwnsRaw, Settled, Between, Waiting

LEMMA InitMaps == Init => Abstract!Init
BY DEF Init, Abstract!Init, Waiting

LEMMA StepMaps ==
  ASSUME PanicsUnnested, IInv, [Next]_vars
  PROVE  [Abstract!Next]_(Abstract!vars)
<1> USE DEF At, Waiting, Abstract!vars
<1> DEFINE Same == UNCHANGED Abstract!vars
<1> USE DEF IInv, TypeOK
<1>1. CASE UNCHANGED vars
  BY <1>1 DEF vars
<1>2. ASSUME NEW t \in Threads, LockCall(t) PROVE Same
  BY <1>2 DEF LockCall
<1>3. ASSUME NEW t \in Threads, LockRaw(t) PROVE Same
  BY <1>3 DEF LockRaw
<1>4. ASSUME NEW t \in Threads, LockOwn(t) PROVE Abstract!Lock(t)
  <2>1. Abstract!FreeFor(t)
    BY <1>4, OwnerIsAlone DEF LockOwn, OwnsRaw, Between
  <2>2. guards[t] = 0 /\ MaxDepth > 0 /\ pc[t] = "lock_own"
    BY <1>4, MonitorAssumption DEF LockOwn, Local, MonitorAssumption
  <2>3. /\ guards' = [guards EXCEPT ![t] = @ + 1]
        /\ pc' = [pc EXCEPT ![t] = "idle"]
        /\ UNCHANGED <<waiters, saved, handshake>>
    BY <1>4 DEF LockOwn
  <2> QED
    BY <2>1, <2>2, <2>3 DEF Abstract!Lock
<1>5. ASSUME NEW t \in Threads, LockRec(t) PROVE Abstract!Lock(t)
  <2>1. Abstract!FreeFor(t)
    BY <1>5, OwnerIsAlone DEF LockRec, OwnsRaw, Settled, Local
  <2> QED
    BY <1>5, <2>1 DEF LockRec, Abstract!Lock, Local
<1>6. ASSUME NEW t \in Threads, DropGuard(t) PROVE Abstract!Unlock(t)
  BY <1>6 DEF DropGuard, Drop, Abstract!Unlock
<1>7. ASSUME NEW t \in Threads, UnlockRaw(t) PROVE Same
  BY <1>7 DEF UnlockRaw
<1>8. ASSUME NEW t \in Threads, WaitSwap(t) PROVE Same
  BY <1>8 DEF WaitSwap
<1>9. ASSUME NEW t \in Threads, WaitSleep(t) PROVE Abstract!Wait(t)
  BY <1>9 DEF WaitSleep, Abstract!Wait, Local
<1>10. ASSUME NEW t \in Threads, WaitRelock(t) PROVE Same
  BY <1>10 DEF WaitRelock
<1>11. ASSUME NEW t \in Threads, WaitRestore(t) PROVE Abstract!Resume(t)
  <2>1. Abstract!FreeFor(t)
    BY <1>11, OwnerIsAlone DEF WaitRestore, OwnsRaw, Between
  <2> QED
    BY <1>11, <2>1 DEF WaitRestore, Abstract!Resume, Local
<1>12. ASSUME NEW t \in Threads, NotifyAll(t) PROVE Abstract!Notify
  BY <1>12 DEF NotifyAll, Abstract!Notify
<1>13. ASSUME NEW t \in Threads, NotifyOne(t) PROVE Abstract!Notify
  BY <1>13 DEF NotifyOne, Abstract!Notify
<1>14. ASSUME NEW t \in Threads, LockWithHandshake(t) PROVE Same
  BY <1>14 DEF LockWithHandshake, Local
<1>15. ASSUME NEW t \in Threads, LockParked(t) PROVE Same
  BY <1>15 DEF LockParked
<1>16. ASSUME NEW t \in Threads, LeaveParked(t) PROVE Same
  BY <1>16 DEF LeaveParked, Local
<1>17. ASSUME NEW t \in Threads, StayParked(t) PROVE Same
  BY <1>17 DEF StayParked
<1>18. ASSUME NEW t \in Threads, WaitWithHandshake(t) PROVE Same
  BY <1>18 DEF WaitWithHandshake, Local
<1>19. ASSUME NEW t \in Threads, UnlockCompletely(t) PROVE Same
  BY <1>19 DEF UnlockCompletely
<1>20. ASSUME NEW t \in Threads, UnlockSwap(t) PROVE Same
  BY <1>20 DEF UnlockSwap, Local
<1>21. ASSUME NEW t \in Threads, UnlockAllRaw(t) PROVE Abstract!Yield(t)
  BY <1>21 DEF UnlockAllRaw, Abstract!Yield, Local
<1>22. ASSUME NEW t \in Threads, EndOfGuard(t) PROVE Same
  BY <1>22 DEF EndOfGuard, Local
<1>23. ASSUME NEW t \in Threads, RelockNoHandshake(t) PROVE Same
  BY <1>23 DEF RelockNoHandshake, Local
<1>24. ASSUME NEW t \in Threads, Leak(t) PROVE Same
  BY <1>24 DEF Leak
<1>25. ASSUME NEW t \in Threads, UnwindGuard(t) PROVE Abstract!Unlock(t)
  <2>1. /\ guards[t] > 0 /\ pc[t] \in {"panicked", "leaked"}
        /\ pc'[t] \in {"panicked", "unwind_raw", "leaked", "leaked_raw"}
        /\ \A u \in Threads \ {t} : pc'[u] = pc[u]
        /\ guards' = [guards EXCEPT ![t] = @ - 1]
        /\ UNCHANGED <<waiters, saved, handshake>>
    BY <1>25 DEF UnwindGuard, Drop
  <2>2. ~Waiting(t) /\ \A u \in Threads : Waiting(u)' = Waiting(u)
    BY <2>1
  <2> HIDE DEF Waiting
  <2> QED
    BY <2>1, <2>2 DEF Abstract!Unlock
<1>26. ASSUME NEW t \in Threads, WaitRefused(t) PROVE Same
  BY <1>26 DEF WaitRefused
<1>27. ASSUME NEW t \in Threads, ScopeReturns(t) PROVE Same
  BY <1>27 DEF ScopeReturns, Local
<1>28. ASSUME NEW t \in Threads, ScopePanics(t) PROVE Abstract!Abandon(t)
  <2>1. /\ guards[t] = 1 /\ saved[t] = 1 /\ t \notin waiters /\ pc[t] = "scope_end"
        /\ pc' = [pc EXCEPT ![t] = "panicked"]
        /\ guards' = [guards EXCEPT ![t] = 0]
        /\ handshake' = handshake \ {t}
        /\ UNCHANGED waiters
    <3>1. guards[t] \in Nat /\ guards[t] <= ScopePanicDepth /\ guards[t] > 0
      BY <1>28, MonitorAssumption DEF ScopePanics, Local, MonitorAssumption
    <3>2. guards[t] = 1
      BY <3>1, MonitorAssumption DEF PanicsUnnested, MonitorAssumption
    <3> QED
      BY <1>28, <3>2 DEF ScopePanics, Local
  <2>2. Waiting(t) /\ ~Waiting(t)' /\ \A u \in Threads \ {t} : Waiting(u)' = Waiting(u)
    BY <2>1
  <2> HIDE DEF Waiting
  <2>3. /\ guards'[t] = 0
        /\ \A u \in Threads \ {t} : guards'[u] = guards[u]
    BY <2>1
  <2> DEFINE Depths == [u \in Threads |-> IF Waiting(u) THEN 0 ELSE guards[u]]
  <2> DEFINE Saved == [u \in Threads |-> IF Waiting(u) THEN guards[u] ELSE 0]
  <2>4. Depths' = Depths
    BY <2>2, <2>3
  <2>5. Saved[t] > 0
    BY <2>1, <2>2
  <2>6. Saved' = [Saved EXCEPT ![t] = 0]
    <3>1. \A u \in Threads :
            Saved'[u] = IF u = t THEN 0 ELSE IF Waiting(u) THEN guards[u] ELSE 0
      BY <2>2, <2>3
    <3> QED
      BY <3>1
  <2> QED
    BY <2>1, <2>4, <2>5, <2>6 DEF Abstract!Abandon
<1> QED
  BY <1>1, <1>2, <1>3, <1>4, <1>5, <1>6, <1>7, <1>8, <1>9,
     <1>10, <1>11, <1>12, <1>13, <1>14, <1>15, <1>16, <1>17, <1>18,
     <1>19, <1>20, <1>21, <1>22, <1>23, <1>24, <1>25, <1>26,
     <1>27, <1>28 DEF Next, Step, Abstract!Next

(* sync.rs:16-20: to its callers the monitor is a recursive mutex with a   *)
(* condition variable whose operations take effect at once.                *)
THEOREM Refinement ==
  ASSUME Repaired, PanicsUnnested
  PROVE  Spec => ImplementsRecursiveMonitor
<1>1. IInv /\ [Next]_vars => [Abstract!Next]_(Abstract!vars)
  BY StepMaps
<1> QED
  BY <1>1, InitMaps, Inductive, PTL
  DEF Spec, Abstract!Spec, ImplementsRecursiveMonitor

===============================================================================
