---------------------------- MODULE HandshakeProofs ----------------------------
(***************************************************************************)
(* Proofs about Handshake, for any set of mutators and any nesting of      *)
(* disable_yieldpoints.                                                    *)
(*                                                                         *)
(* What is proved in three layers: CodeInv, which needs nothing of the     *)
(* monitors and so holds of the code as it is; Common, who holds which     *)
(* monitor and where a blocked thread can be; and KnownInv(L), what the    *)
(* coordinator has achieved with the threads L it knows of.  Common and    *)
(* KnownInv are invariant when a Monitor is the recursive mutex that       *)
(* MonitorProofs shows it to be once a drop clears the holder (the         *)
(* assumption DropClearsHolder).                                           *)
(*                                                                         *)
(* The lemmas about Common and KnownInv do not ask that every thread is    *)
(* registered, nor that pc stays within MutatorPcs: they are stated for    *)
(* any larger set of places Pcs and any set L, so that LateStartProofs can *)
(* use them for threads that start while the handshake is going on.        *)
(***************************************************************************)
EXTENDS Handshake, TLAPS

CheckPcs == {"cb_lock", "cb_ack", "cb_test", "cb_wait", "cb_asleep", "cb_run"}

(* The types of the words, whatever places there are. *)
Words(Pcs) ==
  /\ monitor \in [Mutators -> MonitorType(Procs)]
  /\ sleepers \in [Mutators -> SUBSET Procs]
  /\ state \in [Mutators -> States]
  /\ shouldBlock \in [Mutators -> BOOLEAN]
  /\ blocked \in [Mutators -> BOOLEAN]
  /\ take \in [Mutators -> BOOLEAN]
  /\ pending \in [Mutators -> BOOLEAN]
  /\ enabled \in [Mutators -> Int]
  /\ terminating \in [Mutators -> BOOLEAN]
  /\ active \in [Mutators -> BOOLEAN]
  /\ pc \in [Mutators -> Pcs]
  /\ frame \in [Mutators -> {"none", "yieldpoint", "leave", "self"}]
  /\ saved \in [Procs -> 0..(RecLimit - 1)]
  /\ threads \in SUBSET Mutators
  /\ gcRequested \in BOOLEAN
  /\ gcpc \in GCPcs
  /\ handshake \in SUBSET Mutators
  /\ todo \in SUBSET Mutators
  /\ cur \in Procs
  /\ asynchronous \in BOOLEAN

(* What the words only a thread itself changes say about where it is. *)
PlaceInv(t) ==
  /\ pc[t] \in CheckPcs => frame[t] \in {"leave", "yieldpoint", "self"}
  /\ active[t] <=> pc[t] \notin GonePcs
  /\ terminating[t] <=> pc[t] \in GonePcs

CoordinatorInv ==
  gcpc \in {"r_check", "b_request", "b_exec", "b_own", "b_test", "b_wait",
            "b_asleep", "unblock"} => cur \in Mutators

(* A thread told to block will see it: its flag is up or deferred, or it   *)
(* is already in check_block.                                              *)
RequestInv(t) ==
  state[t] = "RunningToBlock" =>
    \/ take[t]
    \/ pending[t] /\ enabled[t] < 1
    \/ pc[t] \in CheckPcs \union GonePcs

(* How often a thread has disabled yieldpoints. *)
EnabledInv(t) ==
  /\ enabled[t] \in (-DisableDepth[t])..1
  /\ active[t] => enabled[t] >= 1 - DisableDepth[t]

CodeInv ==
  /\ Words(MutatorPcs)
  /\ CoordinatorInv
  /\ \A t \in Mutators :
       /\ PlaceInv(t) /\ EnabledInv(t) /\ RequestInv(t)
       /\ active[t] => t \in threads

(* Who holds the monitor of a thread, and how often. *)
OuterDepth(t) == IF frame[t] = "leave" THEN 0 ELSE 1

Depth(t) ==
  CASE pc[t] \in {"yp_take", "yp_unlock", "self_request", "self_unlock",
                  "park_blocked", "term_mark", "term_destroy"} -> 1
    [] pc[t] = "cb_lock" -> OuterDepth(t)
    [] pc[t] \in {"cb_ack", "cb_test", "cb_wait", "cb_run"} -> OuterDepth(t) + 1
    [] OTHER -> 0

GCHolds(t) ==
  /\ cur = t
  /\ gcpc \in {"r_check", "b_request", "b_exec", "b_own", "b_test", "b_wait",
               "unblock"}

(* The words of a monitor held by p with a count of n. *)
Held(p, n) == [raw |-> TRUE, holder |-> p, rec |-> n]

MonitorInv(t) ==
  /\ Depth(t) > 0 => ~GCHolds(t) /\ monitor[t] = Held(t, Depth(t))
  /\ GCHolds(t)   => monitor[t] = Held(GC, 1)
  /\ Depth(t) = 0 /\ ~GCHolds(t) => monitor[t] = FreshMonitor

(* What a process that waits has kept of its levels of the lock. *)
SavedInv ==
  /\ \A t \in Mutators : saved[t] = IF pc[t] = "cb_asleep" THEN OuterDepth(t) + 1 ELSE 0
  /\ saved[GC] = IF gcpc = "b_asleep" THEN 1 ELSE 0

(* A blocked thread executes no managed code, and if it is in native code  *)
(* its state byte keeps it from leaving by the fast path.                  *)
BlockInv(t) ==
  /\ blocked[t] => pc[t] \in SafePcs
  /\ blocked[t] /\ pc[t] = "native" => state[t] = "BlockedInParked"
  /\ state[t] \in {"Parked", "BlockedInParked"} => pc[t] \in SafePcs \union {"cb_run"}

BlockLoopInv ==
  /\ gcpc \in {"b_test", "b_wait", "b_asleep"} => ~asynchronous
  /\ gcpc = "b_own" => state[cur] = "BlockedInParked"

Common(Pcs) ==
  /\ Words(Pcs)
  /\ CoordinatorInv
  /\ SavedInv
  /\ BlockLoopInv
  /\ \A t \in Mutators : PlaceInv(t) /\ MonitorInv(t) /\ BlockInv(t)

(* A retain() pass keeps on its list every mutator that is not blocked. *)
Retaining ==
  \/ gcpc \in {"retain", "r_check"}
  \/ gcpc \in {"b_request", "b_exec", "b_own"} /\ asynchronous

(* A thread that is blocked, or will be, is still to be unblocked. *)
Resumable(t) ==
  \/ gcRequested
  \/ gcpc \notin {"idle", "resume", "unblock"}
  \/ gcpc \in {"resume", "unblock"} /\ t \in handshake
  \/ gcpc = "unblock" /\ cur = t

KnownInv(L) ==
  /\ gcpc \notin {"idle", "stopped", "resume", "unblock"} => gcRequested
  /\ \A t \in L :
       /\ active[t] => t \in threads
       /\ active[t] /\ Retaining => t \in handshake \/ blocked[t]
       /\ active[t] /\ gcpc = "stopped" => blocked[t]
       /\ pc[t] \in {"self_lock", "self_request"} => gcRequested
       /\ active[t] /\ (blocked[t] \/ shouldBlock[t]) => Resumable(t)

(* Every mutator of Handshake is registered before the model begins. *)
IInv ==
  /\ CodeInv
  /\ Common(MutatorPcs)
  /\ KnownInv(Mutators)

-------------------------------------------------------------------------------
LEMMA LockedOps ==
  ASSUME NEW p \in Procs
  PROVE  /\ Locked(FreshMonitor, p) = Held(p, 1)
         /\ Locked(Held(p, 1), p) = Held(p, 2)
         /\ \A q \in Procs, n \in Nat : CanLock(Held(q, n), p) => p = q
<1> USE HandshakeAssumption, MonitorOpsAssumption
    DEF HandshakeAssumption, MonitorOpsAssumption, Held, FreshMonitor
<1>1. Locked(FreshMonitor, p) = Held(p, 1)
  <2>1. Plus1(0) = 1 /\ (NoHolder # p \/ FALSE) = TRUE
    BY DEF Plus1
  <2> QED
    BY <2>1 DEF Locked
<1>2. Locked(Held(p, 1), p) = Held(p, 2)
  <2>1. Plus1(1) = 2 /\ (p # p \/ TRUE) = TRUE
    BY DEF Plus1
  <2> QED
    BY <2>1 DEF Locked
<1>3. \A q \in Procs, n \in Nat : CanLock(Held(q, n), p) => p = q
  BY DEF CanLock
<1> QED
  BY <1>1, <1>2, <1>3

LEMMA WaitOps ==
  ASSUME NEW p \in Procs, NEW n \in Nat
  PROVE  /\ Released = FreshMonitor
         /\ Held(p, n).rec = n
         /\ Relocked(p, n) = Held(p, n)
         /\ ~CanRelock(Held(p, n))
BY DEF Released, FreshMonitor, Held, Relocked, CanRelock

LEMMA DroppedOps ==
  ASSUME DropClearsHolder, NEW p \in Procs
  PROVE  /\ Dropped(Held(p, 1)) = FreshMonitor
         /\ Dropped(Held(p, 2)) = Held(p, 1)
<1>1. Dropped(Held(p, 1)) = FreshMonitor
  BY DEF Dropped, FreshMonitor, Held
<1>2. Dropped(Held(p, 2)) = Held(p, 1)
  <2>1. Held(p, 2).rec = 2 /\ Minus1(2) = 1
    BY DEF Held, Minus1
  <2>2. Dropped(Held(p, 2)) = [Held(p, 2) EXCEPT !.rec = 1]
    BY <2>1 DEF Dropped
  <2> QED
    BY <2>2 DEF Held
<1> QED
  BY <1>1, <1>2

LEMMA MonitorTypes ==
  ASSUME NEW p \in Procs, NEW m \in MonitorType(Procs), NEW r \in 0..(RecLimit - 1)
  PROVE  /\ FreshMonitor \in MonitorType(Procs)
         /\ Locked(m, p) \in MonitorType(Procs)
         /\ Dropped(m) \in MonitorType(Procs)
         /\ Relocked(p, r) \in MonitorType(Procs)
         /\ m.rec \in 0..(RecLimit - 1)
BY HandshakeAssumption, MonitorOpsAssumption
DEF HandshakeAssumption, MonitorOpsAssumption, MonitorType, Locked, FreshMonitor,
    Dropped, Relocked, Plus1, Minus1

LEMMA InitEstablishes == Init => IInv
<1> SUFFICES ASSUME Init PROVE IInv
  OBVIOUS
<1> USE HandshakeAssumption DEF HandshakeAssumption
<1>1. Words(MutatorPcs)
  <2>1. FreshMonitor \in MonitorType(Procs) /\ 0 \in 0..(RecLimit - 1)
    BY MonitorOpsAssumption DEF MonitorOpsAssumption, MonitorType, FreshMonitor
  <2>2. /\ "Running" \in States /\ "managed" \in MutatorPcs
        /\ "idle" \in GCPcs /\ GC \in Procs
    BY DEF States, MutatorPcs, GCPcs, Procs
  <2>3. /\ monitor \in [Mutators -> MonitorType(Procs)]
        /\ saved \in [Procs -> 0..(RecLimit - 1)]
    BY <2>1 DEF Init
  <2>4. /\ sleepers \in [Mutators -> SUBSET Procs]
        /\ threads \in SUBSET Mutators
        /\ handshake \in SUBSET Mutators
        /\ todo \in SUBSET Mutators
    BY DEF Init
  <2>5. /\ state \in [Mutators -> States]
        /\ shouldBlock \in [Mutators -> BOOLEAN]
        /\ blocked \in [Mutators -> BOOLEAN]
        /\ take \in [Mutators -> BOOLEAN]
        /\ pending \in [Mutators -> BOOLEAN]
        /\ terminating \in [Mutators -> BOOLEAN]
        /\ active \in [Mutators -> BOOLEAN]
        /\ pc \in [Mutators -> MutatorPcs]
        /\ frame \in [Mutators -> {"none", "yieldpoint", "leave", "self"}]
        /\ gcRequested \in BOOLEAN
        /\ gcpc \in GCPcs
        /\ cur \in Procs
        /\ asynchronous \in BOOLEAN
    BY <2>2 DEF Init
  <2>6. enabled \in [Mutators -> Int]
    BY DEF Init
  <2> QED
    BY <2>3, <2>4, <2>5, <2>6 DEF Words
<1>2. ASSUME NEW t \in Mutators
      PROVE  /\ PlaceInv(t) /\ EnabledInv(t) /\ RequestInv(t)
             /\ MonitorInv(t) /\ BlockInv(t)
             /\ active[t] => t \in threads
  BY <1>2 DEF Init, MonitorInv, Depth, GCHolds, PlaceInv, EnabledInv, CheckPcs,
              GonePcs, RequestInv, BlockInv
<1>3. CoordinatorInv /\ BlockLoopInv /\ SavedInv
  BY DEF Init, CoordinatorInv, BlockLoopInv, SavedInv, Procs
<1>4. KnownInv(Mutators)
  BY DEF Init, KnownInv, Retaining, Resumable
<1> QED
  BY <1>1, <1>2, <1>3, <1>4 DEF IInv, CodeInv, Common

-------------------------------------------------------------------------------
(* Every step keeps the invariant, one lemma for each group of conjuncts. *)

(* Every word keeps its type. *)
LEMMA WordsStep ==
  ASSUME NEW Pcs, MutatorPcs \subseteq Pcs, Words(Pcs), CoordinatorInv,
         \A t \in Mutators : PlaceInv(t), [Next]_vars
  PROVE  Words(Pcs)'
<1> USE HandshakeAssumption, MonitorOpsAssumption, MonitorTypes
    DEF HandshakeAssumption, MonitorOpsAssumption, Words, Procs, States,
        MutatorPcs, GCPcs, At, GCAt, Lock, Drop, NotifyAll, BlockReturn,
        tlsVars, gcVars
<1>0. CASE UNCHANGED vars
  BY <1>0 DEF vars
<1>1. ASSUME NEW t \in Mutators, DeferYieldpoint(t) PROVE Words(Pcs)'
  BY <1>1 DEF DeferYieldpoint
<1>2. ASSUME NEW t \in Mutators, TakeYieldpoint(t) PROVE Words(Pcs)'
  BY <1>2 DEF TakeYieldpoint
<1>3. ASSUME NEW t \in Mutators, YieldpointLock(t) PROVE Words(Pcs)'
  BY <1>3 DEF YieldpointLock
<1>4. ASSUME NEW t \in Mutators, YieldpointTake(t) PROVE Words(Pcs)'
  BY <1>4 DEF YieldpointTake
<1>5. ASSUME NEW t \in Mutators, YieldpointUnlock(t) PROVE Words(Pcs)'
  BY <1>5 DEF YieldpointUnlock
<1>6. ASSUME NEW t \in Mutators, EnableYieldpoints(t) PROVE Words(Pcs)'
  <2>1. enabled' \in [Mutators -> Int]
    BY <1>6 DEF EnableYieldpoints
  <2> QED
    BY <1>6, <2>1 DEF EnableYieldpoints
<1>7. ASSUME NEW t \in Mutators, DisableYieldpoints(t) PROVE Words(Pcs)'
  <2>1. enabled' \in [Mutators -> Int]
    BY <1>7 DEF DisableYieldpoints
  <2> QED
    BY <1>7, <2>1 DEF DisableYieldpoints
<1>8. ASSUME NEW t \in Mutators, CheckBlockLock(t) PROVE Words(Pcs)'
  BY <1>8 DEF CheckBlockLock
<1>9. ASSUME NEW t \in Mutators, CheckBlockAcknowledge(t) PROVE Words(Pcs)'
  BY <1>9 DEF CheckBlockAcknowledge, Acknowledge
<1>10. ASSUME NEW t \in Mutators, CheckBlockTest(t) PROVE Words(Pcs)'
  BY <1>10 DEF CheckBlockTest
<1>11. ASSUME NEW t \in Mutators, CheckBlockWait(t) PROVE Words(Pcs)'
  <2> USE <1>11 DEF CheckBlockWait, Sleep
  <2>1. monitor[t].rec \in 0..(RecLimit - 1) /\ Released \in MonitorType(Procs)
    BY DEF Released
  <2>2. saved' \in [Procs -> 0..(RecLimit - 1)]
    BY <2>1
  <2> QED
    BY <2>1, <2>2
<1>12. ASSUME NEW t \in Mutators, CheckBlockWake(t) PROVE Words(Pcs)'
  <2> USE <1>12 DEF CheckBlockWake, Wake
  <2>1. saved[t] \in 0..(RecLimit - 1) /\ 0 \in 0..(RecLimit - 1)
    OBVIOUS
  <2>2. monitor' \in [Mutators -> MonitorType(Procs)]
    BY <2>1
  <2>3. saved' \in [Procs -> 0..(RecLimit - 1)]
    BY <2>1
  <2> QED
    BY <2>2, <2>3
<1>13. ASSUME NEW t \in Mutators, CheckBlockRun(t) PROVE Words(Pcs)'
  BY <1>13 DEF CheckBlockRun, PlaceInv, CheckPcs
<1>14. ASSUME NEW t \in Mutators, CallEnterParked(t) PROVE Words(Pcs)'
  BY <1>14 DEF CallEnterParked
<1>15. ASSUME NEW t \in Mutators, ParkFast(t) PROVE Words(Pcs)'
  BY <1>15 DEF ParkFast
<1>16. ASSUME NEW t \in Mutators, ParkLock(t) PROVE Words(Pcs)'
  BY <1>16 DEF ParkLock
<1>17. ASSUME NEW t \in Mutators, ParkBlocked(t) PROVE Words(Pcs)'
  BY <1>17 DEF ParkBlocked, Acknowledge
<1>18. ASSUME NEW t \in Mutators, UnparkFast(t) PROVE Words(Pcs)'
  BY <1>18 DEF UnparkFast
<1>19. ASSUME NEW t \in Mutators, LeaveParked(t) PROVE Words(Pcs)'
  BY <1>19 DEF LeaveParked
<1>20. ASSUME NEW t \in Mutators, PollForGC(t) PROVE Words(Pcs)'
  BY <1>20 DEF PollForGC
<1>21. ASSUME NEW t \in Mutators, SelfLock(t) PROVE Words(Pcs)'
  BY <1>21 DEF SelfLock
<1>22. ASSUME NEW t \in Mutators, SelfRequest(t) PROVE Words(Pcs)'
  BY <1>22 DEF SelfRequest, RequestBlock
<1>23. ASSUME NEW t \in Mutators, SelfUnlock(t) PROVE Words(Pcs)'
  BY <1>23 DEF SelfUnlock
<1>24. ASSUME NEW t \in Mutators, CallTerminate(t) PROVE Words(Pcs)'
  BY <1>24 DEF CallTerminate
<1>25. ASSUME NEW t \in Mutators, TerminateLock(t) PROVE Words(Pcs)'
  BY <1>25 DEF TerminateLock
<1>26. ASSUME NEW t \in Mutators, TerminateMark(t) PROVE Words(Pcs)'
  <2>1. enabled' \in [Mutators -> Int]
    BY <1>26 DEF TerminateMark
  <2> QED
    BY <1>26, <2>1 DEF TerminateMark
<1>27. ASSUME NEW t \in Mutators, TerminateRemove(t) PROVE Words(Pcs)'
  BY <1>27 DEF TerminateRemove, TerminateUnlock
<1>28. ASSUME NEW t \in Mutators, RetainVisit(t) PROVE Words(Pcs)'
  BY <1>28 DEF RetainVisit
<1>29. ASSUME NEW t \in Mutators, SyncVisit(t) PROVE Words(Pcs)'
  BY <1>29 DEF SyncVisit
<1>30. ASSUME NEW t \in Mutators, UnblockLock(t) PROVE Words(Pcs)'
  BY <1>30 DEF UnblockLock
<1>31. ASSUME StopAllMutators PROVE Words(Pcs)'
  BY <1>31 DEF StopAllMutators
<1>32. ASSUME Snapshot PROVE Words(Pcs)'
  BY <1>32 DEF Snapshot, ActiveThreads
<1>33. ASSUME RetainForget PROVE Words(Pcs)'
  BY <1>33 DEF RetainForget, CoordinatorInv
<1>34. ASSUME RetainBlock PROVE Words(Pcs)'
  BY <1>34 DEF RetainBlock, CoordinatorInv
<1>35. ASSUME RetainDone PROVE Words(Pcs)'
  BY <1>35 DEF RetainDone
<1>36. ASSUME WorldIsStopped PROVE Words(Pcs)'
  BY <1>36 DEF WorldIsStopped
<1>37. ASSUME SyncDone PROVE Words(Pcs)'
  BY <1>37 DEF SyncDone
<1>38. ASSUME BlockRequest PROVE Words(Pcs)'
  BY <1>38 DEF BlockRequest, RequestBlock, CoordinatorInv
<1>39. ASSUME BlockTerminated PROVE Words(Pcs)'
  BY <1>39 DEF BlockTerminated
<1>40. ASSUME BlockRunningAsync PROVE Words(Pcs)'
  <2>1. cur \in Mutators
    BY <1>40 DEF BlockRunningAsync, BlockExecStatus, CoordinatorInv
  <2>2. "RunningToBlock" \in States /\ "BlockedInParked" \in States
    OBVIOUS
  <2> QED
    BY <1>40, <2>1, <2>2 DEF BlockRunningAsync, BlockExecStatus
<1>41. ASSUME BlockRunningSync PROVE Words(Pcs)'
  <2>1. cur \in Mutators
    BY <1>41 DEF BlockRunningSync, BlockExecStatus, CoordinatorInv
  <2>2. "RunningToBlock" \in States /\ "BlockedInParked" \in States
    OBVIOUS
  <2> QED
    BY <1>41, <2>1, <2>2 DEF BlockRunningSync, BlockExecStatus
<1>42. ASSUME BlockParked PROVE Words(Pcs)'
  <2>1. cur \in Mutators
    BY <1>42 DEF BlockParked, BlockExecStatus, CoordinatorInv
  <2>2. "RunningToBlock" \in States /\ "BlockedInParked" \in States
    OBVIOUS
  <2> QED
    BY <1>42, <2>1, <2>2 DEF BlockParked, BlockExecStatus
<1>43. ASSUME BlockOwn PROVE Words(Pcs)'
  BY <1>43 DEF BlockOwn
<1>44. ASSUME BlockMustWait PROVE Words(Pcs)'
  BY <1>44 DEF BlockMustWait, CoordinatorInv
<1>45. ASSUME BlockDone PROVE Words(Pcs)'
  BY <1>45 DEF BlockDone, CoordinatorInv
<1>46. ASSUME BlockWait PROVE Words(Pcs)'
  <2> USE <1>46 DEF BlockWait, Sleep, CoordinatorInv
  <2>1. monitor[cur].rec \in 0..(RecLimit - 1) /\ Released \in MonitorType(Procs)
    BY DEF Released
  <2>2. saved' \in [Procs -> 0..(RecLimit - 1)]
    BY <2>1
  <2> QED
    BY <2>1, <2>2
<1>47. ASSUME BlockWake PROVE Words(Pcs)'
  <2> USE <1>47 DEF BlockWake, Wake, CoordinatorInv
  <2>1. saved[GC] \in 0..(RecLimit - 1) /\ 0 \in 0..(RecLimit - 1)
    OBVIOUS
  <2>2. monitor' \in [Mutators -> MonitorType(Procs)]
    BY <2>1
  <2>3. saved' \in [Procs -> 0..(RecLimit - 1)]
    BY <2>1
  <2> QED
    BY <2>2, <2>3
<1>48. ASSUME ResumeMutators PROVE Words(Pcs)'
  BY <1>48 DEF ResumeMutators, ActiveThreads
<1>49. ASSUME Unblock PROVE Words(Pcs)'
  BY <1>49 DEF Unblock
<1>50. ASSUME ResumeDone PROVE Words(Pcs)'
  BY <1>50 DEF ResumeDone
<1> QED
  BY <1>0, <1>1, <1>2, <1>3, <1>4, <1>5, <1>6, <1>7, <1>8, <1>9, <1>10, <1>11,
     <1>12, <1>13, <1>14, <1>15, <1>16, <1>17, <1>18, <1>19, <1>20, <1>21,
     <1>22, <1>23, <1>24, <1>25, <1>26, <1>27, <1>28, <1>29, <1>30, <1>31,
     <1>32, <1>33, <1>34, <1>35, <1>36, <1>37, <1>38, <1>39, <1>40, <1>41,
     <1>42, <1>43, <1>44, <1>45, <1>46, <1>47, <1>48, <1>49, <1>50
  DEF Next, MutatorStep, Choose, Proceed, Coordinator

(* What a thread knows of itself, and whom the coordinator works on. *)
LEMMA PlaceStep ==
  ASSUME NEW Pcs, Words(Pcs), CoordinatorInv, \A t \in Mutators : PlaceInv(t),
         [Next]_vars
  PROVE  CoordinatorInv' /\ \A t \in Mutators : PlaceInv(t)'
<1> DEFINE Known == CoordinatorInv /\ \A t \in Mutators : PlaceInv(t)
<1> USE HandshakeAssumption
    DEF HandshakeAssumption, Words, At, GCAt, PlaceInv, CoordinatorInv, CheckPcs,
        GonePcs, tlsVars, gcVars
<1>0. CASE UNCHANGED vars
  BY <1>0 DEF vars
<1>1. ASSUME NEW t \in Mutators, Choose(t) PROVE Known'
  BY <1>1 DEF Choose, DisableYieldpoints, CallEnterParked, UnparkFast,
     LeaveParked, PollForGC, CallTerminate
<1>2. ASSUME NEW t \in Mutators, TakeYieldpoint(t) \/ EnableYieldpoints(t)
      PROVE  Known'
  BY <1>2 DEF TakeYieldpoint, EnableYieldpoints
<1>3. ASSUME NEW t \in Mutators, Proceed(t) PROVE Known'
  <2>1. CASE DeferYieldpoint(t) \/ YieldpointLock(t) \/ YieldpointTake(t)
             \/ YieldpointUnlock(t)
    BY <2>1 DEF DeferYieldpoint, YieldpointLock, YieldpointTake, YieldpointUnlock
  <2>2. CASE CheckBlockLock(t) \/ CheckBlockAcknowledge(t) \/ CheckBlockTest(t)
             \/ CheckBlockWait(t) \/ CheckBlockWake(t)
    BY <2>2 DEF CheckBlockLock, CheckBlockAcknowledge, CheckBlockTest,
       CheckBlockWait, CheckBlockWake
  <2>3. CASE CheckBlockRun(t)
    BY <2>3 DEF CheckBlockRun
  <2>4. CASE ParkFast(t) \/ ParkLock(t) \/ ParkBlocked(t)
    BY <2>4 DEF ParkFast, ParkLock, ParkBlocked
  <2>5. CASE SelfLock(t) \/ SelfRequest(t) \/ SelfUnlock(t)
    BY <2>5 DEF SelfLock, SelfRequest, SelfUnlock
  <2>6. CASE TerminateLock(t) \/ TerminateMark(t) \/ TerminateRemove(t)
    BY <2>6 DEF TerminateLock, TerminateMark, TerminateRemove, TerminateUnlock
  <2> QED
    BY <1>3, <2>1, <2>2, <2>3, <2>4, <2>5, <2>6 DEF Proceed
<1>4. ASSUME Coordinator PROVE Known'
  <2>1. UNCHANGED <<pc, frame, active, terminating>>
    BY <1>4 DEF Coordinator, StopAllMutators, Snapshot, RetainVisit, SyncVisit,
       UnblockLock, RetainForget, RetainBlock, RetainDone, WorldIsStopped,
       SyncDone, BlockRequest, BlockTerminated, BlockRunningAsync,
       BlockRunningSync, BlockParked, BlockExecStatus, BlockOwn, BlockMustWait,
       BlockDone, BlockWait, BlockWake, ResumeMutators, Unblock, ResumeDone
  <2>2. CoordinatorInv'
    BY <1>4 DEF Coordinator, StopAllMutators, Snapshot, RetainVisit, SyncVisit,
       UnblockLock, RetainForget, RetainBlock, RetainDone, WorldIsStopped,
       SyncDone, BlockRequest, BlockTerminated, BlockRunningAsync,
       BlockRunningSync, BlockParked, BlockReturn, BlockOwn, BlockMustWait,
       BlockDone, BlockWait, BlockWake, ResumeMutators, Unblock, ResumeDone
  <2> QED
    BY <2>1, <2>2
<1> QED
  BY <1>0, <1>1, <1>2, <1>3, <1>4 DEF Next, MutatorStep

(* A request to block reaches its thread, and regions with yieldpoints     *)
(* disabled stay within their bound.                                       *)
LEMMA OwnStep ==
  ASSUME CodeInv, [Next]_vars
  PROVE  \A t \in Mutators :
           /\ EnabledInv(t)' /\ RequestInv(t)'
           /\ (active[t] => t \in threads)'
<1> DEFINE Own == \A t \in Mutators : /\ EnabledInv(t) /\ RequestInv(t)
                                      /\ active[t] => t \in threads
<1> USE HandshakeAssumption
    DEF HandshakeAssumption, CodeInv, Words, At, PlaceInv, EnabledInv,
        RequestInv, CoordinatorInv, CheckPcs, GonePcs, tlsVars, gcVars
<1>0. CASE UNCHANGED vars
  BY <1>0 DEF vars
<1>1. ASSUME NEW t \in Mutators, DeferYieldpoint(t) PROVE Own'
  BY <1>1 DEF DeferYieldpoint, YieldpointsEnabled
<1>2. ASSUME NEW t \in Mutators, TakeYieldpoint(t) PROVE Own'
  BY <1>2 DEF TakeYieldpoint
<1>3. ASSUME NEW t \in Mutators, YieldpointLock(t) PROVE Own'
  BY <1>3 DEF YieldpointLock
<1>4. ASSUME NEW t \in Mutators, YieldpointTake(t) PROVE Own'
  BY <1>4 DEF YieldpointTake
<1>5. ASSUME NEW t \in Mutators, YieldpointUnlock(t) PROVE Own'
  BY <1>5 DEF YieldpointUnlock
<1>6. ASSUME NEW t \in Mutators, EnableYieldpoints(t) PROVE Own'
  BY <1>6, SMTT(20) DEF EnableYieldpoints
<1>7. ASSUME NEW t \in Mutators, DisableYieldpoints(t) PROVE Own'
  BY <1>7 DEF DisableYieldpoints
<1>8. ASSUME NEW t \in Mutators, CheckBlockLock(t) PROVE Own'
  BY <1>8 DEF CheckBlockLock
<1>9. ASSUME NEW t \in Mutators, CheckBlockAcknowledge(t) PROVE Own'
  BY <1>9 DEF CheckBlockAcknowledge, Acknowledge
<1>10. ASSUME NEW t \in Mutators, CheckBlockTest(t) PROVE Own'
  BY <1>10 DEF CheckBlockTest
<1>11. ASSUME NEW t \in Mutators, CheckBlockWait(t) PROVE Own'
  BY <1>11 DEF CheckBlockWait
<1>12. ASSUME NEW t \in Mutators, CheckBlockWake(t) PROVE Own'
  BY <1>12 DEF CheckBlockWake
<1>13. ASSUME NEW t \in Mutators, CheckBlockRun(t) PROVE Own'
  BY <1>13 DEF CheckBlockRun
<1>14. ASSUME NEW t \in Mutators, CallEnterParked(t) PROVE Own'
  BY <1>14 DEF CallEnterParked
<1>15. ASSUME NEW t \in Mutators, ParkFast(t) PROVE Own'
  BY <1>15 DEF ParkFast
<1>16. ASSUME NEW t \in Mutators, ParkLock(t) PROVE Own'
  BY <1>16 DEF ParkLock
<1>17. ASSUME NEW t \in Mutators, ParkBlocked(t) PROVE Own'
  BY <1>17 DEF ParkBlocked, Acknowledge
<1>18. ASSUME NEW t \in Mutators, UnparkFast(t) PROVE Own'
  BY <1>18 DEF UnparkFast
<1>19. ASSUME NEW t \in Mutators, LeaveParked(t) PROVE Own'
  BY <1>19 DEF LeaveParked
<1>20. ASSUME NEW t \in Mutators, PollForGC(t) PROVE Own'
  BY <1>20 DEF PollForGC
<1>21. ASSUME NEW t \in Mutators, SelfLock(t) PROVE Own'
  BY <1>21 DEF SelfLock
<1>22. ASSUME NEW t \in Mutators, SelfRequest(t) PROVE Own'
  BY <1>22 DEF SelfRequest, RequestBlock
<1>23. ASSUME NEW t \in Mutators, SelfUnlock(t) PROVE Own'
  BY <1>23 DEF SelfUnlock
<1>24. ASSUME NEW t \in Mutators, CallTerminate(t) PROVE Own'
  BY <1>24 DEF CallTerminate
<1>25. ASSUME NEW t \in Mutators, TerminateLock(t) PROVE Own'
  BY <1>25 DEF TerminateLock
<1>26. ASSUME NEW t \in Mutators, TerminateMark(t) PROVE Own'
  BY <1>26 DEF TerminateMark
<1>27. ASSUME NEW t \in Mutators, TerminateRemove(t) PROVE Own'
  BY <1>27 DEF TerminateRemove, TerminateUnlock
<1>28. ASSUME NEW t \in Mutators, RetainVisit(t) PROVE Own'
  BY <1>28 DEF RetainVisit
<1>29. ASSUME NEW t \in Mutators, SyncVisit(t) PROVE Own'
  BY <1>29 DEF SyncVisit
<1>30. ASSUME NEW t \in Mutators, UnblockLock(t) PROVE Own'
  BY <1>30 DEF UnblockLock
<1>31. ASSUME StopAllMutators PROVE Own'
  BY <1>31 DEF StopAllMutators
<1>32. ASSUME Snapshot PROVE Own'
  BY <1>32 DEF Snapshot
<1>33. ASSUME RetainForget PROVE Own'
  BY <1>33 DEF RetainForget
<1>34. ASSUME RetainBlock PROVE Own'
  BY <1>34 DEF RetainBlock
<1>35. ASSUME RetainDone PROVE Own'
  BY <1>35 DEF RetainDone
<1>36. ASSUME WorldIsStopped PROVE Own'
  BY <1>36 DEF WorldIsStopped
<1>37. ASSUME SyncDone PROVE Own'
  BY <1>37 DEF SyncDone
<1>38. ASSUME BlockRequest PROVE Own'
  BY <1>38 DEF BlockRequest, RequestBlock
<1>39. ASSUME BlockTerminated PROVE Own'
  BY <1>39 DEF BlockTerminated, BlockReturn
<1>40. ASSUME BlockRunningAsync PROVE Own'
  BY <1>40 DEF BlockRunningAsync, BlockExecStatus, BlockReturn, BlockedStatus, States
<1>41. ASSUME BlockRunningSync PROVE Own'
  BY <1>41 DEF BlockRunningSync, BlockExecStatus, BlockedStatus, States
<1>42. ASSUME BlockParked PROVE Own'
  BY <1>42 DEF BlockParked, BlockExecStatus, BlockedStatus, States
<1>43. ASSUME BlockOwn PROVE Own'
  BY <1>43 DEF BlockOwn, BlockReturn
<1>44. ASSUME BlockMustWait PROVE Own'
  BY <1>44 DEF BlockMustWait
<1>45. ASSUME BlockDone PROVE Own'
  BY <1>45 DEF BlockDone, BlockReturn
<1>46. ASSUME BlockWait PROVE Own'
  BY <1>46 DEF BlockWait
<1>47. ASSUME BlockWake PROVE Own'
  BY <1>47 DEF BlockWake
<1>48. ASSUME ResumeMutators PROVE Own'
  BY <1>48 DEF ResumeMutators
<1>49. ASSUME Unblock PROVE Own'
  BY <1>49 DEF Unblock
<1>50. ASSUME ResumeDone PROVE Own'
  BY <1>50 DEF ResumeDone
<1> QED
  BY <1>0, <1>1, <1>2, <1>3, <1>4, <1>5, <1>6, <1>7, <1>8, <1>9, <1>10, <1>11,
     <1>12, <1>13, <1>14, <1>15, <1>16, <1>17, <1>18, <1>19, <1>20, <1>21,
     <1>22, <1>23, <1>24, <1>25, <1>26, <1>27, <1>28, <1>29, <1>30, <1>31,
     <1>32, <1>33, <1>34, <1>35, <1>36, <1>37, <1>38, <1>39, <1>40, <1>41,
     <1>42, <1>43, <1>44, <1>45, <1>46, <1>47, <1>48, <1>49, <1>50
  DEF Next, MutatorStep, Choose, Proceed, Coordinator

(* A mutator that gets its own monitor finds it free or already its own,   *)
(* so the coordinator is not inside it.                                    *)
LEMMA MutatorLocks ==
  ASSUME NEW Pcs, Common(Pcs), NEW t \in Mutators, Lock(t, t),
         Depth(t) \in {0, 1}, Depth(t)' = Depth(t) + 1,
         \A u \in Mutators \ {t} : Depth(u)' = Depth(u),
         \A u \in Mutators : GCHolds(u)' = GCHolds(u)
  PROVE  \A u \in Mutators : MonitorInv(u)'
<1>1. t \in Procs /\ GC \in Procs /\ t # GC
  BY HandshakeAssumption DEF HandshakeAssumption, Procs
<1>2. ~GCHolds(t)
  <2> SUFFICES ASSUME GCHolds(t) PROVE FALSE
    OBVIOUS
  <2>1. CanLock(Held(GC, 1), t)
    BY DEF Common, MonitorInv, Lock
  <2> QED
    BY <1>1, <2>1, LockedOps
<1>3. monitor' = [monitor EXCEPT ![t] = Held(t, Depth(t) + 1)]
  <2>1. CASE Depth(t) = 0
    <3>1. monitor[t] = FreshMonitor
      BY <1>2, <2>1 DEF Common, MonitorInv
    <3>2. Locked(monitor[t], t) = Held(t, Depth(t) + 1)
      BY <1>1, <2>1, <3>1, LockedOps
    <3> QED
      BY <3>2 DEF Lock
  <2>2. CASE Depth(t) = 1
    <3>1. monitor[t] = Held(t, 1)
      BY <1>2, <2>2 DEF Common, MonitorInv
    <3>2. Locked(monitor[t], t) = Held(t, Depth(t) + 1)
      BY <1>1, <2>2, <3>1, LockedOps
    <3> QED
      BY <3>2 DEF Lock
  <2> QED
    BY <2>1, <2>2
<1>4. MonitorInv(t)'
  BY <1>2, <1>3 DEF Common, Words, MonitorInv
<1>5. ASSUME NEW u \in Mutators \ {t} PROVE MonitorInv(u)'
  <2>1. monitor'[u] = monitor[u] /\ Depth(u)' = Depth(u) /\ GCHolds(u)' = GCHolds(u)
    BY <1>3 DEF Common, Words
  <2> QED
    BY <2>1 DEF Common, MonitorInv
<1> QED
  BY <1>4, <1>5

(* The coordinator only gets the monitor of a thread that is outside it. *)
LEMMA CoordinatorLocks ==
  ASSUME NEW Pcs, Common(Pcs), NEW t \in Mutators, Lock(GC, t),
         \A u \in Mutators : /\ Depth(u)' = Depth(u)
                             /\ ~GCHolds(u)
                             /\ GCHolds(u)' <=> u = t
  PROVE  \A u \in Mutators : MonitorInv(u)'
<1>1. t \in Procs /\ GC \in Procs /\ t # GC
  BY HandshakeAssumption DEF HandshakeAssumption, Procs
<1>2. Depth(t) \in {0, 1, 2}
  BY DEF Depth, OuterDepth
<1>3. Depth(t) = 0
  <2> SUFFICES ASSUME Depth(t) > 0 PROVE FALSE
    BY <1>2
  <2>1. CanLock(Held(t, Depth(t)), GC)
    BY DEF Common, MonitorInv, Lock
  <2> QED
    BY <1>1, <1>2, <2>1, LockedOps
<1>4. monitor' = [monitor EXCEPT ![t] = Held(GC, 1)]
  BY <1>1, <1>3, LockedOps DEF Common, MonitorInv, Lock
<1> QED
  BY <1>3, <1>4 DEF Common, Words, MonitorInv

(* Every monitor is free, or held by its thread or by the coordinator with *)
(* the count that the place in the code stands for.                        *)
LEMMA MonitorStep ==
  ASSUME DropClearsHolder, NEW Pcs, Common(Pcs), [Next]_vars
  PROVE  \A t \in Mutators : MonitorInv(t)'
<1> DEFINE Monitors == \A t \in Mutators : MonitorInv(t)
<1> USE HandshakeAssumption, DroppedOps, WaitOps
    DEF HandshakeAssumption, Common, Words, Procs, At, GCAt, Depth, OuterDepth,
        GCHolds, tlsVars, gcVars
<1>0. CASE UNCHANGED vars
  BY <1>0 DEF vars, MonitorInv
<1>1. ASSUME NEW t \in Mutators, DeferYieldpoint(t) PROVE Monitors'
  BY <1>1 DEF DeferYieldpoint, MonitorInv
<1>2. ASSUME NEW t \in Mutators, TakeYieldpoint(t) PROVE Monitors'
  BY <1>2 DEF TakeYieldpoint, MonitorInv
<1>3. ASSUME NEW t \in Mutators, YieldpointLock(t) PROVE Monitors'
  <2>1. /\ Depth(t) \in {0, 1} /\ Depth(t)' = Depth(t) + 1
        /\ \A u \in Mutators \ {t} : Depth(u)' = Depth(u)
        /\ \A u \in Mutators : GCHolds(u)' = GCHolds(u)
    BY <1>3 DEF YieldpointLock
  <2> HIDE DEF Depth, GCHolds
  <2> QED
    BY <1>3, <2>1, MutatorLocks DEF YieldpointLock
<1>4. ASSUME NEW t \in Mutators, YieldpointTake(t) PROVE Monitors'
  BY <1>4 DEF YieldpointTake, MonitorInv
<1>5. ASSUME NEW t \in Mutators, YieldpointUnlock(t) PROVE Monitors'
  BY <1>5 DEF YieldpointUnlock, Drop, MonitorInv
<1>6. ASSUME NEW t \in Mutators, EnableYieldpoints(t) PROVE Monitors'
  BY <1>6 DEF EnableYieldpoints, MonitorInv
<1>7. ASSUME NEW t \in Mutators, DisableYieldpoints(t) PROVE Monitors'
  BY <1>7 DEF DisableYieldpoints, MonitorInv
<1>8. ASSUME NEW t \in Mutators, CheckBlockLock(t) PROVE Monitors'
  <2>1. /\ Depth(t) \in {0, 1} /\ Depth(t)' = Depth(t) + 1
        /\ \A u \in Mutators \ {t} : Depth(u)' = Depth(u)
        /\ \A u \in Mutators : GCHolds(u)' = GCHolds(u)
    BY <1>8 DEF CheckBlockLock
  <2> HIDE DEF Depth, GCHolds
  <2> QED
    BY <1>8, <2>1, MutatorLocks DEF CheckBlockLock
<1>9. ASSUME NEW t \in Mutators, CheckBlockAcknowledge(t) PROVE Monitors'
  BY <1>9 DEF CheckBlockAcknowledge, MonitorInv
<1>10. ASSUME NEW t \in Mutators, CheckBlockTest(t) PROVE Monitors'
  BY <1>10 DEF CheckBlockTest, MonitorInv
<1>11. ASSUME NEW t \in Mutators, CheckBlockWait(t) PROVE Monitors'
  BY <1>11 DEF CheckBlockWait, Sleep, MonitorInv
<1>12. ASSUME NEW t \in Mutators, CheckBlockWake(t) PROVE Monitors'
  <2>1. /\ monitor' = [monitor EXCEPT ![t] = Held(t, OuterDepth(t) + 1)]
        /\ monitor[t] # Held(GC, 1)
    <3>1. saved[t] = OuterDepth(t) + 1 /\ OuterDepth(t) + 1 \in Nat
      BY <1>12 DEF CheckBlockWake, SavedInv
    <3>2. ~CanRelock(Held(GC, 1)) /\ CanRelock(monitor[t])
      BY <1>12, WaitOps DEF CheckBlockWake, Wake
    <3> HIDE DEF OuterDepth
    <3> QED
      BY <1>12, <3>1, <3>2, WaitOps DEF CheckBlockWake, Wake
  <2>2. ~GCHolds(t)
    BY <2>1 DEF MonitorInv
  <2>3. MonitorInv(t)'
    BY <1>12, <2>1, <2>2 DEF CheckBlockWake, PlaceInv, CheckPcs, MonitorInv
  <2>4. ASSUME NEW u \in Mutators \ {t} PROVE MonitorInv(u)'
    BY <1>12, <2>1 DEF CheckBlockWake, MonitorInv
  <2> QED
    BY <2>3, <2>4
<1>13. ASSUME NEW t \in Mutators, CheckBlockRun(t) PROVE Monitors'
  BY <1>13 DEF CheckBlockRun, Drop, PlaceInv, CheckPcs, MonitorInv
<1>14. ASSUME NEW t \in Mutators, CallEnterParked(t) PROVE Monitors'
  BY <1>14 DEF CallEnterParked, MonitorInv
<1>15. ASSUME NEW t \in Mutators, ParkFast(t) PROVE Monitors'
  BY <1>15 DEF ParkFast, MonitorInv
<1>16. ASSUME NEW t \in Mutators, ParkLock(t) PROVE Monitors'
  <2>1. /\ Depth(t) \in {0, 1} /\ Depth(t)' = Depth(t) + 1
        /\ \A u \in Mutators \ {t} : Depth(u)' = Depth(u)
        /\ \A u \in Mutators : GCHolds(u)' = GCHolds(u)
    BY <1>16 DEF ParkLock
  <2> HIDE DEF Depth, GCHolds
  <2> QED
    BY <1>16, <2>1, MutatorLocks DEF ParkLock
<1>17. ASSUME NEW t \in Mutators, ParkBlocked(t) PROVE Monitors'
  BY <1>17 DEF ParkBlocked, Drop, MonitorInv
<1>18. ASSUME NEW t \in Mutators, UnparkFast(t) PROVE Monitors'
  BY <1>18 DEF UnparkFast, MonitorInv
<1>19. ASSUME NEW t \in Mutators, LeaveParked(t) PROVE Monitors'
  BY <1>19 DEF LeaveParked, MonitorInv
<1>20. ASSUME NEW t \in Mutators, PollForGC(t) PROVE Monitors'
  BY <1>20 DEF PollForGC, MonitorInv
<1>21. ASSUME NEW t \in Mutators, SelfLock(t) PROVE Monitors'
  <2>1. /\ Depth(t) \in {0, 1} /\ Depth(t)' = Depth(t) + 1
        /\ \A u \in Mutators \ {t} : Depth(u)' = Depth(u)
        /\ \A u \in Mutators : GCHolds(u)' = GCHolds(u)
    BY <1>21 DEF SelfLock
  <2> HIDE DEF Depth, GCHolds
  <2> QED
    BY <1>21, <2>1, MutatorLocks DEF SelfLock
<1>22. ASSUME NEW t \in Mutators, SelfRequest(t) PROVE Monitors'
  BY <1>22 DEF SelfRequest, MonitorInv
<1>23. ASSUME NEW t \in Mutators, SelfUnlock(t) PROVE Monitors'
  BY <1>23 DEF SelfUnlock, Drop, MonitorInv
<1>24. ASSUME NEW t \in Mutators, CallTerminate(t) PROVE Monitors'
  BY <1>24 DEF CallTerminate, MonitorInv
<1>25. ASSUME NEW t \in Mutators, TerminateLock(t) PROVE Monitors'
  <2>1. /\ Depth(t) \in {0, 1} /\ Depth(t)' = Depth(t) + 1
        /\ \A u \in Mutators \ {t} : Depth(u)' = Depth(u)
        /\ \A u \in Mutators : GCHolds(u)' = GCHolds(u)
    BY <1>25 DEF TerminateLock
  <2> HIDE DEF Depth, GCHolds
  <2> QED
    BY <1>25, <2>1, MutatorLocks DEF TerminateLock
<1>26. ASSUME NEW t \in Mutators, TerminateMark(t) PROVE Monitors'
  BY <1>26 DEF TerminateMark, MonitorInv
<1>27. ASSUME NEW t \in Mutators, TerminateRemove(t) PROVE Monitors'
  BY <1>27 DEF TerminateRemove, TerminateUnlock, Drop, MonitorInv
<1>28. ASSUME NEW t \in Mutators, RetainVisit(t) PROVE Monitors'
  <2>1. \A u \in Mutators : /\ Depth(u)' = Depth(u)
                            /\ ~GCHolds(u)
                            /\ GCHolds(u)' <=> u = t
    BY <1>28 DEF RetainVisit
  <2> HIDE DEF Depth, GCHolds
  <2> QED
    BY <1>28, <2>1, CoordinatorLocks DEF RetainVisit
<1>29. ASSUME NEW t \in Mutators, SyncVisit(t) PROVE Monitors'
  <2>1. \A u \in Mutators : /\ Depth(u)' = Depth(u)
                            /\ ~GCHolds(u)
                            /\ GCHolds(u)' <=> u = t
    BY <1>29 DEF SyncVisit
  <2> HIDE DEF Depth, GCHolds
  <2> QED
    BY <1>29, <2>1, CoordinatorLocks DEF SyncVisit
<1>30. ASSUME NEW t \in Mutators, UnblockLock(t) PROVE Monitors'
  <2>1. \A u \in Mutators : /\ Depth(u)' = Depth(u)
                            /\ ~GCHolds(u)
                            /\ GCHolds(u)' <=> u = t
    BY <1>30 DEF UnblockLock
  <2> HIDE DEF Depth, GCHolds
  <2> QED
    BY <1>30, <2>1, CoordinatorLocks DEF UnblockLock
<1>31. ASSUME StopAllMutators PROVE Monitors'
  BY <1>31 DEF StopAllMutators, MonitorInv
<1>32. ASSUME Snapshot PROVE Monitors'
  BY <1>32 DEF Snapshot, MonitorInv
<1>33. ASSUME RetainForget PROVE Monitors'
  BY <1>33 DEF RetainForget, Drop, CoordinatorInv, MonitorInv
<1>34. ASSUME RetainBlock PROVE Monitors'
  BY <1>34 DEF RetainBlock, MonitorInv
<1>35. ASSUME RetainDone PROVE Monitors'
  BY <1>35 DEF RetainDone, MonitorInv
<1>36. ASSUME WorldIsStopped PROVE Monitors'
  BY <1>36 DEF WorldIsStopped, MonitorInv
<1>37. ASSUME SyncDone PROVE Monitors'
  BY <1>37 DEF SyncDone, MonitorInv
<1>38. ASSUME BlockRequest PROVE Monitors'
  BY <1>38 DEF BlockRequest, MonitorInv
<1>39. ASSUME BlockTerminated PROVE Monitors'
  BY <1>39 DEF BlockTerminated, BlockReturn, Drop, CoordinatorInv, MonitorInv
<1>40. ASSUME BlockRunningAsync PROVE Monitors'
  BY <1>40 DEF BlockRunningAsync, BlockExecStatus, BlockReturn, Drop,
     CoordinatorInv, MonitorInv
<1>41. ASSUME BlockRunningSync PROVE Monitors'
  BY <1>41 DEF BlockRunningSync, BlockExecStatus, BlockReturn, Drop,
     CoordinatorInv, MonitorInv
<1>42. ASSUME BlockParked PROVE Monitors'
  BY <1>42 DEF BlockParked, BlockExecStatus, BlockReturn, Drop, CoordinatorInv,
     MonitorInv
<1>43. ASSUME BlockOwn PROVE Monitors'
  BY <1>43 DEF BlockOwn, BlockReturn, Drop, CoordinatorInv, MonitorInv
<1>44. ASSUME BlockMustWait PROVE Monitors'
  BY <1>44 DEF BlockMustWait, MonitorInv
<1>45. ASSUME BlockDone PROVE Monitors'
  BY <1>45 DEF BlockDone, BlockReturn, Drop, CoordinatorInv, MonitorInv
<1>46. ASSUME BlockWait PROVE Monitors'
  BY <1>46 DEF BlockWait, Sleep, CoordinatorInv, MonitorInv
<1>47. ASSUME BlockWake PROVE Monitors'
  BY <1>47 DEF BlockWake, Wake, CoordinatorInv, SavedInv, MonitorInv
<1>48. ASSUME ResumeMutators PROVE Monitors'
  BY <1>48 DEF ResumeMutators, MonitorInv
<1>49. ASSUME Unblock PROVE Monitors'
  BY <1>49 DEF Unblock, Drop, CoordinatorInv, MonitorInv
<1>50. ASSUME ResumeDone PROVE Monitors'
  BY <1>50 DEF ResumeDone, MonitorInv
<1> QED
  BY <1>0, <1>1, <1>2, <1>3, <1>4, <1>5, <1>6, <1>7, <1>8, <1>9, <1>10, <1>11,
     <1>12, <1>13, <1>14, <1>15, <1>16, <1>17, <1>18, <1>19, <1>20, <1>21,
     <1>22, <1>23, <1>24, <1>25, <1>26, <1>27, <1>28, <1>29, <1>30, <1>31,
     <1>32, <1>33, <1>34, <1>35, <1>36, <1>37, <1>38, <1>39, <1>40, <1>41,
     <1>42, <1>43, <1>44, <1>45, <1>46, <1>47, <1>48, <1>49, <1>50
  DEF Next, MutatorStep, Choose, Proceed, Coordinator

(* What is kept by those who wait, where a blocked thread can be, and what *)
(* block() knows of the thread it works on.                                *)
LEMMA BlockStep ==
  ASSUME NEW Pcs, Common(Pcs), [Next]_vars
  PROVE  /\ SavedInv' /\ BlockLoopInv'
         /\ \A t \in Mutators : BlockInv(t)'
<1> DEFINE Control == /\ SavedInv /\ BlockLoopInv
                      /\ \A t \in Mutators : BlockInv(t)
<1> USE HandshakeAssumption
    DEF HandshakeAssumption, Common, Words, Procs, At, GCAt, MonitorInv, GCHolds,
        Depth, OuterDepth, PlaceInv, SavedInv, BlockInv, CoordinatorInv,
        BlockLoopInv, CheckPcs, SafePcs, GonePcs, tlsVars, gcVars
<1>0. CASE UNCHANGED vars
  BY <1>0 DEF vars
<1>1. ASSUME NEW t \in Mutators, DeferYieldpoint(t) PROVE Control'
  BY <1>1 DEF DeferYieldpoint, YieldpointsEnabled
<1>2. ASSUME NEW t \in Mutators, TakeYieldpoint(t) PROVE Control'
  BY <1>2 DEF TakeYieldpoint
<1>3. ASSUME NEW t \in Mutators, YieldpointLock(t) PROVE Control'
  BY <1>3 DEF YieldpointLock
<1>4. ASSUME NEW t \in Mutators, YieldpointTake(t) PROVE Control'
  BY <1>4 DEF YieldpointTake
<1>5. ASSUME NEW t \in Mutators, YieldpointUnlock(t) PROVE Control'
  BY <1>5 DEF YieldpointUnlock
<1>6. ASSUME NEW t \in Mutators, EnableYieldpoints(t) PROVE Control'
  BY <1>6 DEF EnableYieldpoints
<1>7. ASSUME NEW t \in Mutators, DisableYieldpoints(t) PROVE Control'
  BY <1>7 DEF DisableYieldpoints
<1>8. ASSUME NEW t \in Mutators, CheckBlockLock(t) PROVE Control'
  BY <1>8 DEF CheckBlockLock
<1>9. ASSUME NEW t \in Mutators, CheckBlockAcknowledge(t) PROVE Control'
  BY <1>9 DEF CheckBlockAcknowledge, Acknowledge
<1>10. ASSUME NEW t \in Mutators, CheckBlockTest(t) PROVE Control'
  BY <1>10 DEF CheckBlockTest
<1>11. ASSUME NEW t \in Mutators, CheckBlockWait(t) PROVE Control'
  <2>1. monitor[t].rec = OuterDepth(t) + 1
    <3>1. t \in Procs /\ OuterDepth(t) + 1 \in Nat
      OBVIOUS
    <3>2. monitor[t] = Held(t, OuterDepth(t) + 1)
      BY <1>11 DEF CheckBlockWait
    <3> HIDE DEF OuterDepth
    <3> QED
      BY <3>1, <3>2, WaitOps
  <2>2. saved' = [saved EXCEPT ![t] = OuterDepth(t) + 1]
    BY <1>11, <2>1 DEF CheckBlockWait, Sleep
  <2> QED
    BY <1>11, <2>2 DEF CheckBlockWait
<1>12. ASSUME NEW t \in Mutators, CheckBlockWake(t) PROVE Control'
  BY <1>12 DEF CheckBlockWake, Wake
<1>13. ASSUME NEW t \in Mutators, CheckBlockRun(t) PROVE Control'
  BY <1>13 DEF CheckBlockRun
<1>14. ASSUME NEW t \in Mutators, CallEnterParked(t) PROVE Control'
  BY <1>14 DEF CallEnterParked
<1>15. ASSUME NEW t \in Mutators, ParkFast(t) PROVE Control'
  BY <1>15 DEF ParkFast
<1>16. ASSUME NEW t \in Mutators, ParkLock(t) PROVE Control'
  BY <1>16 DEF ParkLock
<1>17. ASSUME NEW t \in Mutators, ParkBlocked(t) PROVE Control'
  BY <1>17 DEF ParkBlocked, Acknowledge
<1>18. ASSUME NEW t \in Mutators, UnparkFast(t) PROVE Control'
  BY <1>18 DEF UnparkFast
<1>19. ASSUME NEW t \in Mutators, LeaveParked(t) PROVE Control'
  BY <1>19 DEF LeaveParked
<1>20. ASSUME NEW t \in Mutators, PollForGC(t) PROVE Control'
  BY <1>20 DEF PollForGC
<1>21. ASSUME NEW t \in Mutators, SelfLock(t) PROVE Control'
  BY <1>21 DEF SelfLock
<1>22. ASSUME NEW t \in Mutators, SelfRequest(t) PROVE Control'
  BY <1>22 DEF SelfRequest, RequestBlock
<1>23. ASSUME NEW t \in Mutators, SelfUnlock(t) PROVE Control'
  BY <1>23 DEF SelfUnlock
<1>24. ASSUME NEW t \in Mutators, CallTerminate(t) PROVE Control'
  BY <1>24 DEF CallTerminate
<1>25. ASSUME NEW t \in Mutators, TerminateLock(t) PROVE Control'
  BY <1>25 DEF TerminateLock
<1>26. ASSUME NEW t \in Mutators, TerminateMark(t) PROVE Control'
  BY <1>26 DEF TerminateMark
<1>27. ASSUME NEW t \in Mutators, TerminateRemove(t) PROVE Control'
  BY <1>27 DEF TerminateRemove, TerminateUnlock
<1>28. ASSUME NEW t \in Mutators, RetainVisit(t) PROVE Control'
  BY <1>28 DEF RetainVisit
<1>29. ASSUME NEW t \in Mutators, SyncVisit(t) PROVE Control'
  BY <1>29 DEF SyncVisit
<1>30. ASSUME NEW t \in Mutators, UnblockLock(t) PROVE Control'
  BY <1>30 DEF UnblockLock
<1>31. ASSUME StopAllMutators PROVE Control'
  BY <1>31 DEF StopAllMutators
<1>32. ASSUME Snapshot PROVE Control'
  BY <1>32 DEF Snapshot
<1>33. ASSUME RetainForget PROVE Control'
  BY <1>33 DEF RetainForget
<1>34. ASSUME RetainBlock PROVE Control'
  BY <1>34 DEF RetainBlock
<1>35. ASSUME RetainDone PROVE Control'
  BY <1>35 DEF RetainDone
<1>36. ASSUME WorldIsStopped PROVE Control'
  BY <1>36 DEF WorldIsStopped
<1>37. ASSUME SyncDone PROVE Control'
  BY <1>37 DEF SyncDone
<1>38. ASSUME BlockRequest PROVE Control'
  BY <1>38 DEF BlockRequest, RequestBlock
<1>39. ASSUME BlockTerminated PROVE Control'
  BY <1>39 DEF BlockTerminated, BlockReturn
<1>40. ASSUME BlockRunningAsync PROVE Control'
  BY <1>40 DEF BlockRunningAsync, BlockExecStatus, BlockReturn, BlockedStatus, States
<1>41. ASSUME BlockRunningSync PROVE Control'
  BY <1>41 DEF BlockRunningSync, BlockExecStatus, BlockedStatus, States
<1>42. ASSUME BlockParked PROVE Control'
  BY <1>42 DEF BlockParked, BlockExecStatus, BlockedStatus, States
<1>43. ASSUME BlockOwn PROVE Control'
  BY <1>43 DEF BlockOwn, BlockReturn
<1>44. ASSUME BlockMustWait PROVE Control'
  BY <1>44 DEF BlockMustWait
<1>45. ASSUME BlockDone PROVE Control'
  BY <1>45 DEF BlockDone, BlockReturn
<1>46. ASSUME BlockWait PROVE Control'
  <2>1. monitor[cur].rec = 1
    <3>1. GC \in Procs /\ monitor[cur] = Held(GC, 1)
      BY <1>46 DEF BlockWait
    <3> HIDE DEF Common
    <3> QED
      BY <3>1, WaitOps
  <2>2. saved' = [saved EXCEPT ![GC] = 1]
    BY <1>46, <2>1 DEF BlockWait, Sleep
  <2> QED
    BY <1>46, <2>2 DEF BlockWait
<1>47. ASSUME BlockWake PROVE Control'
  BY <1>47 DEF BlockWake, Wake
<1>48. ASSUME ResumeMutators PROVE Control'
  BY <1>48 DEF ResumeMutators
<1>49. ASSUME Unblock PROVE Control'
  BY <1>49 DEF Unblock
<1>50. ASSUME ResumeDone PROVE Control'
  BY <1>50 DEF ResumeDone
<1> QED
  BY <1>0, <1>1, <1>2, <1>3, <1>4, <1>5, <1>6, <1>7, <1>8, <1>9, <1>10, <1>11,
     <1>12, <1>13, <1>14, <1>15, <1>16, <1>17, <1>18, <1>19, <1>20, <1>21,
     <1>22, <1>23, <1>24, <1>25, <1>26, <1>27, <1>28, <1>29, <1>30, <1>31,
     <1>32, <1>33, <1>34, <1>35, <1>36, <1>37, <1>38, <1>39, <1>40, <1>41,
     <1>42, <1>43, <1>44, <1>45, <1>46, <1>47, <1>48, <1>49, <1>50
  DEF Next, MutatorStep, Choose, Proceed, Coordinator

(* What the coordinator has achieved with the threads it knows of.  A      *)
(* snapshot takes new ones from the registry; otherwise the set can only   *)
(* shrink.                                                                 *)
LEMMA KnownStep ==
  ASSUME NEW Pcs, Common(Pcs), [Next]_vars,
         NEW L \in SUBSET Mutators, KnownInv(L), NEW K \in SUBSET Mutators,
         \A t \in K : t \in L \/ (Snapshot /\ t \in ActiveThreads)
  PROVE  KnownInv(K)'
<1> USE HandshakeAssumption
    DEF HandshakeAssumption, Common, Words, At, GCAt, MonitorInv, GCHolds, Depth,
        OuterDepth, PlaceInv, BlockInv, CoordinatorInv, BlockLoopInv, KnownInv,
        Retaining, Resumable, CheckPcs, SafePcs, GonePcs, tlsVars, gcVars
<1>s. CASE Snapshot
  BY <1>s DEF Snapshot, ActiveThreads
<1>k. CASE K \subseteq L
  <2> USE <1>k
  <2>0. CASE UNCHANGED vars
    BY <2>0 DEF vars
  <2>1. ASSUME NEW t \in Mutators, DeferYieldpoint(t) PROVE KnownInv(K)'
    BY <2>1 DEF DeferYieldpoint, YieldpointsEnabled
  <2>2. ASSUME NEW t \in Mutators, TakeYieldpoint(t) PROVE KnownInv(K)'
    BY <2>2 DEF TakeYieldpoint
  <2>3. ASSUME NEW t \in Mutators, YieldpointLock(t) PROVE KnownInv(K)'
    BY <2>3 DEF YieldpointLock
  <2>4. ASSUME NEW t \in Mutators, YieldpointTake(t) PROVE KnownInv(K)'
    BY <2>4 DEF YieldpointTake
  <2>5. ASSUME NEW t \in Mutators, YieldpointUnlock(t) PROVE KnownInv(K)'
    BY <2>5 DEF YieldpointUnlock
  <2>6. ASSUME NEW t \in Mutators, EnableYieldpoints(t) PROVE KnownInv(K)'
    BY <2>6 DEF EnableYieldpoints
  <2>7. ASSUME NEW t \in Mutators, DisableYieldpoints(t) PROVE KnownInv(K)'
    BY <2>7 DEF DisableYieldpoints
  <2>8. ASSUME NEW t \in Mutators, CheckBlockLock(t) PROVE KnownInv(K)'
    BY <2>8 DEF CheckBlockLock
  <2>9. ASSUME NEW t \in Mutators, CheckBlockAcknowledge(t) PROVE KnownInv(K)'
    BY <2>9 DEF CheckBlockAcknowledge, Acknowledge
  <2>10. ASSUME NEW t \in Mutators, CheckBlockTest(t) PROVE KnownInv(K)'
    BY <2>10 DEF CheckBlockTest
  <2>11. ASSUME NEW t \in Mutators, CheckBlockWait(t) PROVE KnownInv(K)'
    BY <2>11 DEF CheckBlockWait
  <2>12. ASSUME NEW t \in Mutators, CheckBlockWake(t) PROVE KnownInv(K)'
    BY <2>12 DEF CheckBlockWake
  <2>13. ASSUME NEW t \in Mutators, CheckBlockRun(t) PROVE KnownInv(K)'
    BY <2>13 DEF CheckBlockRun
  <2>14. ASSUME NEW t \in Mutators, CallEnterParked(t) PROVE KnownInv(K)'
    BY <2>14 DEF CallEnterParked
  <2>15. ASSUME NEW t \in Mutators, ParkFast(t) PROVE KnownInv(K)'
    BY <2>15 DEF ParkFast
  <2>16. ASSUME NEW t \in Mutators, ParkLock(t) PROVE KnownInv(K)'
    BY <2>16 DEF ParkLock
  <2>17. ASSUME NEW t \in Mutators, ParkBlocked(t) PROVE KnownInv(K)'
    BY <2>17 DEF ParkBlocked, Acknowledge
  <2>18. ASSUME NEW t \in Mutators, UnparkFast(t) PROVE KnownInv(K)'
    BY <2>18 DEF UnparkFast
  <2>19. ASSUME NEW t \in Mutators, LeaveParked(t) PROVE KnownInv(K)'
    BY <2>19 DEF LeaveParked
  <2>20. ASSUME NEW t \in Mutators, PollForGC(t) PROVE KnownInv(K)'
    BY <2>20 DEF PollForGC
  <2>21. ASSUME NEW t \in Mutators, SelfLock(t) PROVE KnownInv(K)'
    BY <2>21 DEF SelfLock
  <2>22. ASSUME NEW t \in Mutators, SelfRequest(t) PROVE KnownInv(K)'
    BY <2>22 DEF SelfRequest, RequestBlock
  <2>23. ASSUME NEW t \in Mutators, SelfUnlock(t) PROVE KnownInv(K)'
    BY <2>23 DEF SelfUnlock
  <2>24. ASSUME NEW t \in Mutators, CallTerminate(t) PROVE KnownInv(K)'
    BY <2>24 DEF CallTerminate
  <2>25. ASSUME NEW t \in Mutators, TerminateLock(t) PROVE KnownInv(K)'
    BY <2>25 DEF TerminateLock
  <2>26. ASSUME NEW t \in Mutators, TerminateMark(t) PROVE KnownInv(K)'
    BY <2>26 DEF TerminateMark
  <2>27. ASSUME NEW t \in Mutators, TerminateRemove(t) PROVE KnownInv(K)'
    BY <2>27 DEF TerminateRemove, TerminateUnlock
  <2>28. ASSUME NEW t \in Mutators, RetainVisit(t) PROVE KnownInv(K)'
    BY <2>28 DEF RetainVisit
  <2>29. ASSUME NEW t \in Mutators, SyncVisit(t) PROVE KnownInv(K)'
    BY <2>29 DEF SyncVisit
  <2>30. ASSUME NEW t \in Mutators, UnblockLock(t) PROVE KnownInv(K)'
    BY <2>30 DEF UnblockLock
  <2>31. ASSUME StopAllMutators PROVE KnownInv(K)'
    BY <2>31 DEF StopAllMutators
  <2>32. ASSUME Snapshot PROVE KnownInv(K)'
    BY <2>32, <1>s
  <2>33. ASSUME RetainForget PROVE KnownInv(K)'
    BY <2>33 DEF RetainForget
  <2>34. ASSUME RetainBlock PROVE KnownInv(K)'
    BY <2>34 DEF RetainBlock
  <2>35. ASSUME RetainDone PROVE KnownInv(K)'
    BY <2>35 DEF RetainDone
  <2>36. ASSUME WorldIsStopped PROVE KnownInv(K)'
    BY <2>36 DEF WorldIsStopped
  <2>37. ASSUME SyncDone PROVE KnownInv(K)'
    BY <2>37 DEF SyncDone
  <2>38. ASSUME BlockRequest PROVE KnownInv(K)'
    BY <2>38 DEF BlockRequest, RequestBlock
  <2>39. ASSUME BlockTerminated PROVE KnownInv(K)'
    BY <2>39 DEF BlockTerminated, BlockReturn
  <2>40. ASSUME BlockRunningAsync PROVE KnownInv(K)'
    BY <2>40 DEF BlockRunningAsync, BlockExecStatus, BlockReturn, BlockedStatus, States
  <2>41. ASSUME BlockRunningSync PROVE KnownInv(K)'
    BY <2>41 DEF BlockRunningSync, BlockExecStatus, BlockedStatus, States
  <2>42. ASSUME BlockParked PROVE KnownInv(K)'
    BY <2>42 DEF BlockParked, BlockExecStatus, BlockedStatus, States
  <2>43. ASSUME BlockOwn PROVE KnownInv(K)'
    BY <2>43 DEF BlockOwn, BlockReturn
  <2>44. ASSUME BlockMustWait PROVE KnownInv(K)'
    BY <2>44 DEF BlockMustWait
  <2>45. ASSUME BlockDone PROVE KnownInv(K)'
    BY <2>45 DEF BlockDone, BlockReturn
  <2>46. ASSUME BlockWait PROVE KnownInv(K)'
    BY <2>46 DEF BlockWait
  <2>47. ASSUME BlockWake PROVE KnownInv(K)'
    BY <2>47 DEF BlockWake
  <2>48. ASSUME ResumeMutators PROVE KnownInv(K)'
    BY <2>48 DEF ResumeMutators, ActiveThreads
  <2>49. ASSUME Unblock PROVE KnownInv(K)'
    BY <2>49 DEF Unblock
  <2>50. ASSUME ResumeDone PROVE KnownInv(K)'
    BY <2>50 DEF ResumeDone
  <2> QED
    BY <2>0, <2>1, <2>2, <2>3, <2>4, <2>5, <2>6, <2>7, <2>8, <2>9, <2>10, <2>11,
       <2>12, <2>13, <2>14, <2>15, <2>16, <2>17, <2>18, <2>19, <2>20, <2>21,
       <2>22, <2>23, <2>24, <2>25, <2>26, <2>27, <2>28, <2>29, <2>30, <2>31,
       <2>32, <2>33, <2>34, <2>35, <2>36, <2>37, <2>38, <2>39, <2>40, <2>41,
       <2>42, <2>43, <2>44, <2>45, <2>46, <2>47, <2>48, <2>49, <2>50
    DEF Next, MutatorStep, Choose, Proceed, Coordinator
<1> QED
  BY <1>s, <1>k

-------------------------------------------------------------------------------

LEMMA CodeStep ==
  ASSUME CodeInv, [Next]_vars
  PROVE  CodeInv'
<1>1. MutatorPcs \subseteq MutatorPcs /\ Words(MutatorPcs) /\ CoordinatorInv
  BY DEF CodeInv
<1>2. \A t \in Mutators : PlaceInv(t)
  BY DEF CodeInv
<1> QED
  BY <1>1, <1>2, WordsStep, PlaceStep, OwnStep DEF CodeInv

LEMMA CommonStep ==
  ASSUME DropClearsHolder, NEW Pcs, MutatorPcs \subseteq Pcs, Common(Pcs), [Next]_vars
  PROVE  Common(Pcs)'
<1>1. Words(Pcs) /\ CoordinatorInv /\ \A t \in Mutators : PlaceInv(t)
  BY DEF Common
<1>2. Words(Pcs)' /\ CoordinatorInv' /\ \A t \in Mutators : PlaceInv(t)'
  BY <1>1, WordsStep, PlaceStep
<1>3. \A t \in Mutators : MonitorInv(t)'
  BY MonitorStep
<1>4. SavedInv' /\ BlockLoopInv' /\ \A t \in Mutators : BlockInv(t)'
  BY BlockStep
<1> QED
  BY <1>2, <1>3, <1>4 DEF Common

LEMMA CodeInvariant == Spec => []CodeInv
<1>1. Init => CodeInv
  BY InitEstablishes DEF IInv
<1> QED
  BY <1>1, CodeStep, PTL DEF Spec

LEMMA Inductive ==
  ASSUME DropClearsHolder
  PROVE  Spec => []IInv
<1>1. IInv /\ [Next]_vars => IInv'
  <2> SUFFICES ASSUME IInv, [Next]_vars PROVE IInv'
    OBVIOUS
  <2>1. CodeInv /\ Common(MutatorPcs) /\ KnownInv(Mutators)
    BY DEF IInv
  <2>2. CodeInv'
    BY <2>1, CodeStep
  <2>3. Common(MutatorPcs)'
    BY <2>1, CommonStep
  <2>4. KnownInv(Mutators)'
    BY <2>1, KnownStep
  <2> QED
    BY <2>2, <2>3, <2>4 DEF IInv
<1> QED
  BY <1>1, InitEstablishes, PTL DEF Spec

(* threads.rs:614-645: the words of a TLSData keep their types: the state  *)
(* byte is never New or Terminated while a thread can be stopped, and the  *)
(* enabling of yieldpoints stays balanced.  This needs no monitor to work. *)
THEOREM TypeCorrect == Spec => []TypeOK
<1>1. CodeInv => TypeOK
  BY DEF CodeInv, Words, EnabledInv, TypeOK
<1> QED
  BY <1>1, CodeInvariant, PTL

(* threads.rs:456-462: a request to block is never lost, however the       *)
(* lock-free deferral of yieldpoint and enable_yieldpoints races with the  *)
(* coordinator; the argument does not use the monitor either.              *)
THEOREM NotLost == Spec => []RequestNotLost
<1>1. CodeInv => RequestNotLost
  BY DEF CodeInv, RequestInv, RequestNotLost, CheckPcs, GonePcs
<1> QED
  BY <1>1, CodeInvariant, PTL

(* threads.rs:1092-1141: when block_all_mutators_for_gc has returned no    *)
(* mutator executes managed code, however many there are, whatever they    *)
(* were doing and however deep they have disabled yieldpoints.             *)
THEOREM Stopped ==
  ASSUME DropClearsHolder
  PROVE  Spec => []WorldStopped
<1>1. IInv => WorldStopped
  BY DEF IInv, Common, WorldStopped, KnownInv, PlaceInv, BlockInv, Code,
         SafePcs, GonePcs
<1> QED
  BY <1>1, Inductive, PTL

(* threads.rs:1143-1162: unblock_all_mutators_for_gc leaves nobody blocked *)
(* or about to block, unless another collection has been requested.        *)
THEOREM NoOrphan ==
  ASSUME DropClearsHolder
  PROVE  Spec => []NoOrphanBlock
<1>1. IInv => NoOrphanBlock
  BY DEF IInv, KnownInv, Resumable, NoOrphanBlock
<1> QED
  BY <1>1, Inductive, PTL

-------------------------------------------------------------------------------
(* No wake-up is lost.                                                     *)

(* What a thread has tested before it waits is still true when it waits,   *)
(* and while it sleeps: whoever changes it holds the monitor and notifies. *)
WakeInv ==
  /\ gcpc = "b_wait" \/ (gcpc = "b_asleep" /\ GC \in sleepers[cur]) => MustWait(cur)
  /\ \A t \in Mutators : pc[t] = "cb_wait" \/ t \in sleepers[t] => blocked[t]

LEMMA MutatorKeepsWakes ==
  ASSUME NEW Pcs, MutatorPcs \subseteq Pcs, Common(Pcs), WakeInv,
         NEW t \in Mutators, MutatorStep(t)
  PROVE  WakeInv'
<1> DEFINE Quiet == /\ UNCHANGED <<gcpc, cur, sleepers, shouldBlock, blocked, terminating>>
                    /\ pc' \in [Mutators -> Pcs]
                    /\ \A u \in Mutators : pc'[u] = "cb_wait" => pc[u] = "cb_wait"
<1>a. gcpc \in {"b_wait", "b_asleep"} => cur \in Mutators
  BY DEF Common, CoordinatorInv
<1>b. /\ t # GC
      /\ Depth(t) > 0 => ~(gcpc = "b_wait" /\ cur = t)
  BY HandshakeAssumption DEF HandshakeAssumption, Common, MonitorInv, GCHolds
<1>c. /\ UNCHANGED <<gcpc, cur>>
      /\ pc \in [Mutators -> Pcs] /\ sleepers \in [Mutators -> SUBSET Procs]
      /\ shouldBlock \in [Mutators -> BOOLEAN] /\ blocked \in [Mutators -> BOOLEAN]
      /\ terminating \in [Mutators -> BOOLEAN]
  BY DEF Common, Words, MutatorStep, Choose, DisableYieldpoints,
     CallEnterParked, UnparkFast, LeaveParked, PollForGC, CallTerminate, Proceed,
     DeferYieldpoint, YieldpointLock, YieldpointTake, YieldpointUnlock,
     CheckBlockLock, CheckBlockAcknowledge, CheckBlockTest, CheckBlockWait,
     CheckBlockWake, CheckBlockRun, ParkFast, ParkLock, ParkBlocked, SelfLock,
     SelfRequest, SelfUnlock, TerminateLock, TerminateMark, TerminateRemove,
     TerminateUnlock, TakeYieldpoint, EnableYieldpoints, gcVars
<1>1. CASE Quiet
  BY <1>1 DEF WakeInv, MustWait
<1>2. CASE CheckBlockAcknowledge(t)
  <2>1. pc[t] = "cb_ack" /\ Depth(t) > 0
    BY <1>2 DEF CheckBlockAcknowledge, At, Depth, OuterDepth
  <2> QED
    BY <1>2, <2>1, <1>a, <1>b, <1>c
    DEF CheckBlockAcknowledge, Acknowledge, NotifyAll, At, WakeInv, MustWait
<1>3. CASE ParkBlocked(t)
  <2>1. pc[t] = "park_blocked" /\ Depth(t) > 0
    BY <1>3 DEF ParkBlocked, At, Depth
  <2> QED
    BY <1>3, <2>1, <1>a, <1>b, <1>c
    DEF ParkBlocked, Acknowledge, NotifyAll, At, WakeInv, MustWait
<1>4. CASE TerminateMark(t)
  <2>1. pc[t] = "term_mark" /\ Depth(t) > 0
    BY <1>4 DEF TerminateMark, At, Depth
  <2> QED
    BY <1>4, <2>1, <1>a, <1>b, <1>c DEF TerminateMark, NotifyAll, At, WakeInv, MustWait
<1>5. CASE SelfRequest(t)
  BY <1>5, <1>a, <1>c DEF SelfRequest, RequestBlock, At, WakeInv, MustWait
<1>6. CASE CheckBlockTest(t)
  BY <1>6, <1>c DEF CheckBlockTest, At, WakeInv, MustWait, tlsVars
<1>7. CASE CheckBlockWait(t)
  BY <1>7, <1>a, <1>b, <1>c DEF CheckBlockWait, Sleep, At, WakeInv, MustWait
<1>8. CASE Choose(t)
  <2>1. Quiet
    BY <1>8, <1>c DEF Choose, DisableYieldpoints, CallEnterParked, UnparkFast,
       LeaveParked, PollForGC, CallTerminate, At, MutatorPcs, tlsVars
  <2> QED
    BY <2>1, <1>1
<1>9. CASE \/ DeferYieldpoint(t) \/ YieldpointLock(t) \/ YieldpointTake(t)
           \/ YieldpointUnlock(t) \/ TakeYieldpoint(t) \/ EnableYieldpoints(t)
  <2>1. Quiet
    BY <1>9, <1>c DEF DeferYieldpoint, YieldpointLock, YieldpointTake,
       YieldpointUnlock, TakeYieldpoint, EnableYieldpoints, At, MutatorPcs, tlsVars
  <2> QED
    BY <2>1, <1>1
<1>10. CASE \/ CheckBlockLock(t) \/ CheckBlockWake(t) \/ CheckBlockRun(t)
            \/ ParkFast(t) \/ ParkLock(t)
  <2>1. Quiet
    BY <1>10, <1>c DEF CheckBlockLock, CheckBlockWake, CheckBlockRun, ParkFast,
       ParkLock, At, MutatorPcs
  <2> QED
    BY <2>1, <1>1
<1>11. CASE SelfLock(t) \/ SelfUnlock(t) \/ TerminateLock(t) \/ TerminateRemove(t)
  <2>1. Quiet
    BY <1>11, <1>c DEF SelfLock, SelfUnlock, TerminateLock, TerminateRemove,
       TerminateUnlock, At, MutatorPcs
  <2> QED
    BY <2>1, <1>1
<1> HIDE DEF Quiet
<1> QED
  BY <1>2, <1>3, <1>4, <1>5, <1>6, <1>7, <1>8, <1>9, <1>10, <1>11 DEF MutatorStep, Proceed

LEMMA CoordinatorKeepsWakes ==
  ASSUME NEW Pcs, Common(Pcs), WakeInv, Coordinator
  PROVE  WakeInv'
<1> DEFINE Quiet == /\ gcpc' \notin {"b_wait", "b_asleep"}
                    /\ UNCHANGED <<pc, blocked>>
                    /\ \A u \in Mutators : sleepers'[u] \subseteq sleepers[u]
<1> USE DEF GCAt, tlsVars
<1>c. /\ sleepers \in [Mutators -> SUBSET Procs]
      /\ blocked \in [Mutators -> BOOLEAN] /\ shouldBlock \in [Mutators -> BOOLEAN]
  BY DEF Common, Words
<1>1. CASE Quiet
  BY <1>1 DEF WakeInv
<1>2. CASE BlockOwn
  BY <1>2, <1>c DEF BlockOwn, BlockReturn, WakeInv
<1>3. CASE Unblock
  <2>1. cur \in Mutators /\ pc[cur] # "cb_wait"
    BY <1>3 DEF Unblock, Common, CoordinatorInv, MonitorInv, GCHolds, Depth, OuterDepth
  <2> QED
    BY <1>3, <1>c, <2>1 DEF Unblock, NotifyAll, WakeInv
<1>4. CASE BlockMustWait
  BY <1>4 DEF BlockMustWait, WakeInv, MustWait
<1>5. CASE BlockWait
  <2>1. cur \in Mutators /\ \A u \in Mutators : u # GC
    BY <1>5, HandshakeAssumption
    DEF HandshakeAssumption, BlockWait, Common, CoordinatorInv
  <2> QED
    BY <1>5, <1>c, <2>1 DEF BlockWait, Sleep, WakeInv, MustWait
<1>6. CASE BlockRunningAsync \/ BlockRunningSync \/ BlockParked
  <2>1. Quiet
    BY <1>6, <1>c DEF BlockRunningAsync, BlockRunningSync, BlockParked,
       BlockExecStatus, BlockReturn, NotifyAll
  <2> QED
    BY <1>1, <2>1
<1>7. CASE /\ gcpc' \notin {"b_wait", "b_asleep"}
           /\ UNCHANGED <<pc, blocked, sleepers>>
  <2>1. Quiet
    BY <1>7
  <2> QED
    BY <1>1, <2>1
<1>8. \/ BlockOwn \/ Unblock \/ BlockMustWait \/ BlockWait
      \/ BlockRunningAsync \/ BlockRunningSync \/ BlockParked
      \/ /\ gcpc' \notin {"b_wait", "b_asleep"}
         /\ UNCHANGED <<pc, blocked, sleepers>>
  BY DEF Coordinator, StopAllMutators, Snapshot, RetainVisit, SyncVisit,
     UnblockLock, RetainForget, RetainBlock, RetainDone, WorldIsStopped,
     SyncDone, BlockRequest, BlockTerminated, BlockReturn, BlockDone, BlockWake,
     ResumeMutators, ResumeDone
<1> QED
  BY <1>2, <1>3, <1>4, <1>5, <1>6, <1>7, <1>8

LEMMA WakeStep ==
  ASSUME NEW Pcs, MutatorPcs \subseteq Pcs, Common(Pcs), WakeInv, [Next]_vars
  PROVE  WakeInv'
<1>1. ASSUME UNCHANGED vars PROVE WakeInv'
  BY <1>1 DEF vars, tlsVars, gcVars, WakeInv, MustWait
<1>2. ASSUME NEW t \in Mutators, MutatorStep(t) PROVE WakeInv'
  BY <1>2, MutatorKeepsWakes
<1>3. ASSUME Coordinator PROVE WakeInv'
  BY <1>3, CoordinatorKeepsWakes
<1> QED
  BY <1>1, <1>2, <1>3 DEF Next

(* threads.rs:216-276: however many mutators there are, block_sync never   *)
(* sleeps through the acknowledgement or the end of its thread, and        *)
(* check_block never sleeps through unblock.                               *)
THEOREM WakesKept ==
  ASSUME DropClearsHolder
  PROVE  Spec => []NoLostWakeup
<1>1. Init => WakeInv
  BY DEF Init, WakeInv
<1>2. IInv /\ WakeInv /\ [Next]_vars => WakeInv'
  <2>1. IInv => Common(MutatorPcs)
    BY DEF IInv
  <2> QED
    BY <2>1, WakeStep
<1>3. WakeInv => NoLostWakeup
  BY DEF WakeInv, NoLostWakeup
<1> QED
  BY <1>1, <1>2, <1>3, Inductive, PTL DEF Spec

-------------------------------------------------------------------------------
(* The handshake implements StopTheWorld. *)

LEMMA InitMaps == Init => STW!Init
BY DEF Init, STW!Init, World, Code, SafePcs, GonePcs

(* A step that moves one mutator between managed code, safe code and its   *)
(* end is a step of the abstract mutator.                                  *)
LEMMA CodeMoves ==
  ASSUME NEW t \in Mutators, NEW to \in {"managed", "safe", "gone"},
         Code(t)' = to,
         \A u \in Mutators \ {t} : Code(u)' = Code(u)
  PROVE  [u \in Mutators |-> Code(u)]'
           = [[u \in Mutators |-> Code(u)] EXCEPT ![t] = to]
OBVIOUS

LEMMA StepMaps ==
  ASSUME IInv, [Next]_vars
  PROVE  [STW!Next]_(STW!vars)
<1> DEFINE Mapped == [STW!Next]_(STW!vars)
           Same   == World' = World /\ \A u \in Mutators : Code(u)' = Code(u)
<1>0. ASSUME Same PROVE Mapped
  BY <1>0 DEF STW!vars
<1> USE DEF At, GCAt, IInv, Common, Words, World, Code, SafePcs, GonePcs, tlsVars, gcVars
<1>1. ASSUME UNCHANGED vars PROVE Same
  BY <1>1 DEF vars
<1>2. ASSUME NEW t \in Mutators, DeferYieldpoint(t) PROVE Same
  BY <1>2 DEF DeferYieldpoint
<1>3. ASSUME NEW t \in Mutators, TakeYieldpoint(t) PROVE Same
  BY <1>3 DEF TakeYieldpoint
<1>4. ASSUME NEW t \in Mutators, YieldpointLock(t) PROVE Same
  BY <1>4 DEF YieldpointLock
<1>5. ASSUME NEW t \in Mutators, YieldpointTake(t) PROVE Same \/ STW!LeaveManaged(t)
  <2>1. CASE ~take[t]
    BY <1>5, <2>1 DEF YieldpointTake
  <2>2. CASE take[t]
    <3>1. Code(t) = "managed" /\ Code(t)' = "safe"
      BY <1>5, <2>2 DEF YieldpointTake
    <3>2. World' = World /\ \A u \in Mutators \ {t} : Code(u)' = Code(u)
      BY <1>5 DEF YieldpointTake
    <3> HIDE DEF Code, World
    <3> QED
      BY <3>1, <3>2, CodeMoves DEF STW!LeaveManaged
  <2> QED
    BY <2>1, <2>2
<1>6. ASSUME NEW t \in Mutators, YieldpointUnlock(t) PROVE Same
  BY <1>6 DEF YieldpointUnlock
<1>7. ASSUME NEW t \in Mutators, EnableYieldpoints(t) PROVE Same
  BY <1>7 DEF EnableYieldpoints
<1>8. ASSUME NEW t \in Mutators, DisableYieldpoints(t) PROVE Same
  BY <1>8 DEF DisableYieldpoints
<1>9. ASSUME NEW t \in Mutators, CheckBlockLock(t) PROVE Same
  BY <1>9 DEF CheckBlockLock
<1>10. ASSUME NEW t \in Mutators, CheckBlockAcknowledge(t) PROVE Same
  BY <1>10 DEF CheckBlockAcknowledge
<1>11. ASSUME NEW t \in Mutators, CheckBlockTest(t) PROVE Same \/ STW!EnterManaged(t)
  <2>1. CASE blocked[t]
    BY <1>11, <2>1 DEF CheckBlockTest
  <2>2. CASE ~blocked[t]
    <3>1. Code(t) = "safe" /\ Code(t)' = "managed" /\ World # "stopped"
      BY <1>11, <2>2 DEF CheckBlockTest, KnownInv, PlaceInv, BlockInv
    <3>2. World' = World /\ \A u \in Mutators \ {t} : Code(u)' = Code(u)
      BY <1>11 DEF CheckBlockTest
    <3> HIDE DEF Code, World
    <3> QED
      BY <3>1, <3>2, CodeMoves DEF STW!EnterManaged
  <2> QED
    BY <2>1, <2>2
<1>12. ASSUME NEW t \in Mutators, CheckBlockWait(t) PROVE Same
  BY <1>12 DEF CheckBlockWait
<1>13. ASSUME NEW t \in Mutators, CheckBlockWake(t) PROVE Same
  BY <1>13 DEF CheckBlockWake
<1>14. ASSUME NEW t \in Mutators, CheckBlockRun(t) PROVE Same
  BY <1>14 DEF CheckBlockRun, PlaceInv, CheckPcs
<1>15. ASSUME NEW t \in Mutators, CallEnterParked(t) PROVE Same
  BY <1>15 DEF CallEnterParked
<1>16. ASSUME NEW t \in Mutators, ParkFast(t) PROVE STW!LeaveManaged(t)
  <2>1. Code(t) = "managed" /\ Code(t)' = "safe"
    BY <1>16 DEF ParkFast
  <2>2. World' = World /\ \A u \in Mutators \ {t} : Code(u)' = Code(u)
    BY <1>16 DEF ParkFast
  <2> HIDE DEF Code, World
  <2> QED
    BY <2>1, <2>2, CodeMoves DEF STW!LeaveManaged
<1>17. ASSUME NEW t \in Mutators, ParkLock(t) PROVE Same
  BY <1>17 DEF ParkLock
<1>18. ASSUME NEW t \in Mutators, ParkBlocked(t) PROVE STW!LeaveManaged(t)
  <2>1. Code(t) = "managed" /\ Code(t)' = "safe"
    BY <1>18 DEF ParkBlocked
  <2>2. World' = World /\ \A u \in Mutators \ {t} : Code(u)' = Code(u)
    BY <1>18 DEF ParkBlocked
  <2> HIDE DEF Code, World
  <2> QED
    BY <2>1, <2>2, CodeMoves DEF STW!LeaveManaged
<1>19. ASSUME NEW t \in Mutators, UnparkFast(t) PROVE STW!EnterManaged(t)
  <2>1. Code(t) = "safe" /\ Code(t)' = "managed" /\ World # "stopped"
    BY <1>19 DEF UnparkFast, KnownInv, PlaceInv, BlockInv
  <2>2. World' = World /\ \A u \in Mutators \ {t} : Code(u)' = Code(u)
    BY <1>19 DEF UnparkFast
  <2> HIDE DEF Code, World
  <2> QED
    BY <2>1, <2>2, CodeMoves DEF STW!EnterManaged
<1>20. ASSUME NEW t \in Mutators, LeaveParked(t) PROVE Same
  BY <1>20 DEF LeaveParked
<1>21. ASSUME NEW t \in Mutators, PollForGC(t) PROVE Same
  BY <1>21 DEF PollForGC
<1>22. ASSUME NEW t \in Mutators, SelfLock(t) PROVE Same
  BY <1>22 DEF SelfLock
<1>23. ASSUME NEW t \in Mutators, SelfRequest(t) PROVE STW!LeaveManaged(t)
  <2>1. Code(t) = "managed" /\ Code(t)' = "safe"
    BY <1>23 DEF SelfRequest
  <2>2. World' = World /\ \A u \in Mutators \ {t} : Code(u)' = Code(u)
    BY <1>23 DEF SelfRequest
  <2> HIDE DEF Code, World
  <2> QED
    BY <2>1, <2>2, CodeMoves DEF STW!LeaveManaged
<1>24. ASSUME NEW t \in Mutators, SelfUnlock(t) PROVE Same
  BY <1>24 DEF SelfUnlock
<1>25. ASSUME NEW t \in Mutators, CallTerminate(t) PROVE Same
  BY <1>25 DEF CallTerminate
<1>26. ASSUME NEW t \in Mutators, TerminateLock(t) PROVE Same
  BY <1>26 DEF TerminateLock
<1>27. ASSUME NEW t \in Mutators, TerminateMark(t) PROVE STW!Exit(t)
  <2>1. Code(t) = "managed" /\ Code(t)' = "gone"
    BY <1>27 DEF TerminateMark
  <2>2. World' = World /\ \A u \in Mutators \ {t} : Code(u)' = Code(u)
    BY <1>27 DEF TerminateMark
  <2> HIDE DEF Code, World
  <2> QED
    BY <2>1, <2>2, CodeMoves DEF STW!Exit
<1>28. ASSUME NEW t \in Mutators, TerminateRemove(t) PROVE Same
  BY <1>28 DEF TerminateRemove, TerminateUnlock
<1>29. ASSUME NEW t \in Mutators, RetainVisit(t) PROVE Same
  BY <1>29 DEF RetainVisit
<1>30. ASSUME NEW t \in Mutators, SyncVisit(t) PROVE Same
  BY <1>30 DEF SyncVisit
<1>31. ASSUME NEW t \in Mutators, UnblockLock(t) PROVE Same
  BY <1>31 DEF UnblockLock
<1>32. ASSUME StopAllMutators PROVE STW!Request
  BY <1>32 DEF StopAllMutators, STW!Request
<1>33. ASSUME Snapshot PROVE Same
  BY <1>33 DEF Snapshot
<1>34. ASSUME RetainForget PROVE Same
  BY <1>34 DEF RetainForget
<1>35. ASSUME RetainBlock PROVE Same
  BY <1>35 DEF RetainBlock
<1>36. ASSUME RetainDone PROVE Same
  BY <1>36 DEF RetainDone
<1>37. ASSUME WorldIsStopped PROVE STW!Stop
  BY <1>37 DEF WorldIsStopped, STW!Stop, KnownInv, Retaining, BlockInv, PlaceInv
<1>38. ASSUME SyncDone PROVE Same
  BY <1>38 DEF SyncDone
<1>39. ASSUME BlockRequest PROVE Same
  BY <1>39 DEF BlockRequest
<1>40. ASSUME BlockTerminated PROVE Same
  BY <1>40 DEF BlockTerminated, BlockReturn
<1>41. ASSUME BlockRunningAsync PROVE Same
  BY <1>41 DEF BlockRunningAsync, BlockExecStatus, BlockReturn
<1>42. ASSUME BlockRunningSync PROVE Same
  BY <1>42 DEF BlockRunningSync, BlockExecStatus
<1>43. ASSUME BlockParked PROVE Same
  BY <1>43 DEF BlockParked, BlockExecStatus
<1>44. ASSUME BlockOwn PROVE Same
  BY <1>44 DEF BlockOwn, BlockReturn
<1>45. ASSUME BlockMustWait PROVE Same
  BY <1>45 DEF BlockMustWait
<1>46. ASSUME BlockDone PROVE Same
  BY <1>46 DEF BlockDone, BlockReturn
<1>47. ASSUME BlockWait PROVE Same
  BY <1>47 DEF BlockWait
<1>48. ASSUME BlockWake PROVE Same
  BY <1>48 DEF BlockWake
<1>49. ASSUME ResumeMutators PROVE STW!Resume
  BY <1>49 DEF ResumeMutators, STW!Resume
<1>50. ASSUME Unblock PROVE Same
  BY <1>50 DEF Unblock
<1>51. ASSUME ResumeDone PROVE Same
  BY <1>51 DEF ResumeDone
<1> HIDE DEF Code, World
<1> QED
  BY <1>0, <1>1, <1>2, <1>3, <1>4, <1>5, <1>6, <1>7, <1>8, <1>9, <1>10, <1>11,
     <1>12, <1>13, <1>14, <1>15, <1>16, <1>17, <1>18, <1>19, <1>20, <1>21,
     <1>22, <1>23, <1>24, <1>25, <1>26, <1>27, <1>28, <1>29, <1>30, <1>31,
     <1>32, <1>33, <1>34, <1>35, <1>36, <1>37, <1>38, <1>39, <1>40, <1>41,
     <1>42, <1>43, <1>44, <1>45, <1>46, <1>47, <1>48, <1>49, <1>50, <1>51
  DEF Next, MutatorStep, Choose, Proceed, Coordinator,
      STW!Next

(* collection.rs:24-47: stop_all_mutators and resume_mutators keep their   *)
(* promise to the collector: from the step that stops the world to the one *)
(* that resumes it, no mutator starts to execute managed code.             *)
THEOREM Refinement ==
  ASSUME DropClearsHolder
  PROVE  Spec => ImplementsStopTheWorld
<1>1. IInv /\ [Next]_vars => [STW!Next]_(STW!vars)
  BY StepMaps
<1> QED
  BY <1>1, InitMaps, Inductive, PTL DEF Spec, STW!Spec, ImplementsStopTheWorld

===============================================================================
