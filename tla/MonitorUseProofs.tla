---------------------------- MODULE MonitorUseProofs ----------------------------
(***************************************************************************)
(* The monitors of the handshake are recursive mutexes, one per thread.    *)
(*                                                                         *)
(* MonitorProofs shows that the code of a Monitor implements               *)
(* RecursiveMonitor for any threads that use it.  The handshake modules    *)
(* take each of its operations as one step; here those steps, as the       *)
(* mutators and the coordinator take them, are shown to be steps of        *)
(* RecursiveMonitor too, for every thread's monitor.  By the invariant of  *)
(* HandshakeProofs the levels a process has of a monitor are known from    *)
(* the place it is in, so it is enough to follow the places.               *)
(***************************************************************************)
EXTENDS HandshakeProofs

(* The levels that process p has of the monitor of t, and those that it    *)
(* has given up while it waits, by the places of t and of the coordinator. *)
Levels(p, t) ==
  IF p = t THEN Depth(t) ELSE IF p = GC /\ GCHolds(t) THEN 1 ELSE 0

GivenUp(p, t) ==
  IF p = t /\ pc[t] = "cb_asleep" THEN OuterDepth(t) + 1
  ELSE IF p = GC /\ cur = t /\ gcpc = "b_asleep" THEN 1 ELSE 0

LEMMA DepthValues ==
  ASSUME NEW t \in Mutators
  PROVE  Depth(t) \in {0, 1, 2} /\ OuterDepth(t) \in {0, 1}
BY DEF Depth, OuterDepth

LEMMA DepthValuesNext ==
  ASSUME NEW t \in Mutators
  PROVE  Depth(t)' \in {0, 1, 2} /\ OuterDepth(t)' \in {0, 1}
BY DEF Depth, OuterDepth

(* The words of a monitor say what the places say. *)
LEMMA PlacesTell ==
  ASSUME NEW Pcs, Common(Pcs), NEW t \in Mutators, NEW p \in Procs
  PROVE  HeldBy(p, t) = Levels(p, t) /\ KeptBy(p, t) = GivenUp(p, t)
<1>0. /\ t # GC /\ t # NoHolder /\ p # NoHolder /\ t \in Procs
      /\ p \in Mutators \/ p = GC
  BY HandshakeAssumption DEF HandshakeAssumption, Procs
<1>1. HeldBy(p, t) = Levels(p, t)
  <2>1. CASE Depth(t) > 0
    <3>1. monitor[t] = Held(t, Depth(t)) /\ ~GCHolds(t)
      BY <2>1 DEF Common, MonitorInv
    <3>2. monitor[t].holder = t /\ monitor[t].rec = Depth(t)
      BY <3>1 DEF Held
    <3> QED
      BY <1>0, <3>1, <3>2 DEF HeldBy, Levels
  <2>2. CASE GCHolds(t)
    <3>1. monitor[t] = Held(GC, 1) /\ ~(Depth(t) > 0)
      BY <2>2 DEF Common, MonitorInv
    <3>2. monitor[t].holder = GC /\ monitor[t].rec = 1 /\ Depth(t) = 0
      BY <3>1, DepthValues DEF Held
    <3> QED
      BY <1>0, <2>2, <3>2 DEF HeldBy, Levels
  <2>3. CASE Depth(t) = 0 /\ ~GCHolds(t)
    BY <1>0, <2>3 DEF Common, MonitorInv, HeldBy, Levels, FreshMonitor
  <2> QED
    BY <2>1, <2>2, <2>3, DepthValues
<1>2. KeptBy(p, t) = GivenUp(p, t)
  BY <1>0 DEF Common, SavedInv, KeptBy, GivenUp
<1> QED
  BY <1>1, <1>2

(* The same of the state after a step. *)
LEMMA PlacesTellNext ==
  ASSUME NEW Pcs, Common(Pcs)', NEW t \in Mutators, NEW p \in Procs
  PROVE  HeldBy(p, t)' = Levels(p, t)' /\ KeptBy(p, t)' = GivenUp(p, t)'
<1>0. /\ t # GC /\ t # NoHolder /\ p # NoHolder /\ t \in Procs
      /\ p \in Mutators \/ p = GC
  BY HandshakeAssumption DEF HandshakeAssumption, Procs
<1>1. HeldBy(p, t)' = Levels(p, t)'
  <2>1. CASE Depth(t)' > 0
    <3>1. monitor'[t] = Held(t, Depth(t)') /\ ~GCHolds(t)'
      BY <2>1 DEF Common, MonitorInv
    <3>2. monitor'[t].holder = t /\ monitor'[t].rec = Depth(t)'
      BY <3>1 DEF Held
    <3> QED
      BY <1>0, <3>1, <3>2 DEF HeldBy, Levels
  <2>2. CASE GCHolds(t)'
    <3>1. monitor'[t] = Held(GC, 1) /\ ~(Depth(t)' > 0)
      BY <2>2 DEF Common, MonitorInv
    <3>2. monitor'[t].holder = GC /\ monitor'[t].rec = 1 /\ Depth(t)' = 0
      BY <3>1, DepthValuesNext DEF Held
    <3> QED
      BY <1>0, <2>2, <3>2 DEF HeldBy, Levels
  <2>3. CASE Depth(t)' = 0 /\ ~GCHolds(t)'
    BY <1>0, <2>3 DEF Common, MonitorInv, HeldBy, Levels, FreshMonitor
  <2> QED
    BY <2>1, <2>2, <2>3, DepthValuesNext
<1>2. KeptBy(p, t)' = GivenUp(p, t)'
  BY <1>0 DEF Common, SavedInv, KeptBy, GivenUp
<1> QED
  BY <1>1, <1>2

-------------------------------------------------------------------------------
(* The operations of RecursiveMonitor, by what they do to the levels. *)

(* Both states of the step satisfy the invariant. *)
Around(Pcs) == Common(Pcs) /\ Common(Pcs)'

(* What a step does to one monitor is a step of RecursiveMonitor. *)
Allowed(t) == [Mon(t)!Next]_(Mon(t)!vars)

Same(t) ==
  \A p \in Procs : Levels(p, t)' = Levels(p, t) /\ GivenUp(p, t)' = GivenUp(p, t)

(* Only the levels of p change. *)
Only(p, t) ==
  \A q \in Procs \ {p} : Levels(q, t)' = Levels(q, t) /\ GivenUp(q, t)' = GivenUp(q, t)

(* What a step of p on the monitor of t amounts to.  Whoever has levels    *)
(* after the step is the only one, which is why p may take them.           *)
Acquires(p, t) ==
  /\ Only(p, t) /\ UNCHANGED sleepers
  /\ Levels(p, t)' = Levels(p, t) + 1
  /\ GivenUp(p, t) = 0 /\ GivenUp(p, t)' = 0

Releases(p, t) ==
  /\ Only(p, t) /\ sleepers'[t] \subseteq sleepers[t]
  /\ Levels(p, t) > 0
  /\ Levels(p, t)' = Levels(p, t) - 1
  /\ GivenUp(p, t)' = GivenUp(p, t)

Waits(p, t) ==
  /\ Only(p, t) /\ sleepers'[t] = sleepers[t] \union {p}
  /\ Levels(p, t) > 0
  /\ Levels(p, t)' = 0
  /\ GivenUp(p, t)' = Levels(p, t)

Returns(p, t) ==
  /\ Only(p, t) /\ UNCHANGED sleepers /\ p \notin sleepers[t]
  /\ GivenUp(p, t) > 0
  /\ Levels(p, t)' = GivenUp(p, t)
  /\ GivenUp(p, t)' = 0

LEMMA AfterIsExclusive ==
  ASSUME NEW Pcs, Common(Pcs)', NEW t \in Mutators, NEW p \in Procs,
         Levels(p, t)' > 0
  PROVE  \A q \in Procs \ {p} : Levels(q, t)' = 0
<1>1. t # GC /\ Depth(t)' \in {0, 1, 2} /\ (Depth(t)' > 0 => ~GCHolds(t)')
  BY HandshakeAssumption, DepthValuesNext DEF HandshakeAssumption, Common, MonitorInv
<1> QED
  BY <1>1 DEF Levels

LEMMA QuietAllowed ==
  ASSUME NEW Pcs, Around(Pcs), NEW t \in Mutators, Same(t),
         sleepers'[t] \subseteq sleepers[t]
  PROVE  Allowed(t)
<1>1. [p \in Procs |-> HeldBy(p, t)]' = [p \in Procs |-> HeldBy(p, t)]
  BY PlacesTell, PlacesTellNext DEF Around, Same
<1>2. [p \in Procs |-> KeptBy(p, t)]' = [p \in Procs |-> KeptBy(p, t)]
  BY PlacesTell, PlacesTellNext DEF Around, Same
<1>3. Mon(t)!Notify
  BY <1>1, <1>2 DEF Mon!Notify
<1> QED
  BY <1>3 DEF Mon!Next, Allowed

LEMMA OperationAllowed ==
  ASSUME NEW Pcs, Around(Pcs), NEW t \in Mutators, NEW p \in Procs,
         Acquires(p, t) \/ Releases(p, t) \/ Waits(p, t) \/ Returns(p, t)
  PROVE  Allowed(t)
<1> DEFINE D == [q \in Procs |-> HeldBy(q, t)]
           S == [q \in Procs |-> KeptBy(q, t)]
<1>1. \A q \in Procs : D[q] = Levels(q, t) /\ S[q] = GivenUp(q, t)
  BY PlacesTell DEF Around
<1>2. D' = [q \in Procs |-> Levels(q, t)'] /\ S' = [q \in Procs |-> GivenUp(q, t)']
  BY PlacesTellNext DEF Around
<1>3. Only(p, t)
  BY DEF Acquires, Releases, Waits, Returns
<1>4. D' = [D EXCEPT ![p] = Levels(p, t)'] /\ S' = [S EXCEPT ![p] = GivenUp(p, t)']
  BY <1>1, <1>2, <1>3, ZenonT(30) DEF Only
<1>5. Levels(p, t)' > 0 => \A q \in Procs \ {p} : D[q] = 0
  BY <1>1, <1>3, AfterIsExclusive DEF Around, Only
<1>6. /\ S = [S EXCEPT ![p] = S[p]] /\ D = [D EXCEPT ![p] = D[p]]
      /\ Levels(p, t) \in {0, 1, 2} /\ Levels(p, t)' \in {0, 1, 2}
  BY DepthValues, DepthValuesNext DEF Levels
<1> HIDE DEF D, S
<1>7. CASE Acquires(p, t)
  <2>0. /\ S[p] = 0 /\ GivenUp(p, t)' = 0
        /\ Levels(p, t)' = D[p] + 1 /\ Levels(p, t)' > 0
    BY <1>1, <1>6, <1>7 DEF Acquires
  <2>1. /\ S[p] = 0 /\ D' = [D EXCEPT ![p] = D[p] + 1] /\ S' = S
        /\ \A q \in Procs \ {p} : D[q] = 0
    BY <1>4, <1>5, <1>6, <2>0
  <2>2. D[p] < RecLimit - 1 /\ UNCHANGED sleepers[t]
    BY <1>1, <1>6, <1>7, HandshakeAssumption, MonitorOpsAssumption
    DEF HandshakeAssumption, MonitorOpsAssumption, Acquires
  <2>3. Mon(t)!Lock(p)
    BY <2>1, <2>2 DEF Mon!Lock, Mon!FreeFor, D, S
  <2> QED
    BY <2>3 DEF Mon!Next, Allowed
<1>8. CASE Releases(p, t)
  <2>1. D[p] > 0 /\ D' = [D EXCEPT ![p] = D[p] - 1] /\ S' = S
    BY <1>1, <1>4, <1>6, <1>8 DEF Releases
  <2>2. Mon(t)!Unlock(p)
    BY <2>1, <1>8 DEF Mon!Unlock, D, S, Releases
  <2> QED
    BY <2>2 DEF Mon!Next, Allowed
<1>9. CASE Waits(p, t)
  <2>1. D[p] > 0 /\ D' = [D EXCEPT ![p] = 0] /\ S' = [S EXCEPT ![p] = D[p]]
    BY <1>1, <1>4, <1>9 DEF Waits
  <2>2. Mon(t)!Wait(p)
    BY <2>1, <1>9 DEF Mon!Wait, D, S, Waits
  <2> QED
    BY <2>2 DEF Mon!Next, Allowed
<1>10. CASE Returns(p, t)
  <2>1. /\ S[p] > 0 /\ D' = [D EXCEPT ![p] = S[p]] /\ S' = [S EXCEPT ![p] = 0]
        /\ \A q \in Procs \ {p} : D[q] = 0
    BY <1>1, <1>4, <1>5, <1>6, <1>10 DEF Returns
  <2>2. Mon(t)!Resume(p)
    BY <2>1, <1>10 DEF Mon!Resume, Mon!FreeFor, D, S, Returns
  <2> QED
    BY <2>2 DEF Mon!Next, Allowed
<1> QED
  BY <1>7, <1>8, <1>9, <1>10

-------------------------------------------------------------------------------
(* The steps of the mutators and of the coordinator. *)

(* A mutator has to do with its own monitor only. *)
LEMMA OthersAllowed ==
  ASSUME NEW Pcs, Around(Pcs), NEW t \in Mutators, MutatorStep(t),
         NEW u \in Mutators \ {t}
  PROVE  Allowed(u)
<1>1. /\ UNCHANGED <<gcpc, cur>>
      /\ pc'[u] = pc[u] /\ frame'[u] = frame[u] /\ sleepers'[u] = sleepers[u]
  BY DEF Around, Common, Words, At, MutatorStep, Choose, DisableYieldpoints,
     CallEnterParked, UnparkFast, LeaveParked, PollForGC, CallTerminate, Proceed,
     DeferYieldpoint, YieldpointLock, YieldpointTake, YieldpointUnlock,
     CheckBlockLock, CheckBlockAcknowledge, Acknowledge, NotifyAll, Sleep,
     CheckBlockTest, CheckBlockWait, CheckBlockWake, CheckBlockRun, ParkFast,
     ParkLock, ParkBlocked, SelfLock, SelfRequest, SelfUnlock, TerminateLock,
     TerminateMark, TerminateRemove, TerminateUnlock, TakeYieldpoint,
     EnableYieldpoints, tlsVars, gcVars
<1>2. Same(u)
  BY <1>1 DEF Same, Levels, GivenUp, Depth, OuterDepth, GCHolds
<1> QED
  BY <1>1, <1>2, QuietAllowed

LEMMA MutatorAllowed ==
  ASSUME NEW Pcs, Around(Pcs), NEW t \in Mutators, MutatorStep(t)
  PROVE  Allowed(t)
<1>0. t \in Procs /\ t # GC
  BY HandshakeAssumption DEF HandshakeAssumption, Procs
<1>1. UNCHANGED <<gcpc, cur>>
  BY DEF MutatorStep, Choose, DisableYieldpoints, CallEnterParked, UnparkFast,
     LeaveParked, PollForGC, CallTerminate, Proceed, DeferYieldpoint,
     YieldpointLock, YieldpointTake, YieldpointUnlock, CheckBlockLock,
     CheckBlockAcknowledge, CheckBlockTest, CheckBlockWait, CheckBlockWake,
     CheckBlockRun, ParkFast, ParkLock, ParkBlocked, SelfLock, SelfRequest,
     SelfUnlock, TerminateLock, TerminateMark, TerminateRemove, TerminateUnlock,
     TakeYieldpoint, EnableYieldpoints, gcVars
<1>2. Only(t, t)
  BY <1>0, <1>1 DEF Only, Levels, GivenUp, GCHolds
<1> USE DEF Around, Common, Words, PlaceInv, CheckPcs, At, Levels, GivenUp, Depth,
        OuterDepth, tlsVars
<1>3. CASE \/ YieldpointLock(t) \/ CheckBlockLock(t) \/ ParkLock(t)
           \/ SelfLock(t) \/ TerminateLock(t)
  <2>1. Acquires(t, t)
    BY <1>0, <1>2, <1>3 DEF YieldpointLock, CheckBlockLock, ParkLock, SelfLock,
       TerminateLock, Acquires
  <2> QED
    BY <1>0, <2>1, OperationAllowed
<1>4. CASE \/ YieldpointUnlock(t) \/ CheckBlockRun(t) \/ ParkBlocked(t)
           \/ SelfUnlock(t) \/ TerminateRemove(t)
  <2>1. sleepers'[t] \subseteq sleepers[t]
    BY <1>4 DEF YieldpointUnlock, CheckBlockRun, ParkBlocked, Acknowledge,
       NotifyAll, SelfUnlock, TerminateRemove, TerminateUnlock
  <2>2. Releases(t, t)
    BY <1>0, <1>2, <1>4, <2>1 DEF YieldpointUnlock, CheckBlockRun, ParkBlocked,
       SelfUnlock, TerminateRemove, TerminateUnlock, Releases
  <2> QED
    BY <1>0, <2>2, OperationAllowed
<1>5. CASE CheckBlockWait(t)
  <2>1. Waits(t, t)
    BY <1>0, <1>2, <1>5 DEF CheckBlockWait, Sleep, Waits
  <2> QED
    BY <1>0, <2>1, OperationAllowed
<1>6. CASE CheckBlockWake(t)
  <2>1. Returns(t, t)
    BY <1>0, <1>2, <1>6 DEF CheckBlockWake, Wake, Returns
  <2> QED
    BY <1>0, <2>1, OperationAllowed
<1>7. CASE \/ Choose(t) \/ TakeYieldpoint(t) \/ EnableYieldpoints(t)
           \/ DeferYieldpoint(t) \/ YieldpointTake(t) \/ CheckBlockTest(t)
           \/ ParkFast(t) \/ SelfRequest(t)
  <2>1. UNCHANGED sleepers
    BY <1>7 DEF Choose, DisableYieldpoints, CallEnterParked, UnparkFast,
       LeaveParked, PollForGC, CallTerminate, TakeYieldpoint, EnableYieldpoints,
       DeferYieldpoint, YieldpointTake, CheckBlockTest, ParkFast, SelfRequest
  <2>2. Levels(t, t)' = Levels(t, t) /\ GivenUp(t, t)' = GivenUp(t, t)
    BY <1>0, <1>7 DEF Choose, DisableYieldpoints, CallEnterParked, UnparkFast,
       LeaveParked, PollForGC, CallTerminate, TakeYieldpoint, EnableYieldpoints,
       DeferYieldpoint, YieldpointTake, CheckBlockTest, ParkFast, SelfRequest
  <2>3. Same(t)
    BY <1>2, <2>2 DEF Same, Only
  <2> QED
    BY <2>1, <2>3, QuietAllowed
<1>8. CASE CheckBlockAcknowledge(t) \/ TerminateMark(t)
  <2>1. sleepers'[t] \subseteq sleepers[t]
    BY <1>8 DEF CheckBlockAcknowledge, Acknowledge, TerminateMark, NotifyAll
  <2>2. Levels(t, t)' = Levels(t, t) /\ GivenUp(t, t)' = GivenUp(t, t)
    BY <1>0, <1>8 DEF CheckBlockAcknowledge, TerminateMark
  <2>3. Same(t)
    BY <1>2, <2>2 DEF Same, Only
  <2> QED
    BY <2>1, <2>3, QuietAllowed
<1> QED
  BY <1>3, <1>4, <1>5, <1>6, <1>7, <1>8 DEF MutatorStep, Proceed

(* The coordinator has to do with the monitor of the thread it works on, or *)
(* comes to work on, only.                                                 *)
LEMMA CoordinatorAllowed ==
  ASSUME NEW Pcs, Around(Pcs), Coordinator, NEW t \in Mutators
  PROVE  Allowed(t)
<1>0. t \in Procs /\ GC \in Procs /\ t # GC
  BY HandshakeAssumption DEF HandshakeAssumption, Procs
<1>1. UNCHANGED <<pc, frame>>
  BY DEF Coordinator, StopAllMutators, Snapshot, RetainVisit, SyncVisit,
     UnblockLock, RetainForget, RetainBlock, RetainDone, WorldIsStopped, SyncDone,
     BlockRequest, BlockTerminated, BlockRunningAsync, BlockRunningSync,
     BlockParked, BlockExecStatus, BlockOwn, BlockMustWait, BlockDone, BlockWait,
     BlockWake, ResumeMutators, Unblock, ResumeDone
<1>2. Only(GC, t)
  BY <1>0, <1>1 DEF Only, Levels, GivenUp, Depth, OuterDepth
<1>3. /\ Levels(GC, t) = IF GCHolds(t) THEN 1 ELSE 0
      /\ Levels(GC, t)' = IF GCHolds(t)' THEN 1 ELSE 0
      /\ GivenUp(GC, t) = IF cur = t /\ gcpc = "b_asleep" THEN 1 ELSE 0
      /\ GivenUp(GC, t)' = IF cur' = t /\ gcpc' = "b_asleep" THEN 1 ELSE 0
  BY <1>0 DEF Levels, GivenUp
<1>4. ASSUME /\ GCHolds(t)' <=> GCHolds(t)
             /\ cur' = t /\ gcpc' = "b_asleep" <=> cur = t /\ gcpc = "b_asleep"
             /\ sleepers'[t] \subseteq sleepers[t]
      PROVE  Allowed(t)
  <2>1. Same(t)
    BY <1>2, <1>3, <1>4 DEF Same, Only
  <2> QED
    BY <1>4, <2>1, QuietAllowed
<1>5. ASSUME ~GCHolds(t), GCHolds(t)', gcpc # "b_asleep", UNCHANGED sleepers
      PROVE  Allowed(t)
  <2>1. Acquires(GC, t)
    BY <1>2, <1>3, <1>5 DEF Acquires, GCHolds
  <2> QED
    BY <1>0, <2>1, OperationAllowed
<1>6. ASSUME GCHolds(t), ~GCHolds(t)', gcpc' # "b_asleep",
             sleepers'[t] \subseteq sleepers[t]
      PROVE  Allowed(t)
  <2>1. Releases(GC, t)
    BY <1>2, <1>3, <1>6 DEF Releases, GCHolds
  <2> QED
    BY <1>0, <2>1, OperationAllowed
<1> USE <1>0 DEF GCAt, GCHolds, tlsVars
<1>a. sleepers \in [Mutators -> SUBSET Procs] /\ cur \in Procs
  BY DEF Around, Common, Words
<1>7. CASE \E u \in Mutators : RetainVisit(u) \/ SyncVisit(u) \/ UnblockLock(u)
  <2>1. UNCHANGED sleepers /\ ~GCHolds(t) /\ gcpc # "b_asleep" /\ gcpc' # "b_asleep"
    BY <1>7 DEF RetainVisit, SyncVisit, UnblockLock
  <2> HIDE DEF GCHolds
  <2> QED
    BY <2>1, <1>4, <1>5
<1>8. CASE \/ RetainForget \/ BlockTerminated \/ BlockRunningAsync
           \/ BlockOwn \/ BlockDone \/ Unblock
  <2>1. /\ sleepers'[t] \subseteq sleepers[t]
        /\ ~GCHolds(t)' /\ gcpc # "b_asleep" /\ gcpc' # "b_asleep"
    BY <1>8, <1>a DEF RetainForget, BlockTerminated, BlockRunningAsync,
       BlockExecStatus, BlockReturn, BlockOwn, BlockDone, Unblock, NotifyAll
  <2> HIDE DEF GCHolds
  <2> QED
    BY <2>1, <1>4, <1>6
<1>9. CASE BlockWait
  <2>1. CASE cur = t
    <3>1. sleepers'[t] = sleepers[t] \union {GC}
      BY <1>9, <1>a, <2>1 DEF BlockWait, Sleep
    <3>2. GCHolds(t) /\ ~GCHolds(t)' /\ cur' = t /\ gcpc' = "b_asleep" /\ gcpc = "b_wait"
      BY <1>9, <2>1 DEF BlockWait
    <3>3. Waits(GC, t)
      BY <1>2, <1>3, <3>1, <3>2 DEF Waits
    <3> QED
      BY <3>3, OperationAllowed
  <2>2. CASE cur # t
    <3>1. sleepers'[t] = sleepers[t] /\ cur' # t
      BY <1>9, <1>a, <2>2 DEF BlockWait, Sleep
    <3> QED
      BY <2>2, <3>1, <1>4
  <2> QED
    BY <2>1, <2>2
<1>10. CASE BlockWake
  <2>1. UNCHANGED <<sleepers, cur>> /\ gcpc = "b_asleep" /\ gcpc' = "b_test"
    BY <1>10 DEF BlockWake
  <2>2. CASE cur = t
    <3>1. GC \notin sleepers[t]
      BY <1>10, <2>2 DEF BlockWake, Wake
    <3>2. GCHolds(t)'
      BY <2>1, <2>2
    <3>3. Returns(GC, t)
      BY <1>2, <1>3, <2>1, <2>2, <3>1, <3>2 DEF Returns
    <3> QED
      BY <3>3, OperationAllowed
  <2>3. CASE cur # t
    BY <2>1, <2>3, <1>4
  <2> QED
    BY <2>2, <2>3
<1>11. CASE \/ StopAllMutators \/ Snapshot \/ RetainBlock \/ RetainDone
            \/ WorldIsStopped \/ SyncDone \/ BlockRequest \/ BlockRunningSync
            \/ BlockParked \/ BlockMustWait \/ ResumeMutators \/ ResumeDone
  <2>1. /\ sleepers'[t] \subseteq sleepers[t]
        /\ GCHolds(t)' <=> GCHolds(t)
        /\ gcpc # "b_asleep" /\ gcpc' # "b_asleep"
    BY <1>11, <1>a DEF StopAllMutators, Snapshot, RetainBlock, RetainDone,
       WorldIsStopped, SyncDone, BlockRequest, BlockRunningSync, BlockParked,
       BlockExecStatus, BlockMustWait, ResumeMutators, ResumeDone, NotifyAll
  <2> HIDE DEF GCHolds
  <2> QED
    BY <2>1, <1>4
<1> QED
  BY <1>7, <1>8, <1>9, <1>10, <1>11 DEF Coordinator

LEMMA StepAllowed ==
  ASSUME NEW Pcs, Around(Pcs), [Next]_vars, NEW t \in Mutators
  PROVE  Allowed(t)
<1>1. CASE UNCHANGED vars
  <2>1. UNCHANGED <<pc, frame, gcpc, cur, sleepers>>
    BY <1>1 DEF vars, tlsVars, gcVars
  <2>2. Same(t)
    BY <2>1 DEF Same, Levels, GivenUp, Depth, OuterDepth, GCHolds
  <2> QED
    BY <2>1, <2>2, QuietAllowed
<1>2. ASSUME NEW u \in Mutators, MutatorStep(u) PROVE Allowed(t)
  BY <1>2, MutatorAllowed, OthersAllowed
<1>3. CASE Coordinator
  BY <1>3, CoordinatorAllowed
<1> QED
  BY <1>1, <1>2, <1>3 DEF Next

(* threads.rs:216-276 and sync.rs:16-20: for any number of mutators and    *)
(* any interleaving of their yieldpoints, parking and termination with the *)
(* coordinator, every thread's monitor is a recursive mutex with a         *)
(* condition variable for everybody who uses it.                           *)
THEOREM MonitorsRecursive ==
  ASSUME DropClearsHolder
  PROVE  Spec => MonitorsAreRecursive
<1>1. Init => \A t \in Mutators : Mon(t)!Init
  <2> SUFFICES ASSUME Init, NEW t \in Mutators PROVE Mon(t)!Init
    OBVIOUS
  <2>1. \A p \in Procs : HeldBy(p, t) = 0 /\ KeptBy(p, t) = 0
    BY DEF Init, HeldBy, KeptBy, FreshMonitor
  <2>2. sleepers[t] = {}
    BY DEF Init
  <2> QED
    BY <2>1, <2>2 DEF Mon!Init
<1>2. IInv /\ IInv' /\ [Next]_vars => [\A t \in Mutators : [Mon(t)!Next]_(Mon(t)!vars)]_vars
  <2>1. IInv /\ IInv' => Around(MutatorPcs)
    BY DEF IInv, Around
  <2> QED
    BY <2>1, StepAllowed DEF Allowed
<1> QED
  BY <1>1, <1>2, Inductive, PTL DEF Spec, MonitorsAreRecursive

===============================================================================
