---------------------------- MODULE LateStartProofs ----------------------------
(***************************************************************************)
(* The handshake for any set of threads that start, are stopped and        *)
(* terminate in any order, also while a collection is going on.            *)
(*                                                                         *)
(* The inductive invariant is that of HandshakeProofs, with the places of  *)
(* Thread::start added and with KnownInv for the threads of the last       *)
(* snapshot only: a step of the handshake keeps it by the lemmas of that   *)
(* module, and here are the steps of start, of join_all and of the removal *)
(* from the registry.  A thread that starts has no monitor, is not blocked *)
(* and is Running or told to block.                                        *)
(***************************************************************************)
EXTENDS LateStart, MonitorUseProofs

Places == MutatorPcs \union StartPcs

LInv ==
  /\ Common(Places)
  /\ listed \in SUBSET Mutators
  /\ KnownInv(listed)

LEMMA InitLate == InitLateStart => LInv
<1> SUFFICES ASSUME InitLateStart PROVE LInv
  OBVIOUS
<1> USE HandshakeAssumption DEF HandshakeAssumption, InitLateStart, InitLifecycle
<1>1. Words(Places)
  <2>1. FreshMonitor \in MonitorType(Procs) /\ 0 \in 0..(RecLimit - 1)
    BY MonitorOpsAssumption DEF MonitorOpsAssumption, MonitorType, FreshMonitor
  <2>2. /\ "Running" \in States /\ "unborn" \in Places
        /\ "idle" \in GCPcs /\ GC \in Procs
    BY DEF States, Places, StartPcs, GCPcs, Procs
  <2>3. /\ monitor \in [Mutators -> MonitorType(Procs)]
        /\ saved \in [Procs -> 0..(RecLimit - 1)]
    BY <2>1
  <2>4. /\ sleepers \in [Mutators -> SUBSET Procs]
        /\ threads \in SUBSET Mutators
        /\ handshake \in SUBSET Mutators
        /\ todo \in SUBSET Mutators
    OBVIOUS
  <2>5. /\ state \in [Mutators -> States]
        /\ shouldBlock \in [Mutators -> BOOLEAN]
        /\ blocked \in [Mutators -> BOOLEAN]
        /\ take \in [Mutators -> BOOLEAN]
        /\ pending \in [Mutators -> BOOLEAN]
        /\ terminating \in [Mutators -> BOOLEAN]
        /\ active \in [Mutators -> BOOLEAN]
        /\ pc \in [Mutators -> Places]
        /\ frame \in [Mutators -> {"none", "yieldpoint", "leave", "self"}]
        /\ gcRequested \in BOOLEAN
        /\ gcpc \in GCPcs
        /\ cur \in Procs
        /\ asynchronous \in BOOLEAN
    BY <2>2
  <2>6. enabled \in [Mutators -> Int]
    OBVIOUS
  <2> QED
    BY <2>3, <2>4, <2>5, <2>6 DEF Words
<1>2. \A t \in Mutators : PlaceInv(t) /\ MonitorInv(t) /\ BlockInv(t)
  BY DEF MonitorInv, Depth, GCHolds, PlaceInv, CheckPcs, GonePcs, BlockInv
<1>3. CoordinatorInv /\ BlockLoopInv /\ SavedInv
  BY DEF CoordinatorInv, BlockLoopInv, SavedInv, Procs
<1>4. KnownInv(listed)
  BY DEF KnownInv
<1> QED
  BY <1>1, <1>2, <1>3, <1>4 DEF LInv, Common

(* The steps of Thread::start: the thread moves between places where it    *)
(* has no monitor; the words it may change are its state, which becomes    *)
(* Running, its count of enabled yieldpoints and the registry, which grows.*)
LEMMA StartMoves ==
  ASSUME Words(Places), NEW t \in Mutators, Start(t)
  PROVE  /\ pc[t] \in StartPcs
         /\ pc' = [pc EXCEPT ![t] = pc'[t]]
         /\ pc'[t] \in StartPcs \union {"managed"}
         /\ state' = state \/ state' = [state EXCEPT ![t] = "Running"]
         /\ enabled' \in [Mutators -> Int]
         /\ threads \subseteq threads' /\ threads' \in SUBSET Mutators
         /\ UNCHANGED <<monitor, sleepers, shouldBlock, blocked, take, pending,
                        terminating, active, frame, saved, gcRequested, gcpc,
                        handshake, todo, cur, asynchronous>>
<1> USE DEF Words, At, StartPcs, tlsVars, gcVars
<1>1. CASE StartThread(t) \/ StoreMainThread(t) \/ LeaveParkedScope(t)
  BY <1>1 DEF StartThread, StoreMainThread, LeaveParkedScope
<1>2. CASE RegistrationFails(t)
  BY <1>2 DEF RegistrationFails
<1>3. CASE AddMainThread(t) \/ AddThread(t)
  BY <1>3 DEF AddMainThread, AddThread, Push
<1>4. CASE StoreRunning(t)
  BY <1>4 DEF StoreRunning
<1>5. CASE EnterCallback(t)
  <2>1. enabled' \in [Mutators -> Int]
    BY <1>5 DEF EnterCallback
  <2> QED
    BY <1>5, <2>1 DEF EnterCallback
<1> QED
  BY <1>1, <1>2, <1>3, <1>4, <1>5 DEF Start

LEMMA StartKeeps ==
  ASSUME LInv, NEW t \in Mutators, Start(t), UNCHANGED listed
  PROVE  LInv'
<1>1. Words(Places) /\ \A u \in Mutators : PlaceInv(u) /\ MonitorInv(u) /\ BlockInv(u)
  BY DEF LInv, Common
<1>2. /\ pc[t] \in StartPcs
      /\ pc' = [pc EXCEPT ![t] = pc'[t]]
      /\ pc'[t] \in StartPcs \union {"managed"}
      /\ state' = state \/ state' = [state EXCEPT ![t] = "Running"]
      /\ enabled' \in [Mutators -> Int]
      /\ threads \subseteq threads' /\ threads' \in SUBSET Mutators
      /\ UNCHANGED <<monitor, sleepers, shouldBlock, blocked, take, pending,
                     terminating, active, frame, saved, gcRequested, gcpc,
                     handshake, todo, cur, asynchronous>>
  BY <1>1, StartMoves
<1>3. Words(Places)'
  <2>1. pc' \in [Mutators -> Places] /\ state' \in [Mutators -> States]
    BY <1>1, <1>2 DEF Words, Places, MutatorPcs, States
  <2> QED
    BY <1>1, <1>2, <2>1 DEF Words
<1>4. \A u \in Mutators : /\ Depth(u)' = Depth(u)
                          /\ GCHolds(u)' = GCHolds(u)
                          /\ OuterDepth(u)' = OuterDepth(u)
  BY <1>1, <1>2 DEF Words, Depth, OuterDepth, GCHolds, StartPcs
<1>5. \A u \in Mutators : MonitorInv(u)'
  BY <1>1, <1>2, <1>4 DEF MonitorInv
<1>6. \A u \in Mutators : PlaceInv(u)'
  BY <1>1, <1>2 DEF Words, PlaceInv, CheckPcs, GonePcs, StartPcs
<1>7. state[t] \notin {"Parked", "BlockedInParked"} /\ ~blocked[t]
  BY <1>1, <1>2 DEF BlockInv, SafePcs, StartPcs
<1>8. \A u \in Mutators : BlockInv(u)'
  BY <1>1, <1>2, <1>7 DEF Words, BlockInv, SafePcs, StartPcs
<1>9. SavedInv'
  <2>1. \A u \in Mutators : pc'[u] = "cb_asleep" <=> pc[u] = "cb_asleep"
    BY <1>1, <1>2 DEF Words, StartPcs
  <2> QED
    BY <1>2, <1>4, <2>1 DEF LInv, Common, SavedInv
<1>10. CoordinatorInv' /\ BlockLoopInv'
  BY <1>1, <1>2, <1>7 DEF LInv, Common, CoordinatorInv, BlockLoopInv, Words
<1>11. KnownInv(listed)'
  BY <1>1, <1>2 DEF LInv, KnownInv, Retaining, Resumable, Words, StartPcs
<1> QED
  BY <1>3, <1>5, <1>6, <1>8, <1>9, <1>10, <1>11 DEF LInv, Common

(* A thread that cannot leave the poisoned registry lets go of its monitor *)
(* and is gone as if it had left.                                          *)
LEMMA FailureMoves ==
  ASSUME DropClearsHolder, LInv, NEW t \in Mutators, TerminateFails(t)
  PROVE  /\ pc[t] = "term_destroy" /\ pc' = [pc EXCEPT ![t] = "gone"]
         /\ monitor' = [monitor EXCEPT ![t] = FreshMonitor]
         /\ Depth(t) = 1 /\ ~GCHolds(t)
         /\ UNCHANGED <<sleepers, state, shouldBlock, blocked, take, pending,
                        enabled, terminating, active, frame, saved, threads,
                        gcRequested, gcpc, handshake, todo, cur, asynchronous>>
<1>1. pc[t] = "term_destroy" /\ pc' = [pc EXCEPT ![t] = "gone"]
  BY DEF TerminateFails, TerminateUnlock, At
<1>2. Depth(t) = 1
  BY <1>1 DEF Depth
<1>3. ~GCHolds(t) /\ monitor[t] = Held(t, 1)
  BY <1>2 DEF LInv, Common, MonitorInv
<1>4. t \in Procs
  BY DEF Procs
<1>5. monitor' = [monitor EXCEPT ![t] = FreshMonitor]
  BY <1>3, <1>4, DroppedOps DEF TerminateFails, TerminateUnlock, Drop
<1> QED
  BY <1>1, <1>2, <1>3, <1>5 DEF TerminateFails, TerminateUnlock

LEMMA FailureKeeps ==
  ASSUME DropClearsHolder, LInv, NEW t \in Mutators, TerminateFails(t),
         UNCHANGED listed
  PROVE  LInv'
<1>1. Words(Places) /\ \A u \in Mutators : PlaceInv(u) /\ MonitorInv(u) /\ BlockInv(u)
  BY DEF LInv, Common
<1>2. /\ pc[t] = "term_destroy" /\ pc' = [pc EXCEPT ![t] = "gone"]
      /\ monitor' = [monitor EXCEPT ![t] = FreshMonitor]
      /\ Depth(t) = 1 /\ ~GCHolds(t)
      /\ UNCHANGED <<sleepers, state, shouldBlock, blocked, take, pending,
                     enabled, terminating, active, frame, saved, threads,
                     gcRequested, gcpc, handshake, todo, cur, asynchronous>>
  BY FailureMoves
<1>3. Words(Places)'
  <2>1. pc' \in [Mutators -> Places]
    BY <1>1, <1>2 DEF Words, Places, MutatorPcs
  <2>2. FreshMonitor \in MonitorType(Procs)
    BY MonitorOpsAssumption DEF MonitorOpsAssumption, MonitorType, FreshMonitor
  <2>3. monitor' \in [Mutators -> MonitorType(Procs)]
    BY <1>1, <1>2, <2>2 DEF Words
  <2> QED
    BY <1>1, <1>2, <2>1, <2>3 DEF Words
<1>4. /\ \A u \in Mutators : GCHolds(u)' = GCHolds(u) /\ OuterDepth(u)' = OuterDepth(u)
      /\ \A u \in Mutators \ {t} : Depth(u)' = Depth(u)
      /\ Depth(t)' = 0
  BY <1>1, <1>2 DEF Words, Depth, OuterDepth, GCHolds
<1>5. \A u \in Mutators : MonitorInv(u)'
  <2>1. MonitorInv(t)'
    BY <1>1, <1>2, <1>4 DEF MonitorInv, Words
  <2>2. ASSUME NEW u \in Mutators \ {t} PROVE MonitorInv(u)'
    BY <1>1, <1>2, <1>4, <2>2 DEF MonitorInv, Words
  <2> QED
    BY <2>1, <2>2
<1>6. \A u \in Mutators : PlaceInv(u)'
  BY <1>1, <1>2 DEF Words, PlaceInv, CheckPcs, GonePcs
<1>7. \A u \in Mutators : BlockInv(u)'
  BY <1>1, <1>2 DEF Words, BlockInv, SafePcs
<1>8. SavedInv'
  <2>1. \A u \in Mutators : pc'[u] = "cb_asleep" <=> pc[u] = "cb_asleep"
    BY <1>1, <1>2 DEF Words
  <2> QED
    BY <1>2, <1>4, <2>1 DEF LInv, Common, SavedInv
<1>9. CoordinatorInv' /\ BlockLoopInv'
  BY <1>1, <1>2 DEF LInv, Common, CoordinatorInv, BlockLoopInv
<1>10. KnownInv(listed)'
  BY <1>1, <1>2 DEF LInv, KnownInv, Retaining, Resumable, Words
<1> QED
  BY <1>3, <1>5, <1>6, <1>7, <1>8, <1>9, <1>10 DEF LInv, Common

(* A step of the handshake keeps the invariant; a snapshot replaces the    *)
(* threads it is about by those it finds in the registry.                  *)
LEMMA HandshakeKeeps ==
  ASSUME DropClearsHolder, LInv, [Next]_vars, Remember
  PROVE  LInv'
<1>1. Common(Places) /\ KnownInv(listed) /\ listed \in SUBSET Mutators
  BY DEF LInv
<1>2. MutatorPcs \subseteq Places
  BY DEF Places
<1>3. Common(Places)'
  BY <1>1, <1>2, CommonStep
<1>4. gcpc = "snapshot" /\ gcpc' = "retain" => Snapshot
  <2> SUFFICES ASSUME gcpc = "snapshot", gcpc' = "retain" PROVE Snapshot
    OBVIOUS
  <2>1. gcpc' # gcpc
    OBVIOUS
  <2>2. ASSUME NEW t \in Mutators, MutatorStep(t) PROVE UNCHANGED gcpc
    BY <2>2 DEF MutatorStep, Choose, DisableYieldpoints, CallEnterParked,
       UnparkFast, LeaveParked, PollForGC, CallTerminate, Proceed,
       DeferYieldpoint, YieldpointLock, YieldpointTake, YieldpointUnlock,
       CheckBlockLock, CheckBlockAcknowledge, CheckBlockTest, CheckBlockWait,
       CheckBlockWake, CheckBlockRun, ParkFast, ParkLock, ParkBlocked, SelfLock,
       SelfRequest, SelfUnlock, TerminateLock, TerminateMark, TerminateRemove,
       TerminateUnlock, TakeYieldpoint, EnableYieldpoints, gcVars
  <2>3. Coordinator
    BY <2>1, <2>2 DEF Next, vars, gcVars
  <2> QED
    BY <2>3 DEF Coordinator, GCAt, StopAllMutators, RetainVisit, SyncVisit,
       UnblockLock, RetainForget, RetainBlock, RetainDone, WorldIsStopped,
       SyncDone, BlockRequest, BlockTerminated, BlockRunningAsync,
       BlockRunningSync, BlockParked, BlockExecStatus, BlockReturn, BlockOwn,
       BlockMustWait, BlockDone, BlockWait, BlockWake, ResumeMutators, Unblock,
       ResumeDone
<1>5. listed' \in SUBSET Mutators
  BY <1>1 DEF Remember, ActiveThreads, Common, Words
<1>6. \A t \in listed' : t \in listed \/ (Snapshot /\ t \in ActiveThreads)
  BY <1>4 DEF Remember
<1>7. PICK L \in SUBSET Mutators, K \in SUBSET Mutators : L = listed /\ K = listed'
  BY <1>1, <1>5
<1>8. KnownInv(L)
  BY <1>1, <1>7 DEF KnownInv
<1>9. KnownInv(K)'
  BY <1>1, <1>6, <1>7, <1>8, KnownStep
<1>10. KnownInv(listed)'
  BY <1>7, <1>9 DEF KnownInv
<1> QED
  BY <1>3, <1>5, <1>10 DEF LInv

LEMMA LateStep ==
  ASSUME DropClearsHolder, LInv, [NextLateStart]_lateVars
  PROVE  LInv'
<1>1. CASE UNCHANGED lateVars
  <2>1. UNCHANGED vars /\ UNCHANGED listed
    BY <1>1 DEF lateVars, allVars
  <2>2. Remember
    BY <2>1 DEF Remember, vars, gcVars
  <2> QED
    BY <2>1, <2>2, HandshakeKeeps
<1>2. ASSUME NEW t \in Mutators, Start(t), Remember PROVE LInv'
  <2>1. UNCHANGED gcpc
    BY <1>2, StartMoves DEF LInv, Common
  <2>2. UNCHANGED listed
    BY <1>2, <2>1 DEF Remember
  <2> QED
    BY <1>2, <2>2, StartKeeps
<1>3. ASSUME NEW t \in Mutators, TerminateAndLeave(t), Remember PROVE LInv'
  <2>1. Next
    BY <1>3 DEF TerminateAndLeave, Next, MutatorStep, Proceed
  <2> QED
    BY <1>3, <2>1, HandshakeKeeps
<1>4. ASSUME NEW t \in Mutators, TerminateFails(t), Remember PROVE LInv'
  <2>1. UNCHANGED gcpc
    BY <1>4 DEF TerminateFails, TerminateUnlock
  <2>2. UNCHANGED listed
    BY <1>4, <2>1 DEF Remember
  <2> QED
    BY <1>4, <2>2, FailureKeeps
<1>5. ASSUME JoinAll \/ JoinWake, Remember PROVE LInv'
  <2>1. UNCHANGED vars
    BY <1>5 DEF JoinAll, JoinWake
  <2> QED
    BY <1>5, <2>1, HandshakeKeeps
<1>6. ASSUME Handshaking, Remember PROVE LInv'
  <2>1. Next
    BY <1>6 DEF Handshaking
  <2> QED
    BY <1>6, <2>1, HandshakeKeeps
<1> QED
  BY <1>1, <1>2, <1>3, <1>4, <1>5, <1>6 DEF NextLateStart, NextLifecycle

LEMMA LateInductive ==
  ASSUME DropClearsHolder
  PROVE  SpecLateStart => []LInv
<1>1. LInv /\ [NextLateStart]_lateVars => LInv'
  BY LateStep
<1> QED
  BY <1>1, InitLate, PTL DEF SpecLateStart

(* threads.rs:96-99 and :1107-1141: however many threads start, park, run  *)
(* and terminate meanwhile, no thread that the last snapshot found         *)
(* executes managed code while the world is stopped.                       *)
THEOREM ListedAreStopped ==
  ASSUME DropClearsHolder
  PROVE  SpecLateStart => []ListedStopped
<1>1. LInv => ListedStopped
  BY DEF LInv, Common, KnownInv, PlaceInv, BlockInv, ListedStopped, Code, SafePcs, GonePcs
<1> QED
  BY <1>1, LateInductive, PTL

(* threads.rs:1143-1162: no thread that the last snapshot found is left    *)
(* blocked, or about to block itself, once the collection is over, unless  *)
(* another one has been requested.                                         *)
THEOREM ListedAreResumed ==
  ASSUME DropClearsHolder
  PROVE  SpecLateStart => []ListedResumed
<1>1. LInv => ListedResumed
  BY DEF LInv, KnownInv, Resumable, ListedResumed
<1> QED
  BY <1>1, LateInductive, PTL

(* threads.rs:216-276: no wake-up is lost either while threads start, whose *)
(* store of Running does not touch what block_sync and check_block test.   *)
THEOREM LateWakesKept ==
  ASSUME DropClearsHolder
  PROVE  SpecLateStart => []NoLostWakeup
<1>1. InitLateStart => WakeInv
  BY DEF InitLateStart, InitLifecycle, WakeInv
<1>2. LInv /\ WakeInv /\ [NextLateStart]_lateVars => WakeInv'
  <2> SUFFICES ASSUME LInv, WakeInv, [NextLateStart]_lateVars PROVE WakeInv'
    OBVIOUS
  <2>1. Common(Places) /\ Words(Places) /\ MutatorPcs \subseteq Places
    BY DEF LInv, Common, Places
  <2>2. ASSUME [Next]_vars PROVE WakeInv'
    BY <2>1, <2>2, WakeStep
  <2>3. ASSUME NEW t \in Mutators, Start(t) PROVE WakeInv'
    <3>1. /\ pc[t] \in StartPcs
          /\ pc' = [pc EXCEPT ![t] = pc'[t]]
          /\ pc'[t] \in StartPcs \union {"managed"}
          /\ UNCHANGED <<sleepers, shouldBlock, blocked, terminating, gcpc, cur>>
      BY <2>1, <2>3, StartMoves
    <3>2. \A u \in Mutators : pc'[u] = "cb_wait" => pc[u] = "cb_wait"
      BY <2>1, <3>1 DEF Words, StartPcs
    <3> QED
      BY <3>1, <3>2 DEF WakeInv, MustWait
  <2>4. ASSUME NEW t \in Mutators, TerminateAndLeave(t) PROVE WakeInv'
    BY <2>2, <2>4 DEF TerminateAndLeave, Next, MutatorStep, Proceed
  <2>5. ASSUME NEW t \in Mutators, TerminateFails(t) PROVE WakeInv'
    <3>1. /\ pc' = [pc EXCEPT ![t] = "gone"]
          /\ UNCHANGED <<sleepers, shouldBlock, blocked, terminating, gcpc, cur>>
      BY <2>5 DEF TerminateFails, TerminateUnlock, At
    <3>2. \A u \in Mutators : pc'[u] = "cb_wait" => pc[u] = "cb_wait"
      BY <2>1, <3>1 DEF Words
    <3> QED
      BY <3>1, <3>2 DEF WakeInv, MustWait
  <2>6. ASSUME JoinAll \/ JoinWake PROVE WakeInv'
    BY <2>2, <2>6 DEF JoinAll, JoinWake
  <2>7. CASE UNCHANGED lateVars
    BY <2>2, <2>7 DEF lateVars, allVars
  <2> QED
    BY <2>2, <2>3, <2>4, <2>5, <2>6, <2>7 DEF NextLateStart, NextLifecycle, Handshaking
<1>3. WakeInv => NoLostWakeup
  BY DEF WakeInv, NoLostWakeup
<1> QED
  BY <1>1, <1>2, <1>3, LateInductive, PTL DEF SpecLateStart

(* threads.rs:96-104: nor does a start disturb the use of the monitors: the *)
(* monitor of every thread is a recursive mutex from before its start on.  *)
THEOREM LateMonitorsRecursive ==
  ASSUME DropClearsHolder
  PROVE  SpecLateStart => MonitorsAreRecursive
<1>1. InitLateStart => \A t \in Mutators : Mon(t)!Init
  <2> SUFFICES ASSUME InitLateStart, NEW t \in Mutators PROVE Mon(t)!Init
    OBVIOUS
  <2>1. \A p \in Procs : HeldBy(p, t) = 0 /\ KeptBy(p, t) = 0
    BY DEF InitLateStart, InitLifecycle, HeldBy, KeptBy, FreshMonitor
  <2>2. sleepers[t] = {}
    BY DEF InitLateStart, InitLifecycle
  <2> QED
    BY <2>1, <2>2 DEF Mon!Init
<1>2. LInv /\ LInv' /\ [NextLateStart]_lateVars
        => [\A t \in Mutators : [Mon(t)!Next]_(Mon(t)!vars)]_vars
  <2> SUFFICES ASSUME LInv, LInv', [NextLateStart]_lateVars, NEW t \in Mutators
               PROVE  Allowed(t)
    BY DEF Allowed
  <2>1. Around(Places) /\ Words(Places)
    BY DEF LInv, Around, Common
  <2>2. ASSUME [Next]_vars PROVE Allowed(t)
    BY <2>1, <2>2, StepAllowed
  <2>3. ASSUME NEW u \in Mutators, Start(u) PROVE Allowed(t)
    <3>1. /\ pc[u] \in StartPcs
          /\ pc' = [pc EXCEPT ![u] = pc'[u]]
          /\ pc'[u] \in StartPcs \union {"managed"}
          /\ UNCHANGED <<sleepers, frame, gcpc, cur>>
      BY <2>1, <2>3, StartMoves
    <3>2. Same(t)
      BY <2>1, <3>1 DEF Same, Levels, GivenUp, Depth, OuterDepth, GCHolds, Words, StartPcs
    <3> QED
      BY <2>1, <3>1, <3>2, QuietAllowed
  <2>4. ASSUME NEW u \in Mutators, TerminateAndLeave(u) PROVE Allowed(t)
    BY <2>2, <2>4 DEF TerminateAndLeave, Next, MutatorStep, Proceed
  <2>5. ASSUME NEW u \in Mutators, TerminateFails(u) PROVE Allowed(t)
    <3>0. t \in Procs /\ t # GC /\ u \in Procs /\ u # GC
      BY HandshakeAssumption DEF HandshakeAssumption, Procs
    <3>1. /\ pc[u] = "term_destroy" /\ pc' = [pc EXCEPT ![u] = "gone"]
          /\ UNCHANGED <<sleepers, frame, gcpc, cur>>
      BY <2>5, FailureMoves
    <3>2. CASE t # u
      <4>1. Same(t)
        BY <2>1, <3>1, <3>2 DEF Same, Levels, GivenUp, Depth, OuterDepth, GCHolds, Words
      <4> QED
        BY <2>1, <3>1, <4>1, QuietAllowed
    <3>3. CASE t = u
      <4>1. Only(t, t)
        BY <3>0, <3>1, <3>3 DEF Only, Levels, GivenUp, GCHolds
      <4>2. Releases(t, t)
        BY <2>1, <3>0, <3>1, <3>3, <4>1 DEF Releases, Levels, GivenUp, Depth,
           OuterDepth, Words
      <4> QED
        BY <2>1, <3>0, <4>2, OperationAllowed
    <3> QED
      BY <3>2, <3>3
  <2>6. ASSUME JoinAll \/ JoinWake PROVE Allowed(t)
    BY <2>2, <2>6 DEF JoinAll, JoinWake
  <2>7. CASE UNCHANGED lateVars
    BY <2>2, <2>7 DEF lateVars, allVars
  <2> QED
    BY <2>2, <2>3, <2>4, <2>5, <2>6, <2>7 DEF NextLateStart, NextLifecycle, Handshaking
<1> QED
  BY <1>1, <1>2, LateInductive, PTL DEF SpecLateStart, MonitorsAreRecursive

(* The history variable adds nothing: what is proved of SpecLifecycle in    *)
(* LifecycleProofs holds of this specification too.                        *)
LEMMA HistoryHides == SpecLateStart => SpecLifecycle
<1>1. InitLateStart => InitLifecycle
  BY DEF InitLateStart
<1>2. [NextLateStart]_lateVars => [NextLifecycle]_allVars
  BY DEF NextLateStart, lateVars
<1> QED
  BY <1>1, <1>2, PTL DEF SpecLateStart, SpecLifecycle

===============================================================================
