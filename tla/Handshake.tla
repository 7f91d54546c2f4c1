------------------------------- MODULE Handshake -------------------------------
(***************************************************************************)
(* The GC handshake of runtime/threads.rs: mutators that poll yieldpoints, *)
(* park and unpark, block themselves for a collection and terminate, and   *)
(* the GC coordinator that stops and resumes them (collection.rs).         *)
(*                                                                         *)
(* Each mutator has a TLSData with a Monitor of its own.  A program        *)
(* counter value names the next step of the function the thread is in; a   *)
(* step is a lock operation, a wait, or a stretch of code that touches     *)
(* shared words under the lock.  The lock-free words (the state byte, the  *)
(* take_yieldpoint flag) are read and written in steps of their own.       *)
(***************************************************************************)
EXTENDS MonitorOps, FiniteSets

CONSTANTS
  Mutators,       (* threads started and registered before the model begins *)
  GC,             (* the worker that runs stop_all_mutators                 *)
  DisableDepth    (* bound on each mutator's nested disable_yieldpoints     *)

Procs == Mutators \union {GC}

ASSUME HandshakeAssumption ==
  /\ Mutators # {}
  /\ GC \notin Mutators
  /\ NoHolder \notin Procs
  /\ RecLimit > 2
  /\ DisableDepth \in [Mutators -> Nat]

VARIABLES
  (* TLSData of each mutator *)
  monitor,        (* the words of TLSData::monitor                          *)
  sleepers,       (* processes queued in the monitor's condition variable   *)
  state,          (* TLSData::state                                         *)
  shouldBlock,    (* should_block_for_gc                                    *)
  blocked,        (* is_blocked_for_gc                                      *)
  take,           (* take_yieldpoint is non-zero                            *)
  pending,        (* yieldpoint_request_pending                             *)
  enabled,        (* yieldpoints_enabled_count                              *)
  terminating,    (* is_about_to_terminate                                  *)
  active,         (* is_active_mutator_context                              *)
  (* control *)
  pc,             (* next step of each mutator                              *)
  frame,          (* who called check_block: "yieldpoint", "leave", "self"  *)
  saved,          (* rec_count local of a process inside wait_no_handshake  *)
  (* Threads, and the GC coordinator *)
  threads,        (* Threads::threads                                       *)
  gcRequested,    (* MMTk has been asked for a collection                   *)
  gcpc,           (* next step of the coordinator                           *)
  handshake,      (* Threads::handshake_threads                             *)
  todo,           (* threads retain() has still to visit                    *)
  cur,            (* the thread the coordinator works on, GC if none       *)
  asynchronous    (* the argument of block(): retain() does not wait        *)

tlsVars == <<monitor, sleepers, state, shouldBlock, blocked, take, pending,
             enabled, terminating, active>>
gcVars  == <<threads, gcRequested, gcpc, handshake, todo, cur, asynchronous>>
vars    == <<tlsVars, pc, frame, saved, gcVars>>

Init ==
  /\ monitor = [t \in Mutators |-> FreshMonitor]
  /\ sleepers = [t \in Mutators |-> {}]
  /\ state = [t \in Mutators |-> "Running"]
  /\ shouldBlock = [t \in Mutators |-> FALSE]
  /\ blocked = [t \in Mutators |-> FALSE]
  /\ take = [t \in Mutators |-> FALSE]
  /\ pending = [t \in Mutators |-> FALSE]
  /\ enabled = [t \in Mutators |-> 1]
  /\ terminating = [t \in Mutators |-> FALSE]
  /\ active = [t \in Mutators |-> TRUE]
  /\ pc = [t \in Mutators |-> "managed"]
  /\ frame = [t \in Mutators |-> "none"]
  /\ saved = [p \in Procs |-> 0]
  /\ threads = Mutators
  /\ gcRequested = FALSE
  /\ gcpc = "idle"
  /\ handshake = {}
  /\ todo = {}
  /\ cur = GC
  /\ asynchronous = TRUE

-------------------------------------------------------------------------------
(* Shared steps *)

At(t, from, to) ==
  /\ pc[t] = from
  /\ pc' = [pc EXCEPT ![t] = to]

Lock(p, t) ==
  /\ CanLock(monitor[t], p)
  /\ monitor' = [monitor EXCEPT ![t] = Locked(@, p)]

Drop(t) == monitor' = [monitor EXCEPT ![t] = Dropped(@)]

NotifyAll(t) == sleepers' = [sleepers EXCEPT ![t] = {}]

(* wait_no_handshake of process p on the monitor of t, up to the unlock. *)
Sleep(p, t) ==
  /\ saved' = [saved EXCEPT ![p] = monitor[t].rec]
  /\ monitor' = [monitor EXCEPT ![t] = Released]
  /\ sleepers' = [sleepers EXCEPT ![t] = @ \union {p}]

(* Slip: the monitor is taken back with one level, whatever it had. *)
WakeOneLevel(p, t) ==
  /\ p \notin sleepers[t]
  /\ CanRelock(monitor[t])
  /\ monitor' = [monitor EXCEPT ![t] = Relocked(p, 1)]
  /\ saved' = [saved EXCEPT ![p] = 0]

(* The rest of it, once p has been notified. *)
Wake(p, t) ==
  /\ p \notin sleepers[t]
  /\ CanRelock(monitor[t])
  /\ monitor' = [monitor EXCEPT ![t] = Relocked(p, saved[p])]
  /\ saved' = [saved EXCEPT ![p] = 0]

(* BlockAdapterList::acknowledge_block_requests and the notification *)
(* Thread::acknowledge_block_requests sends when there was a request. *)
Acknowledge(t) ==
  /\ blocked' = [blocked EXCEPT ![t] = @ \/ shouldBlock[t]]
  /\ shouldBlock' = [shouldBlock EXCEPT ![t] = FALSE]
  /\ IF shouldBlock[t] THEN NotifyAll(t) ELSE UNCHANGED sleepers

(* GCBlockAdapter::request_block *)
RequestBlock(t) ==
  shouldBlock' = [shouldBlock EXCEPT ![t] = @ \/ ~blocked[t]]

(* TLSData::set_blocked_exec_status *)
BlockedStatus(s) ==
  CASE s = "Running" -> "RunningToBlock"
    [] s = "Parked"  -> "BlockedInParked"
    [] OTHER         -> s

-------------------------------------------------------------------------------
(* Mutators: yieldpoints *)

YieldpointsEnabled(t) == enabled[t] = 1

(* Slip: the deferral is not remembered. *)
DeferWithoutPending(t) ==
  /\ pc[t] = "managed"
  /\ take[t]
  /\ active[t]
  /\ ~YieldpointsEnabled(t)
  /\ take' = [take EXCEPT ![t] = FALSE]
  /\ UNCHANGED <<monitor, sleepers, state, shouldBlock, blocked, pending,
                 enabled, terminating, active, pc, frame, saved, gcVars>>

(* check_yieldpoint and the part of yieldpoint that defers: no lock is     *)
(* taken while yieldpoints are disabled.                                   *)
DeferYieldpoint(t) ==
  /\ pc[t] = "managed"
  /\ take[t]
  /\ active[t]
  /\ ~YieldpointsEnabled(t)
  /\ pending' = [pending EXCEPT ![t] = TRUE]
  /\ take' = [take EXCEPT ![t] = FALSE]
  /\ UNCHANGED <<monitor, sleepers, state, shouldBlock, blocked, enabled,
                 terminating, active, pc, frame, saved, gcVars>>

TakeYieldpoint(t) ==
  /\ take[t]
  /\ active[t]
  /\ YieldpointsEnabled(t)
  /\ At(t, "managed", "yp_lock")
  /\ UNCHANGED <<tlsVars, frame, saved, gcVars>>

YieldpointLock(t) ==
  /\ At(t, "yp_lock", "yp_take")
  /\ Lock(t, t)
  /\ UNCHANGED <<sleepers, state, shouldBlock, blocked, take, pending, enabled,
                 terminating, active, frame, saved, gcVars>>

YieldpointTake(t) ==
  /\ At(t, "yp_take", IF take[t] THEN "cb_lock" ELSE "yp_unlock")
  /\ take' = [take EXCEPT ![t] = FALSE]
  /\ frame' = [frame EXCEPT ![t] = IF take[t] THEN "yieldpoint" ELSE "none"]
  /\ UNCHANGED <<monitor, sleepers, state, shouldBlock, blocked, pending,
                 enabled, terminating, active, saved, gcVars>>

YieldpointUnlock(t) ==
  /\ At(t, "yp_unlock", "managed")
  /\ Drop(t)
  /\ UNCHANGED <<sleepers, state, shouldBlock, blocked, take, pending, enabled,
                 terminating, active, frame, saved, gcVars>>

(* Slips: an enable without its disable, and one that forgets the flag. *)
EnableUnpaired(t) ==
  /\ pc[t] = "managed"
  /\ enabled' = [enabled EXCEPT ![t] = @ + 1]
  /\ UNCHANGED <<monitor, sleepers, state, shouldBlock, blocked, take, pending,
                 terminating, active, pc, frame, saved, gcVars>>

EnableWithoutRearming(t) ==
  /\ pc[t] = "managed"
  /\ enabled[t] < 1
  /\ enabled' = [enabled EXCEPT ![t] = @ + 1]
  /\ pending' = [pending EXCEPT ![t] = @ /\ enabled'[t] # 1]
  /\ UNCHANGED <<monitor, sleepers, state, shouldBlock, blocked, take,
                 terminating, active, pc, frame, saved, gcVars>>

(* A deferred request is taken again once yieldpoints are enabled. *)
EnableYieldpoints(t) ==
  /\ pc[t] = "managed"
  /\ enabled[t] < 1
  /\ enabled' = [enabled EXCEPT ![t] = @ + 1]
  /\ LET rearm == enabled'[t] = 1 /\ pending[t]
     IN /\ take' = [take EXCEPT ![t] = @ \/ rearm]
        /\ pending' = [pending EXCEPT ![t] = @ /\ ~rearm]
  /\ UNCHANGED <<monitor, sleepers, state, shouldBlock, blocked, terminating,
                 active, pc, frame, saved, gcVars>>

DisableYieldpoints(t) ==
  /\ pc[t] = "managed"
  /\ enabled[t] > 1 - DisableDepth[t]
  /\ enabled' = [enabled EXCEPT ![t] = @ - 1]
  /\ UNCHANGED <<monitor, sleepers, state, shouldBlock, blocked, take, pending,
                 terminating, active, pc, frame, saved, gcVars>>

-------------------------------------------------------------------------------
(* Mutators: check_block_no_save_context *)

CheckBlockLock(t) ==
  /\ At(t, "cb_lock", "cb_ack")
  /\ Lock(t, t)
  /\ UNCHANGED <<sleepers, state, shouldBlock, blocked, take, pending, enabled,
                 terminating, active, frame, saved, gcVars>>

CheckBlockAcknowledge(t) ==
  /\ At(t, "cb_ack", "cb_test")
  /\ Acknowledge(t)
  /\ UNCHANGED <<monitor, state, take, pending, enabled, terminating, active,
                 frame, saved, gcVars>>

CheckBlockTest(t) ==
  /\ At(t, "cb_test", IF blocked[t] THEN "cb_wait" ELSE "cb_run")
  /\ UNCHANGED <<tlsVars, frame, saved, gcVars>>

CheckBlockWait(t) ==
  /\ At(t, "cb_wait", "cb_asleep")
  /\ Sleep(t, t)
  /\ UNCHANGED <<state, shouldBlock, blocked, take, pending, enabled,
                 terminating, active, frame, gcVars>>

CheckBlockWake(t) ==
  /\ At(t, "cb_asleep", "cb_ack")
  /\ Wake(t, t)
  /\ UNCHANGED <<sleepers, state, shouldBlock, blocked, take, pending, enabled,
                 terminating, active, frame, gcVars>>

CheckBlockRun(t) ==
  /\ At(t, "cb_run", CASE frame[t] = "leave"      -> "managed"
                       [] frame[t] = "yieldpoint" -> "yp_unlock"
                       [] OTHER                   -> "self_unlock")
  /\ state' = [state EXCEPT ![t] = "Running"]
  /\ Drop(t)
  /\ frame' = [frame EXCEPT ![t] = "none"]
  /\ UNCHANGED <<sleepers, shouldBlock, blocked, take, pending, enabled,
                 terminating, active, saved, gcVars>>

-------------------------------------------------------------------------------
(* Mutators: parking *)

CallEnterParked(t) ==
  /\ At(t, "managed", "enter_parked")
  /\ UNCHANGED <<tlsVars, frame, saved, gcVars>>

(* The compare-and-swap of enter_parked. *)
ParkFast(t) ==
  /\ state[t] = "Running"
  /\ At(t, "enter_parked", "native")
  /\ state' = [state EXCEPT ![t] = "Parked"]
  /\ UNCHANGED <<monitor, sleepers, shouldBlock, blocked, take, pending,
                 enabled, terminating, active, frame, saved, gcVars>>

(* The state is no longer Running: enter_parked_blocked. *)
ParkLock(t) ==
  /\ state[t] # "Running"
  /\ At(t, "enter_parked", "park_blocked")
  /\ Lock(t, t)
  /\ UNCHANGED <<sleepers, state, shouldBlock, blocked, take, pending, enabled,
                 terminating, active, frame, saved, gcVars>>

ParkBlocked(t) ==
  /\ At(t, "park_blocked", "native")
  /\ state' = [state EXCEPT ![t] = "BlockedInParked"]
  /\ Acknowledge(t)
  /\ Drop(t)
  /\ UNCHANGED <<take, pending, enabled, terminating, active, frame, saved,
                 gcVars>>

(* Slip: a plain store of Running, whatever the state has become. *)
UnparkUnchecked(t) ==
  /\ At(t, "native", "managed")
  /\ state' = [state EXCEPT ![t] = "Running"]
  /\ UNCHANGED <<monitor, sleepers, shouldBlock, blocked, take, pending,
                 enabled, terminating, active, frame, saved, gcVars>>

(* attempt_leave_parked_no_block, when its compare-and-swap succeeds. *)
UnparkFast(t) ==
  /\ state[t] = "Parked"
  /\ At(t, "native", "managed")
  /\ state' = [state EXCEPT ![t] = "Running"]
  /\ UNCHANGED <<monitor, sleepers, shouldBlock, blocked, take, pending,
                 enabled, terminating, active, frame, saved, gcVars>>

LeaveParked(t) ==
  /\ At(t, "native", "cb_lock")
  /\ frame' = [frame EXCEPT ![t] = "leave"]
  /\ UNCHANGED <<tlsVars, saved, gcVars>>

-------------------------------------------------------------------------------
(* Mutators: block_for_gc, which is block() on the current thread *)

(* MMTk's allocator asks for a collection and calls block_for_gc. *)
PollForGC(t) ==
  /\ At(t, "managed", "self_lock")
  /\ gcRequested' = TRUE
  /\ UNCHANGED <<tlsVars, frame, saved, threads, gcpc, handshake, todo, cur,
                 asynchronous>>

SelfLock(t) ==
  /\ At(t, "self_lock", "self_request")
  /\ Lock(t, t)
  /\ UNCHANGED <<sleepers, state, shouldBlock, blocked, take, pending, enabled,
                 terminating, active, frame, saved, gcVars>>

SelfRequest(t) ==
  /\ At(t, "self_request", "cb_lock")
  /\ RequestBlock(t)
  /\ frame' = [frame EXCEPT ![t] = "self"]
  /\ UNCHANGED <<monitor, sleepers, state, blocked, take, pending, enabled,
                 terminating, active, saved, gcVars>>

SelfUnlock(t) ==
  /\ At(t, "self_unlock", "managed")
  /\ Drop(t)
  /\ UNCHANGED <<sleepers, state, shouldBlock, blocked, take, pending, enabled,
                 terminating, active, frame, saved, gcVars>>

-------------------------------------------------------------------------------
(* Mutators: terminate_thread *)

CallTerminate(t) ==
  /\ At(t, "managed", "term_lock")
  /\ UNCHANGED <<tlsVars, frame, saved, gcVars>>

TerminateLock(t) ==
  /\ At(t, "term_lock", "term_mark")
  /\ Lock(t, t)
  /\ UNCHANGED <<sleepers, state, shouldBlock, blocked, take, pending, enabled,
                 terminating, active, frame, saved, gcVars>>

(* Slip: nobody is told that the thread terminates. *)
TerminateSilently(t) ==
  /\ At(t, "term_mark", "term_destroy")
  /\ terminating' = [terminating EXCEPT ![t] = TRUE]
  /\ active' = [active EXCEPT ![t] = FALSE]
  /\ enabled' = [enabled EXCEPT ![t] = @ - 1]
  /\ UNCHANGED <<monitor, sleepers, state, shouldBlock, blocked, take, pending,
                 frame, saved, gcVars>>

TerminateMark(t) ==
  /\ At(t, "term_mark", "term_destroy")
  /\ terminating' = [terminating EXCEPT ![t] = TRUE]
  /\ active' = [active EXCEPT ![t] = FALSE]
  /\ enabled' = [enabled EXCEPT ![t] = @ - 1]
  /\ NotifyAll(t)
  /\ UNCHANGED <<monitor, state, shouldBlock, blocked, take, pending, frame,
                 saved, gcVars>>

(* mmtk::memory_manager::destroy_mutator, then remove_current_thread. *)
TerminateUnlock(t) ==
  /\ At(t, "term_destroy", "gone")
  /\ Drop(t)
  /\ UNCHANGED <<sleepers, state, shouldBlock, blocked, take, pending, enabled,
                 terminating, active, frame, saved, gcRequested, gcpc,
                 handshake, todo, cur, asynchronous>>

TerminateRemove(t) ==
  /\ threads' = threads \ {t}
  /\ TerminateUnlock(t)

-------------------------------------------------------------------------------
(* The coordinator: block_all_mutators_for_gc *)

GCAt(from, to) ==
  /\ gcpc = from
  /\ gcpc' = to

ActiveThreads == {t \in threads : active[t]}

(* MMTk runs stop_all_mutators once a collection has been requested. *)
StopAllMutators ==
  /\ gcRequested
  /\ GCAt("idle", "snapshot")
  /\ UNCHANGED <<tlsVars, pc, frame, saved, threads, gcRequested, handshake,
                 todo, cur, asynchronous>>

(* (1): the threads lock is held for the copy only. *)
Snapshot ==
  /\ GCAt("snapshot", "retain")
  /\ handshake' = ActiveThreads
  /\ todo' = ActiveThreads
  /\ UNCHANGED <<tlsVars, pc, frame, saved, threads, gcRequested, cur,
                 asynchronous>>

(* (2): retain() takes each monitor in turn. *)
RetainVisit(t) ==
  /\ t \in todo
  /\ GCAt("retain", "r_check")
  /\ Lock(GC, t)
  /\ todo' = todo \ {t}
  /\ cur' = t
  /\ UNCHANGED <<sleepers, state, shouldBlock, blocked, take, pending, enabled,
                 terminating, active, pc, frame, saved, threads, gcRequested,
                 handshake, asynchronous>>

(* blocked_for is true: the thread is done. *)
RetainForget ==
  /\ GCAt("r_check", "retain")
  /\ blocked[cur]
  /\ handshake' = handshake \ {cur}
  /\ Drop(cur)
  /\ cur' = GC
  /\ UNCHANGED <<sleepers, state, shouldBlock, blocked, take, pending, enabled,
                 terminating, active, pc, frame, saved, threads, gcRequested,
                 todo, asynchronous>>

(* It is false: block_async, still under the guard of the closure. *)
RetainBlock ==
  /\ GCAt("r_check", "b_request")
  /\ ~blocked[cur]
  /\ UNCHANGED <<tlsVars, pc, frame, saved, threads, gcRequested, handshake,
                 todo, cur, asynchronous>>

(* Slip: having asked every thread counts as having stopped it. *)
StopWithoutSync ==
  /\ todo = {}
  /\ GCAt("retain", "stopped")
  /\ gcRequested' = FALSE
  /\ handshake' = {}
  /\ UNCHANGED <<tlsVars, pc, frame, saved, threads, todo, cur, asynchronous>>

(* (3): nobody is left, so the world is stopped; MMTk then clears its      *)
(* request flag.                                                           *)
WorldIsStopped ==
  /\ todo = {}
  /\ handshake = {}
  /\ GCAt("retain", "stopped")
  /\ gcRequested' = FALSE
  /\ UNCHANGED <<tlsVars, pc, frame, saved, threads, handshake, todo, cur,
                 asynchronous>>

RetainDone ==
  /\ todo = {}
  /\ handshake # {}
  /\ GCAt("retain", "sync")
  /\ UNCHANGED <<tlsVars, pc, frame, saved, threads, gcRequested, handshake,
                 todo, cur, asynchronous>>

(* (4): block_sync on each thread that is left, then look again. *)
SyncVisit(t) ==
  /\ t \in handshake
  /\ GCAt("sync", "b_request")
  /\ Lock(GC, t)
  /\ handshake' = handshake \ {t}
  /\ cur' = t
  /\ asynchronous' = FALSE
  /\ UNCHANGED <<sleepers, state, shouldBlock, blocked, take, pending, enabled,
                 terminating, active, pc, frame, saved, threads, gcRequested,
                 todo>>

SyncDone ==
  /\ handshake = {}
  /\ GCAt("sync", "snapshot")
  /\ UNCHANGED <<tlsVars, pc, frame, saved, threads, gcRequested, handshake,
                 todo, cur, asynchronous>>

-------------------------------------------------------------------------------
(* The coordinator: block() on another thread *)

BlockRequest ==
  /\ GCAt("b_request", "b_exec")
  /\ RequestBlock(cur)
  /\ UNCHANGED <<monitor, sleepers, state, blocked, take, pending, enabled,
                 terminating, active, pc, frame, saved, threads, gcRequested,
                 handshake, todo, cur, asynchronous>>

(* block() returns: retain() goes on, or the loop of (4). *)
BlockReturn(from) ==
  /\ GCAt(from, IF asynchronous THEN "retain" ELSE "sync")
  /\ Drop(cur)
  /\ cur' = GC
  /\ asynchronous' = TRUE

BlockTerminated ==
  /\ BlockReturn("b_exec")
  /\ terminating[cur]
  /\ handshake' = handshake \ {cur}
  /\ UNCHANGED <<sleepers, state, shouldBlock, blocked, take, pending, enabled,
                 terminating, active, pc, frame, saved, threads, gcRequested,
                 todo>>

(* The common part of the three outcomes of set_blocked_exec_status. *)
BlockExecStatus(status) ==
  /\ gcpc = "b_exec"
  /\ ~terminating[cur]
  /\ BlockedStatus(state[cur]) = status
  /\ take' = [take EXCEPT ![cur] = TRUE]
  /\ state' = [state EXCEPT ![cur] = status]
  /\ NotifyAll(cur)
  /\ UNCHANGED <<shouldBlock, blocked, pending, enabled, terminating, active,
                 pc, frame, saved, threads, gcRequested, handshake, todo>>

BlockRunningAsync ==
  /\ BlockExecStatus("RunningToBlock")
  /\ asynchronous
  /\ BlockReturn("b_exec")

BlockRunningSync ==
  /\ BlockExecStatus("RunningToBlock")
  /\ ~asynchronous
  /\ GCAt("b_exec", "b_test")
  /\ UNCHANGED <<monitor, cur, asynchronous>>

BlockParked ==
  /\ BlockExecStatus("BlockedInParked")
  /\ GCAt("b_exec", "b_own")
  /\ UNCHANGED <<monitor, cur, asynchronous>>

(* The thread is parked: it is marked blocked on its behalf. *)
BlockOwn ==
  /\ BlockReturn("b_own")
  /\ shouldBlock' = [shouldBlock EXCEPT ![cur] = FALSE]
  /\ blocked' = [blocked EXCEPT ![cur] = TRUE]
  /\ UNCHANGED <<sleepers, state, take, pending, enabled, terminating, active,
                 pc, frame, saved, threads, gcRequested, handshake, todo>>

MustWait(t) == shouldBlock[t] /\ ~blocked[t] /\ ~terminating[t]

BlockMustWait ==
  /\ GCAt("b_test", "b_wait")
  /\ MustWait(cur)
  /\ UNCHANGED <<tlsVars, pc, frame, saved, threads, gcRequested, handshake,
                 todo, cur, asynchronous>>

BlockDone ==
  /\ BlockReturn("b_test")
  /\ ~MustWait(cur)
  /\ UNCHANGED <<sleepers, state, shouldBlock, blocked, take, pending, enabled,
                 terminating, active, pc, frame, saved, threads, gcRequested,
                 handshake, todo>>

BlockWait ==
  /\ GCAt("b_wait", "b_asleep")
  /\ Sleep(GC, cur)
  /\ UNCHANGED <<state, shouldBlock, blocked, take, pending, enabled,
                 terminating, active, pc, frame, threads, gcRequested,
                 handshake, todo, cur, asynchronous>>

BlockWake ==
  /\ GCAt("b_asleep", "b_test")
  /\ Wake(GC, cur)
  /\ UNCHANGED <<sleepers, state, shouldBlock, blocked, take, pending, enabled,
                 terminating, active, pc, frame, threads, gcRequested,
                 handshake, todo, cur, asynchronous>>

-------------------------------------------------------------------------------
(* The coordinator: unblock_all_mutators_for_gc *)

(* Slip: only the threads that blocked themselves are resumed. *)
ResumeRunningOnly ==
  /\ GCAt("stopped", "resume")
  /\ handshake' = {t \in ActiveThreads : state[t] = "RunningToBlock"}
  /\ UNCHANGED <<tlsVars, pc, frame, saved, threads, gcRequested, todo, cur,
                 asynchronous>>

ResumeMutators ==
  /\ GCAt("stopped", "resume")
  /\ handshake' = ActiveThreads
  /\ UNCHANGED <<tlsVars, pc, frame, saved, threads, gcRequested, todo, cur,
                 asynchronous>>

UnblockLock(t) ==
  /\ t \in handshake
  /\ GCAt("resume", "unblock")
  /\ Lock(GC, t)
  /\ handshake' = handshake \ {t}
  /\ cur' = t
  /\ UNCHANGED <<sleepers, state, shouldBlock, blocked, take, pending, enabled,
                 terminating, active, pc, frame, saved, threads, gcRequested,
                 todo, asynchronous>>

(* Slip: the blocked thread is not woken. *)
UnblockSilently ==
  /\ GCAt("unblock", "resume")
  /\ shouldBlock' = [shouldBlock EXCEPT ![cur] = FALSE]
  /\ blocked' = [blocked EXCEPT ![cur] = FALSE]
  /\ Drop(cur)
  /\ cur' = GC
  /\ UNCHANGED <<sleepers, state, take, pending, enabled, terminating, active,
                 pc, frame, saved, threads, gcRequested, handshake, todo,
                 asynchronous>>

Unblock ==
  /\ GCAt("unblock", "resume")
  /\ shouldBlock' = [shouldBlock EXCEPT ![cur] = FALSE]
  /\ blocked' = [blocked EXCEPT ![cur] = FALSE]
  /\ NotifyAll(cur)
  /\ Drop(cur)
  /\ cur' = GC
  /\ UNCHANGED <<state, take, pending, enabled, terminating, active, pc, frame,
                 saved, threads, gcRequested, handshake, todo, asynchronous>>

ResumeDone ==
  /\ handshake = {}
  /\ GCAt("resume", "idle")
  /\ UNCHANGED <<tlsVars, pc, frame, saved, threads, gcRequested, handshake,
                 todo, cur, asynchronous>>

-------------------------------------------------------------------------------
(* What a mutator does of its own accord in managed or native code. *)
Choose(t) ==
  \/ DisableYieldpoints(t)
  \/ CallEnterParked(t) \/ UnparkFast(t) \/ LeaveParked(t)
  \/ PollForGC(t) \/ CallTerminate(t)

(* The steps of a runtime function it is already in. *)
Proceed(t) ==
  \/ DeferYieldpoint(t)
  \/ YieldpointLock(t) \/ YieldpointTake(t) \/ YieldpointUnlock(t)
  \/ CheckBlockLock(t) \/ CheckBlockAcknowledge(t) \/ CheckBlockTest(t)
  \/ CheckBlockWait(t) \/ CheckBlockWake(t) \/ CheckBlockRun(t)
  \/ ParkFast(t) \/ ParkLock(t) \/ ParkBlocked(t)
  \/ SelfLock(t) \/ SelfRequest(t) \/ SelfUnlock(t)
  \/ TerminateLock(t) \/ TerminateMark(t) \/ TerminateRemove(t)

MutatorStep(t) ==
  \/ Choose(t) \/ Proceed(t)
  \/ TakeYieldpoint(t) \/ EnableYieldpoints(t)

Coordinator ==
  \/ StopAllMutators \/ Snapshot
  \/ \E t \in Mutators : RetainVisit(t) \/ SyncVisit(t) \/ UnblockLock(t)
  \/ RetainForget \/ RetainBlock \/ RetainDone \/ WorldIsStopped \/ SyncDone
  \/ BlockRequest \/ BlockTerminated
  \/ BlockRunningAsync \/ BlockRunningSync \/ BlockParked \/ BlockOwn
  \/ BlockMustWait \/ BlockDone \/ BlockWait \/ BlockWake
  \/ ResumeMutators \/ Unblock \/ ResumeDone

Next ==
  \/ \E t \in Mutators : MutatorStep(t)
  \/ Coordinator

Spec == Init /\ [][Next]_vars

(* The coordinator and every call into the runtime go on; the mutexes are  *)
(* eventually fair, so a step that is again and again possible is taken.   *)
(* A mutator reaches an enabled yieldpoint at some loop back edge, and a   *)
(* region with yieldpoints disabled ends (weak fairness says so where      *)
(* regions do not nest, as in the liveness runs).  Nothing makes native    *)
(* code return or a mutator allocate, park or terminate.                   *)
Fairness ==
  /\ SF_vars(Coordinator)
  /\ \A t \in Mutators :
       /\ SF_vars(Proceed(t))
       /\ SF_vars(TakeYieldpoint(t))
       /\ WF_vars(EnableYieldpoints(t))

FairSpec == Spec /\ Fairness

-------------------------------------------------------------------------------
(* Properties *)

MutatorPcs ==
  {"managed", "yp_lock", "yp_take", "yp_unlock", "cb_lock", "cb_ack",
   "cb_test", "cb_wait", "cb_asleep", "cb_run", "enter_parked",
   "park_blocked", "native", "self_lock", "self_request", "self_unlock",
   "term_lock", "term_mark", "term_destroy", "gone"}

GCPcs ==
  {"idle", "snapshot", "retain", "r_check", "sync", "b_request", "b_exec",
   "b_own", "b_test", "b_wait", "b_asleep", "stopped", "resume", "unblock"}

States == {"Running", "Parked", "RunningToBlock", "BlockedInParked"}

(* Every word keeps its type: New and Terminated are never stored in the   *)
(* state byte (threads.rs:673), and yieldpoints are never enabled twice.   *)
TypeOK ==
  /\ monitor \in [Mutators -> MonitorType(Procs)]
  /\ sleepers \in [Mutators -> SUBSET Procs]
  /\ state \in [Mutators -> States]
  /\ shouldBlock \in [Mutators -> BOOLEAN]
  /\ blocked \in [Mutators -> BOOLEAN]
  /\ take \in [Mutators -> BOOLEAN]
  /\ pending \in [Mutators -> BOOLEAN]
  /\ enabled \in [Mutators -> Int]
  /\ \A t \in Mutators : enabled[t] \in (-DisableDepth[t])..1
  /\ terminating \in [Mutators -> BOOLEAN]
  /\ active \in [Mutators -> BOOLEAN]
  /\ pc \in [Mutators -> MutatorPcs]
  /\ frame \in [Mutators -> {"none", "yieldpoint", "leave", "self"}]
  /\ saved \in [Procs -> 0..(RecLimit - 1)]
  /\ threads \in SUBSET Mutators
  /\ gcRequested \in BOOLEAN
  /\ gcpc \in GCPcs
  /\ handshake \in SUBSET Mutators
  /\ todo \in SUBSET Mutators
  /\ cur \in Procs
  /\ asynchronous \in BOOLEAN

(* Places where a thread executes no managed code and will test whether it *)
(* is blocked before it does.                                              *)
SafePcs == {"native", "cb_lock", "cb_ack", "cb_test", "cb_wait", "cb_asleep"}
GonePcs == {"term_destroy", "gone"}

Code(t) ==
  IF pc[t] \in SafePcs THEN "safe"
  ELSE IF pc[t] \in GonePcs THEN "gone" ELSE "managed"

World ==
  CASE gcpc = "stopped" -> "stopped"
    [] gcpc \in {"idle", "resume", "unblock"} -> "running"
    [] OTHER -> "stopping"

(* threads.rs:1122-1128: when block_all_mutators_for_gc has returned, no   *)
(* mutator executes managed code.                                          *)
WorldStopped ==
  gcpc = "stopped" => \A t \in Mutators : Code(t) # "managed"

(* threads.rs:1122-1128: a thread that block_all_mutators_for_gc does not   *)
(* wait for "will not perform any heap-related work before terminating".   *)
HeapQuiescent ==
  gcpc = "stopped" => \A t \in Mutators : pc[t] # "term_destroy"

(* The handshake does what the collector relies on: the world is stopped   *)
(* by a step that no thread undoes before resume_mutators.                 *)
STW == INSTANCE StopTheWorld WITH world <- World, code <- [t \in Mutators |-> Code(t)]

ImplementsStopTheWorld == STW!Spec

(* threads.rs:456-462: a block request cannot get lost.  A thread that has *)
(* been told to block and runs managed code has its yieldpoint flag up, or *)
(* deferred to the moment it enables yieldpoints again.                    *)
RequestNotLost ==
  \A t \in Mutators :
    pc[t] = "managed" /\ state[t] = "RunningToBlock"
      => take[t] \/ (pending[t] /\ enabled[t] < 1)

(* threads.rs:1143-1162: nobody is left blocked or about to block when no  *)
(* collection is requested or under way to resume it.                      *)
NoOrphanBlock ==
  \A t \in Mutators :
    active[t] /\ (blocked[t] \/ shouldBlock[t]) => gcRequested \/ gcpc # "idle"

(* threads.rs:216-276: nobody sleeps on what has already happened.  While   *)
(* the coordinator sleeps un-notified, the thread it waits for has neither *)
(* acknowledged nor terminated; while a thread sleeps so in check_block,   *)
(* it is blocked.                                                          *)
NoLostWakeup ==
  /\ gcpc = "b_asleep" /\ GC \in sleepers[cur] => MustWait(cur)
  /\ \A t \in Mutators : t \in sleepers[t] => blocked[t]

(* threads.rs:216-276 and sync.rs:16-20: each thread uses its monitor as    *)
(* one recursive mutex with a condition variable.  However its own steps   *)
(* and the coordinator's interleave, a process locks only what nobody else *)
(* holds, gives up all its levels when it waits and returns with as many.  *)
HeldBy(p, t) == IF monitor[t].holder = p THEN monitor[t].rec ELSE 0
KeptBy(p, t) == IF p = t \/ (p = GC /\ cur = t) THEN saved[p] ELSE 0

Mon(t) == INSTANCE RecursiveMonitor WITH
  Threads  <- Procs,
  MaxDepth <- RecLimit - 1,
  depth    <- [p \in Procs |-> HeldBy(p, t)],
  saved    <- [p \in Procs |-> KeptBy(p, t)],
  waiters  <- sleepers[t]

(* This is \A t \in Mutators : Mon(t)!Spec, in the form that TLC accepts.   *)
MonitorsAreRecursive ==
  /\ \A t \in Mutators : Mon(t)!Init
  /\ [][\A t \in Mutators : [Mon(t)!Next]_(Mon(t)!vars)]_vars

(* collection.rs:24-29: a requested collection gets its stopped world,     *)
(* whatever mix of running, parked, deferring and terminating threads      *)
(* block_all_mutators_for_gc meets.                                        *)
CollectionStarts == gcRequested ~> gcpc = "stopped"

(* collection.rs:45-47: a thread that is blocked for GC is resumed, and if *)
(* it sleeps in check_block it is woken to see so: each of blocked[t] and  *)
(* the place leads to its negation, which is to say that the negation      *)
(* comes about again and again.                                            *)
BlockedIsResumed ==
  \A t \in Mutators :
    /\ []<>(~blocked[t])
    /\ []<>(pc[t] # "cb_asleep")

===============================================================================
