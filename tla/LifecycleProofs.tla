----------------------------- MODULE LifecycleProofs -----------------------------
(***************************************************************************)
(* The registry is right for any set of threads, started and terminated    *)
(* in any order, and whatever the monitors do.                             *)
(***************************************************************************)
EXTENDS Lifecycle, SequenceTheorems, TLAPS

AllPcs == MutatorPcs \union StartPcs

NewPcs == {"unborn", "st_set_main", "st_add_main", "st_add", "refused"}

OutsidePcs == NewPcs \union {"gone"}

(* A thread is registered from its Push to its removal, which is all the   *)
(* handshake needs to leave to the registry.                               *)
Registered ==
  \A t \in Mutators :
    /\ pc[t] \in NewPcs => t \notin threads
    /\ pc[t] \notin OutsidePcs => t \in threads
    /\ pc[t] = "gone" /\ t \in threads => poisoned

RInv ==
  /\ list \in Seq(Mutators)
  /\ index \in [Mutators -> Nat]
  /\ threads \in SUBSET Mutators
  /\ pc \in [Mutators -> AllPcs]
  /\ Registered
  /\ Slotted
  /\ JoinerNotForgotten

(* A handshake step that is not a removal moves only threads that are      *)
(* registered, and leaves them so.                                         *)
LEMMA HandshakingStaysInside ==
  ASSUME RInv, Handshaking
  PROVE  /\ pc' \in [Mutators -> AllPcs]
         /\ \A t \in Mutators : pc'[t] \in OutsidePcs <=> pc[t] \in OutsidePcs
         /\ \A t \in Mutators : pc[t] \in OutsidePcs => pc'[t] = pc[t]
<1> DEFINE Stays == /\ pc' \in [Mutators -> AllPcs]
                    /\ \A t \in Mutators : pc'[t] \in OutsidePcs <=> pc[t] \in OutsidePcs
                    /\ \A t \in Mutators : pc[t] \in OutsidePcs => pc'[t] = pc[t]
<1> USE DEF RInv, OutsidePcs, NewPcs, AllPcs, MutatorPcs, StartPcs, At
<1>1. ASSUME NEW t \in Mutators, Choose(t) PROVE Stays
  BY <1>1 DEF Choose, DisableYieldpoints, CallEnterParked, UnparkFast,
     LeaveParked, PollForGC, CallTerminate
<1>2. ASSUME NEW t \in Mutators, Proceed(t) PROVE Stays
  <2>1. ~TerminateRemove(t)
    <3> SUFFICES ASSUME TerminateRemove(t) PROVE FALSE
      OBVIOUS
    <3>1. pc[t] = "term_destroy" /\ threads' = threads \ {t}
      BY DEF TerminateRemove, TerminateUnlock
    <3>2. t \in threads
      BY <3>1 DEF Registered
    <3> QED
      BY <3>1, <3>2 DEF Handshaking
  <2>2. CASE DeferYieldpoint(t) \/ YieldpointLock(t) \/ YieldpointTake(t)
             \/ YieldpointUnlock(t)
    BY <2>2, SMTT(30) DEF DeferYieldpoint, YieldpointLock, YieldpointTake, YieldpointUnlock
  <2>3. CASE CheckBlockLock(t) \/ CheckBlockAcknowledge(t) \/ CheckBlockTest(t)
             \/ CheckBlockWait(t) \/ CheckBlockWake(t)
    BY <2>3 DEF CheckBlockLock, CheckBlockAcknowledge, CheckBlockTest,
       CheckBlockWait, CheckBlockWake
  <2>4. CASE CheckBlockRun(t)
    BY <2>4 DEF CheckBlockRun
  <2>5. CASE ParkFast(t) \/ ParkLock(t) \/ ParkBlocked(t)
    BY <2>5 DEF ParkFast, ParkLock, ParkBlocked
  <2>6. CASE SelfLock(t) \/ SelfRequest(t) \/ SelfUnlock(t)
    BY <2>6 DEF SelfLock, SelfRequest, SelfUnlock
  <2>7. CASE TerminateLock(t) \/ TerminateMark(t)
    BY <2>7 DEF TerminateLock, TerminateMark
  <2> QED
    BY <1>2, <2>1, <2>2, <2>3, <2>4, <2>5, <2>6, <2>7 DEF Proceed
<1>3. ASSUME NEW t \in Mutators, TakeYieldpoint(t) \/ EnableYieldpoints(t)
      PROVE  Stays
  BY <1>3 DEF TakeYieldpoint, EnableYieldpoints
<1>4. ASSUME Coordinator PROVE Stays
  <2>1. UNCHANGED pc
    BY <1>4 DEF Coordinator, StopAllMutators, Snapshot, RetainVisit, SyncVisit,
       UnblockLock, RetainForget, RetainBlock, RetainDone, WorldIsStopped,
       SyncDone, BlockRequest, BlockTerminated, BlockRunningAsync,
       BlockRunningSync, BlockParked, BlockExecStatus, BlockReturn, BlockOwn,
       BlockMustWait, BlockDone, BlockWait, BlockWake, ResumeMutators, Unblock,
       ResumeDone, tlsVars
  <2> QED
    BY <2>1
<1> QED
  BY <1>1, <1>2, <1>3, <1>4 DEF Handshaking, Next, MutatorStep

(* Taking the next slot, under the registry's mutex.                       *)
LEMMA PushKeeps ==
  ASSUME RInv, NEW t \in Mutators, t \notin threads, Push(t)
  PROVE  /\ list' \in Seq(Mutators)
         /\ index' \in [Mutators -> Nat]
         /\ threads' \in SUBSET Mutators
         /\ Slotted'
         /\ JoinerNotForgotten'
<1> USE DEF RInv, Push
<1>1. list' = Append(list, t) /\ Len(list) \in Nat
  OBVIOUS
<1>2. list' \in Seq(Mutators) /\ list' # <<>> /\ DOMAIN list' = 1..(Len(list) + 1)
  BY <1>1
<1>3. \A i \in DOMAIN list : i \in DOMAIN list' /\ list'[i] = list[i] /\ list[i] # t
  BY <1>1 DEF Slotted, ToSet
<1>4. list'[Len(list) + 1] = t
  BY <1>1
<1>5. ToSet(list') = threads'
  <2>1. \A u : u \in threads <=> \E i \in DOMAIN list : list[i] = u
    BY DEF Slotted, ToSet
  <2>2. \A u : u \in ToSet(list') <=> \E i \in DOMAIN list' : list'[i] = u
    BY DEF ToSet
  <2>3. \A u : u \in ToSet(list') <=> u \in threads \/ u = t
    <3>1. DOMAIN list = 1..Len(list)
      OBVIOUS
    <3> QED
      BY <3>1, <2>1, <2>2, <1>1, <1>2, <1>3, <1>4
  <2> QED
    BY <2>3
<1>6. ASSUME NEW i \in DOMAIN list' PROVE index'[list'[i]] = i - 1
  <2>1. CASE i = Len(list) + 1
    BY <2>1, <1>4
  <2>2. CASE i \in DOMAIN list
    BY <2>2, <1>3, <1>2 DEF Slotted
  <2> QED
    BY <2>1, <2>2, <1>2
<1> QED
  BY <1>2, <1>5, <1>6 DEF Slotted, JoinerNotForgotten

(* A slot of a sequence is freed by moving the last element into it.       *)
LEMMA SwapRemoveSeq ==
  ASSUME NEW S, NEW s \in Seq(S), NEW k \in 1..Len(s)
  PROVE  /\ SwapRemove(s, k - 1) \in Seq(S)
         /\ DOMAIN SwapRemove(s, k - 1) = 1..(Len(s) - 1)
         /\ \A i \in 1..(Len(s) - 1) :
              SwapRemove(s, k - 1)[i] = IF i = k THEN s[Len(s)] ELSE s[i]
<1>1. PICK n \in Nat : n = Len(s) - 1
  OBVIOUS
<1>2. Last(s) = s[Len(s)] /\ s[Len(s)] \in S /\ \A i \in 1..n : s[i] \in S
  BY <1>1 DEF Last
<1>3. k - 1 + 1 = k
  OBVIOUS
<1>4. SwapRemove(s, k - 1) = [i \in 1..n |-> IF i = k THEN s[Len(s)] ELSE s[i]]
  BY <1>1, <1>2, <1>3, Zenon DEF SwapRemove
<1>5. SwapRemove(s, k - 1) \in [1..n -> S]
  BY <1>2, <1>4
<1>6. SwapRemove(s, k - 1) \in Seq(S)
  BY <1>5, SeqDef
<1> QED
  BY <1>1, <1>4, <1>6

(* The swap: the thread of the last slot gets the slot that is freed.      *)
LEMMA RemovalKeeps ==
  ASSUME RInv, NEW t \in Mutators, t \in threads, threads' = threads \ {t},
         RemoveFromList(t)
  PROVE  /\ list' \in Seq(Mutators)
         /\ index' \in [Mutators -> Nat]
         /\ Slotted'
         /\ JoinerNotForgotten'
<1>1. list \in Seq(Mutators) /\ index \in [Mutators -> Nat] /\ Slotted
  BY DEF RInv
<1>2. PICK n \in Nat : n = Len(list) /\ DOMAIN list = 1..n
  BY <1>1
<1>3. PICK k \in 1..n : list[k] = t
  BY <1>2 DEF Slotted, ToSet, RInv
<1>4. \A i \in 1..n : list[i] \in Mutators /\ index[list[i]] = i - 1
  BY <1>1, <1>2, SMTT(20) DEF Slotted
<1>5. index[t] = k - 1
  BY <1>3, <1>4
<1>6. \A i, j \in 1..n : list[i] = list[j] => i = j
  <2>1. SUFFICES ASSUME NEW i \in 1..n, NEW j \in 1..n, list[i] = list[j] PROVE i = j
    OBVIOUS
  <2>2. i - 1 = j - 1
    BY <2>1, <1>4
  <2> QED
    BY <2>2
<1>7. /\ list' \in Seq(Mutators)
      /\ DOMAIN list' = 1..(n - 1)
      /\ \A i \in 1..(n - 1) : list'[i] = IF i = k THEN list[n] ELSE list[i]
  <2>1. list' = SwapRemove(list, k - 1)
    BY <1>5 DEF RemoveFromList
  <2> QED
    BY <2>1, <1>1, <1>2, <1>3, SwapRemoveSeq, ZenonT(30)
<1>8. index' = IF k = n THEN index ELSE [index EXCEPT ![list[n]] = k - 1]
  <2>1. Last(list) = list[n]
    BY <1>2 DEF Last
  <2>2. index[t] = Len(list) - 1 <=> k = n
    BY <1>2, <1>3, <1>5
  <2> QED
    BY <2>1, <2>2, <1>5 DEF RemoveFromList
<1>9. index' \in [Mutators -> Nat]
  <2>1. list[n] \in Mutators /\ k - 1 \in Nat
    BY <1>3, <1>4
  <2> QED
    BY <2>1, <1>1, <1>8
<1>10. \A u : u \in threads <=> \E i \in 1..n : list[i] = u
  BY <1>1, <1>2 DEF Slotted, ToSet
<1>11. \A u : u \in threads \ {t} <=> \E i \in 1..(n - 1) : list'[i] = u
  <2>1. ASSUME NEW i \in 1..(n - 1) PROVE list'[i] \in threads \ {t}
    <3>1. i \in 1..n /\ n \in 1..n /\ i # n
      OBVIOUS
    <3>2. CASE i = k
      BY <3>1, <3>2, <1>3, <1>6, <1>7, <1>10
    <3>3. CASE i # k
      BY <3>1, <3>3, <1>3, <1>6, <1>7, <1>10
    <3> QED
      BY <3>2, <3>3
  <2>2. ASSUME NEW u \in threads \ {t} PROVE \E i \in 1..(n - 1) : list'[i] = u
    <3>1. PICK j \in 1..n : list[j] = u
      BY <1>10
    <3>2. j # k
      BY <3>1, <1>3
    <3>3. CASE j = n
      <4>1. k \in 1..(n - 1) /\ list'[k] = u
        BY <3>1, <3>2, <3>3, <1>3, <1>7
      <4> QED
        BY <4>1
    <3>4. CASE j # n
      <4>1. j \in 1..(n - 1) /\ list'[j] = u
        BY <3>1, <3>2, <3>4, <1>7
      <4> QED
        BY <4>1
    <3> QED
      BY <3>3, <3>4
  <2> QED
    BY <2>1, <2>2
<1>12. ToSet(list') = threads'
  BY <1>7, <1>11 DEF ToSet
<1>13. ASSUME NEW i \in 1..(n - 1) PROVE index'[list'[i]] = i - 1
  <2>1. i \in 1..n /\ n \in 1..n /\ i # n
    OBVIOUS
  <2>2. index[list[i]] = i - 1 /\ list[i] \in Mutators /\ list[n] \in Mutators
    BY <2>1, <1>4
  <2>3. list[i] # list[n]
    BY <2>1, <1>6
  <2>4. CASE i = k
    BY <2>4, <2>1, <2>2, <1>1, <1>7, <1>8
  <2>5. CASE i # k
    BY <2>5, <2>2, <2>3, <1>1, <1>7, <1>8
  <2> QED
    BY <2>4, <2>5
<1>14. JoinerNotForgotten'
  BY DEF JoinerNotForgotten, RemoveFromList, WokenJoiner
<1> QED
  BY <1>7, <1>9, <1>12, <1>13, <1>14 DEF Slotted

-------------------------------------------------------------------------------

LEMMA InitRegistry == InitLifecycle => RInv
<1> SUFFICES ASSUME InitLifecycle PROVE RInv
  OBVIOUS
<1>1. list = <<>> /\ list \in Seq(Mutators) /\ ToSet(list) = {} /\ DOMAIN list = {}
  BY DEF InitLifecycle, ToSet
<1> QED
  BY <1>1 DEF InitLifecycle, RInv, Registered, OutsidePcs, NewPcs, AllPcs,
     StartPcs, Slotted, JoinerNotForgotten

LEMMA RegistryStep ==
  ASSUME RInv, [NextLifecycle]_allVars
  PROVE  RInv'
<1> USE DEF RInv
<1>1. CASE UNCHANGED allVars
  BY <1>1 DEF allVars, vars, gcVars, regVars, Registered, Slotted,
     JoinerNotForgotten
<1>2. ASSUME NEW t \in Mutators, Start(t) PROVE RInv'
  <2>1. CASE AddMainThread(t) \/ AddThread(t)
    <3>1. t \notin threads
      BY <2>1 DEF AddMainThread, AddThread, At, Registered, OutsidePcs, NewPcs
    <3>2. /\ list' \in Seq(Mutators) /\ index' \in [Mutators -> Nat]
          /\ threads' \in SUBSET Mutators
          /\ Slotted' /\ JoinerNotForgotten'
      BY <2>1, <3>1, PushKeeps DEF AddMainThread, AddThread
    <3>3. pc' \in [Mutators -> AllPcs] /\ Registered'
      BY <2>1 DEF AddMainThread, AddThread, At, Push, Registered, OutsidePcs,
         NewPcs, AllPcs, StartPcs
    <3> QED
      BY <3>2, <3>3
  <2>2. CASE StartThread(t) \/ StoreMainThread(t) \/ LeaveParkedScope(t)
             \/ StoreRunning(t) \/ EnterCallback(t)
    <3>1. UNCHANGED <<list, index, threads, joiner, poisoned>>
      BY <2>2 DEF StartThread, StoreMainThread, LeaveParkedScope, StoreRunning,
         EnterCallback, gcVars, regVars
    <3>2. pc' \in [Mutators -> AllPcs] /\ Registered'
      BY <2>2, <3>1, SMTT(30) DEF StartThread, StoreMainThread, LeaveParkedScope,
         StoreRunning, EnterCallback, At, Registered, OutsidePcs, NewPcs,
         AllPcs, MutatorPcs, StartPcs
    <3> QED
      BY <3>1, <3>2 DEF Slotted, JoinerNotForgotten
  <2>3. CASE RegistrationFails(t)
    <3>1. UNCHANGED <<list, index, threads, joiner>>
      BY <2>3 DEF RegistrationFails, gcVars
    <3>2. pc' \in [Mutators -> AllPcs] /\ Registered'
      BY <2>3, <3>1 DEF RegistrationFails, Registered, OutsidePcs, NewPcs,
         AllPcs, StartPcs
    <3> QED
      BY <3>1, <3>2 DEF Slotted, JoinerNotForgotten
  <2> QED
    BY <1>2, <2>1, <2>2, <2>3 DEF Start
<1>3. ASSUME NEW t \in Mutators, TerminateAndLeave(t) PROVE RInv'
  <2>1. t \in threads /\ threads' = threads \ {t}
    BY <1>3 DEF TerminateAndLeave, TerminateRemove, TerminateUnlock, At,
       Registered, OutsidePcs, NewPcs
  <2>2. pc' \in [Mutators -> AllPcs] /\ Registered'
    BY <1>3, <2>1 DEF TerminateAndLeave, TerminateRemove, TerminateUnlock, At,
       Registered, OutsidePcs, NewPcs, AllPcs, MutatorPcs
  <2> QED
    BY <1>3, <2>1, <2>2, RemovalKeeps DEF TerminateAndLeave
<1>4. ASSUME NEW t \in Mutators, TerminateFails(t) PROVE RInv'
  <2>1. UNCHANGED <<threads, list, index, joiner>>
    BY <1>4 DEF TerminateFails, regVars
  <2>2. pc' \in [Mutators -> AllPcs] /\ Registered'
    BY <1>4, <2>1 DEF TerminateFails, TerminateUnlock, regVars, At, Registered,
       OutsidePcs, NewPcs, AllPcs, MutatorPcs
  <2> QED
    BY <2>1, <2>2 DEF Slotted, JoinerNotForgotten
<1>5. ASSUME JoinAll \/ JoinWake PROVE RInv'
  <2>1. UNCHANGED <<list, index, threads, pc, poisoned>> /\ JoinTest
    BY <1>5 DEF JoinAll, JoinWake, vars, gcVars
  <2> QED
    BY <2>1 DEF JoinTest, Registered, Slotted, JoinerNotForgotten
<1>6. ASSUME Handshaking PROVE RInv'
  <2>1. UNCHANGED <<threads, list, index, joiner, poisoned>>
    BY <1>6 DEF Handshaking, regVars
  <2>2. pc' \in [Mutators -> AllPcs] /\ Registered'
    BY <1>6, <2>1, HandshakingStaysInside DEF Registered, OutsidePcs
  <2> QED
    BY <2>1, <2>2 DEF Slotted, JoinerNotForgotten
<1> QED
  BY <1>1, <1>2, <1>3, <1>4, <1>5, <1>6 DEF NextLifecycle

LEMMA RegistryInductive == SpecLifecycle => []RInv
BY InitRegistry, RegistryStep, PTL DEF SpecLifecycle

-------------------------------------------------------------------------------

(* threads.rs:845-891: for any number of threads, every registered thread  *)
(* is in the vector once, at the index it has stored.                      *)
THEOREM Indexed == SpecLifecycle => []RegistryIndexed
<1>1. RInv => RegistryIndexed
  BY DEF RInv, Registered, RegistryIndexed
<1> QED
  BY <1>1, RegistryInductive, PTL

(* threads.rs:893-900: join_all never sleeps while the registry is empty.  *)
THEOREM JoinWakes == SpecLifecycle => []JoinerNotForgotten
<1>1. RInv => JoinerNotForgotten
  BY DEF RInv
<1> QED
  BY <1>1, RegistryInductive, PTL

-------------------------------------------------------------------------------
(* The types of the words that RInv leaves out.                            *)

TInv ==
  /\ state \in [Mutators -> States]
  /\ enabled \in [Mutators -> Int]
  /\ main \in Mutators \union {NoHolder}
  /\ joiner \in {"none", "asleep", "woken", "done", "panicked"}
  /\ poisoned \in BOOLEAN

(* The coordinator stores only states it knows; a mutator moves its count  *)
(* of enabled yieldpoints by one.                                          *)
LEMMA HandshakingTypes ==
  ASSUME TInv, Handshaking
  PROVE  state' \in [Mutators -> States] /\ enabled' \in [Mutators -> Int]
<1> USE DEF TInv, States
<1>1. ASSUME NEW t \in Mutators, MutatorStep(t)
      PROVE  state' \in [Mutators -> States]
  <2>1. CASE Choose(t)
    BY <2>1 DEF Choose, DisableYieldpoints, CallEnterParked, UnparkFast,
       LeaveParked, PollForGC, CallTerminate, tlsVars
  <2>2. CASE Proceed(t)
    BY <2>2 DEF Proceed, DeferYieldpoint, YieldpointLock, YieldpointTake,
       YieldpointUnlock, CheckBlockLock, CheckBlockAcknowledge, CheckBlockTest,
       CheckBlockWait, CheckBlockWake, CheckBlockRun, ParkFast, ParkLock,
       ParkBlocked, SelfLock, SelfRequest, SelfUnlock, TerminateLock,
       TerminateMark, TerminateRemove, TerminateUnlock, tlsVars
  <2>3. CASE TakeYieldpoint(t) \/ EnableYieldpoints(t)
    BY <2>3 DEF TakeYieldpoint, EnableYieldpoints, tlsVars
  <2> QED
    BY <1>1, <2>1, <2>2, <2>3 DEF MutatorStep
<1>2. ASSUME NEW t \in Mutators, MutatorStep(t)
      PROVE  enabled' \in [Mutators -> Int]
  <2>1. CASE Choose(t)
    BY <2>1 DEF Choose, DisableYieldpoints, CallEnterParked, UnparkFast,
       LeaveParked, PollForGC, CallTerminate, tlsVars
  <2>2. CASE Proceed(t)
    BY <2>2 DEF Proceed, DeferYieldpoint, YieldpointLock, YieldpointTake,
       YieldpointUnlock, CheckBlockLock, CheckBlockAcknowledge, CheckBlockTest,
       CheckBlockWait, CheckBlockWake, CheckBlockRun, ParkFast, ParkLock,
       ParkBlocked, SelfLock, SelfRequest, SelfUnlock, TerminateLock,
       TerminateMark, TerminateRemove, TerminateUnlock, tlsVars
  <2>3. CASE TakeYieldpoint(t) \/ EnableYieldpoints(t)
    BY <2>3 DEF TakeYieldpoint, EnableYieldpoints, tlsVars
  <2> QED
    BY <1>2, <2>1, <2>2, <2>3 DEF MutatorStep
<1>3. ASSUME Coordinator
      PROVE  state' \in [Mutators -> States] /\ enabled' \in [Mutators -> Int]
  <2>1. CASE BlockRunningAsync \/ BlockRunningSync \/ BlockParked
    BY <2>1 DEF BlockRunningAsync, BlockRunningSync, BlockParked, BlockExecStatus
  <2>2. CASE UNCHANGED <<state, enabled>>
    BY <2>2
  <2>3. BlockRunningAsync \/ BlockRunningSync \/ BlockParked \/ UNCHANGED <<state, enabled>>
    BY <1>3 DEF Coordinator, StopAllMutators, Snapshot, RetainVisit, SyncVisit,
       UnblockLock, RetainForget, RetainBlock, RetainDone, WorldIsStopped,
       SyncDone, BlockRequest, BlockTerminated, BlockOwn, BlockMustWait,
       BlockDone, BlockWait, BlockWake, ResumeMutators, Unblock, ResumeDone,
       tlsVars
  <2> QED
    BY <2>1, <2>2, <2>3
<1> QED
  BY <1>1, <1>2, <1>3 DEF Handshaking, Next

LEMMA TypesStep ==
  ASSUME TInv, [NextLifecycle]_allVars
  PROVE  TInv'
<1> USE DEF TInv
<1>1. CASE UNCHANGED allVars
  BY <1>1 DEF allVars, vars, tlsVars, regVars
<1>2. ASSUME NEW t \in Mutators, Start(t) PROVE TInv'
  <2>1. CASE StartThread(t) \/ StoreMainThread(t) \/ LeaveParkedScope(t)
             \/ AddMainThread(t) \/ AddThread(t) \/ RegistrationFails(t)
    BY <2>1 DEF StartThread, StoreMainThread, LeaveParkedScope, AddMainThread,
       AddThread, RegistrationFails, Push, tlsVars, regVars
  <2>2. CASE StoreRunning(t) \/ EnterCallback(t)
    BY <2>2 DEF StoreRunning, EnterCallback, States, regVars
  <2> QED
    BY <1>2, <2>1, <2>2 DEF Start
<1>3. ASSUME NEW t \in Mutators, TerminateAndLeave(t) \/ TerminateFails(t) PROVE TInv'
  BY <1>3 DEF TerminateAndLeave, TerminateFails, TerminateRemove,
     TerminateUnlock, RemoveFromList, WokenJoiner, regVars
<1>4. ASSUME JoinAll \/ JoinWake PROVE TInv'
  BY <1>4 DEF JoinAll, JoinWake, JoinTest, vars, tlsVars
<1>5. ASSUME Handshaking PROVE TInv'
  BY <1>5, HandshakingTypes DEF Handshaking, regVars
<1> QED
  BY <1>1, <1>2, <1>3, <1>4, <1>5 DEF NextLifecycle

(* threads.rs:85-110 and :845-891: through starts, collections and         *)
(* terminations of any number of threads every word keeps its type; New    *)
(* and Terminated are never stored in the state byte.                      *)
THEOREM TypeCorrect == SpecLifecycle => []TypeOKLifecycle
<1>1. InitLifecycle => TInv
  <2> SUFFICES ASSUME InitLifecycle PROVE TInv
    OBVIOUS
  <2>1. state \in [Mutators -> States] /\ enabled \in [Mutators -> Int]
    BY DEF InitLifecycle, States
  <2>2. main = NoHolder /\ joiner = "none" /\ poisoned = FALSE
    BY DEF InitLifecycle
  <2> QED
    BY <2>1, <2>2 DEF TInv
<1>2. RInv /\ TInv => TypeOKLifecycle
  BY DEF RInv, TInv, TypeOKLifecycle, AllPcs
<1> QED
  BY <1>1, <1>2, TypesStep, RegistryInductive, PTL DEF SpecLifecycle

-------------------------------------------------------------------------------
(* Who is the main thread.                                                 *)

(* Nobody registers before MAIN_THREAD is set, as whoever gets that far has *)
(* set it or has found it set.                                             *)
MInv ==
  /\ \A t \in Mutators : pc[t] \in {"st_add_main", "st_add"} => main # NoHolder
  /\ MainTestSound

LEMMA MainStep ==
  ASSUME RInv, MInv, [NextLifecycle]_allVars
  PROVE  MInv'
<1> USE DEF MInv, MainTestSound
<1>0. pc \in [Mutators -> AllPcs]
  BY DEF RInv
<1>1. CASE UNCHANGED allVars
  BY <1>1 DEF allVars, vars, regVars
<1>2. ASSUME NEW t \in Mutators, Start(t) PROVE MInv'
  <2>1. CASE StartThread(t)
    BY <2>1, <1>0 DEF StartThread, At, regVars
  <2>2. CASE StoreMainThread(t)
    <3>1. main' # NoHolder
      BY <2>2, HandshakeAssumption DEF StoreMainThread, HandshakeAssumption, Procs
    <3> QED
      BY <2>2, <3>1 DEF StoreMainThread
  <2>3. CASE AddMainThread(t) \/ AddThread(t)
    <3>1. main # NoHolder /\ UNCHANGED <<main, poisoned>> /\ ~poisoned
      BY <2>3 DEF AddMainThread, AddThread, At, Push
    <3> QED
      BY <3>1
  <2>4. CASE RegistrationFails(t)
    <3>1. main # NoHolder /\ list # <<>> /\ UNCHANGED <<main, list>>
      BY <2>4 DEF RegistrationFails
    <3> QED
      BY <3>1
  <2>5. CASE LeaveParkedScope(t) \/ StoreRunning(t) \/ EnterCallback(t)
    BY <2>5, <1>0 DEF LeaveParkedScope, StoreRunning, EnterCallback, At, regVars
  <2> QED
    BY <1>2, <2>1, <2>2, <2>3, <2>4, <2>5 DEF Start
<1>3. ASSUME NEW t \in Mutators, TerminateAndLeave(t) PROVE MInv'
  <2>1. t \in ToSet(list)
    BY <1>3 DEF TerminateAndLeave, TerminateRemove, TerminateUnlock, At, RInv,
       Slotted, Registered, OutsidePcs, NewPcs
  <2>2. list # <<>>
    BY <2>1 DEF ToSet
  <2> QED
    BY <1>3, <2>2 DEF TerminateAndLeave
<1>4. ASSUME NEW t \in Mutators, TerminateFails(t) PROVE MInv'
  BY <1>4, <1>0 DEF TerminateFails, TerminateUnlock, At, regVars
<1>5. ASSUME JoinAll \/ JoinWake PROVE MInv'
  BY <1>5 DEF JoinAll, JoinWake, vars
<1>6. ASSUME Handshaking PROVE MInv'
  <2>1. \A t \in Mutators, p \in NewPcs : pc'[t] = p <=> pc[t] = p
    BY <1>6, HandshakingStaysInside DEF OutsidePcs
  <2>2. \A t \in Mutators : pc'[t] \in {"st_add_main", "st_add"}
                              => pc[t] \in {"st_add_main", "st_add"}
    BY <2>1 DEF NewPcs
  <2> QED
    BY <1>6, <2>2 DEF Handshaking, regVars
<1> QED
  BY <1>1, <1>2, <1>3, <1>4, <1>5, <1>6 DEF NextLifecycle

(* threads.rs:91-93 and :868: however many threads start at once, the       *)
(* registry is empty and sound as long as MAIN_THREAD is unset, and what    *)
(* poisons it is that it is no longer empty when it should be.             *)
THEOREM MainTested == SpecLifecycle => []MainTestSound
<1>1. InitLifecycle => MInv
  BY DEF InitLifecycle, MInv, MainTestSound
<1>2. RInv /\ MInv /\ [NextLifecycle]_allVars => MInv'
  BY MainStep
<1>3. MInv => MainTestSound
  BY DEF MInv
<1> QED
  BY <1>1, <1>2, <1>3, RegistryInductive, PTL DEF SpecLifecycle

(* The program starts no other thread until the first one is registered.   *)
FirstAlone ==
  \A t, u \in Mutators :
    pc[t] \in {"st_set_main", "st_add_main"} /\ u # t => pc[u] = "unborn"

(* threads.rs:868: add_main_thread's assertion never fails, and no thread  *)
(* panics at the registry, in a program that keeps to that.                *)
THEOREM NeverPoisoned == SpecLifecycle /\ []FirstAlone => []~poisoned
<1>1. InitLifecycle => ~poisoned
  BY DEF InitLifecycle
<1>2. ASSUME RInv, FirstAlone, ~poisoned, [NextLifecycle]_allVars PROVE ~poisoned'
  <2>1. ASSUME NEW t \in Mutators, RegistrationFails(t) PROVE FALSE
    <3>1. pc[t] = "st_add_main" /\ list # <<>>
      BY <1>2, <2>1 DEF RegistrationFails
    <3>2. \A u \in Mutators : pc[u] \in NewPcs
      BY <1>2, <3>1 DEF FirstAlone, NewPcs
    <3>3. ToSet(list) = {}
      BY <1>2, <3>2 DEF RInv, Registered, Slotted
    <3>4. list \in Seq(Mutators) /\ DOMAIN list = {}
      BY <1>2, <3>3 DEF RInv, ToSet
    <3> QED
      BY <3>1, <3>4
  <2>2. UNCHANGED poisoned \/ \E t \in Mutators : RegistrationFails(t)
    BY <1>2 DEF NextLifecycle, Start, StartThread, StoreMainThread, AddMainThread,
       AddThread, Push, LeaveParkedScope, StoreRunning, EnterCallback,
       TerminateAndLeave, TerminateFails, JoinAll, JoinWake, Handshaking, allVars,
       regVars
  <2> QED
    BY <1>2, <2>1, <2>2
<1> QED
  BY <1>1, <1>2, RegistryInductive, PTL DEF SpecLifecycle

-------------------------------------------------------------------------------
(* A request to block outlives the start of its thread.                    *)

(* Whoever stores a request raises the flag before it lets go of the       *)
(* monitor, or goes on to check_block itself; the flag goes down only when *)
(* the thread defers or enters check_block.  The state byte plays no part, *)
(* so start may overwrite it.                                              *)
Requested(t) ==
  /\ enabled[t] <= 1
  /\ pc[t] \in StartPcs => enabled[t] = 0 /\ ~pending[t]
  /\ terminating[t] => pc[t] \in GonePcs
  /\ shouldBlock[t] =>
       \/ take[t]
       \/ pending[t] /\ enabled[t] < 1
       \/ gcpc = "b_exec" /\ cur = t
       \/ pc[t] \in {"cb_lock", "cb_ack"} \union GonePcs

QInv ==
  /\ enabled \in [Mutators -> Int]
  /\ shouldBlock \in [Mutators -> BOOLEAN]
  /\ blocked \in [Mutators -> BOOLEAN]
  /\ take \in [Mutators -> BOOLEAN]
  /\ pending \in [Mutators -> BOOLEAN]
  /\ terminating \in [Mutators -> BOOLEAN]
  /\ \A t \in Mutators : Requested(t)

LEMMA MutatorKeepsRequests ==
  ASSUME RInv, QInv, NEW t \in Mutators, MutatorStep(t)
  PROVE  QInv'
<1> USE DEF QInv, Requested, At, MutatorPcs, StartPcs, GonePcs, tlsVars, gcVars
<1>0. pc \in [Mutators -> AllPcs]
  BY DEF RInv
<1>1. CASE DisableYieldpoints(t)
  BY <1>0, <1>1 DEF DisableYieldpoints
<1>2. CASE CallEnterParked(t) \/ UnparkFast(t) \/ LeaveParked(t)
  BY <1>0, <1>2 DEF CallEnterParked, UnparkFast, LeaveParked
<1>3. CASE PollForGC(t) \/ CallTerminate(t)
  BY <1>0, <1>3 DEF PollForGC, CallTerminate
<1>4. CASE DeferYieldpoint(t)
  BY <1>0, <1>4 DEF DeferYieldpoint, YieldpointsEnabled
<1>5. CASE YieldpointLock(t) \/ YieldpointUnlock(t)
  BY <1>0, <1>5 DEF YieldpointLock, YieldpointUnlock
<1>6. CASE YieldpointTake(t)
  BY <1>0, <1>6 DEF YieldpointTake
<1>7. CASE CheckBlockLock(t) \/ CheckBlockTest(t)
  BY <1>0, <1>7 DEF CheckBlockLock, CheckBlockTest
<1>8. CASE CheckBlockAcknowledge(t)
  BY <1>0, <1>8 DEF CheckBlockAcknowledge, Acknowledge
<1>9. CASE CheckBlockWait(t) \/ CheckBlockWake(t)
  BY <1>0, <1>9 DEF CheckBlockWait, CheckBlockWake
<1>10. CASE CheckBlockRun(t)
  BY <1>0, <1>10 DEF CheckBlockRun
<1>11. CASE ParkFast(t) \/ ParkLock(t)
  BY <1>0, <1>11 DEF ParkFast, ParkLock
<1>12. CASE ParkBlocked(t)
  BY <1>0, <1>12 DEF ParkBlocked, Acknowledge
<1>13. CASE SelfLock(t) \/ SelfUnlock(t)
  BY <1>0, <1>13 DEF SelfLock, SelfUnlock
<1>14. CASE SelfRequest(t)
  BY <1>0, <1>14 DEF SelfRequest, RequestBlock
<1>15. CASE TerminateLock(t)
  BY <1>0, <1>15 DEF TerminateLock
<1>16. CASE TerminateMark(t)
  BY <1>0, <1>16 DEF TerminateMark
<1>17. CASE TerminateRemove(t)
  BY <1>0, <1>17 DEF TerminateRemove, TerminateUnlock
<1>18. CASE TakeYieldpoint(t)
  BY <1>0, <1>18 DEF TakeYieldpoint
<1>19. CASE EnableYieldpoints(t)
  BY <1>0, <1>19 DEF EnableYieldpoints
<1> QED
  BY <1>1, <1>2, <1>3, <1>4, <1>5, <1>6, <1>7, <1>8, <1>9, <1>10, <1>11, <1>12,
     <1>13, <1>14, <1>15, <1>16, <1>17, <1>18, <1>19 DEF MutatorStep, Choose, Proceed

LEMMA CoordinatorKeepsRequests ==
  ASSUME QInv, Coordinator
  PROVE  QInv'
<1> USE DEF QInv, Requested, GCAt, BlockReturn, GonePcs, tlsVars
<1>1. CASE BlockRequest
  BY <1>1 DEF BlockRequest, RequestBlock
<1>2. CASE BlockTerminated
  BY <1>2 DEF BlockTerminated
<1>3. CASE BlockRunningAsync \/ BlockRunningSync \/ BlockParked
  <2>1. /\ gcpc = "b_exec" /\ take' = [take EXCEPT ![cur] = TRUE]
        /\ UNCHANGED <<shouldBlock, blocked, pending, enabled, terminating, pc>>
    BY <1>3 DEF BlockRunningAsync, BlockRunningSync, BlockParked, BlockExecStatus
  <2> QED
    BY <2>1
<1>4. CASE BlockOwn \/ Unblock
  BY <1>4 DEF BlockOwn, Unblock
<1>5. CASE /\ gcpc # "b_exec"
           /\ UNCHANGED <<shouldBlock, blocked, take, pending, enabled, terminating, pc>>
  BY <1>5
<1>6. \/ BlockRequest \/ BlockTerminated \/ BlockOwn \/ Unblock
      \/ BlockRunningAsync \/ BlockRunningSync \/ BlockParked
      \/ /\ gcpc # "b_exec"
         /\ UNCHANGED <<shouldBlock, blocked, take, pending, enabled, terminating, pc>>
  BY DEF Coordinator, StopAllMutators, Snapshot, RetainVisit, SyncVisit,
     UnblockLock, RetainForget, RetainBlock, RetainDone, WorldIsStopped,
     SyncDone, BlockMustWait, BlockDone, BlockWait, BlockWake, ResumeMutators,
     ResumeDone
<1> QED
  BY <1>1, <1>2, <1>3, <1>4, <1>5, <1>6

LEMMA RequestStep ==
  ASSUME RInv, QInv, [NextLifecycle]_allVars
  PROVE  QInv'
<1>0. pc \in [Mutators -> AllPcs]
  BY DEF RInv
<1>1. CASE UNCHANGED allVars
  BY <1>1 DEF allVars, vars, tlsVars, gcVars, QInv, Requested
<1>2. ASSUME NEW t \in Mutators, Start(t) PROVE QInv'
  <2> USE <1>0 DEF QInv, Requested, At, StartPcs, GonePcs, tlsVars, gcVars
  <2>1. CASE StartThread(t) \/ StoreMainThread(t) \/ RegistrationFails(t)
    BY <2>1, SMTT(30) DEF StartThread, StoreMainThread, RegistrationFails
  <2>2. CASE AddMainThread(t) \/ AddThread(t)
    BY <2>2, ZenonT(60) DEF AddMainThread, AddThread, Push
  <2>3. CASE LeaveParkedScope(t) \/ StoreRunning(t)
    BY <2>3 DEF LeaveParkedScope, StoreRunning
  <2>4. CASE EnterCallback(t)
    BY <2>4 DEF EnterCallback
  <2> QED
    BY <1>2, <2>1, <2>2, <2>3, <2>4 DEF Start
<1>3. ASSUME NEW t \in Mutators, TerminateAndLeave(t) \/ TerminateFails(t) PROVE QInv'
  BY <1>3, <1>0 DEF TerminateAndLeave, TerminateFails, TerminateRemove,
     TerminateUnlock, QInv, Requested, At, StartPcs, GonePcs
<1>4. ASSUME JoinAll \/ JoinWake PROVE QInv'
  BY <1>4 DEF JoinAll, JoinWake, vars, tlsVars, gcVars, QInv, Requested
<1>5. ASSUME Handshaking PROVE QInv'
  BY <1>5, MutatorKeepsRequests, CoordinatorKeepsRequests DEF Handshaking, Next
<1> QED
  BY <1>1, <1>2, <1>3, <1>4, <1>5 DEF NextLifecycle

(* threads.rs:99 and :456-462: however many threads start while they are   *)
(* told to block, none of the requests is lost, although start stores      *)
(* Running over what the coordinator has stored; nothing is assumed of the *)
(* monitors.                                                               *)
THEOREM NotOverwritten == SpecLifecycle => []RequestOutlivesStart
<1>1. InitLifecycle => QInv
  BY DEF InitLifecycle, QInv, Requested
<1>2. QInv => RequestOutlivesStart
  BY DEF QInv, Requested, RequestOutlivesStart, GonePcs
<1> QED
  BY <1>1, <1>2, RequestStep, RegistryInductive, PTL DEF SpecLifecycle

-------------------------------------------------------------------------------
(* The registry as it is seen from outside.                                *)

(* A step that changes neither the list nor who is gone is not seen.       *)
LEMMA Unseen ==
  ASSUME UNCHANGED <<list, joiner>>,
         \A t \in Mutators : pc'[t] = "gone" <=> pc[t] = "gone"
  PROVE  UNCHANGED Reg!vars
<1>1. \A t \in Mutators : Status(t)' = Status(t)
  BY DEF Status
<1>2. [t \in Mutators |-> Status(t)]' = [t \in Mutators |-> Status(t)]
  BY <1>1
<1>3. Joining' = Joining
  BY DEF Joining
<1> QED
  BY <1>2, <1>3 DEF Reg!vars

LEMMA RegistryRefines ==
  ASSUME RInv, RInv', [NextLifecycle]_allVars
  PROVE  [Reg!Next]_Reg!vars
<1> DEFINE S == [t \in Mutators |-> Status(t)]
<1>a. Slotted /\ Slotted' /\ Registered
  BY DEF RInv
<1>b. \A t \in Mutators :
        Status(t) = IF t \in threads THEN "live" ELSE IF pc[t] = "gone" THEN "gone" ELSE "new"
  BY <1>a DEF Status, Slotted
<1>c. \A t \in Mutators :
        Status(t)' = IF t \in threads' THEN "live" ELSE IF pc'[t] = "gone" THEN "gone" ELSE "new"
  BY <1>a DEF Status, Slotted
<1>1. CASE UNCHANGED allVars
  BY <1>1, Unseen DEF allVars, vars, regVars
<1>2. ASSUME NEW t \in Mutators, Start(t) PROVE [Reg!Next]_Reg!vars
  <2>0. pc \in [Mutators -> AllPcs]
    BY DEF RInv
  <2>1. CASE StartThread(t) \/ StoreMainThread(t) \/ LeaveParkedScope(t)
             \/ StoreRunning(t) \/ EnterCallback(t) \/ RegistrationFails(t)
    <3>1. UNCHANGED <<list, joiner>>
      BY <2>1 DEF StartThread, StoreMainThread, LeaveParkedScope, StoreRunning,
         EnterCallback, RegistrationFails, regVars
    <3>2. \A u \in Mutators : pc'[u] = "gone" <=> pc[u] = "gone"
      BY <2>0, <2>1 DEF StartThread, StoreMainThread, LeaveParkedScope,
         StoreRunning, EnterCallback, RegistrationFails, At
    <3> QED
      BY <3>1, <3>2, Unseen
  <2>2. CASE AddMainThread(t) \/ AddThread(t)
    <3>1. /\ threads' = threads \union {t} /\ UNCHANGED joiner
          /\ pc[t] \in {"st_add_main", "st_add"}
          /\ pc'[t] # "gone"
          /\ \A u \in Mutators : u # t => pc'[u] = pc[u]
      BY <2>0, <2>2 DEF AddMainThread, AddThread, Push, At
    <3>2. t \notin threads
      BY <1>a, <3>1 DEF Registered, OutsidePcs, NewPcs
    <3>3. S' = [S EXCEPT ![t] = "live"] /\ S[t] = "new"
      BY <1>b, <1>c, <3>1, <3>2
    <3>4. UNCHANGED Joining
      BY <3>1 DEF Joining
    <3>5. Reg!Enter(t)
      BY <3>3, <3>4 DEF Reg!Enter
    <3> QED
      BY <3>5 DEF Reg!Next
  <2> QED
    BY <1>2, <2>1, <2>2 DEF Start
<1>3. ASSUME NEW t \in Mutators, TerminateAndLeave(t) PROVE [Reg!Next]_Reg!vars
  <2>1. /\ threads' = threads \ {t} /\ t \in threads /\ pc'[t] = "gone"
        /\ \A u \in Mutators : u # t => pc'[u] = pc[u]
    BY <1>3, <1>a DEF RInv, TerminateAndLeave, TerminateRemove, TerminateUnlock,
       At, Registered, OutsidePcs, NewPcs
  <2>2. S' = [S EXCEPT ![t] = "gone"] /\ S[t] = "live"
    BY <1>b, <1>c, <2>1
  <2>3. UNCHANGED Joining
    BY <1>3 DEF TerminateAndLeave, RemoveFromList, WokenJoiner, Joining
  <2>4. Reg!Leave(t)
    BY <2>2, <2>3 DEF Reg!Leave
  <2> QED
    BY <2>4 DEF Reg!Next
<1>4. ASSUME NEW t \in Mutators, TerminateFails(t) PROVE [Reg!Next]_Reg!vars
  <2>1. /\ t \in threads /\ UNCHANGED <<threads, joiner>>
        /\ \A u \in Mutators : u # t => pc'[u] = pc[u]
    BY <1>4, <1>a DEF RInv, TerminateFails, TerminateUnlock, regVars, At,
       Registered, OutsidePcs, NewPcs
  <2>2. S' = S
    BY <1>b, <1>c, <2>1
  <2>3. UNCHANGED Joining
    BY <2>1 DEF Joining
  <2> QED
    BY <2>2, <2>3 DEF Reg!vars
<1>5. ASSUME JoinAll \/ JoinWake PROVE [Reg!Next]_Reg!vars
  <2>1. UNCHANGED <<list, pc>> /\ JoinTest /\ joiner \in {"none", "woken"}
    BY <1>5 DEF JoinAll, JoinWake, vars
  <2>2. S' = S
    BY <2>1 DEF Status
  <2>3. CASE poisoned
    <3>1. Joining \in {"none", "waiting"} /\ Joining' = "panicked"
      BY <2>1, <2>3 DEF JoinTest, Joining
    <3>2. Reg!Fail
      BY <2>2, <3>1 DEF Reg!Fail
    <3> QED
      BY <3>2 DEF Reg!Next
  <2>4. CASE ~poisoned /\ list = <<>>
    <3>1. ToSet(list) = {}
      BY <2>4 DEF ToSet
    <3>2. \A t \in Mutators : S[t] # "live"
      BY <3>1 DEF Status
    <3>3. Joining \in {"none", "waiting"} /\ Joining' = "done"
      BY <2>1, <2>4 DEF JoinTest, Joining
    <3>4. Reg!Return
      BY <2>2, <3>2, <3>3 DEF Reg!Return, Reg!Empty
    <3> QED
      BY <3>4 DEF Reg!Next
  <2>5. CASE ~poisoned /\ list # <<>> /\ joiner = "none"
    <3>1. Joining = "none" /\ Joining' = "waiting"
      BY <2>1, <2>5 DEF JoinTest, Joining
    <3>2. Reg!Join
      BY <2>2, <3>1 DEF Reg!Join
    <3> QED
      BY <3>2 DEF Reg!Next
  <2>6. CASE ~poisoned /\ list # <<>> /\ joiner = "woken"
    <3>1. UNCHANGED Joining
      BY <2>1, <2>6 DEF JoinTest, Joining
    <3> QED
      BY <2>2, <3>1 DEF Reg!vars
  <2> QED
    BY <2>1, <2>3, <2>4, <2>5, <2>6
<1>6. ASSUME Handshaking PROVE [Reg!Next]_Reg!vars
  <2>1. UNCHANGED <<list, joiner>>
    BY <1>6 DEF Handshaking, regVars
  <2>2. \A t \in Mutators : pc'[t] = "gone" <=> pc[t] = "gone"
    BY <1>6, HandshakingStaysInside DEF OutsidePcs, NewPcs
  <2> QED
    BY <2>1, <2>2, Unseen
<1> QED
  BY <1>1, <1>2, <1>3, <1>4, <1>5, <1>6 DEF NextLifecycle

(* threads.rs:845-900: for any threads, every step of starting, of the     *)
(* swap-removal and of joining is a step of the registry that a thread     *)
(* enters once and leaves once, and that join_all sees empty when it       *)
(* returns, or changes nothing of it.                                      *)
THEOREM Refinement == SpecLifecycle => ImplementsRegistry
<1>1. InitLifecycle => Reg!Init
  <2> SUFFICES ASSUME InitLifecycle PROVE Reg!Init
    OBVIOUS
  <2>1. ToSet(list) = {}
    BY DEF InitLifecycle, ToSet
  <2>2. [t \in Mutators |-> Status(t)] = [t \in Mutators |-> "new"]
    BY <2>1 DEF InitLifecycle, Status
  <2>3. Joining = "none"
    BY DEF InitLifecycle, Joining
  <2> QED
    BY <2>2, <2>3 DEF Reg!Init
<1>2. RInv /\ RInv' /\ [NextLifecycle]_allVars => [Reg!Next]_Reg!vars
  BY RegistryRefines
<1> QED
  BY <1>1, <1>2, RegistryInductive, PTL DEF SpecLifecycle, ImplementsRegistry, Reg!Spec
===============================================================================
