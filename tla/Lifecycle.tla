------------------------------- MODULE Lifecycle -------------------------------
(***************************************************************************)
(* The life of a thread around the handshake (runtime/threads.rs): it is   *)
(* spawned, enters the registry Threads::threads, runs, terminates and     *)
(* leaves the registry, while collections go on; a joiner waits until the  *)
(* registry is empty.                                                      *)
(*                                                                         *)
(* The registry is the vector `list`, of which `threads` of Handshake is   *)
(* the set.  Any native thread may spawn one, so threads start at any time *)
(* and several may be the first.                                           *)
(*                                                                         *)
(* The vector is inside a std Mutex.  A panic that holds it poisons it,    *)
(* and every later lock().unwrap() panics.                                 *)
(***************************************************************************)
EXTENDS Handshake, Sequences, SequencesExt

VARIABLES
  list,           (* Threads::threads                                        *)
  index,          (* TLSData::index_in_thread_list                           *)
  main,           (* MAIN_THREAD, NoHolder while it is uninitialized         *)
  joiner,         (* "none", or where join_all is: "asleep", "woken", "done" *)
                  (* or "panicked"                                           *)
  poisoned        (* the mutex around the vector is poisoned                 *)

regVars == <<list, index, main, joiner, poisoned>>
allVars == <<vars, regVars>>

InitLifecycle ==
  /\ monitor = [t \in Mutators |-> FreshMonitor]
  /\ sleepers = [t \in Mutators |-> {}]
  /\ state = [t \in Mutators |-> "Running"]
  /\ shouldBlock = [t \in Mutators |-> FALSE]
  /\ blocked = [t \in Mutators |-> FALSE]
  /\ take = [t \in Mutators |-> FALSE]
  /\ pending = [t \in Mutators |-> FALSE]
  /\ enabled = [t \in Mutators |-> 0]
  /\ terminating = [t \in Mutators |-> FALSE]
  /\ active = [t \in Mutators |-> TRUE]
  /\ pc = [t \in Mutators |-> "unborn"]
  /\ frame = [t \in Mutators |-> "none"]
  /\ saved = [p \in Procs |-> 0]
  /\ threads = {}
  /\ gcRequested = FALSE
  /\ gcpc = "idle"
  /\ handshake = {}
  /\ todo = {}
  /\ cur = GC
  /\ asynchronous = TRUE
  /\ list = <<>>
  /\ index = [t \in Mutators |-> 0]
  /\ main = NoHolder
  /\ joiner = "none"
  /\ poisoned = FALSE

-------------------------------------------------------------------------------
(* Thread::start, on the new native thread *)

(* The native thread binds a mutator and asks who the main thread is. *)
StartThread(t) ==
  /\ At(t, "unborn", IF main = NoHolder THEN "st_set_main" ELSE "st_add")
  /\ UNCHANGED <<tlsVars, frame, saved, gcVars, regVars>>

(* Slip: the main thread is not remembered. *)
ForgetMainThread(t) ==
  /\ At(t, "st_set_main", "st_add_main")
  /\ UNCHANGED <<tlsVars, frame, saved, gcVars, regVars>>

StoreMainThread(t) ==
  /\ At(t, "st_set_main", "st_add_main")
  /\ main' = t
  /\ UNCHANGED <<tlsVars, frame, saved, gcVars, list, index, joiner, poisoned>>

(* A slot is taken under the registry's mutex. *)
Push(t) ==
  /\ ~poisoned
  /\ index' = [index EXCEPT ![t] = Len(list)]
  /\ list' = Append(list, t)
  /\ threads' = threads \union {t}
  /\ UNCHANGED <<tlsVars, frame, saved, gcRequested, gcpc, handshake, todo,
                 cur, asynchronous, main, joiner, poisoned>>

(* add_main_thread, when its assertion holds that the registry is empty. *)
AddMainThread(t) ==
  /\ list = <<>>
  /\ At(t, "st_add_main", "st_running")
  /\ Push(t)

(* add_thread, within parked_scope. *)
AddThread(t) ==
  /\ At(t, "st_add", "st_assert")
  /\ Push(t)

(* The assertion fails with the mutex held, which poisons it, or it was    *)
(* poisoned already: the thread panics without having been registered.     *)
RegistrationFails(t) ==
  /\ poisoned \/ (pc[t] = "st_add_main" /\ list # <<>>)
  /\ pc[t] \in {"st_add_main", "st_add"}
  /\ pc' = [pc EXCEPT ![t] = "refused"]
  /\ poisoned' = TRUE
  /\ UNCHANGED <<tlsVars, frame, saved, gcVars, list, index, main, joiner>>

(* parked_scope asserts that its thread is still Running. *)
LeaveParkedScope(t) ==
  /\ At(t, "st_assert", IF state[t] = "Running" THEN "st_running" ELSE "panicked")
  /\ UNCHANGED <<tlsVars, frame, saved, gcVars, regVars>>

(* Slip: the state byte is given its initial name. *)
StoreNew(t) ==
  /\ At(t, "st_running", "st_enable")
  /\ state' = [state EXCEPT ![t] = "New"]
  /\ UNCHANGED <<monitor, sleepers, shouldBlock, blocked, take, pending,
                 enabled, terminating, active, frame, saved, gcVars, regVars>>

(* Slip: the thread starts with its yieldpoint flag down. *)
StartAfresh(t) ==
  /\ At(t, "st_running", "st_enable")
  /\ state' = [state EXCEPT ![t] = "Running"]
  /\ take' = [take EXCEPT ![t] = FALSE]
  /\ UNCHANGED <<monitor, sleepers, shouldBlock, blocked, pending, enabled,
                 terminating, active, frame, saved, gcVars, regVars>>

StoreRunning(t) ==
  /\ At(t, "st_running", "st_enable")
  /\ state' = [state EXCEPT ![t] = "Running"]
  /\ UNCHANGED <<monitor, sleepers, shouldBlock, blocked, take, pending,
                 enabled, terminating, active, frame, saved, gcVars, regVars>>

(* enable_yieldpoints: the count goes from 0 to 1; nothing is pending, as  *)
(* the thread has not polled a yieldpoint yet.  Then the callback runs.    *)
EnterCallback(t) ==
  /\ At(t, "st_enable", "managed")
  /\ enabled' = [enabled EXCEPT ![t] = @ + 1]
  /\ UNCHANGED <<monitor, sleepers, state, shouldBlock, blocked, take, pending,
                 terminating, active, frame, saved, gcVars, regVars>>

-------------------------------------------------------------------------------
(* remove_current_thread, within terminate_thread: the last thread moves   *)
(* into the freed slot, and the joiner is notified.                        *)

WokenJoiner == IF joiner = "asleep" THEN "woken" ELSE joiner

(* Vec::swap_remove, or pop for the last slot; slots count from 0. *)
SwapRemove(l, slot) ==
  [i \in 1..(Len(l) - 1) |-> IF i = slot + 1 THEN Last(l) ELSE l[i]]

(* Slips: the moved thread keeps its old index; the joiner is not told. *)
RemoveKeepsIndex(t) ==
  /\ list' = SwapRemove(list, index[t])
  /\ joiner' = WokenJoiner
  /\ UNCHANGED index

RemoveSilently(t) ==
  /\ list' = SwapRemove(list, index[t])
  /\ index' = IF index[t] = Len(list) - 1 THEN index
              ELSE [index EXCEPT ![Last(list)] = index[t]]
  /\ UNCHANGED joiner

RemoveFromList(t) ==
  /\ list' = SwapRemove(list, index[t])
  /\ index' = IF index[t] = Len(list) - 1 THEN index
              ELSE [index EXCEPT ![Last(list)] = index[t]]
  /\ joiner' = WokenJoiner

TerminateAndLeave(t) ==
  /\ ~poisoned
  /\ TerminateRemove(t)
  /\ RemoveFromList(t)
  /\ UNCHANGED <<main, poisoned>>

(* It panics instead; the guard of the thread's monitor is dropped as it   *)
(* unwinds, and the thread stays in the registry.                          *)
TerminateFails(t) ==
  /\ poisoned
  /\ TerminateUnlock(t)
  /\ UNCHANGED <<threads, regVars>>

-------------------------------------------------------------------------------
(* join_all, by a thread that is not in the registry. *)

(* Slip: whoever is woken takes the registry to be empty. *)
JoinTestOnce ==
  joiner' = IF poisoned THEN "panicked"
            ELSE IF joiner = "woken" \/ list = <<>> THEN "done" ELSE "asleep"

JoinTest ==
  joiner' = IF poisoned THEN "panicked"
            ELSE IF list = <<>> THEN "done" ELSE "asleep"

JoinAll ==
  /\ joiner = "none"
  /\ JoinTest
  /\ UNCHANGED <<vars, list, index, main, poisoned>>

JoinWake ==
  /\ joiner = "woken"
  /\ JoinTest
  /\ UNCHANGED <<vars, list, index, main, poisoned>>

-------------------------------------------------------------------------------

Start(t) ==
  \/ StartThread(t) \/ StoreMainThread(t) \/ AddMainThread(t) \/ AddThread(t)
  \/ RegistrationFails(t)
  \/ LeaveParkedScope(t) \/ StoreRunning(t) \/ EnterCallback(t)

(* Everything the handshake does but for the removal, which is above.  The *)
(* coordinator panics, and takes no further step, where it would read a    *)
(* poisoned registry.                                                      *)
ReadsRegistry == Snapshot \/ ResumeMutators

Handshaking ==
  /\ Next
  /\ poisoned => ~ReadsRegistry
  /\ UNCHANGED <<threads, regVars>>

NextLifecycle ==
  \/ \E t \in Mutators : Start(t) \/ TerminateAndLeave(t) \/ TerminateFails(t)
  \/ JoinAll \/ JoinWake
  \/ Handshaking

SpecLifecycle == InitLifecycle /\ [][NextLifecycle]_allVars

-------------------------------------------------------------------------------
(* Properties *)

StartPcs == {"unborn", "st_set_main", "st_add_main", "st_add", "st_assert",
             "st_running", "st_enable", "panicked", "refused"}

(* The registry's words keep their types.                                  *)
TypeOKLifecycle ==
  /\ pc \in [Mutators -> MutatorPcs \union StartPcs]
  /\ state \in [Mutators -> States]
  /\ enabled \in [Mutators -> Int]
  /\ threads \in SUBSET Mutators
  /\ list \in Seq(Mutators)
  /\ index \in [Mutators -> Nat]
  /\ main \in Mutators \union {NoHolder}
  /\ joiner \in {"none", "asleep", "woken", "done", "panicked"}
  /\ poisoned \in BOOLEAN

Slotted ==
  /\ ToSet(list) = threads
  /\ \A i \in DOMAIN list : index[list[i]] = i - 1

(* threads.rs:845-891: through any order of starts and terminations the    *)
(* registry holds each live thread once, at the index the thread has       *)
(* stored, so a removal frees the slot of the thread that leaves; a thread *)
(* that is gone stays in it only if a panic has poisoned it.               *)
RegistryIndexed ==
  /\ Slotted
  /\ \A t \in threads : pc[t] = "gone" => poisoned

(* threads.rs:893-900: join_all never sleeps on an empty registry, whatever *)
(* thread was the last to leave it.                                        *)
JoinerNotForgotten == joiner = "asleep" => list # <<>>

(* threads.rs:91-93 and :868: nobody registers before MAIN_THREAD is set,  *)
(* so the test of a starting thread is right when it is made, and the      *)
(* assertion of add_main_thread can fail only because another thread has   *)
(* registered since; the registry it then poisons is not empty, nor ever   *)
(* will be again.                                                          *)
MainTestSound ==
  /\ main = NoHolder => list = <<>> /\ ~poisoned
  /\ poisoned => list # <<>>

(* threads.rs:99 and :456-462: the store of Running in start may overwrite  *)
(* the RunningToBlock of a collection, but not the request: a thread that  *)
(* runs managed code with a request it has not acknowledged has its flag   *)
(* up or deferred, unless block() is just about to raise it.               *)
RequestOutlivesStart ==
  \A t \in Mutators :
    pc[t] = "managed" /\ shouldBlock[t] /\ ~(gcpc = "b_exec" /\ cur = t)
      => take[t] \/ (pending[t] /\ enabled[t] < 1)

(* threads.rs:845-900: seen from outside, a thread enters the registry once *)
(* and leaves it once, whichever slot it is moved to in between, and       *)
(* join_all returns only when the registry is empty, or panics.            *)
Status(t) ==
  IF t \in ToSet(list) THEN "live" ELSE IF pc[t] = "gone" THEN "gone" ELSE "new"
Joining == IF joiner \in {"asleep", "woken"} THEN "waiting" ELSE joiner

Reg == INSTANCE Registry WITH status <- [t \in Mutators |-> Status(t)], joining <- Joining

ImplementsRegistry == Reg!Spec

(* threads.rs:1121-1128 and collection.rs:29-41: once the world is stopped *)
(* every thread is blocked, has not been started or is terminating: none   *)
(* runs managed code.                                                      *)
WorldStoppedForAll ==
  gcpc = "stopped" => \A t \in Mutators : pc[t] # "managed"

===============================================================================
