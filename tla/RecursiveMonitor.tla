--------------------------- MODULE RecursiveMonitor ---------------------------
(***************************************************************************)
(* What a Monitor promises to its users, as sync.rs:16-20 puts it: control *)
(* of concurrent access to an object, built on a mutex and a condition     *)
(* variable, that "also can function as a recursive mutex".  Every         *)
(* operation takes effect in one step.  Module Monitor is the code, and    *)
(* says under which conditions it is checked, and proved, to implement     *)
(* this specification.  So is the monitor of every thread as Handshake     *)
(* uses it.                                                                *)
(***************************************************************************)
EXTENDS Integers

CONSTANTS
  Threads,    (* the threads that use the monitor                    *)
  MaxDepth    (* bound on the nesting of lock calls by one thread    *)

VARIABLES
  depth,      (* levels of the lock a thread holds                   *)
  saved,      (* levels it gave up when it went to wait, 0 otherwise *)
  waiters     (* threads in the condition variable's queue           *)

vars == <<depth, saved, waiters>>

FreeFor(t) == \A u \in Threads \ {t} : depth[u] = 0

Init ==
  /\ depth = [t \in Threads |-> 0]
  /\ saved = [t \in Threads |-> 0]
  /\ waiters = {}

-------------------------------------------------------------------------------

Lock(t) ==
  /\ saved[t] = 0
  /\ FreeFor(t)
  /\ depth[t] < MaxDepth
  /\ depth' = [depth EXCEPT ![t] = @ + 1]
  /\ UNCHANGED <<saved, waiters>>

(* A level is let go.  Nobody can tell a notification that the holder sends *)
(* just before from one that comes with it.                                *)
Unlock(t) ==
  /\ depth[t] > 0
  /\ depth' = [depth EXCEPT ![t] = @ - 1]
  /\ waiters' \in SUBSET waiters
  /\ UNCHANGED saved

Wait(t) ==
  /\ depth[t] > 0
  /\ depth' = [depth EXCEPT ![t] = 0]
  /\ saved' = [saved EXCEPT ![t] = depth[t]]
  /\ waiters' = waiters \union {t}

(* A thread lets go of all its levels for a while: unlock_completely, which *)
(* a wait with a handshake comes to when it has been notified.             *)
Yield(t) ==
  /\ depth[t] > 0
  /\ depth' = [depth EXCEPT ![t] = 0]
  /\ saved' = [saved EXCEPT ![t] = depth[t]]
  /\ UNCHANGED waiters

Notify ==
  /\ waiters' \in SUBSET waiters
  /\ UNCHANGED <<depth, saved>>

(* A notified thread, or one that let go, returns with every level it had. *)
Resume(t) ==
  /\ saved[t] > 0
  /\ t \notin waiters
  /\ FreeFor(t)
  /\ depth' = [depth EXCEPT ![t] = saved[t]]
  /\ saved' = [saved EXCEPT ![t] = 0]
  /\ UNCHANGED waiters

(* A thread that has let go fails instead, and never has its levels back.  *)
Abandon(t) ==
  /\ saved[t] > 0
  /\ t \notin waiters
  /\ saved' = [saved EXCEPT ![t] = 0]
  /\ UNCHANGED <<depth, waiters>>

Next ==
  \/ \E t \in Threads :
       Lock(t) \/ Unlock(t) \/ Wait(t) \/ Yield(t) \/ Resume(t) \/ Abandon(t)
  \/ Notify

Spec == Init /\ [][Next]_vars
===============================================================================
