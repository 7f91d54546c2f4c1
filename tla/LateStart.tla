------------------------------- MODULE LateStart -------------------------------
(***************************************************************************)
(* What the handshake promises while threads start during a collection.    *)
(*                                                                         *)
(* block_all_mutators_for_gc stops the threads its last snapshot found.    *)
(* A thread that registers after that snapshot is in nobody's list, so the *)
(* promise can only be about the others: `listed` remembers who they are.  *)
(* It is a history variable; the steps are those of Lifecycle.             *)
(***************************************************************************)
EXTENDS Lifecycle

VARIABLE listed     (* the threads found by the last snapshot *)

lateVars == <<allVars, listed>>

InitLateStart ==
  /\ InitLifecycle
  /\ listed = {}

Remember ==
  listed' = IF gcpc = "snapshot" /\ gcpc' = "retain" THEN ActiveThreads ELSE listed

NextLateStart == NextLifecycle /\ Remember

SpecLateStart == InitLateStart /\ [][NextLateStart]_lateVars

-------------------------------------------------------------------------------
(* Properties *)

(* threads.rs:96-99 and :1107-1141: when block_all_mutators_for_gc has      *)
(* returned, no thread of its last snapshot executes managed code, in      *)
(* whatever step of its own start the snapshot found it and although start *)
(* stores Running over the state that the coordinator has set.             *)
ListedStopped ==
  gcpc = "stopped" => \A t \in listed : Code(t) # "managed"

(* threads.rs:1143-1162: whichever threads start or terminate between the   *)
(* snapshot and the resumption, no thread of the snapshot stays blocked,   *)
(* or goes on to block itself, with no collection requested or under way   *)
(* to resume it.                                                           *)
ListedResumed ==
  \A t \in listed :
    active[t] /\ (blocked[t] \/ shouldBlock[t]) => gcRequested \/ gcpc # "idle"

===============================================================================
