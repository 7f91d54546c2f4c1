----------------------------- MODULE StopTheWorld -----------------------------
(***************************************************************************)
(* What stop_all_mutators and resume_mutators (collection.rs) promise the  *)
(* collector: once the world is stopped no mutator executes managed code,  *)
(* and none starts to, until it is resumed.                                *)
(***************************************************************************)
CONSTANT Mutators

VARIABLES
  world,      (* "running", "stopping" or "stopped"                        *)
  code        (* what a mutator executes: "managed", "safe", or it is "gone" *)

vars == <<world, code>>

Init ==
  /\ world = "running"
  /\ code = [t \in Mutators |-> "managed"]

Request ==
  /\ world = "running"
  /\ world' = "stopping"
  /\ UNCHANGED code

Stop ==
  /\ world = "stopping"
  /\ \A t \in Mutators : code[t] # "managed"
  /\ world' = "stopped"
  /\ UNCHANGED code

Resume ==
  /\ world = "stopped"
  /\ world' = "running"
  /\ UNCHANGED code

LeaveManaged(t) ==
  /\ code[t] = "managed"
  /\ code' = [code EXCEPT ![t] = "safe"]
  /\ UNCHANGED world

EnterManaged(t) ==
  /\ code[t] = "safe"
  /\ world # "stopped"
  /\ code' = [code EXCEPT ![t] = "managed"]
  /\ UNCHANGED world

Exit(t) ==
  /\ code[t] = "managed"
  /\ code' = [code EXCEPT ![t] = "gone"]
  /\ UNCHANGED world

Next ==
  \/ Request \/ Stop \/ Resume
  \/ \E t \in Mutators : LeaveManaged(t) \/ EnterManaged(t) \/ Exit(t)

Spec == Init /\ [][Next]_vars
===============================================================================
