------------------------------- MODULE Registry -------------------------------
(***************************************************************************)
(* What the registry of threads (Threads, runtime/threads.rs) promises:    *)
(* a thread enters once and leaves once; join_all returns at a moment when *)
(* nobody is registered, or panics.                                        *)
(***************************************************************************)
CONSTANT Mutators

VARIABLES
  status,     (* of each thread: "new", "live" or "gone"            *)
  joining     (* of join_all: "none", "waiting", "done", "panicked" *)

vars == <<status, joining>>

Empty == \A t \in Mutators : status[t] # "live"

Init ==
  /\ status = [t \in Mutators |-> "new"]
  /\ joining = "none"

Enter(t) ==
  /\ status[t] = "new"
  /\ status' = [status EXCEPT ![t] = "live"]
  /\ UNCHANGED joining

Leave(t) ==
  /\ status[t] = "live"
  /\ status' = [status EXCEPT ![t] = "gone"]
  /\ UNCHANGED joining

Join ==
  /\ joining = "none"
  /\ joining' = "waiting"
  /\ UNCHANGED status

Return ==
  /\ joining \in {"none", "waiting"} /\ Empty
  /\ joining' = "done"
  /\ UNCHANGED status

Fail ==
  /\ joining \in {"none", "waiting"}
  /\ joining' = "panicked"
  /\ UNCHANGED status

Next ==
  \/ Join \/ Return \/ Fail
  \/ \E t \in Mutators : Enter(t) \/ Leave(t)

Spec == Init /\ [][Next]_vars
===============================================================================
