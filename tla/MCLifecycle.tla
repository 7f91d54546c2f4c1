------------------------------ MODULE MCLifecycle ------------------------------
(* Values for the constants of Lifecycle: nobody disables yieldpoints. *)
EXTENDS LateStart

CONSTANTS m1, m2

NobodyDefers == [t \in Mutators |-> 0]
===============================================================================
