------------------------------ MODULE MCWeakRefs ------------------------------
(* Three objects: the root's table, an object of which only a weak member  *)
(* and a callback know at first, and one that does not move.               *)
EXTENDS WeakRefs

CONSTANTS table, entry, big

MCMembers ==
  [o \in Objects |-> CASE o = table -> {"strong", "weak", "late"}
                       [] o = entry -> {"weak", "late"}
                       [] OTHER -> {"weak"}]
===============================================================================
