------------------------------ MODULE MCArm64Link ------------------------------
(* Targets out of the code, one that a conditional branch reaches only     *)
(* from some places and one that only the unconditional branch reaches.    *)
EXTENDS Arm64Link

MCOutside == {0, 16}

(* This instance meets what the proof that the jumps lead assumes. *)
ASSUME InstanceWithinReach == WithinReach
===============================================================================
