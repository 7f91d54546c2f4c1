-------------------------------- MODULE MCTlab --------------------------------
(* Two blocks of memory, the second right behind the first. *)
EXTENDS Tlab

MCBlocks == {1, 2}
MCLo == [b \in MCBlocks |-> 8 * b]
MCHi == [b \in MCBlocks |-> 8 * b + 8]
===============================================================================
