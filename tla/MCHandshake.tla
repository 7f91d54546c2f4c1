------------------------------ MODULE MCHandshake ------------------------------
(* Values for the constants of Handshake: two mutators and how deep they    *)
(* nest disable_yieldpoints.                                                *)
EXTENDS Handshake

CONSTANTS m1, m2

NobodyDefers   == [t \in Mutators |-> 0]
OneDefers      == [t \in Mutators |-> IF t = m1 THEN 1 ELSE 0]
===============================================================================
