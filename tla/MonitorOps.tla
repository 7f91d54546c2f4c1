------------------------------ MODULE MonitorOps ------------------------------
(***************************************************************************)
(* The operations of a Monitor (sync.rs) as functions of its words, for    *)
(* the modules that compose monitors with the threads that use them.       *)
(* Module Monitor shows that the steps inside an operation are not visible *)
(* to other threads, so an operation is one step here.                     *)
(* The constants are those of Monitor.                                     *)
(***************************************************************************)
EXTENDS Integers

CONSTANTS NoHolder, RecLimit, DropClearsHolder

ASSUME MonitorOpsAssumption ==
  /\ RecLimit \in Nat \ {0}
  /\ DropClearsHolder \in BOOLEAN

FreshMonitor == [raw |-> FALSE, holder |-> NoHolder, rec |-> 0]

Plus1(n)  == IF n = RecLimit - 1 THEN 0 ELSE n + 1
Minus1(n) == IF n = 0 THEN RecLimit - 1 ELSE n - 1

(* lock_no_handshake by p: recursive if the holder word is p, else it has  *)
(* to take the raw mutex.                                                  *)
CanLock(m, p) == m.holder = p \/ ~m.raw

Locked(m, p) ==
  [raw |-> m.holder # p \/ m.raw, holder |-> p, rec |-> Plus1(m.rec)]

(* MonitorGuard::drop *)
Dropped(m) ==
  IF m.rec = 1
  THEN [raw |-> FALSE,
        holder |-> IF DropClearsHolder THEN NoHolder ELSE m.holder,
        rec |-> 0]
  ELSE [m EXCEPT !.rec = Minus1(@)]

(* The two halves of wait_no_handshake; the caller keeps m.rec in between. *)
Released == FreshMonitor

CanRelock(m) == ~m.raw

Relocked(p, r) == [raw |-> TRUE, holder |-> p, rec |-> r]

MonitorType(procs) ==
  [raw : BOOLEAN, holder : procs \union {NoHolder}, rec : 0..(RecLimit - 1)]
===============================================================================
