------------------------------- MODULE Assembled -------------------------------
(***************************************************************************)
(* The life of one macro instruction: a client picks an operation and has  *)
(* it assembled, the machine executes the instructions it became one by    *)
(* one, from a state in which the temporary registers of the assembler     *)
(* hold anything, and control leaves at the end, or by a jump.             *)
(*                                                                         *)
(* The assembler and the machine are parameters: the code of an operation, *)
(* what an instruction does, and by how much it advances the program       *)
(* counter.  Flawed names the operations the code is known to get wrong,   *)
(* Unruly those that also disturb registers they were not given.           *)
(***************************************************************************)
EXTENDS MacroOps

CONSTANTS Operations, Starts(_),
          Code(_), Exec(_, _), Advance(_, _), Flawed(_), Unruly(_)

VARIABLES op, before, machine, code, pc
vars == <<op, before, machine, code, pc>>

None == [name |-> "none"]

Init ==
  /\ op = None
  /\ before = None
  /\ machine = None
  /\ code = <<>>
  /\ pc = 1

Assemble ==
  /\ op = None
  /\ \E o \in Operations :
       /\ op' = o
       /\ code' = Code(o)
       /\ before' \in Starts(o)
       /\ machine' = before'
  /\ UNCHANGED pc

Finished == op # None /\ (pc > Len(code) \/ machine.out # <<>>)

Step ==
  /\ op # None
  /\ ~Finished
  /\ machine' = Exec(code[pc], machine)
  /\ LET n == Advance(code[pc], machine)
     IN pc' = IF n = Target THEN Len(code) + 1 ELSE pc + n
  /\ UNCHANGED <<op, before, code>>

Return ==
  /\ Finished
  /\ op' = None
  /\ before' = None
  /\ machine' = None
  /\ code' = <<>>
  /\ pc' = 1

Next == Assemble \/ Step \/ Return

Spec == Init /\ [][Next]_vars /\ WF_vars(Step \/ Return)

-------------------------------------------------------------------------------

(* An operation does what it means, whatever machine it is assembled for:  *)
(* when control leaves its code, the client's registers, the memory and    *)
(* the direction of control are those of the contract.                     *)
Computes == Finished /\ ~Flawed(op) => Agrees(op, before, machine)

(* An operation, right or wrong, leaves alone what it was not given to     *)
(* assign: no instruction of it writes another register of the client, or  *)
(* memory when its destination is not there.                               *)
Given == {op.s[i].r : i \in {j \in Destinations(op) : op.s[j].k \in {"reg", "freg"}}}
OnlyDestinations ==
  op # None /\ ~Unruly(op) =>
    /\ \A r \in Users \ Given : machine.g[r] = before.g[r]
    /\ \A r \in FUsers \ Given : machine.f[r] = before.f[r]
    /\ op.k \notin {"push", "pop"} => machine.g["sp"] = before.g["sp"]
    /\ machine.mem # before.mem => op.k \in {"push", "cas"} \/ \E i \in DOMAIN op.s : InMemory(op.s[i])

(* The code of an operation always comes to its end: the loops that count  *)
(* bits, and the jumps over instructions, leave it.                        *)
Terminates == (op # None /\ ~Unruly(op)) ~> op = None

===============================================================================
