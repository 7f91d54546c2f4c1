-------------------------------- MODULE Arm64Link --------------------------------
(***************************************************************************)
(* Linking on arm64: from the jumps that the macro assembler returns while *)
(* it fills its buffer, through the copy that LinkBuffer makes of the code *)
(* between them, to the jumps that lead somewhere, and later elsewhere.    *)
(*                                                                         *)
(* An address counts instructions from the first of the code, which is 1.  *)
(* A conditional branch takes two, itself and a nop where linking puts a   *)
(* branch that reaches further; the label of its jump is that of the nop.  *)
(* Every function that makes a jump gives it a type of fixed size, so the  *)
(* direct forms of linking never apply and are left out.                   *)
(***************************************************************************)
EXTENDS Integers, Sequences, Functions

CONSTANTS
  MaxCode,      (* bound: instructions assembled *)
  MaxJumps,     (* bound: jumps among them *)
  MaxRelinks,   (* bound: links made after the code has been copied *)
  Granule,      (* the unit of an allocation, 32 bytes *)
  Rooms,        (* sizes of memory a client brings *)
  Outside,      (* addresses out of the code *)
  Reach14, Reach19, Reach26,   (* half the offsets that a branch of so many bits has *)
  Skip,         (* the offset that relink_jump_or_call takes for that of a branch over
                   the second one: 8, where the linking functions write 2 *)
  Careful       (* LinkBuffer::link_jump is given no conditional jump, and no jump is
                   linked again once it reaches its target by the second branch, or
                   Skip instructions further *)

Nowhere == -1000

ASSUME LinkAssumption ==
  /\ MaxCode \in Nat /\ Granule \in Nat \ {0}
  /\ Rooms \subseteq Nat /\ Outside \subseteq Int \ {Nowhere}
  /\ Reach14 \in Nat \ {0} /\ Reach19 \in Nat \ {0} /\ Reach26 \in Nat \ {0}
  /\ Careful \in BOOLEAN

VARIABLES
  storage,      (* the buffer of the assembler *)
  jumps,        (* the jumps returned, in order *)
  records,      (* jumps_to_link *)
  goal,         (* what each jump has been asked to lead to, or Nowhere *)
  phase,
  code,         (* the memory of the LinkBuffer *)
  read, write,  (* read_ptr and write_ptr *)
  at,           (* the record that is handled *)
  emitted,      (* instructions there were before the padding *)
  relinks
vars == <<storage, jumps, records, goal, phase, code, read, write, at, emitted, relinks>>
linking == <<code, read, write, at, emitted, relinks>>

IsInt(reach, x) == -reach <= x /\ x < reach
Field(x, reach) == ((x + reach) % (2 * reach)) - reach

label == Len(storage) + 1
Always(j) == j.typ = "NoConditionFixedSize"
First(j) == IF Always(j) THEN j.label ELSE j.label - 1
Occupied(j) == First(j)..j.label
Inside == UNION {Occupied(jumps[k]) : k \in DOMAIN jumps}

Init ==
  /\ storage = <<>> /\ jumps = <<>> /\ records = <<>> /\ goal = <<>>
  /\ phase = "assembling"
  /\ code = <<>> /\ read = 1 /\ write = 1 /\ at = 1 /\ emitted = 0 /\ relinks = 0

-------------------------------------------------------------------------------
(* Assembling.  An instruction is known by its address, so that one that   *)
(* goes astray is noticed; a branch by the jump whose condition it tests.  *)

Insn ==
  /\ phase = "assembling" /\ label <= MaxCode
  /\ storage' = Append(storage, <<"other", label>>)
  /\ UNCHANGED <<jumps, records, goal, phase, linking>>

Made(insns, typ, kind, sense, where) ==
  /\ phase = "assembling"
  /\ Len(storage) + Len(insns) <= MaxCode /\ Len(jumps) < MaxJumps
  /\ storage' = storage \o insns
  /\ jumps' = Append(jumps, [label |-> where, typ |-> typ, kind |-> kind, sense |-> sense])
  /\ goal' = Append(goal, Nowhere)
  /\ UNCHANGED <<records, phase, linking>>
MakeJump == Made(<<<<"b", 0>>>>, "NoConditionFixedSize", "none", TRUE, label)
TypeOf == [cond |-> "ConditionFixedSize", compare |-> "CompareAndBranchFixedSize",
           test |-> "TestBitFixedSize"]
MakeBranch ==
  \E kind \in DOMAIN TypeOf, sense \in BOOLEAN :
    Made(<<<<"branch", kind, Len(jumps) + 1, sense, 0>>, <<"nop">>>>,
         TypeOf[kind], kind, sense, label + 1)

(* Jump::link and Jump::link_to: to here, or to a label taken earlier.     *)
Record(k, to) ==
  [from |-> jumps[k].label, to |-> to, typ |-> jumps[k].typ, link_type |-> "Invalid",
   kind |-> jumps[k].kind, subject |-> k, sense |-> jumps[k].sense]
link_jump_of(k, to) == Append(records, Record(k, to))
LinkTo(k, to) ==
  /\ phase = "assembling" /\ goal[k] = Nowhere
  /\ records' = link_jump_of(k, to)
  /\ goal' = [goal EXCEPT ![k] = to]
  /\ UNCHANGED <<storage, jumps, phase, linking>>
Labels == 1..label \ {jumps[k].label : k \in {i \in DOMAIN jumps : ~Always(jumps[i])}}
Link == \E k \in DOMAIN jumps : \E to \in Labels : LinkTo(k, to)

-------------------------------------------------------------------------------
(* LinkBuffer: allocate, in memory of its own or in that of the client,    *)
(* which may be too small; the code is padded to the size of the memory.   *)

AsRecorded == {records}   (* to get it wrong *)
InOrder(p) ==
  \A a, b \in DOMAIN records : a < b => records[p[a]].from <= records[p[b]].from
jumps_to_link ==
  {[n \in DOMAIN records |-> records[p[n]]] :
     p \in {q \in Bijection(DOMAIN records, DOMAIN records) : InOrder(q)}}
Allocated(size, padding) ==
  /\ storage' = storage \o [n \in 1..(size - Len(storage)) |-> padding]
  /\ code' = [n \in 1..size |-> <<"unwritten">>]
  /\ records' \in jumps_to_link
  /\ phase' = "copying"
  /\ emitted' = Len(storage)
  /\ UNCHANGED <<jumps, goal, read, write, at, relinks>>
AllocateAnew ==
  /\ phase = "assembling"
  /\ Allocated(Granule * ((Len(storage) + Granule - 1) \div Granule), <<"brk">>)
AllocateIn(room) ==
  /\ phase = "assembling" /\ Len(storage) <= room
  /\ Allocated(room, <<"nop">>)
FailToAllocate(room) ==
  /\ phase = "assembling" /\ Len(storage) > room
  /\ phase' = "failed"
  /\ UNCHANGED <<storage, jumps, records, goal, linking>>

(* record_link_offsets: the buffer that was copied from holds, from then   *)
(* on, by how much each of its words has moved.                            *)
record_link_offsets(first, end, offset) ==
  [n \in DOMAIN storage |-> IF first <= n /\ n < end THEN <<"offset", offset>> ELSE storage[n]]
executable_offset_for(loc) ==
  IF loc = 1 THEN 0 ELSE IF storage[loc - 1][1] = "offset" THEN storage[loc - 1][2] ELSE MaxCode
Copied(end) ==
  [n \in DOMAIN code |-> IF write <= n /\ n < write + (end - read) THEN storage[n - write + read]
                         ELSE code[n]]
LinkTypeOf ==
  [NoConditionFixedSize |-> "NoCondition", ConditionFixedSize |-> "Condition",
   CompareAndBranchFixedSize |-> "CompareAndBranch", TestBitFixedSize |-> "TestBit"]

(* copy_and_compact_link_code, in its order: the code before each jump, in *)
(* the order of the jumps; what is behind the last; and then each jump.    *)
CopyRegion ==
  /\ phase = "copying" /\ at <= Len(records)
  /\ LET r == records[at]
         size == r.from - read
     IN /\ code' = Copied(r.from)
        /\ storage' = record_link_offsets(read, r.from, read - write)
        /\ read' = read + size
        /\ write' = write + size
        /\ records' = [records EXCEPT ![at].from = write + size,
                                      ![at].link_type = LinkTypeOf[r.typ]]
  /\ at' = at + 1
  /\ UNCHANGED <<jumps, goal, phase, emitted, relinks>>
CopyTail ==
  /\ phase = "copying" /\ at > Len(records)
  /\ code' = Copied(Len(storage) + 1)
  /\ storage' = record_link_offsets(read, Len(storage) + 1, read - write)
  /\ at' = 1
  /\ phase' = "linking"
  /\ UNCHANGED <<jumps, records, goal, read, write, emitted, relinks>>

(* link_jump_or_call, which panics on another instruction; and the three   *)
(* that link a conditional branch, directly when the target is near.       *)
link_jump_or_call(c, from, to) ==
  [c EXCEPT ![from] = IF @[1] \in {"b", "nop"} THEN <<"b", Field(to - from, Reach26)>>
                      ELSE <<"panic">>]
Bits == [cond |-> Reach19, compare |-> Reach19, test |-> Reach14]
(* To get it wrong: branch over the second one when the condition holds. *)
LinkBranchUninverted(c, kind, subject, sense, from, to) ==
  IF IsInt(Bits[kind], to - from)
  THEN [c EXCEPT ![from] = <<"branch", kind, subject, sense, to - from>>, ![from + 1] = <<"nop">>]
  ELSE link_jump_or_call([c EXCEPT ![from] = <<"branch", kind, subject, sense, 2>>], from + 1, to)
LinkBranch(c, kind, subject, sense, from, to) ==
  IF IsInt(Bits[kind], to - from)
  THEN [c EXCEPT ![from] = <<"branch", kind, subject, sense, to - from>>, ![from + 1] = <<"nop">>]
  ELSE link_jump_or_call([c EXCEPT ![from] = <<"branch", kind, subject, ~sense, 2>>], from + 1, to)

LinkRecord ==
  /\ phase = "linking" /\ at <= Len(records)
  /\ LET r == records[at]
         to == r.to - executable_offset_for(r.to)
     IN code' = IF r.link_type = "NoCondition" THEN link_jump_or_call(code, r.from, to)
                ELSE LinkBranch(code, r.kind, r.subject, r.sense, r.from - 1, to)
  /\ at' = at + 1
  /\ UNCHANGED <<storage, jumps, records, goal, phase, read, write, emitted, relinks>>
Linked ==
  /\ phase = "linking" /\ at > Len(records)
  /\ phase' = "linked"
  /\ UNCHANGED <<storage, jumps, records, goal, linking>>

-------------------------------------------------------------------------------
(* The code in its memory: LinkBuffer::link_jump and repatch_jump. *)

Relinked(k, to, linked) ==
  /\ relinks < MaxRelinks
  /\ code' = linked
  /\ goal' = [goal EXCEPT ![k] = to]
  /\ relinks' = relinks + 1
  /\ UNCHANGED <<storage, jumps, records, phase, read, write, at, emitted>>
LinkJump(k, to) ==
  /\ phase = "linked"
  /\ Careful => Always(jumps[k])
  /\ Relinked(k, to, link_jump_or_call(code, jumps[k].label, to))

(* relink_jump looks for a conditional branch before the instruction it is *)
(* given.  One whose offset is Skip it takes for the form that jumps over   *)
(* the second branch, and inverts; that form jumps by 2 and is not.        *)
IsBranch(insn) == insn[1] = "branch"
relink_jump(c, from, to) ==
  IF from > 1 /\ IsBranch(c[from - 1])
  THEN LET b == c[from - 1]
       IN LinkBranch(c, b[2], b[3], IF b[5] = Skip THEN ~b[4] ELSE b[4], from - 1, to)
  ELSE link_jump_or_call(c, from, to)
Mistaken(j) == ~Always(j) /\ (code[j.label][1] = "b" \/ code[First(j)][5] = Skip)
RepatchJump(k, to) ==
  /\ phase = "linked"
  /\ Careful => ~Mistaken(jumps[k])
  /\ Relinked(k, to, relink_jump(code, jumps[k].label, to))

Next ==
  \/ Insn \/ MakeJump \/ MakeBranch \/ Link
  \/ AllocateAnew \/ (\E room \in Rooms : AllocateIn(room) \/ FailToAllocate(room))
  \/ CopyRegion \/ CopyTail \/ LinkRecord \/ Linked
  \/ \E k \in DOMAIN jumps, to \in Outside \union Labels : LinkJump(k, to) \/ RepatchJump(k, to)

Spec == Init /\ [][Next]_vars

-------------------------------------------------------------------------------

(* The code writes the offset of an unconditional branch into its field of *)
(* 26 bits whatever it is: it relies on all that is linked being in reach. *)
WithinReach ==
  /\ MaxCode + Granule <= Reach26
  /\ \A room \in Rooms : room < Reach26
  /\ \A to \in Outside, from \in 1..MaxCode : IsInt(Reach26, to - from)

(* Where control goes that enters a jump while its condition holds, or not. *)
Second(j, i) ==
  CASE i[1] = "b" -> j.label + i[2]
    [] i[1] = "nop" -> j.label + 1
    [] OTHER -> Nowhere
Arrives(k, holds) ==
  LET j == jumps[k]
      i == code[First(j)]
  IN CASE Always(j) -> Second(j, i)
       [] ~Always(j) /\ i[1] = "branch" /\ i[3] = k /\ i[4] = (holds = j.sense) -> First(j) + i[5]
       [] OTHER -> Second(j, code[j.label])

(* Once linked, a jump leads to the target last given when its condition   *)
(* holds and to what follows it when not, near or far, forwards or         *)
(* backwards, whatever other jumps were linked before and since.           *)
JumpsLead ==
  phase = "linked" =>
    \A k \in DOMAIN jumps :
      goal[k] # Nowhere => /\ Arrives(k, TRUE) = goal[k]
                           /\ ~Always(jumps[k]) => Arrives(k, FALSE) = jumps[k].label + 1

(* Every other instruction is where it was assembled: copying region by    *)
(* region out of a buffer that is being written over, and linking, lose,   *)
(* move and change none.                                                   *)
CodeKept ==
  phase \in {"linking", "linked"} =>
    /\ Len(code) >= emitted
    /\ \A n \in 1..emitted \ Inside : code[n] = <<"other", n>>
===============================================================================
