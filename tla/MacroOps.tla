-------------------------------- MODULE MacroOps --------------------------------
(***************************************************************************)
(* What a macro instruction means, whatever machine it is assembled for.   *)
(*                                                                         *)
(* The macro assemblers (crates/macroassembler) offer one set of           *)
(* operations on registers and memory and translate each into the          *)
(* instructions of a target.  This module is the common contract: a        *)
(* machine state the targets share, the operands, and for each operation   *)
(* the state it leads to.  The modules of the targets translate the        *)
(* operations as the code does, and are compared with it.                  *)
(***************************************************************************)
EXTENDS Words, Sequences, SequencesExt

Users == {"a", "b", "c"}       (* registers a client works with            *)
FUsers == {"fa", "fb", "fc"}

(* Where the client links a jump that an operation returns. *)
Target == 1000

(* A machine has general registers g, floating-point registers f, the      *)
(* memory it has written, and where control went: <<>> to the next         *)
(* operation, <<"taken">> to the target of a jump the operation returns,   *)
(* <<"jump", t>> and <<"call", t>> to an address.                          *)

Untouched(x) == ((((x % 1009) * (x % 1009)) \div 5) + (x \div 7)) % 2^Byte
ReadByte(m, x) == LET y == Wrap(x, Full)
                  IN IF y \in DOMAIN m.mem THEN m.mem[y] ELSE Untouched(y)

Load(m, x, w) ==
  LET r[i \in 0..(w \div Byte)] ==
        IF i = 0 THEN 0
        ELSE r[i - 1] + (ReadByte(m, x + i - 1) * 2^(Byte * (i - 1)))
  IN r[w \div Byte]

Store(m, x, w, v) ==
  LET at == [i \in 0..((w \div Byte) - 1) |-> Wrap(x + i, Full)]
      new == [y \in Range(at) |->
                LET i == CHOOSE i \in DOMAIN at : at[i] = y
                IN Wrap(v \div 2^(Byte * i), Byte)]
  IN [m EXCEPT !.mem = new @@ m.mem]

-------------------------------------------------------------------------------
(* Operands *)

R(r) == [k |-> "reg", r |-> r]
F(r) == [k |-> "freg", r |-> r]
Imm(w, v) == [k |-> IF w = Full THEN "imm64" ELSE "imm32", v |-> v]
Address(base, off) == [k |-> "addr", base |-> base, off |-> off]
BaseIndex(base, index, scale, off) ==
  [k |-> "index", base |-> base, index |-> index, scale |-> scale, off |-> off]
Absolute(v) == [k |-> "abs", v |-> v]
(* ExtendedAddress: a constant plus a register, which counts 16-bit units  *)
(* in a 16-bit load.                                                       *)
Extended(base, scale, off) ==
  [k |-> "ext", base |-> base, scale |-> scale, off |-> off]

InMemory(o) == o.k \in {"addr", "index", "abs", "ext"}

EffectiveAddress(m, o) ==
  Wrap(CASE o.k = "addr" -> m.g[o.base] + o.off
         [] o.k = "index" -> m.g[o.base] + Shl(m.g[o.index], o.scale, Full) + o.off
         [] o.k = "abs" -> o.v
         [] o.k = "ext" -> Shl(m.g[o.base], o.scale, Full) + o.off, Full)

(* The low w bits of an operand. *)
Value(m, o, w) ==
  CASE o.k = "reg" -> Wrap(m.g[o.r], w)
    [] o.k = "freg" -> Wrap(m.f[o.r], w)
    [] o.k \in {"imm32", "imm64"} -> Wrap(o.v, w)
    [] InMemory(o) -> Load(m, EffectiveAddress(m, o), w)

Assign(m, o, w, v) ==
  CASE o.k = "reg" -> [m EXCEPT !.g[o.r] = v]
    [] o.k = "freg" -> [m EXCEPT !.f[o.r] = v]
    [] InMemory(o) -> Store(m, EffectiveAddress(m, o), w, v)

-------------------------------------------------------------------------------
(* Conditions *)

Holds(cond, x, y, w) ==
  LET sx == Signed(x, w)
      sy == Signed(y, w)
      ux == Wrap(x, w)
      uy == Wrap(y, w)
  IN CASE cond = "Equal" -> ux = uy
       [] cond = "NotEqual" -> ux # uy
       [] cond = "Above" -> ux > uy
       [] cond = "AboveOrEqual" -> ux >= uy
       [] cond = "Below" -> ux < uy
       [] cond = "BelowOrEqual" -> ux <= uy
       [] cond = "GreaterThan" -> sx > sy
       [] cond = "GreaterThanOrEqual" -> sx >= sy
       [] cond = "LessThan" -> sx < sy
       [] cond = "LessThanOrEqual" -> sx <= sy

Relations == {"Equal", "NotEqual", "Above", "AboveOrEqual", "Below",
              "BelowOrEqual", "GreaterThan", "GreaterThanOrEqual", "LessThan",
              "LessThanOrEqual"}

(* A condition on a result; overflow is the operation's own. *)
ResultHolds(cond, x, overflow, w) ==
  CASE cond = "Overflow" -> overflow
    [] cond = "Signed" -> Signed(x, w) < 0
    [] cond = "PositiveOrZero" -> Signed(x, w) >= 0
    [] cond = "Zero" -> Wrap(x, w) = 0
    [] cond = "NonZero" -> Wrap(x, w) # 0

(* Comparisons of floats: a relation, and the answer when one is NaN. *)
FloatRelation(cond) ==
  CASE cond \in {"EqualAndOrdered", "EqualOrUnordered"} -> "Equal"
    [] cond \in {"NotEqualAndOrdered", "NotEqualOrUnordered"} -> "NotEqual"
    [] cond \in {"GreaterThanAndOrdered", "GreaterThanOrUnordered"} -> "GreaterThan"
    [] cond \in {"GreaterThanOrEqualAndOrdered", "GreaterThanOrEqualOrUnordered"}
         -> "GreaterThanOrEqual"
    [] cond \in {"LessThanAndOrdered", "LessThanOrUnordered"} -> "LessThan"
    [] cond \in {"LessThanOrEqualAndOrdered", "LessThanOrEqualOrUnordered"}
         -> "LessThanOrEqual"

OrderedConditions ==
  {"EqualAndOrdered", "NotEqualAndOrdered", "GreaterThanAndOrdered",
   "GreaterThanOrEqualAndOrdered", "LessThanAndOrdered", "LessThanOrEqualAndOrdered"}
FloatConditions == OrderedConditions \union
  {"EqualOrUnordered", "NotEqualOrUnordered", "GreaterThanOrUnordered",
   "GreaterThanOrEqualOrUnordered", "LessThanOrUnordered", "LessThanOrEqualOrUnordered"}

FloatHolds(cond, x, y, w) ==
  IF IsNaN(x, w) \/ IsNaN(y, w) THEN cond \notin OrderedConditions
  ELSE Holds(FloatRelation(cond), Quarters(x, w), Quarters(y, w), Full)

-------------------------------------------------------------------------------
(* Functions of words *)

(* Towards zero; a division by zero has the result of the machine that has *)
(* a division, zero.                                                       *)
Quotient(x, y, w) ==
  LET Size(z) == IF z < 0 THEN -z ELSE z
      q == IF y = 0 THEN 0 ELSE Size(x) \div Size(y)
  IN Wrap(IF (x < 0) # (y < 0) THEN -q ELSE q, w)

Binary(f, x, y, w) ==
  CASE f = "add" -> Wrap(x + y, w)
    [] f = "sub" -> Wrap(x - y, w)
    [] f = "mul" -> Wrap(Product(x, y, w), w)
    [] f = "and" -> x & y
    [] f = "or" -> x | y
    [] f = "xor" -> x ^^ y
    [] f = "shl" -> Shl(x, y % w, w)
    [] f = "shr" -> Shr(x, y % w, w)
    [] f = "sar" -> Sar(x, y % w, w)
    [] f = "ror" -> Ror(x, y % w, w)
    [] f = "rol" -> Ror(x, (w - (y % w)) % w, w)
    [] f = "bic" -> x & Complement(y, w)
    [] f = "orn" -> x | Complement(y, w)
    [] f = "xorn" -> x ^^ Complement(y, w)
    [] f = "zext" -> x % 2^y
    [] f = "sext" -> Wrap(Signed(x, y), w)
    [] f = "div" -> Quotient(Signed(x, w), Signed(y, w), w)
    [] f = "udiv" -> Quotient(Wrap(x, w), Wrap(y, w), w)

Overflows(f, x, y, w) ==
  LET sx == Signed(x, w)
      sy == Signed(y, w)
  IN ~FitsSigned(CASE f = "add" -> sx + sy [] f = "sub" -> sx - sy
                   [] f = "mul" -> sx * sy, w)

Unary(f, x, w) ==
  CASE f = "id" -> x
    [] f = "clz" -> LeadingZeros(x, w)
    [] f = "ctz" -> TrailingZeros(x, w)
    [] f = "popcnt" -> Cardinality({i \in 0..(w - 1) : (x \div 2^i) % 2 = 1})
    [] f = "not" -> Complement(x, w)
    [] f = "neg" -> Wrap(-x, w)
    [] f = "swap" -> Reversed(x, w)
    [] f = "swap16" -> Reversed(Wrap(x, Quarter), Quarter)
    [] f = "zext8" -> Wrap(x, Byte)
    [] f = "zext16" -> Wrap(x, Quarter)
    [] f = "zext32" -> Wrap(x, Half)
    [] f = "zext48" -> Wrap(x, 3 * Quarter)
    [] f = "sext8" -> Wrap(Signed(x, Byte), w)
    [] f = "sext16" -> Wrap(Signed(x, Quarter), w)
    [] f = "sext32" -> Wrap(Signed(x, Half), w)

(* Of floats: the results of arithmetic stand for any function of the      *)
(* operands, symmetric in them where that of the code is; those of the     *)
(* other operations are the real ones.                                     *)
FloatBinary(f, x, y, w) ==
  CASE f = "fadd" -> Wrap((3 * (x + y)) + 1, w)
    [] f = "fsub" -> Wrap(x + (5 * y) + 2, w)
    [] f = "fmul" -> Wrap((7 * (x + y)) + 3, w)
    [] f = "fdiv" -> Wrap(x + (9 * y) + 4, w)
    [] f = "fmax" -> Wrap(x + (11 * y) + 5, w)
    [] f = "fmin" -> Wrap(x + (13 * y) + 6, w)
    [] f = "and" -> x & y
    [] f = "or" -> x | y
    [] f = "xor" -> x ^^ y

(* A field of n bits from l, in x or put into d. *)
FieldOf(f, x, d, l, n, w) ==
  CASE f = "ubfx" -> (x \div 2^l) % 2^n
    [] f = "sbfx" -> Wrap(Signed(x \div 2^l, n), w)
    [] f = "ubfiz" -> (x % 2^n) * 2^l
    [] f = "sbfiz" -> Wrap(Signed(x, n) * 2^l, w)
    [] f = "bfi" -> d - (((d \div 2^l) % 2^n) * 2^l) + ((x % 2^n) * 2^l)
    [] f = "bfxil" -> d - (d % 2^n) + ((x \div 2^l) % 2^n)

FloatUnary(f, x, w) ==
  CASE f = "id" -> x
    [] f = "sqrt" -> Wrap((11 * (x % 256)) + 5, w)
    [] f = "abs" -> Magnitude(x, w)
    [] f = "neg" -> x ^^ MinusZero(w)
    [] f = "ceil" -> RoundFloat(x, "up", w)
    [] f = "floor" -> RoundFloat(x, "down", w)
    [] f = "near" -> RoundFloat(x, "near", w)
    [] f = "trunc" -> RoundFloat(x, "zero", w)

(* The whole part of a float as an integer, which NaN and a number out of  *)
(* range do not have.                                                      *)
Truncated(x, w) == Rounded(Quarters(x, w), "zero")
InRange(x, w, sign, rw) ==
  /\ Magnitude(x, w) < Infinite(w)
  /\ IF sign = "signed" THEN FitsSigned(Truncated(x, w), rw)
     ELSE FitsUnsigned(Truncated(x, w), rw)

(* A float of w bits as one of fw bits. *)
Resize(x, w, fw) ==
  CASE IsNaN(x, w) -> NaN(fw)
    [] IsInfinite(x, w) -> Float(Negative(x, w), Infinite(fw), fw)
    [] OTHER -> Float(Negative(x, w), Magnitude(x, w), fw)

-------------------------------------------------------------------------------
(* The operations.  An operation has the name of its function in the code, *)
(* its operands s in the order of the code, and its contract: a kind k, a  *)
(* function f, a width w, a condition c, and the width rw of the result,   *)
(* of which a 32-bit operation leaves the upper half of the register open. *)

Op(name, k, f, w, rw, c, s) ==
  [name |-> name, k |-> k, f |-> f, w |-> w, rw |-> rw, c |-> c, s |-> s]

Jumped(m, b) == [m EXCEPT !.out = IF b THEN <<"taken">> ELSE <<>>]
Bool(b) == IF b THEN 1 ELSE 0

(* What the last two operands of a comparison, or test, are of.            *)
Relates(op, m, o, p) ==
  CASE o.k = "freg" -> FloatHolds(op.c, Value(m, o, op.w), Value(m, p, op.w), op.w)
    [] op.f = "test" -> ResultHolds(op.c, Value(m, o, op.w) & Value(m, p, op.w), FALSE, op.w)
    [] op.f = "bit" ->
         ResultHolds(op.c, (Value(m, o, op.w) \div 2^(Value(m, p, op.w) % op.w)) % 2, FALSE, op.w)
    [] OTHER -> Holds(op.c, Value(m, o, op.w), Value(m, p, op.w), op.w)

(* What a push or a pop takes of the stack. *)
Slots(op) == IF op.c = "two" THEN 16 ELSE 8

(* A pair at a base that moves, before the access or after it. *)
PairAt(op, o) == [o EXCEPT !.off = IF op.f = "pre" THEN @ ELSE 0]
Beside(o, w) == [o EXCEPT !.off = @ + (w \div Byte)]

Meaning(op, m) ==
  LET s == op.s
      w == op.w
      V(i) == Value(m, s[i], w)
      L(i, off) == [s[i] EXCEPT !.off = @ + off]
  IN CASE op.k = "alu2" -> Assign(m, s[2], w, Binary(op.f, V(2), V(1), w))
       [] op.k = "alu3" -> Assign(m, s[3], w, Binary(op.f, V(1), V(2), w))
       [] op.k = "shifted" ->   (* operand 2 shifted by operand 3 on the way *)
            Assign(m, s[4], w, Binary(op.f, V(1), Binary(op.c, V(2), V(3), w), w))
       [] op.k = "bitfield" ->
            Assign(m, s[4], w, FieldOf(op.f, V(1), V(4), s[2].v, s[3].v, w))
       [] op.k = "extract" ->
            Assign(m, s[4], w, Shr(V(2), s[3].v, w) + Shl(V(1), w - s[3].v, w))
       [] op.k = "fused" ->     (* a product added to or subtracted from a third operand *)
            LET p == IF op.c = "unsigned" THEN V(1) * V(2) ELSE Product(V(1), V(2), w)
                a == IF Len(s) = 4 THEN Signed(Value(m, s[3], op.rw), op.rw) ELSE 0
            IN Assign(m, s[Len(s)], op.rw, Wrap(IF op.f = "add" THEN a + p ELSE a - p, op.rw))
       [] op.k = "unary" -> Assign(m, s[2], op.rw, Wrap(Unary(op.f, V(1), op.rw), op.rw))
       [] op.k = "inplace" -> Assign(m, s[1], w, Unary(op.f, V(1), w))
       [] op.k = "load" -> Assign(m, s[2], op.rw, Wrap(Unary(op.f, V(1), op.rw), op.rw))
       [] op.k = "store" -> Assign(m, s[2], w, V(1))
       [] op.k = "address" -> Assign(m, s[2], Full, EffectiveAddress(m, s[1]))
       [] op.k = "loadpair" ->
            Assign(Assign(m, s[2], w, V(1)), s[3], w, Value(m, L(1, w \div Byte), w))
       [] op.k = "storepair" ->
            Assign(Assign(m, s[3], w, V(1)), L(3, w \div Byte), w, V(2))
       [] op.k = "loadpair_moving" ->    (* and the base, which is operand 4, moves *)
            LET near == PairAt(op, s[1])
            IN Assign(Assign(Assign(m, s[2], w, Value(m, near, w)),
                             s[3], w, Value(m, Beside(near, w), w)),
                      s[4], Full, Wrap(m.g[s[4].r] + s[1].off, Full))
       [] op.k = "storepair_moving" ->
            LET near == PairAt(op, s[3])
            IN Assign(Assign(Assign(m, near, w, V(1)), Beside(near, w), w, V(2)),
                      s[4], Full, Wrap(m.g[s[4].r] + s[3].off, Full))
       [] op.k = "exchange" -> Assign(Assign(m, s[2], w, V(1)), s[1], w, V(2))
       [] op.k = "branch" -> Jumped(m, Relates(op, m, s[1], s[2]))
       [] op.k = "compare" -> Assign(m, s[3], Full, Bool(Relates(op, m, s[1], s[2])))
       [] op.k = "branch_zero" -> Jumped(m, FloatHolds(op.c, V(1), 0, w))
       [] op.k = "branch_alu2" ->
            LET x == Binary(op.f, V(2), V(1), w)
            IN Jumped(Assign(m, s[2], w, x),
                      ResultHolds(op.c, x, Overflows(op.f, V(2), V(1), w), w))
       [] op.k = "branch_alu3" ->
            LET x == Binary(op.f, V(1), V(2), w)
            IN Jumped(Assign(m, s[3], w, x),
                      ResultHolds(op.c, x, Overflows(op.f, V(1), V(2), w), w))
       [] op.k = "branch_neg" ->
            LET x == Wrap(-V(1), w)
            IN Jumped(Assign(m, s[1], w, x),
                      ResultHolds(op.c, x, Overflows("sub", 0, V(1), w), w))
       [] op.k = "move_if" ->
            IF Relates(op, m, s[1], s[2])
            THEN Assign(m, s[4], op.rw, Value(m, s[3], op.rw)) ELSE m
       [] op.k = "choose" ->
            Assign(m, s[5], op.rw,
                   Value(m, IF Relates(op, m, s[1], s[2]) THEN s[3] ELSE s[4], op.rw))
       [] op.k = "float2" -> Assign(m, s[2], w, FloatBinary(op.f, V(2), V(1), w))
       [] op.k = "float3" -> Assign(m, s[3], w, FloatBinary(op.f, V(1), V(2), w))
       [] op.k = "float1" -> Assign(m, s[2], w, FloatUnary(op.f, V(1), w))
       [] op.k = "zero" -> Assign(m, s[1], w, 0)
       [] op.k = "toint" ->
            Assign(m, s[2], op.rw, Wrap(Truncated(V(1), w), op.rw))
       [] op.k = "tofloat" ->
            Assign(m, s[2], op.rw,
                   FromQuarters(4 * (IF op.f = "signed" THEN Signed(V(1), w) ELSE V(1)), op.rw))
       [] op.k = "resize" -> Assign(m, s[2], op.rw, Resize(V(1), w, op.rw))
       [] op.k = "branch_toint" ->
            Jumped(Assign(m, s[2], op.rw, Wrap(Truncated(V(1), w), op.rw)),
                   InRange(V(1), w, "signed", op.rw) = (op.c = "success"))
       [] op.k = "branch_exact" ->
            Jumped(Assign(m, s[2], op.rw, Wrap(Truncated(V(1), w), op.rw)),
                   ~(/\ InRange(V(1), w, "signed", op.rw)
                     /\ Quarters(V(1), w) % 4 = 0
                     /\ (op.c = "zero_check" => V(1) # MinusZero(w))))
       [] op.k = "cas" ->
            LET equal == Value(m, s[3], w) = V(1)
            IN Jumped(IF equal THEN Assign(m, s[3], w, V(2)) ELSE m,
                      equal = (op.c = "success"))
       [] op.k = "push" ->
            LET sp == Wrap(m.g["sp"] - Slots(op), Full)
                n == Store([m EXCEPT !.g["sp"] = sp], sp, w, V(1))
            IN IF Len(s) = 1 THEN n ELSE Store(n, sp + (w \div Byte), w, V(2))
       [] op.k = "pop" ->
            LET sp == m.g["sp"]
                n == [Assign(m, s[1], w, Load(m, sp, w)) EXCEPT
                        !.g["sp"] = Wrap(sp + Slots(op), Full)]
            IN IF Len(s) = 1 THEN n ELSE Assign(n, s[2], w, Load(m, sp + (w \div Byte), w))
       [] op.k = "jump" ->
            [m EXCEPT !.out = <<op.f, V(1)>>]

(* The registers whose value the contract leaves open: a number that has   *)
(* no integer, and the operand a compare-and-swap may overwrite.           *)
Open(op, m) ==
  LET x == Value(m, op.s[1], op.w)
  IN CASE op.k = "toint" /\ ~InRange(x, op.w, op.f, op.rw) -> {op.s[2].r}
       [] op.k \in {"branch_toint", "branch_exact"}
            /\ \/ ~InRange(x, op.w, "signed", op.rw)
               \/ op.k = "branch_exact" /\ Meaning(op, m).out # <<>> -> {op.s[2].r}
       [] op.k = "cas" -> {op.s[1].r}
       [] OTHER -> {}

(* The operands an operation assigns. *)
Destinations(op) ==
  CASE op.k \in {"alu2", "unary", "load", "address", "branch_alu2", "float1", "float2",
                 "toint", "tofloat", "resize", "branch_toint", "branch_exact"} -> {2}
    [] op.k \in {"alu3", "compare", "branch_alu3", "float3"} -> {3}
    [] op.k \in {"inplace", "branch_neg", "zero"} -> {1}
    [] op.k = "loadpair" -> {2, 3}
    [] op.k = "loadpair_moving" -> {2, 3, 4}
    [] op.k = "storepair_moving" -> {4}
    [] op.k \in {"exchange", "pop"} -> {1, 2} \intersect DOMAIN op.s
    [] op.k = "move_if" -> {4}
    [] op.k = "choose" -> {5}
    [] op.k \in {"shifted", "bitfield", "extract"} -> {4}
    [] op.k = "fused" -> {Len(op.s)}
    [] OTHER -> {}

(* The user's registers, the stack pointer, the memory and the direction   *)
(* of control are as the contract says; of a result, the bits it has.      *)
Agrees(op, m, n) ==
  LET e == Meaning(op, m)
      Bits(r) == IF \E i \in Destinations(op) :
                      op.s[i].k \in {"reg", "freg"} /\ op.s[i].r = r
                 THEN op.rw ELSE Full
      open == Open(op, m)
  IN /\ \A r \in (Users \union {"sp"}) \ open : Wrap(n.g[r], Bits(r)) = Wrap(e.g[r], Bits(r))
     /\ \A r \in FUsers \ open : Wrap(n.f[r], Bits(r)) = Wrap(e.f[r], Bits(r))
     /\ \A x \in DOMAIN n.mem \union DOMAIN e.mem : ReadByte(n, x) = ReadByte(e, x)
     /\ n.out = e.out

===============================================================================
