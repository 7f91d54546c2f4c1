-------------------------------- MODULE X86Macro --------------------------------
(***************************************************************************)
(* MacroAssemblerX86Common (macro_assembler_x86_common.rs): the            *)
(* instructions each operation emits.  Operands are those of MacroOps,     *)
(* registers included, and come in the order of the code.  The forms an    *)
(* operation shares with the instruction it becomes are one case here.     *)
(***************************************************************************)
EXTENDS X86Assembler

-------------------------------------------------------------------------------
(* Moves *)

At(r) == Address(r.r, 0)

swap(x, y) == IF x = y THEN <<>> ELSE xchgq(x, y)
move32_if_needed(x, d) == IF x = d THEN <<>> ELSE movl(x, d)
pop(d) == pop_r(d)
push_to_save(x) == push_r(x)
push(x) == push_r(x)
push_pair(x, y) == push_r(y) \o push_r(x)
pop_pair(d, e) == pop_r(d) \o pop_r(e)

(* A constant of 32 bits leaves the upper half of the register clear. *)
mov(x, d) ==
  CASE x.k = "imm32" /\ d.k = "reg" -> IF x.v = 0 THEN xor(Half, d, d) ELSE movl_i32r(x.v, d)
    [] x.k = "imm64" -> IF x.v = 0 THEN xorq(d, d) ELSE movq_i64r(x.v, d)
    [] x.k = "imm32" /\ InMemory(d) -> movl(x, d)
    [] x.k = "abs" -> movq_i64r(x.v, d)
    [] x.k = "reg" /\ d.k = "reg" -> IF x = d THEN <<>> ELSE movq(x, d)
    [] x.k = "reg" /\ InMemory(d) -> movq(x, d)
    [] x.k \in {"addr", "index"} -> movq(x, d)

zero_extend32_to_word(x, d) == movl(x, d)
sign_extend32_to_64(x, d) ==
  CASE x.k = "reg" -> movsxd_rr(x, d)
    [] x.k = "imm32" -> IF x.v = 0 THEN xorq(d, d) ELSE mov_i32r(x.v, d)
zero_extend8_to_32(x, d) == movz(Byte, x, d)
sign_extend8_to_32(x, d) == movs(Byte, x, d)
zero_extend16_to_32(x, d) == movz(Quarter, x, d)
sign_extend16_to_32(x, d) == movs(Quarter, x, d)
sign_extend8_to_64(x, d) == movsq(Byte, x, d)
zero_extend16_to_64(x, d) == zero_extend16_to_32(x, d)
sign_extend16_to_64(x, d) == movsq(Quarter, x, d)

(* An absolute address is loaded into the destination first, or into r11. *)
load32(o, d) ==
  IF o.k # "abs" THEN movl(o, d)
  ELSE IF d = eax THEN movl_meax(o.v)
  ELSE mov(Imm(Full, o.v), d) \o movl(At(d), d)
load8(o, d) == IF o.k = "abs" THEN mov(o, d) \o movz(Byte, At(d), d) ELSE movz(Byte, o, d)
load8_signed_extend_to_32(o, d) == movs(Byte, o, d)

(* The register of an ExtendedAddress is not scaled. *)
InR11(o) == mov(Imm(Full, o.off), r11)
Unscaled(o) == BaseIndex("r11", o.base, 0, 0)
load16(o, d) == IF o.k = "ext" THEN InR11(o) \o movz(Quarter, Unscaled(o), d) ELSE movz(Quarter, o, d)
load16_signed_extend_to_32(o, d) == movs(Quarter, o, d)
load_pair32(o, d, e) ==
  IF o.base = d.r THEN load32(Beside(o, Half), e) \o load32(o, d)
  ELSE load32(o, d) \o load32(Beside(o, Half), e)

store32(x, o) ==
  IF o.k # "abs" THEN movl(x, o)
  ELSE IF x = eax THEN movl_eaxm(o.v)
  ELSE mov(o, r11) \o movl(x, At(r11))
store8(x, o) == IF o.k = "abs" THEN mov(o, r11) \o movb(x, At(r11)) ELSE movb(x, o)
store16(x, o) == movw(x, o)
store_pair32(x, y, o) == store32(x, o) \o store32(y, Beside(o, Half))
xchg8(x, o) == xchg(Byte, x, o)
xchg16(x, o) == xchg(Quarter, x, o)
xchg32(x, o) == xchg(Half, x, o)
swap32(x, o) == xchg(Half, x, o)

-------------------------------------------------------------------------------
(* Arithmetic *)

add32(x, d) ==
  CASE d.k = "abs" -> mov(d, r11) \o add(Half, x, At(r11))
    [] x.k = "abs" -> mov(x, r11) \o add(Half, At(r11), d)
    [] d.k # "abs" /\ x.k # "abs" ->
         IF x = Imm(Half, 1) /\ d.k = "reg" THEN inc_r(d) ELSE add(Half, x, d)
add8(x, d) == add(Byte, x, d)
add16(x, d) == add(Quarter, x, d)
x86_lea32(o, d) ==
  LET sum == o.scale = 0 /\ o.off = 0
  IN IF sum /\ o.base = d.r THEN add32(R(o.index), d)
     ELSE IF sum /\ o.index = d.r THEN add32(R(o.base), d)
     ELSE leal(o, d)
add32_rrr(x, y, d) ==
  IF x.k = "reg" THEN x86_lea32(BaseIndex(x.r, y.r, 0, 0), d)
  ELSE IF x.v = 0 THEN zero_extend32_to_word(y, d)
  ELSE IF y = d THEN add32(x, d)
  ELSE leal(Address(y.r, x.v), d)

sub32(x, d) ==
  IF d.k = "abs" THEN mov(d, r11) \o sub(Half, x, At(r11))
  ELSE IF x = Imm(Half, 1) /\ d.k = "reg" THEN dec_r(d)
  ELSE sub(Half, x, d)
neg32(d) == neg(Half, d)
neg32_rr(x, d) == move32_if_needed(x, d) \o neg32(d)
neg16(d) == neg(Quarter, d)
neg8(d) == neg(Byte, d)
sub32_rrr(x, y, d) ==   (* of a constant and memory: no destination *)
  IF InMemory(y) THEN sub(Half, x, y)
  ELSE IF y = d THEN neg32(d) \o sub32(x, d)
  ELSE mov(x, d) \o sub32(y, d)
sub16(x, d) == sub(Quarter, x, d)
sub8(x, d) == sub(Byte, x, d)

(* A commutative operation of two registers, or of an address and a        *)
(* register, into a third register that may be one of them.                *)
OfRegisters(Op2(_, _), x, y, d) ==
  IF x = d THEN Op2(y, d) ELSE move32_if_needed(y, d) \o Op2(x, d)
OfAddress(Op2(_, _), x, y, d) ==
  IF y = d THEN Op2(x, d)
  ELSE IF x.base = d.r THEN load32(x, d) \o Op2(y, d)
  ELSE zero_extend32_to_word(y, d) \o Op2(x, d)

and32(x, d) == IF d.k = "abs" THEN mov(d, r11) \o and(Half, x, At(r11)) ELSE and(Half, x, d)
and16(x, d) == and(Quarter, x, d)
and8(x, d) == and(Byte, x, d)
and32_rrr(x, y, d) ==
  CASE x.k = "reg" /\ y.k = "reg" ->
         IF x = y THEN zero_extend32_to_word(x, d) ELSE OfRegisters(and32, x, y, d)
    [] x.k = "addr" -> OfAddress(and32, x, y, d)
    [] y.k = "addr" -> OfAddress(and32, y, x, d)
    [] x.k = "imm32" -> move32_if_needed(y, d) \o and32(x, d)

or32(x, d) ==
  CASE d.k = "abs" -> mov(d, r11) \o or(Half, x, At(r11))
    [] x.k = "addr" /\ d.k = "addr" -> load32(x, eax) \o or(Half, eax, d)   (* the client's eax *)
    [] d.k # "abs" /\ ~(x.k = "addr" /\ d.k = "addr") -> or(Half, x, d)
or32_rrr(x, y, d) ==
  CASE x.k = "reg" /\ y.k = "reg" ->
         IF x = y THEN zero_extend32_to_word(x, d) ELSE OfRegisters(or32, x, y, d)
    [] x.k = "addr" -> OfAddress(or32, x, y, d)
    [] y.k = "addr" -> OfAddress(or32, y, x, d)
or16(x, d) == IF d.k = "abs" THEN mov(d, r11) \o or(Quarter, x, At(r11)) ELSE or(Quarter, x, d)
or8(x, d) == IF d.k = "abs" THEN mov(d, r11) \o or(Byte, x, At(r11)) ELSE or(Byte, x, d)

xor32(x, d) == IF x = Imm(Half, -1) THEN not(Half, d) ELSE xor(Half, x, d)
xor32_rrr(x, y, d) ==
  CASE x.k = "reg" /\ y.k = "reg" -> IF x = y THEN mov(Imm(Half, 0), d) ELSE OfRegisters(xor32, x, y, d)
    [] x.k = "addr" -> OfAddress(xor32, x, y, d)
    [] x.k = "imm32" -> move32_if_needed(y, d) \o xor32(x, d)
not32(d) == not(Half, d)
not16(d) == not(Quarter, d)
not8(d) == not(Byte, d)

mul32(x, d) == IF x.k = "imm32" THEN imull_i32r(d, x, d) ELSE imul(Half, x, d)
mul32_rrr(x, y, d) ==
  CASE x.k = "reg" /\ y.k = "reg" ->
         IF y = d THEN imul(Half, x, d) ELSE move32_if_needed(x, d) \o imul(Half, y, d)
    [] x.k = "addr" -> OfAddress(mul32, x, y, d)
    [] y.k = "addr" -> OfAddress(mul32, y, x, d)
    [] x.k = "imm32" /\ y.k = "reg" -> imull_i32r(y, x, d)
    [] OTHER -> unreachable

count_leading_zeros32(x, d) == lzcnt(Half, x, d)
count_trailing_zeros32(x, d) == tzcnt(Half, x, d)
count_population32(x, d) == popcnt(Half, x, d)
byte_swap32(d) == bswap(Half, d)
byte_swap16(d) == rolw_i8r(Imm(Half, Byte), d) \o zero_extend16_to_32(d, d)
byte_swap64(d) == bswap(Full, d)

(* A count in another register than ecx changes places with it. *)
Counted(Shift(_, _), n, d) ==
  IF n.k # "reg" \/ n = ecx THEN Shift(n, d)
  ELSE swap(n, ecx) \o Shift(ecx, IF d = ecx THEN n ELSE d) \o swap(n, ecx)
lshift32(n, d) == Counted(LAMBDA c, e : shift32("shl", c, e), n, d)
rshift32(n, d) == Counted(LAMBDA c, e : shift32("sar", c, e), n, d)
urshift32(n, d) == Counted(LAMBDA c, e : shift32("shr", c, e), n, d)
rotate_right32(n, d) == Counted(LAMBDA c, e : shift32("ror", c, e), n, d)
rotate_left32(n, d) == Counted(LAMBDA c, e : shift32("rol", c, e), n, d)
lshift32_rrr(x, n, d) ==
  IF x.k = "reg" THEN move32_if_needed(x, d) \o lshift32(n, d)
  ELSE IF n = d THEN mov(n, r11) \o load32(x, d) \o lshift32(r11, d)
  ELSE load32(x, d) \o lshift32(n, d)
rshift32_rrr(x, n, d) == move32_if_needed(x, d) \o rshift32(n, d)
urshift32_rrr(x, n, d) == move32_if_needed(x, d) \o urshift32(n, d)
rotate_right32_rrr(x, n, d) == move32_if_needed(x, d) \o rotate_right32(n, d)
rotate_left32_rrr(x, n, d) == move32_if_needed(x, d) \o rotate_left32(n, d)

-------------------------------------------------------------------------------
(* Floating point: an operation has a form for doubles and one for floats, *)
(* which differ in the width w.                                            *)

move_double(x, d) == IF x = d THEN <<>> ELSE movap(x, d)
move_zero_to_double(d) == xorps_rr(d, d)
move_zero_to_float(d) == xorps_rr(d, d)
load_fp(w, o, d) == IF o.k = "abs" THEN mov(o, r11) \o movs_fp(w, At(r11), d) ELSE movs_fp(w, o, d)
store_fp(w, x, o) == movs_fp(w, x, o)
sqrt_fp(w, x, d) == sqrts(w, x, d)
round_fp(w, mode, x, d) == rounds(w, x, d, mode)
convert_double_to_float(x, d) == cvtsd2ss(x, d)
convert_float_to_double(x, d) == cvtss2sd(x, d)

(* A static that holds -1.0, not the sign alone, and is loaded over the    *)
(* source when that is the destination.                                    *)
NEGATIVE_ONE_CONSTANT == Imm(Full, 2^(Full - 1) + 4)
abs_double(x, d) ==
  mov(Imm(Full, 1000), r11) \o movs_fp(Full, NEGATIVE_ONE_CONSTANT, d) \o andnpd_rr(x, d)
negate_double(x, d) ==
  mov(Imm(Full, 1000), r11) \o movs_fp(Full, NEGATIVE_ONE_CONSTANT, d) \o xorpd_rr(x, d)

add_fp(w, x, y, d) ==
  LET Plus(o, r) == IF r = d THEN adds(w, o, d) ELSE load_fp(w, o, d) \o adds(w, r, d)
  IN CASE x.k = "freg" /\ y.k = "freg" ->
            IF x = d THEN adds(w, y, d) ELSE move_double(y, d) \o adds(w, x, d)
       [] x.k \in {"addr", "index"} -> Plus(x, y)
       [] y.k = "addr" -> Plus(y, x)
       [] x.k = "abs" -> mov(x, r11) \o adds(w, At(r11), y)
add_double_rr(x, d) == add_fp(Full, x, d, d)
add_float_rr(x, d) == add_fp(Half, x, d, d)
sub_fp(w, x, y, d) == move_double(x, d) \o subs(w, y, d)
sub_double_rr(x, d) == sub_fp(Full, d, x, d)
sub_float_rr(x, d) == sub_fp(Half, d, x, d)
div_double_rr(x, d) == divs(Full, x, d)
div_float_rr(x, d) == divs(Half, x, d)
div_double(x, y, d) == move_double(x, d) \o div_double_rr(y, d)
div_float(x, y, d) == move_double(x, d) \o div_float_rr(y, d)

(* Of a register and memory in either order; the float one loads a double, *)
(* and nothing when the address has an index.                              *)
Times(w, x, o, d) ==
  IF x = d THEN muls(w, o, d)
  ELSE CASE o.k = "freg" -> move_double(o, d) \o muls(w, x, d)
         [] o.k = "addr" -> load_fp(Full, o, d) \o muls(w, x, d)
         [] o.k = "index" -> <<>>
mul_double(x, y, d) == IF InMemory(x) THEN Times(Full, y, x, d) ELSE Times(Full, x, y, d)
mul_double_rr(x, d) == mul_double(d, x, d)
mul_float(x, y, d) == IF InMemory(x) THEN Times(Half, y, x, d) ELSE Times(Half, x, y, d)
mul_float_rr(x, d) == mul_float(d, x, d)

FloatLogic(Op2(_, _), x, y, d) == IF x = d THEN Op2(y, d) ELSE move_double(y, d) \o Op2(x, d)
and_double(x, y, d) == FloatLogic(andps_rr, x, y, d)
and_float(x, y, d) == FloatLogic(andps_rr, x, y, d)
or_double(x, y, d) == FloatLogic(orps_rr, x, y, d)
or_float(x, y, d) == FloatLogic(orps_rr, x, y, d)
xor_double(x, y, d) == FloatLogic(xorps_rr, x, y, d)
xor_float(x, y, d) == FloatLogic(xorps_rr, x, y, d)

convert_int32_to_double(o, d) ==
  IF o.k = "imm32" THEN mov(o, r11) \o cvtsi2s(Half, Full, r11, d) ELSE cvtsi2s(Half, Full, o, d)
convert_int32_to_float(o, d) == cvtsi2s(Half, Half, o, d)
move_float_to32(x, d) == movd_f2r(x, d)

-------------------------------------------------------------------------------
(* Conditions *)

x86_condition ==
  [Equal |-> "E", NotEqual |-> "NE", Above |-> "A", AboveOrEqual |-> "AE", Below |-> "B",
   BelowOrEqual |-> "BE", GreaterThan |-> "G", GreaterThanOrEqual |-> "GE", LessThan |-> "L",
   LessThanOrEqual |-> "LE",
   Overflow |-> "O", Signed |-> "S", PositiveOrZero |-> "NS", Zero |-> "E", NonZero |-> "NE"]
invert ==
  [Equal |-> "NotEqual", NotEqual |-> "Equal", Above |-> "BelowOrEqual", BelowOrEqual |-> "Above",
   AboveOrEqual |-> "Below", Below |-> "AboveOrEqual", GreaterThan |-> "LessThanOrEqual",
   LessThanOrEqual |-> "GreaterThan", GreaterThanOrEqual |-> "LessThan",
   LessThan |-> "GreaterThanOrEqual"]
is_invertible(cond) == cond # "Overflow"
invert_result == [Zero |-> "NonZero", NonZero |-> "Zero", Signed |-> "PositiveOrZero", PositiveOrZero |-> "Signed"]
invert_fp ==
  [EqualAndOrdered |-> "NotEqualOrUnordered", NotEqualAndOrdered |-> "EqualOrUnordered",
   LessThanAndOrdered |-> "GreaterThanOrEqualOrUnordered",
   LessThanOrEqualAndOrdered |-> "GreaterThanOrUnordered",
   GreaterThanAndOrdered |-> "LessThanOrEqualOrUnordered",
   GreaterThanOrEqualAndOrdered |-> "LessThanOrUnordered",
   EqualOrUnordered |-> "NotEqualAndOrdered", NotEqualOrUnordered |-> "EqualAndOrdered",
   LessThanOrUnordered |-> "GreaterThanOrEqualAndOrdered",
   LessThanOrEqualOrUnordered |-> "GreaterThanAndOrdered",
   GreaterThanOrUnordered |-> "LessThanOrEqualAndOrdered",
   GreaterThanOrEqualOrUnordered |-> "LessThanAndOrdered"]

(* DoubleCondition: the condition of the flags, what has to be compared    *)
(* the other way round, and what the flags alone do not tell.              *)
DoubleCondition ==
  [EqualAndOrdered |-> "E", NotEqualAndOrdered |-> "NE", GreaterThanAndOrdered |-> "A",
   GreaterThanOrEqualAndOrdered |-> "AE", LessThanAndOrdered |-> "A",
   LessThanOrEqualAndOrdered |-> "AE", EqualOrUnordered |-> "E", NotEqualOrUnordered |-> "NE",
   GreaterThanOrUnordered |-> "B", GreaterThanOrEqualOrUnordered |-> "BE",
   LessThanOrUnordered |-> "B", LessThanOrEqualOrUnordered |-> "BE"]
DOUBLE_CONDITION_BIT_INVERT ==
  {"LessThanAndOrdered", "LessThanOrEqualAndOrdered", "GreaterThanOrUnordered",
   "GreaterThanOrEqualOrUnordered"}
DOUBLE_CONDITION_BIT_SPECIAL == {"EqualAndOrdered", "NotEqualOrUnordered"}

compute_compare_to_zero_into_test ==
  [Equal |-> "Zero", NotEqual |-> "NonZero", LessThan |-> "Signed", GreaterThanOrEqual |-> "PositiveOrZero"]
AgainstZero(cond, o) == o = Imm(Half, 0) /\ cond \in DOMAIN compute_compare_to_zero_into_test

jump == jmp(Target)
branch(cond) == jcc(x86_condition[cond], Target)

(* A jump the operation links itself, over the n instructions after it.    *)
Linked(code, n) ==
  [i \in DOMAIN code |->
     LET j == code[i]
         far == Len(code) - i + 1 + n
     IN IF j[1] \in {"jcc", "jmp"} /\ Last(j) = Target THEN [j EXCEPT ![Len(j)] = far] ELSE j]
Unless(code, rest) == Linked(code, Len(rest)) \o rest
Either(code, else, then) == Unless(code, else \o jmp(1 + Len(then))) \o then

-------------------------------------------------------------------------------
(* Comparisons and branches *)

Below(i, v) == v >= 0 /\ v < 2^(Byte * i)
(* One byte is tested when the mask has no other, of eax to ebx.           *)
test32(r, n) ==
  IF n.v = -1 THEN test(Half, r, r)
  ELSE IF Below(1, n.v) /\ Number[r.r] < 4
       THEN IF n.v = 2^Byte - 1 THEN test(Byte, r, r) ELSE testb_i8r(n, r)
  ELSE test(Half, n, r)
generate_test32(o, n) ==
  LET v == Wrap(n.v, Half)
      Only(i) == v % 2^(Byte * i) = 0 /\ Below(i + 1, v)
      i == CHOOSE j \in 0..3 : Only(j) /\ \A l \in 0..(j - 1) : ~Only(l)
  IN IF n.v = -1 THEN cmp(Half, Imm(Half, 0), o)
     ELSE IF \E j \in 0..3 : Only(j)
          THEN test(Byte, Imm(Half, v \div 2^(Byte * i)), [o EXCEPT !.off = @ + i])
     ELSE test(Half, n, o)

branch8(cond, o, n) == cmp(Byte, n, o) \o branch(cond)
branch32(cond, x, y) ==
  IF x.k = "abs" THEN load32(x, r11) \o cmp(Half, y, r11) \o branch(cond)
  ELSE cmp(Half, y, x) \o branch(cond)
branch_test32(cond, o, n) ==   (* of an absolute address, the address *)
  (CASE o.k = "reg" /\ n.k = "reg" -> test(Half, o, n)
     [] o.k = "reg" /\ n.k = "imm32" -> test32(o, n)
     [] o.k = "addr" -> generate_test32(o, n)
     [] o.k = "index" -> IF n.v = -1 THEN cmp(Half, Imm(Half, 0), o) ELSE test(Half, n, o)
     [] o.k = "abs" -> mov(o, r11) \o test32(r11, n)) \o branch(cond)

(* All the bits of a byte or of half a word are tested as those of a word. *)
Tested(w, n, o) == IF n.v = -1 THEN cmp(Half, Imm(Half, 0), o) ELSE test(w, n, o)
TestedAt(w, n, o) ==
  CASE o.k = "ext" -> InR11(o) \o Tested(w, n, Unscaled(o))
    [] o.k = "abs" -> mov(o, r11) \o Tested(w, n, At(r11))
    [] o.k \in {"addr", "index"} -> Tested(w, n, o)
branch_test8(cond, o, n) == TestedAt(Byte, n, o) \o branch(cond)
branch_test16(cond, o, n) == TestedAt(Quarter, n, o) \o branch(cond)
branch_test_bit32(cond, o, n) ==
  bt(IF n.k = "reg" THEN n ELSE Imm(Half, n.v % Half), o)
    \o jcc(IF cond = "NonZero" THEN "B" ELSE "AE", Target)

far_jump(o) == IF o.k = "abs" THEN mov(o, r11) \o jmp_r(r11) ELSE jmp_r(o)
call_op(o) == IF o.k = "abs" THEN mov(o, r11) \o call_r(r11) ELSE call_r(o)

branch_add32(cond, x, d) == add32(x, d) \o branch(cond)
branch_add32_rrr(cond, x, y, d) ==
  LET Add(o, r) == branch_add32(cond, o, r)
  IN CASE x.k = "reg" /\ y.k = "reg" -> OfRegisters(Add, x, y, d)
       [] x.k = "addr" -> OfAddress(Add, x, y, d)
       [] y.k = "addr" -> OfAddress(Add, y, x, d)
       [] y.k = "imm32" -> move32_if_needed(x, d) \o Add(y, d)
AndTested(cond, d) == (IF cond # "Overflow" THEN test(Half, d, d) ELSE <<>>) \o branch(cond)
branch_mul32(cond, x, d) == mul32(x, d) \o AndTested(cond, d)
branch_mul32_rrr(cond, x, y, d) ==   (* with a constant, the form mul32_rrr does not have *)
  IF x.k = "reg" /\ y.k \in {"reg", "imm32"} THEN mul32_rrr(x, y, d) \o AndTested(cond, d)
  ELSE unreachable
branch_sub32(cond, x, d) == sub32(x, d) \o branch(cond)
branch_sub32_rrr(cond, x, y, d) == sub32_rrr(x, y, d) \o branch(cond)
branch_neg32(cond, d) == neg32(d) \o branch(cond)
branch_or32(cond, x, d) == or32(x, d) \o branch(cond)

set32(cc, d) == setcc_r(cc, d) \o movz(Byte, d, d)
compare8(cond, o, n, d) == cmp(Byte, n, o) \o set32(x86_condition[cond], d)
test32_cond(cond, x, n, d) ==
  (CASE x.k = "addr" -> generate_test32(x, n)
     [] x.k = "reg" /\ n.k = "reg" -> test(Half, x, n)
     [] x.k = "reg" /\ n.k = "imm32" -> test32(x, n)) \o set32(x86_condition[cond], d)
compare32(cond, x, y, d) ==
  IF x.k = "reg" /\ AgainstZero(cond, y)
  THEN test32_cond(compute_compare_to_zero_into_test[cond], x, x, d)
  ELSE cmp(Half, y, x) \o set32(x86_condition[cond], d)

-------------------------------------------------------------------------------
(* Comparisons of floats *)

Ordered(w, cond, x, y) == IF cond \in DOUBLE_CONDITION_BIT_INVERT THEN ucomis(w, x, y) ELSE ucomis(w, y, x)

(* To get it wrong: the flags alone, which of NaN say equal.               *)
WithoutParity(cond, x, y) == jcc(DoubleCondition[cond], Target)
jump_after_floating_point_compare(cond, x, y) ==
  CASE cond = "EqualAndOrdered" ->
         IF x = y THEN jcc("NP", Target) ELSE Unless(jcc("P", Target), jcc("E", Target))
    [] cond = "NotEqualOrUnordered" ->
         IF x = y THEN jcc("P", Target) ELSE jcc("P", 2) \o Unless(jcc("E", Target), jump)
    [] cond \notin DOUBLE_CONDITION_BIT_SPECIAL -> jcc(DoubleCondition[cond], Target)
branch_fp(w, cond, x, y) == Ordered(w, cond, x, y) \o jump_after_floating_point_compare(cond, x, y)
branch_double_non_zero(x, scratch) ==
  xorpd_rr(scratch, scratch) \o branch_fp(Full, "NotEqualAndOrdered", x, scratch)
branch_double_zero_or_nan(x, scratch) ==
  xorpd_rr(scratch, scratch) \o branch_fp(Full, "EqualOrUnordered", x, scratch)
branch_truncate_double_to_int32(x, d, successful) ==
  cvttsd2si_rr(x, d)
    \o branch32(IF successful THEN "NotEqual" ELSE "Equal", d, Imm(Half, -(2^(Half - 1))))

(* The integer is not converted back: the general register of the number   *)
(* of the source is.  The first branch meets no client.                    *)
branch_convert_double_to_int32(x, d, temp, zero_check) ==
  cvttsd2si_rr(x, d)
    \o (IF zero_check
        THEN Unless(branch_test32("NonZero", d, d),
                    movmskpd_rr(x, r11) \o branch_test32("NonZero", r11, Imm(Half, 1)))
        ELSE <<>>)
    \o convert_int32_to_double(R(Numbered(XNumber[x.r])), temp)
    \o ucomis(Full, x, temp) \o jcc("P", Target) \o jcc("NE", Target)

(* NotEqualOrUnordered ends in the condition of EqualAndOrdered.           *)
floating_point_compare(w, cond, x, y, d) ==
  LET Special(first, cc) ==
        IF x = y THEN ucomis(w, y, x) \o set32(cc, d)
        ELSE mov(Imm(Half, first), d) \o ucomis(w, y, x) \o Unless(jcc("P", Target), set32("E", d))
  IN CASE cond = "EqualAndOrdered" -> Special(0, "NP")
       [] cond = "NotEqualOrUnordered" -> Special(1, "P")
       [] cond \notin DOUBLE_CONDITION_BIT_SPECIAL ->
            Ordered(w, cond, x, y) \o set32(DoubleCondition[cond], d)
compare_fp(w, cond, x, y, d) == floating_point_compare(w, cond, x, y, d)

-------------------------------------------------------------------------------
(* Conditional moves *)

cmov(cc, x, d) == cmovq(cc, x, d)

(* One of two values, the condition holding in the flags or not.           *)
Chosen(cc, inverted, then, else, d) ==
  CASE then # d /\ else # d -> mov(else, d) \o cmov(cc, then, d)
    [] else = d -> cmov(cc, then, d)
    [] then = d /\ else # d -> cmov(inverted, else, d)
ChosenTest(cond, then, else, d) ==
  CASE then # d /\ else # d -> mov(else, d) \o cmov(x86_condition[cond], then, d)
    [] else = d -> cmov(x86_condition[cond], then, d)
    [] then = d /\ else # d -> cmov(x86_condition[invert_result[cond]], else, d)

move_conditionally32(cond, x, y, s, d) == cmp(Half, y, x) \o cmov(x86_condition[cond], s, d)
move_conditionally_test32(cond, x, n, s, d) ==
  (IF n.k = "reg" THEN test(Half, x, n) ELSE test32(x, n)) \o cmov(x86_condition[cond], s, d)
move_conditionally_test32_then_else(cond, x, n, then, else, d) ==
  (IF n.k = "reg" THEN test(Half, x, n) ELSE test32(x, n)) \o ChosenTest(cond, then, else, d)
(* With a constant other than zero, nothing is compared.                   *)
move_conditionally32_then_else(cond, x, y, then, else, d) ==
  IF AgainstZero(cond, y)
  THEN move_conditionally_test32_then_else(compute_compare_to_zero_into_test[cond], x, x, then, else, d)
  ELSE (IF y.k = "reg" THEN cmp(Half, y, x) ELSE <<>>)
         \o Chosen(x86_condition[cond], x86_condition[invert[cond]], then, else, d)

move_conditionally_after_floating_point_compare(cond, x, y, s, d) ==
  CASE cond = "EqualAndOrdered" ->
         IF x = y THEN cmovq("NP", s, d) ELSE Unless(jcc("P", Target), cmovq("E", s, d))
    [] cond = "EqualOrUnordered" ->
         IF x = y THEN cmovq("P", s, d) ELSE cmovq("P", s, d) \o cmovq("NE", s, d)
    [] cond \notin {"EqualAndOrdered", "EqualOrUnordered"} -> cmov(DoubleCondition[cond], s, d)
move_conditionally_fp(w, cond, x, y, s, d) ==
  Ordered(w, cond, x, y) \o move_conditionally_after_floating_point_compare(cond, x, y, s, d)
move_conditionally_fp_then_else(w, cond, x, y, then, else, d) ==
  CASE then # d /\ else # d -> mov(else, d) \o move_conditionally_fp(w, cond, x, y, then, d)
    [] else = d -> move_conditionally_fp(w, cond, x, y, then, d)
    [] then = d /\ else # d -> move_conditionally_fp(w, invert_fp[cond], x, y, else, d)

(* A floating-point register: jumped over, there is no cmov of these.      *)
MovedUnless(Branch(_), cond, inverted, then, else, d) ==
  CASE then # d /\ else # d ->
         move_double(else, d) \o Unless(Branch(inverted), move_double(then, d))
    [] else = d -> Unless(Branch(inverted), move_double(then, d))
    [] then = d /\ else # d -> Unless(Branch(cond), move_double(else, d))
move_double_conditionally32(cond, x, y, then, else, d) ==
  MovedUnless(LAMBDA c : branch32(c, x, y), cond, invert[cond], then, else, d)
move_double_conditionally_fp(w, cond, x, y, then, else, d) ==
  CASE else = d -> Unless(branch_fp(w, invert_fp[cond], x, y), move_double(then, d))
    [] then = d /\ else # d -> Unless(branch_fp(w, cond, x, y), move_double(else, d))
    [] then # d /\ else # d ->
         Either(branch_fp(w, cond, x, y), move_double(else, d), move_double(then, d))

(* The moves that suffice are followed by those of the general case.       *)
MovedTwice(Branch(_), cond, then, else, d) ==
  (IF else = d /\ is_invertible(cond) THEN Unless(Branch(invert_result[cond]), move_double(then, d))
   ELSE IF then = d THEN Unless(Branch(cond), move_double(else, d))
   ELSE <<>>)
  \o Either(Branch(cond), move_double(else, d), move_double(then, d))
move_double_conditionally_test32(cond, x, n, then, else, d) ==
  MovedTwice(LAMBDA c : branch_test32(c, x, n), cond, then, else, d)

===============================================================================
