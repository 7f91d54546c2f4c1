------------------------------- MODULE X86Macro64 -------------------------------
(***************************************************************************)
(* MacroAssemblerX86Common, continued (macro_assembler_x86_64.rs): the     *)
(* operations on 64 bits, and those of pointers.                           *)
(***************************************************************************)
EXTENDS X86Macro

can_sign_extend_32_64(x) == FitsSigned(x.v, Half)

-------------------------------------------------------------------------------
(* Memory *)

zero_extend8_to_64(x, d) == movsq(Byte, x, d)   (* sign-extends *)
load64(o, d) ==
  IF o.k # "abs" THEN movq(o, d)
  ELSE IF d = eax THEN movq_meax(o.v)
  ELSE mov(o, d) \o movq(At(d), d)
load64_with_address_offset_patch(o, d) == movq(o, d)
convertible_load_ptr(o, d) == movq(o, d)
load_pair64(o, d, e) ==
  IF o.base = d.r THEN load64(Beside(o, Full), e) \o load64(o, d)
  ELSE load64(o, d) \o load64(Beside(o, Full), e)

(* What eax stores at an absolute address is 32 bits of it; of a constant, *)
(* by way of eax, all.                                                     *)
store64(x, o) ==
  CASE x.k = "reg" -> IF o.k # "abs" THEN movq(x, o)
                      ELSE IF x = eax THEN movl_eaxm(o.v)
                      ELSE mov(o, r11) \o movq(x, At(r11))
    [] x.k = "imm32" -> movq(x, o)
    [] x.k = "imm64" /\ o.k = "abs" ->
         IF can_sign_extend_32_64(x) THEN mov(o, r11) \o movq(Imm(Half, x.v), At(r11))
         ELSE mov(x, r11) \o swap(r11, eax) \o movq_eaxm(o.v) \o swap(r11, eax)
    [] x.k = "imm64" /\ o.k = "index" -> mov(x, r11) \o movq(r11, o)
    [] x.k = "abs" -> mov(x, r11) \o movq(r11, o)
store64_with_address_offset_patch(x, o) == movq(x, o)
store_pair64(x, y, o) == store64(x, o) \o store64(y, Beside(o, Full))
transfer32(o, p) == load32(o, r11) \o store32(r11, p)
(* To get it wrong: through a register that is the client's.               *)
TransferThroughEax(o, p) == load64(o, eax) \o store64(eax, p)
transfer64(o, p) == load64(o, r11) \o store64(r11, p)
transfer_ptr(o, p) == load64(o, r11) \o store64(r11, p)
swap64(x, o) == xchgq(x, o)
xchg64(x, o) == xchgq(x, o)
swap_double(x, y) ==
  IF x = y THEN <<>> ELSE move_double(x, F("x7")) \o move_double(y, x) \o move_double(F("x7"), y)

-------------------------------------------------------------------------------
(* Arithmetic *)

One(x) == IsImmediate(x) /\ x.v = 1
add64(x, d) ==
  CASE x.k = "abs" -> mov(x, r11) \o addq(At(r11), d)
    [] One(x) -> incq(d)
    [] x.k = "imm64" /\ x.v # 1 -> mov(x, r11) \o addq(r11, d)
    [] x.k # "abs" /\ ~One(x) /\ x.k # "imm64" -> addq(x, d)
x86_lea64(o, d) ==
  LET sum == o.scale = 0 /\ o.off = 0
  IN IF sum /\ o.base = d.r THEN add64(R(o.index), d)
     ELSE IF sum /\ o.index = d.r THEN add64(R(o.base), d)
     ELSE leaq(o, d)
get_effective_address(o, d) == x86_lea64(o, d)
add64_rrr(x, y, d) ==
  IF x.k = "reg" THEN x86_lea64(BaseIndex(x.r, y.r, 0, 0), d) ELSE leaq(Address(y.r, x.v), d)
add_ptr_no_flags(x, d) == leal(Address(d.r, x.v), d)   (* of 32 bits *)

(* To an address with an index, without the index.                         *)
and64(x, d) ==
  CASE x.k = "imm64" -> mov(x, r11) \o andq(r11, d)
    [] x.k = "reg" /\ d.k = "index" -> andq(x, Address(d.base, d.off))
    [] x.k # "imm64" /\ ~(x.k = "reg" /\ d.k = "index") -> andq(x, d)
and64_rrr(x, y, d) ==
  IF x = y /\ x # d THEN mov(x, d)
  ELSE IF x = d THEN and64(y, d)
  ELSE mov(y, d) \o and64(x, d)

(* A constant of 64 bits that 32 hold is used as one of these.             *)
Narrow(Op2(_, _), x, d) ==
  IF x.k # "imm64" THEN Op2(x, d)
  ELSE IF can_sign_extend_32_64(x) THEN Op2(Imm(Half, x.v), d)
  ELSE mov(x, r11) \o Op2(r11, d)
or64(x, d) == Narrow(orq, x, d)
or64_rrr(x, y, d) ==
  CASE x.k = "imm32" -> mov(y, d) \o or64(x, d)
    [] x.k = "reg" -> IF x = d THEN or64(y, d) ELSE mov(x, d) \o or64(y, d)
sub64(x, d) == IF One(x) /\ d.k = "reg" THEN decq_r(d) ELSE Narrow(subq, x, d)
neg64(d) == neg(Full, d)
sub64_rrr(x, y, d) ==
  IF y.k = "imm32" \/ y # d THEN mov(x, d) \o sub64(y, d)
  ELSE IF x # y THEN neg64(y) \o add64(x, y)
  ELSE mov(Imm(Half, 0), d)
xor64(x, d) == Narrow(xorq, x, d)
xor64_rrr(x, y, d) ==
  CASE x.k = "reg" -> IF x = y THEN mov(Imm(Half, 0), d)
                      ELSE IF x = d THEN xor64(y, d)
                      ELSE mov(y, d) \o xor64(x, d)
    [] IsImmediate(x) -> mov(y, d) \o xor64(x, d)
not64(d) == not(Full, d)
mul64(x, d) == imul(Full, x, d)
mul64_rrr(x, y, d) == IF y = d THEN imul(Full, x, d) ELSE mov(x, d) \o imul(Full, y, d)
clear_bits64_with_mask(mask, d, preserve) ==
  not64(mask) \o andq(mask, d) \o (IF preserve THEN not64(mask) ELSE <<>>)
clear_bits64_with_mask_rr(x, mask, d, preserve) == mov(x, d) \o clear_bits64_with_mask(mask, d, preserve)

count_leading_zeros64(x, d) == lzcnt(Full, x, d)
count_trailing_zeros64(x, d) == tzcnt(Full, x, d)
count_population64(x, d) == popcnt(Full, x, d)

lshift64(n, d) == Counted(LAMBDA c, e : shift64("shl", c, e), n, d)
rshift64(n, d) == Counted(LAMBDA c, e : shift64("sar", c, e), n, d)
urshift64(n, d) == Counted(LAMBDA c, e : shift64("shr", c, e), n, d)
rotate_right64(n, d) == Counted(LAMBDA c, e : shift64("ror", c, e), n, d)
rotate_left64(n, d) == Counted(LAMBDA c, e : shift64("rol", c, e), n, d)
(* The count is kept in r11 when the value is to take its place.           *)
Shifted64(Shift(_, _), x, n, d) ==
  LET fetch == IF x.k = "reg" THEN mov(x, d) ELSE load64(x, d)
  IN IF n = d THEN mov(n, r11) \o fetch \o Shift(r11, d) ELSE fetch \o Shift(n, d)
lshift64_rrr(x, n, d) == Shifted64(lshift64, x, n, d)
rshift64_rrr(x, n, d) == Shifted64(rshift64, x, n, d)
urshift64_rrr(x, n, d) == Shifted64(urshift64, x, n, d)
rotate_right64_rrr(x, n, d) == Shifted64(rotate_right64, x, n, d)
rotate_left64_rrr(x, n, d) == Shifted64(rotate_left64, x, n, d)

-------------------------------------------------------------------------------
(* Branches and conditional moves *)

(* A mask of seven bits is tested on the byte, whatever the register.      *)
Test64(r, n) ==
  CASE n.k = "reg" -> testq(n, r)
    [] n.k = "imm32" -> IF n.v = -1 THEN testq(r, r)
                        ELSE IF n.v \in 0..(2^(Byte - 1) - 1) THEN testb_i8r(n, r)
                        ELSE testq(n, r)
    [] n.k = "imm64" -> mov(n, r11) \o testq(r11, r)
test64(cond, r, n, d) == Test64(r, n) \o set32(x86_condition[cond], d)
branch_test64(cond, o, n) ==
  (CASE o.k = "reg" -> Test64(o, n)
     [] o.k \in {"addr", "index"} -> IF n = Imm(Half, -1) THEN cmpq(Imm(Half, 0), o) ELSE testq(n, o))
    \o branch(cond)
branch_test_bit64(cond, o, n) == btw(n, o) \o jcc(IF cond = "NonZero" THEN "B" ELSE "AE", Target)

compare64(cond, x, y, d) ==
  IF AgainstZero(cond, y) THEN test64(compute_compare_to_zero_into_test[cond], x, x, d)
  ELSE cmpq(y, x) \o set32(x86_condition[cond], d)
branch64(cond, x, y) ==
  CASE x.k = "reg" /\ y.k = "imm64" /\ ~(y.v = 0 /\ cond \in {"Equal", "NotEqual"}) ->
         mov(y, r11) \o cmpq(r11, x) \o branch(cond)
    [] x.k = "reg" /\ y.k = "imm64" /\ y.v = 0 /\ cond \in {"Equal", "NotEqual"} ->
         testq(x, x) \o branch(cond)
    [] x.k = "reg" /\ y.k # "imm64" ->
         IF AgainstZero(cond, y)
         THEN branch_test64(compute_compare_to_zero_into_test[cond], x, x)
         ELSE cmpq(y, x) \o branch(cond)
    [] x.k = "abs" -> mov(x, r11) \o cmpq(y, At(r11)) \o branch(cond)
    [] x.k = "addr" /\ y.k = "imm64" -> mov(y, r11) \o cmpq(r11, x) \o branch(cond)
    [] x.k = "addr" /\ y.k = "addr" -> load64(y, r11) \o cmpq(r11, x) \o branch(cond)
    [] x.k \in {"addr", "index"} /\ y.k \in {"reg", "imm32"} -> cmpq(y, x) \o branch(cond)

branch_neg64(cond, d) == neg64(d) \o branch(cond)
branch_add64(cond, x, d) == add64(x, d) \o branch(cond)
branch_add64_rrr(cond, x, y, d) ==   (* from the address of 32 bits, when the base is the destination *)
  LET Add(o, r) == branch_add64(cond, o, r)
      FromAddress(o, r) ==
        IF r = d THEN Add(o, d)
        ELSE IF o.base = d.r THEN load32(o, d) \o Add(r, d)
        ELSE mov(r, d) \o Add(o, d)
  IN CASE x.k = "reg" /\ y.k = "reg" -> IF x = d THEN Add(y, d) ELSE mov(y, d) \o Add(x, d)
       [] x.k = "addr" -> FromAddress(x, y)
       [] y.k = "addr" -> FromAddress(y, x)
branch_mul64(cond, x, d) ==
  mul64(x, d) \o (IF cond # "Overflow" THEN testq(d, d) ELSE <<>>) \o branch(cond)
branch_mul64_rrr(cond, x, y, d) ==
  IF x = d THEN branch_mul64(cond, y, d) ELSE mov(y, d) \o branch_mul64(cond, x, d)
branch_sub64(cond, x, d) == sub64(x, d) \o branch(cond)
branch_sub64_rrr(cond, x, n, d) == mov(x, d) \o branch_sub64(cond, n, d)

move_conditionally64(cond, x, y, s, d) == cmpq(y, x) \o cmov(x86_condition[cond], s, d)
move_conditionally64_then_else(cond, x, y, then, else, d) ==
  cmpq(y, x) \o Chosen(x86_condition[cond], x86_condition[invert[cond]], then, else, d)
move_conditionally_test64(cond, x, n, s, d) == Test64(x, n) \o cmov(x86_condition[cond], s, d)
move_conditionally_test64_then_else(cond, x, n, then, else, d) ==
  Test64(x, n) \o ChosenTest(cond, then, else, d)
move_double_conditionally64(cond, x, y, then, else, d) ==
  MovedUnless(LAMBDA c : branch64(c, x, y), cond, invert[cond], then, else, d)
move_double_conditionally_test64(cond, x, n, then, else, d) ==
  MovedTwice(LAMBDA c : branch_test64(c, x, n), cond, then, else, d)

-------------------------------------------------------------------------------
(* Constants that are patched, and conversions *)

move_with_patch(x, d) == movq_i64r(x.v, d)
branch_ptr_with_patch(cond, x, n) == move_with_patch(n, r11) \o branch64(cond, x, r11)
branch32_with_patch(cond, x, n) == movl_i32r(n.v, r11) \o branch32(cond, x, r11)
store_ptr_with_patch(n, o) == move_with_patch(n, r11) \o store64(r11, o)

move32_to_float(x, d) ==
  IF x.k = "reg" THEN movd_r2f(x, d) ELSE mov(x, r11) \o movd_r2f(r11, d)
move64_to_double(x, d) ==
  IF x.k = "reg" THEN movq_r2f(x, d) ELSE mov(x, r11) \o movq_r2f(r11, d)
move_double_to64(x, d) == movq_f2r(x, d)
convert_int64_to_double(o, d) == cvtsi2s(Full, Full, o, d)
convert_int64_to_float(o, d) == cvtsi2s(Full, Half, o, d)
truncate_double_to_uint64(x, d) == cvttsd2siq_rr(x, d)
truncate_double_to_int64(x, d) == cvttsd2siq_rr(x, d)
truncate_float_to_uint32(x, d) == cvtss2siq_rr(x, d)
truncate_float_to_int64(x, d) == cvtss2siq_rr(x, d)
(* A number from 2^63 on, which a constant holds, is converted less that.  *)
truncate_float_to_uint64(x, d, scratch, int64_min) ==
  Either(branch_fp(Half, "GreaterThanOrEqualAndOrdered", x, int64_min),
         cvtss2siq_rr(x, d),
         move_double(x, scratch) \o subs(Half, int64_min, scratch) \o cvtss2siq_rr(scratch, d)
           \o movq_i64r(-(2^(Full - 1)), r11) \o orq(r11, d))

===============================================================================
