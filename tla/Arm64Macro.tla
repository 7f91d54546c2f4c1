------------------------------- MODULE Arm64Macro -------------------------------
(***************************************************************************)
(* MacroAssemblerARM64, continued: floating point, branches, calls and     *)
(* conditional moves; and what the requests of an operation become, given  *)
(* the constants that are in the temporaries.                              *)
(***************************************************************************)
EXTENDS Arm64Integer

-------------------------------------------------------------------------------
(* Floating point: an operation has a form for doubles and one for floats, *)
(* which differ in the width.  FT, q31, is the temporary.                  *)

FT == "q31"
load_fp(w, o, d) ==
  CASE o.k = "addr" /\ CanEncode(w, o.off) -> fp_try_load_with_offset(w, d, o.base, o.off)
    [] o.k = "addr" /\ ~CanEncode(w, o.off) -> Far(o) \o I!ldr_fp(w, d, o.base, "MT")
    [] o.k = "index" ->   (* from the base as it was, folded or not *)
         IF o.scale \in {0, Scale(w)} /\ Folds(o)
         THEN try_fold_base_and_offset_part(o) \o I!ldr_extend_fp(w, d, o.base, o.index, o.scale)
         ELSE FarIndex(w, o) \o I!ldr_fp(w, d, o.base, "MT")
    [] o.k = "abs" -> move_to_cached_reg64(o.v, "MT") \o I!ldr_fp(w, d, "MT", "zr")
store_fp(w, x, o) ==      (* a float at the scales of a double *)
  CASE o.k = "addr" /\ CanEncode(w, o.off) -> fp_try_store_with_offset(w, x, o.base, o.off)
    [] o.k = "addr" /\ ~CanEncode(w, o.off) -> Far(o) \o I!str_fp(w, x, o.base, "MT")
    [] o.k = "index" ->
         IF o.scale \in {0, 3} /\ Folds(o)
         THEN try_fold_base_and_offset_part(o) \o I!str_extend_fp(w, x, FoldedBase(o), o.index, o.scale)
         ELSE FarIndex(Full, o) \o I!str_fp(w, x, o.base, "MT")
    [] o.k = "abs" -> move_to_cached_reg64(o.v, "MT") \o I!str_fp(w, x, "MT", "zr")
load_pair_fp(w, n, off, d, e) ==
  InOrder(n, InGeneral(d), load_fp(w, Address(n, off), d), load_fp(w, Further(n, off, w), e))
load_pair_float(n, off, d, e) ==
  IF I!is_valid_ldp_fp_imm(Half, off) THEN I!ldp_imm_fp(Half, d, e, n, off) ELSE load_pair_fp(Half, n, off, d, e)
load_pair_double(n, off, d, e) ==
  IF I!is_valid_ldp_fp_imm(Full, off) THEN I!ldp_imm_fp(Full, d, e, n, off) ELSE load_pair_fp(Full, n, off, d, e)
store_pair_fp(w, x, y, n, off) ==
  IF I!is_valid_ldp_fp_imm(w, off) THEN I!stp_pair_fp(w, x, y, n, off)
  ELSE store_fp(w, x, Address(n, off)) \o store_fp(w, y, Further(n, off, w))

abs(w, x, d) == I!fabs(w, d, x)
add_fp(w, x, y, d) == I!fadd(w, d, x, y)
add_fp_rr(w, o, d) ==
  IF o.k = "freg" THEN add_fp(w, d, o.r, d) ELSE load_fp(w, o, FT) \o add_fp(w, d, FT, d)
ceil(w, x, d) == I!frintp(w, d, x)
floor(w, x, d) == I!frintm(w, d, x)
round_to_nearest_int(w, x, d) == I!frintn(w, d, x)
round_toward_zero(w, x, d) == I!frintz(w, d, x)
div_fp(w, x, y, d) == I!fdiv(w, d, x, y)
div_fp_rr(w, x, d) == div_fp(w, d, x, d)
mul_fp(w, x, y, d) == I!fmul(w, d, x, y)
mul_fp_rr(w, o, d) ==
  IF o.k = "freg" THEN mul_fp(w, d, o.r, d) ELSE load_fp(w, o, FT) \o mul_fp(w, d, FT, d)
sub_fp(w, x, y, d) == I!fsub(w, d, x, y)
sub_fp_rr(w, o, d) ==
  IF o.k = "freg" THEN sub_fp(w, d, o.r, d) ELSE load_fp(w, o, FT) \o sub_fp(w, d, FT, d)
and_fp(x, y, d) == I!vand(Full, d, x, y)   (* of a float too, as are these *)
or_fp(x, y, d) == I!vorr(Full, d, x, y)
max_fp(x, y, d) == I!fmax(Full, d, x, y)
min_fp(x, y, d) == I!fmin(Full, d, x, y)
negate(w, x, d) == I!fneg(w, d, x)
sqrt(w, x, d) == I!fsqrt(w, d, x)

move_double(x, d) == I!fmov(Full, d, x)
move_zero_to_double(d) == I!movi_fp(d)
move_zero_to_float(d) == I!movi_fp(d)
move_double_to64(x, d) == I!fmov_f2i(Full, d, x)
move_float_to32(x, d) == I!fmov_f2i(Half, d, x)
move64_to_double(o, d) ==
  IF o.k = "reg" THEN I!fmov_i2f(Full, d, o.r) ELSE InData(o) \o I!fmov_i2f(Full, d, "DT")
move32_to_float(o, d) ==
  IF o.k = "reg" THEN I!fmov_i2f(Half, d, o.r) ELSE InData(o) \o I!fmov_i2f(Half, d, "DT")
swap_double(x, y) ==
  IF x = y THEN <<>> ELSE move_double(x, FT) \o move_double(y, x) \o move_double(FT, y)

(* An integer in a register, a constant, or in memory. *)
IntegerSource(w, o) ==
  IF ~InMemory(o) THEN InData(o)
  ELSE data_temp \o (IF w = Half THEN load32(o, "DT") ELSE load64(o, "DT"))
convert_int32_to_fp(f, o, d) ==
  IF o.k = "reg" THEN I!scvtf(f, Half, d, o.r) ELSE IntegerSource(Half, o) \o I!scvtf(f, Half, d, "DT")
convert_int64_to_fp(f, o, d) ==
  IF o.k = "reg" THEN I!scvtf(f, Full, d, o.r) ELSE IntegerSource(Full, o) \o I!scvtf(f, Full, d, "DT")
convert_uint64_to_fp(f, o, d) ==
  IF o.k = "reg" THEN I!ucvtf(f, Full, d, o.r) ELSE IntegerSource(Full, o) \o I!ucvtf(f, Full, d, "DT")
convert_double_to_float(x, d) == I!fcvt(Half, Full, d, x)
convert_float_to_double(x, d) == I!fcvt(Full, Half, d, x)
truncate(i, f, sign, x, d) == IF sign THEN I!fcvtzs(i, f, d, x) ELSE I!fcvtzu(i, f, d, x)

-------------------------------------------------------------------------------
(* Conditions and branches.  The space left after a branch, which linking  *)
(* may need, is of no consequence and is left out.                         *)

ConditionOf ==
  [Equal |-> "EQ", NotEqual |-> "NE", Above |-> "HI", AboveOrEqual |-> "HS", Below |-> "LO",
   BelowOrEqual |-> "LS", GreaterThan |-> "GT", GreaterThanOrEqual |-> "GE", LessThan |-> "LT",
   LessThanOrEqual |-> "LE",
   Overflow |-> "VS", Signed |-> "MI", PositiveOrZero |-> "PL", Zero |-> "EQ", NonZero |-> "NE"]
FPConditionOf ==
  [EqualAndOrdered |-> "EQ", NotEqualAndOrdered |-> "VC", GreaterThanAndOrdered |-> "GT",
   GreaterThanOrEqualAndOrdered |-> "GE", LessThanAndOrdered |-> "LO",
   LessThanOrEqualAndOrdered |-> "LS", EqualOrUnordered |-> "VS", NotEqualOrUnordered |-> "NE",
   GreaterThanOrUnordered |-> "HI", GreaterThanOrEqualOrUnordered |-> "HS",
   LessThanOrUnordered |-> "LT", LessThanOrEqualOrUnordered |-> "LE"]

jump == I!b(Target)
make_branch(cond) == I!b_cond(cond, Target)
make_branch_rel(cond) == make_branch(ConditionOf[cond])
make_branch_res(cond) == make_branch(ConditionOf[cond])
make_compare_and_branch(w, cond, r) ==
  IF cond = "Zero" THEN I!cbz(w, r, Target) ELSE I!cbnz(w, r, Target)
make_test_bit_and_branch(r, bit, cond) ==
  IF cond = "Zero" THEN I!tbz(r, bit, Target) ELSE I!tbnz(r, bit, Target)

(* To get it wrong: leave the jump unlinked, to itself. *)
Unlinked(code) == I!b_cond("VS", 0) \o code
(* The code, jumped over when the last comparison was of NaN. *)
UnlessUnordered(code) == I!b_cond("VS", 1 + Len(code)) \o code
jump_after_floating_point_compare(cond) ==
  CASE cond = "NotEqualAndOrdered" -> UnlessUnordered(make_branch("NE"))
    [] cond = "EqualOrUnordered" -> UnlessUnordered(I!b_cond("NE", 2)) \o jump
    [] OTHER -> make_branch(FPConditionOf[cond])

CompareFP(w, x, o) == IF o.k = "freg" THEN I!fcmp(w, x, o.r) ELSE I!fcmp_0(w, x)
branch_fp(w, cond, x, o) == CompareFP(w, x, o) \o jump_after_floating_point_compare(cond)
branch_double_non_zero(r) == I!fcmp_0(Full, r) \o UnlessUnordered(make_branch("NE"))
branch_double_zero_or_nan(r) ==
  I!fcmp_0(Full, r) \o UnlessUnordered(I!b_cond("NE", 2)) \o jump

(* A value that is set before the comparison, and of which a flag is not   *)
(* added but set.                                                          *)
floating_point_compare(cond, d, compare) ==
  CASE cond = "NotEqualAndOrdered" ->
         mov(Imm(Half, 0), d) \o compare \o UnlessUnordered(I!cset(Half, d, "EQ"))
    [] cond = "EqualOrUnordered" ->
         mov(Imm(Half, 1), d) \o compare \o UnlessUnordered(I!cset(Half, d, "EQ"))
    [] OTHER -> compare \o I!cset(Half, d, FPConditionOf[cond])
compare_fp(w, cond, x, o, d) == floating_point_compare(cond, d, CompareFP(w, x, o))

branch_convert_double_to_int32(x, d, zero_check) ==
  I!fcvtns(Half, Full, d, x) \o I!scvtf(Full, Half, FT, d)
  \o branch_fp(Full, "NotEqualOrUnordered", x, F(FT))
  \o (IF zero_check
      THEN I!cbnz(Half, d, 3) \o memory_temp \o I!fmov(Full, "MT", d)
           \o make_test_bit_and_branch("MT", Full - 1, "NonZero")
      ELSE <<>>)
branch_truncate_double_to_int32(x, d, on_success) ==
  data_temp \o I!fcvtzs(Full, Full, "DT", x) \o zero_extend32_to_word("DT", d)
  \o I!cmp_extend(Full, "DT", "DT", "SXTW", 0)
  \o make_branch_rel(IF on_success THEN "Equal" ELSE "NotEqual")

-------------------------------------------------------------------------------
(* The stack: push and pop are not supported. *)

pop_pair(d, e) == I!ldp_post(Full, d, e, "sp", 16)
push_pair(x, y) == I!stp_pair_pre(Full, x, y, "sp", -16)
pop_to_restore(d) == load64(Address("sp", 0), d) \o add64(Imm(Half, 16), R("sp"))
PushRegister(x) == sub64(Imm(Half, 16), "sp") \o store64(R(x), Address("sp", 0))
push_to_save(o) ==
  CASE o.k = "reg" -> PushRegister(o.r)
    [] o.k = "addr" -> data_temp \o load64(o, "DT") \o PushRegister("DT")
    [] o.k = "imm32" -> InData(o) \o PushRegister("DT")
push_to_save_fp(x) == sub64(Imm(Half, 16), "sp") \o store_fp(Full, x, Address("sp", 0))
pop_to_restore_fp(d) == load_fp(Full, Address("sp", 0), d) \o add64(Imm(Half, 16), R("sp"))
push_to_save_immediate_without_touching_registers(imm) ==
  push_pair("DT", "DT") \o mov(imm, "DT") \o store64(R("DT"), Address("sp", 0))
  \o load64(Address("sp", 8), "DT")
-------------------------------------------------------------------------------
(* Comparisons and tests *)

(* To get it wrong: take what is not negative to be greater than zero. *)
ZeroTestOfGreater ==
  [Equal |-> "Zero", NotEqual |-> "NonZero", LessThan |-> "Signed",
   GreaterThanOrEqual |-> "PositiveOrZero", GreaterThan |-> "PositiveOrZero"]
compute_compare_to_zero_test ==
  [Equal |-> "Zero", NotEqual |-> "NonZero", LessThan |-> "Signed",
   GreaterThanOrEqual |-> "PositiveOrZero"]
TestsZero(cond, o) == o.k # "reg" /\ o.v = 0 /\ cond \in DOMAIN compute_compare_to_zero_test

(* A constant that is not encodable is in the data temporary, as 32 bits   *)
(* when it is an i32.                                                      *)
CompareWith(w, x, o) ==
  IF o.k = "reg" THEN I!cmp(w, x, o.r)
  ELSE LET e == try_extract_shifted_imm(o.v)
       IN CASE e.fits /\ ~e.negated -> I!cmp_imm(w, x, e.imm, e.shift)
            [] e.fits /\ e.negated -> I!cmn_imm(w, x, e.imm, e.shift)
            [] ~e.fits ->
                 (IF o.k = "imm32" THEN move_to_cached_reg32(o.v, "DT")
                  ELSE move_to_cached_reg64(o.v, "DT")) \o I!cmp(w, x, "DT")

test32(x, mask) ==
  CASE mask.v = -1 -> I!tst(Half, x, x)
    [] mask.v # -1 /\ I!LogicalImmediate(mask.v, Half) -> I!tst_imm(Half, x, I!Pattern(mask.v, Half))
    [] mask.v # -1 /\ ~I!LogicalImmediate(mask.v, Half) -> InData(mask) \o I!tst(Half, x, "DT")
test64_rrr(cond, x, mask, d) ==
  (CASE mask.k = "reg" -> I!tst(Full, x, mask.r)
     [] mask.k # "reg" /\ mask.v = -1 -> I!tst(Full, x, x)
     [] mask.k # "reg" /\ mask.v # -1 -> Extended64(mask.v) \o I!tst(Full, x, "DT"))
  \o I!cset(Half, d, ConditionOf[cond])
test32_rrr(cond, x, mask, d) ==
  (CASE mask.k = "reg" -> I!tst(Half, x, mask.r)
     [] mask.k # "reg" /\ mask.v = -1 -> I!tst(Half, x, x)
     [] mask.k # "reg" /\ mask.v # -1 -> InData(mask) \o I!tst(Half, x, "DT"))
  \o I!cset(Half, d, ConditionOf[cond])

(* A test of a register for zero, of one bit, with a constant the          *)
(* instruction can hold, or with one in the data temporary.                *)
has_one_bit_set(v, w) == \E n \in 0..(w - 1) : Wrap(v, w) = 2^n
TestOf(w, x, mask) ==
  CASE mask.k = "reg" -> I!tst(w, x, mask.r)
    [] mask.k # "reg" /\ mask.v = -1 -> I!tst(w, x, x)
    [] mask.k # "reg" /\ mask.v # -1 /\ I!LogicalImmediate(mask.v, w) ->
         I!tst_imm(w, x, I!Pattern(mask.v, w))
    [] mask.k # "reg" /\ mask.v # -1 /\ ~I!LogicalImmediate(mask.v, w) ->
         (IF w = Full /\ mask.k = "imm32" THEN Extended64(mask.v) ELSE InData(mask)) \o I!tst(w, x, "DT")
TestAndBranch(w, cond, x, mask) ==
  LET zero == cond \in {"Zero", "NonZero"}
      whole == IF mask.k = "reg" THEN mask.r = x ELSE mask.v = -1
      bit == mask.k # "reg" /\ has_one_bit_set(mask.v, IF mask.k = "imm32" THEN Half ELSE Full)
  IN CASE zero /\ whole -> make_compare_and_branch(w, cond, x)
       [] zero /\ ~whole /\ bit ->
            make_test_bit_and_branch(x, TrailingZeros(Wrap(mask.v, Full), Full), cond)
       [] OTHER -> TestOf(w, x, mask) \o make_branch_res(cond)
branch_test32(cond, x, mask) ==
  IF x.k = "reg" THEN TestAndBranch(Half, cond, x.r, mask)
  ELSE memory_temp \o load32(x, "MT") \o TestAndBranch(Half, cond, "MT", mask)
branch_test64(cond, x, mask) ==
  IF x.k = "reg" THEN TestAndBranch(Full, cond, x.r, mask)
  ELSE memory_temp \o load64(x, "MT") \o TestAndBranch(Full, cond, "MT", mask)

CompareAndBranch(w, cond, x, o) ==
  IF TestsZero(cond, o) THEN TestAndBranch(w, compute_compare_to_zero_test[cond], x, R(x))
  ELSE CompareWith(w, x, o) \o make_branch_rel(cond)
branch32(cond, x, o) ==
  IF x.k = "reg" THEN CompareAndBranch(Half, cond, x.r, o)
  ELSE memory_temp \o load32(x, "MT") \o CompareAndBranch(Half, cond, "MT", o)
branch64(cond, x, o) ==
  CASE x.k = "reg" /\ ~InMemory(o) -> CompareAndBranch(Full, cond, x.r, o)
    [] x.k = "reg" /\ InMemory(o) ->
         memory_temp \o load64(o, "MT") \o CompareAndBranch(Full, cond, x.r, R("MT"))
    [] InMemory(x) /\ ~InMemory(o) ->
         memory_temp \o load64(x, "MT") \o CompareAndBranch(Full, cond, "MT", o)
    [] InMemory(x) /\ InMemory(o) ->
         data_temp \o load64(x, "DT") \o memory_temp \o load64(o, "MT")
         \o CompareAndBranch(Full, cond, "DT", R("MT"))

(* A byte or a halfword in memory, extended as the condition reads it, and *)
(* the constant likewise; of a test, the sign is kept unless it compares   *)
(* with zero.                                                              *)
is_unsigned_rel(cond) ==
  cond \in {"Equal", "NotEqual", "Above", "AboveOrEqual", "Below", "BelowOrEqual"}
is_unsigned_res(cond) == cond \in {"Zero", "NonZero"}
mask8_on_condition_rel(cond, v) ==
  IF is_unsigned_rel(cond) THEN Wrap(v, Byte) ELSE Signed(v, Byte)
MaskOnCondition(w, cond, v) ==
  CASE is_unsigned_res(cond) /\ v = -1 -> v
    [] is_unsigned_res(cond) /\ v # -1 -> Wrap(v, w)
    [] OTHER -> Signed(v, w)
branch8(cond, x, v) ==
  memory_temp
  \o (IF is_unsigned_rel(cond) THEN load8(x, "MT") ELSE load8_signed_extend_to_32(x, "MT"))
  \o branch32(cond, R("MT"), Imm(Half, mask8_on_condition_rel(cond, v)))
branch_test8(cond, x, v) ==
  memory_temp
  \o (IF is_unsigned_res(cond) THEN load8(x, "MT") ELSE load8_signed_extend_to_32(x, "MT"))
  \o branch_test32(cond, R("MT"), Imm(Half, MaskOnCondition(Byte, cond, v)))
branch_test16(cond, x, v) ==
  memory_temp
  \o (IF is_unsigned_res(cond) THEN load16(x, "MT") ELSE load16_signed_extend_to_32(x, "MT"))
  \o branch_test32(cond, R("MT"), Imm(Half, MaskOnCondition(Quarter, cond, v)))

-------------------------------------------------------------------------------
(* Arithmetic that branches on its result *)

branch_add32_rrr(cond, x, o, d) ==
  (CASE o.k = "reg" -> I!add(Half, TRUE, d, x, o.r)
     [] o.k # "reg" /\ Encodable(o.v) -> AddImm(Half, TRUE, d, x, o.v)
     [] o.k # "reg" /\ ~Encodable(o.v) -> Extended64(o.v) \o I!add(Half, TRUE, d, x, "DT"))
  \o make_branch_res(cond)
branch_add64_rrr(cond, x, o, d) ==
  (CASE o.k = "reg" -> I!add(Full, TRUE, d, x, o.r)
     [] o.k # "reg" /\ Encodable(o.v) -> AddImm(Full, TRUE, d, x, o.v)
     [] o.k # "reg" /\ ~Encodable(o.v) -> Extended64(o.v) \o I!add(Full, TRUE, d, x, "DT"))
  \o make_branch_res(cond)
branch_sub32_rrr(cond, x, o, d) ==
  (CASE o.k = "reg" -> I!sub(Half, TRUE, d, x, o.r)
     [] o.k # "reg" /\ Encodable(o.v) -> SubImm(Half, TRUE, d, x, o.v)
     [] o.k # "reg" /\ ~Encodable(o.v) -> Extended64(o.v) \o I!sub(Half, TRUE, d, x, "DT"))
  \o make_branch_res(cond)
branch_sub64_rrr(cond, x, o, d) ==   (* of registers, as 32 bits *)
  (CASE o.k = "reg" -> I!sub(Half, TRUE, d, x, o.r)
     [] o.k # "reg" /\ Encodable(o.v) -> SubImm(Full, TRUE, d, x, o.v)
     [] o.k # "reg" /\ ~Encodable(o.v) -> Extended64(o.v) \o I!sub(Half, TRUE, d, x, "DT"))
  \o make_branch_res(cond)

(* A constant and memory: one that is not encodable is doubled in the      *)
(* memory temporary, at width dw, and what was loaded is stored back.      *)
InPlace(x, dw, load, op, store, cond) ==
  data_temp \o load
  \o (IF Encodable(x.v) THEN op ELSE memory_temp \o mov(x, "MT") \o I!add(dw, TRUE, "MT", "MT", "MT"))
  \o store \o make_branch_res(cond)
branch_add32(cond, x, o) ==
  CASE o.k = "reg" /\ ~InMemory(x) -> branch_add32_rrr(cond, o.r, x, o.r)
    [] o.k = "reg" /\ InMemory(x) ->
         data_temp \o load32(x, "DT") \o branch_add32_rrr(cond, o.r, R("DT"), o.r)
    [] InMemory(o) -> InPlace(x, Half, load32(o, "DT"), AddImm(Half, TRUE, "DT", "DT", x.v),
                              store32(R("DT"), o), cond)
branch_add64(cond, x, o) ==
  CASE o.k = "reg" /\ ~InMemory(x) -> branch_add64_rrr(cond, o.r, x, o.r)
    [] o.k = "reg" /\ InMemory(x) ->
         data_temp \o load64(x, "DT") \o branch_add64_rrr(cond, o.r, R("DT"), o.r)
    [] InMemory(o) -> InPlace(x, Full, load64(o, "DT"), AddImm(Full, TRUE, "DT", "DT", x.v),
                              store64(R("DT"), o), cond)
branch_sub32(cond, x, o) ==
  CASE o.k = "reg" /\ ~InMemory(x) -> branch_sub32_rrr(cond, o.r, x, o.r)
    [] o.k = "reg" /\ InMemory(x) ->
         data_temp \o load32(x, "DT") \o branch_sub32_rrr(cond, o.r, R("DT"), o.r)
    [] InMemory(o) -> InPlace(x, Half, load32(o, "DT"), SubImm(Half, TRUE, "DT", "DT", x.v),
                              store32(R("DT"), o), cond)
branch_sub64(cond, x, o) ==
  CASE o.k = "reg" /\ ~InMemory(x) -> branch_sub64_rrr(cond, o.r, x, o.r)
    [] o.k = "reg" /\ InMemory(x) ->
         data_temp \o load64(x, "DT") \o branch_sub64_rrr(cond, o.r, R("DT"), o.r)
    [] InMemory(o) -> InPlace(x, IF o.k = "abs" THEN Half ELSE Full, load64(o, "DT"),
                              SubImm(Full, TRUE, "DT", "DT", x.v), store64(R("DT"), o), cond)

-------------------------------------------------------------------------------
(* Conditional moves, of whole registers *)

csel(d, x, y, cond) == I!csel(Full, d, x, y, ConditionOf[cond])
move_conditionally_test32(cond, x, mask, src, d) ==
  (IF mask.k = "reg" THEN I!tst(Half, x, mask.r) ELSE test32(x, mask)) \o csel(d, src, d, cond)
move_conditionally_test32_then_else(cond, x, mask, yes, no, d) ==
  (IF mask.k = "reg" THEN I!tst(Half, x, mask.r) ELSE test32(x, mask)) \o csel(d, yes, no, cond)
move_conditionally_test64(cond, x, mask, src, d) == I!tst(Full, x, mask) \o csel(d, src, d, cond)
move_conditionally_test64_then_else(cond, x, mask, yes, no, d) ==
  I!tst(Full, x, mask) \o csel(d, yes, no, cond)

(* The 32-bit forms go on to the comparison after they have tested a       *)
(* register against zero.                                                  *)
move_conditionally32(cond, x, o, src, d) ==
  (IF TestsZero(cond, o)
   THEN move_conditionally_test32(compute_compare_to_zero_test[cond], x, R(x), src, d) ELSE <<>>)
  \o CompareWith(Half, x, o) \o csel(d, src, d, cond)
move_conditionally32_then_else(cond, x, o, yes, no, d) ==
  (IF TestsZero(cond, o)
   THEN move_conditionally_test32_then_else(compute_compare_to_zero_test[cond], x, R(x), yes, no, d)
   ELSE <<>>)
  \o CompareWith(Half, x, o) \o csel(d, yes, no, cond)
move_conditionally64(cond, x, y, src, d) == I!cmp(Full, x, y) \o csel(d, src, d, cond)
move_conditionally64_then_else(cond, x, o, yes, no, d) ==
  IF TestsZero(cond, o)
  THEN move_conditionally_test64_then_else(compute_compare_to_zero_test[cond], x, x, yes, no, d)
  ELSE CompareWith(Full, x, o) \o csel(d, yes, no, cond)

fcsel(d, x, y, cond) == I!fcsel(Full, d, x, y, ConditionOf[cond])
move_double_conditionally_test32(cond, x, mask, yes, no, d) ==
  (IF mask.k = "reg" THEN I!tst(Half, x, mask.r) ELSE test32(x, mask)) \o fcsel(d, yes, no, cond)
move_double_conditionally_test64(cond, x, mask, yes, no, d) ==
  I!tst(Full, x, mask) \o fcsel(d, yes, no, cond)
move_double_conditionally32(cond, x, o, yes, no, d) ==
  IF TestsZero(cond, o)
  THEN move_double_conditionally_test32(compute_compare_to_zero_test[cond], x, R(x), yes, no, d)
  ELSE CompareWith(Half, x, o) \o fcsel(d, yes, no, cond)
move_double_conditionally64(cond, x, o, yes, no, d) ==
  IF TestsZero(cond, o)
  THEN move_double_conditionally_test64(compute_compare_to_zero_test[cond], x, x, yes, no, d)
  ELSE CompareWith(Full, x, o) \o fcsel(d, yes, no, cond)

(* After a comparison of floats, which two conditions need two flags of.   *)
move_conditionally_after_floating_point_compare(w, cond, src, d) ==
  CASE cond = "NotEqualAndOrdered" -> UnlessUnordered(I!csel(w, d, src, d, "NE"))
    [] cond = "EqualOrUnordered" -> I!csel(w, d, src, d, "VS") \o I!csel(w, d, src, d, "EQ")
    [] OTHER -> I!csel(w, d, src, d, FPConditionOf[cond])
move_conditionally_after_floating_point_compare_then_else(w, cond, yes, no, d) ==
  CASE cond = "NotEqualAndOrdered" ->
         IF d = yes THEN I!csel(w, yes, no, yes, "VS") \o I!csel(w, d, no, yes, "NE")
         ELSE Mov(no, d) \o UnlessUnordered(I!csel(w, d, yes, no, "NE"))
    [] cond = "EqualOrUnordered" ->
         IF d = no THEN I!csel(w, no, yes, no, "VS") \o I!csel(w, d, yes, no, "EQ")
         ELSE Mov(yes, d) \o UnlessUnordered(I!csel(w, d, no, yes, "EQ"))
    [] OTHER -> I!csel(w, d, yes, no, FPConditionOf[cond])
move_double_conditionally_after_floating_point_compare_then_else(w, cond, yes, no, d) ==
  CASE cond = "NotEqualAndOrdered" ->
         IF d = yes THEN I!fcsel(w, yes, no, yes, "VS") \o I!fcsel(w, d, no, yes, "NE")
         ELSE I!fmov(Full, d, no) \o UnlessUnordered(I!fcsel(w, d, yes, no, "NE"))
    [] cond = "EqualOrUnordered" ->
         IF d = no THEN I!fcsel(w, no, yes, no, "VS") \o I!fcsel(w, d, yes, no, "EQ")
         ELSE I!fmov(Full, d, yes) \o UnlessUnordered(I!fcsel(w, d, yes, no, "EQ"))
    [] OTHER -> I!fcsel(w, d, yes, no, FPConditionOf[cond])
move_conditionally_fp(w, cond, x, o, src, d) ==
  CompareFP(w, x, o) \o move_conditionally_after_floating_point_compare(w, cond, src, d)
move_conditionally_fp_then_else(w, cond, x, o, yes, no, d) ==
  CompareFP(w, x, o) \o move_conditionally_after_floating_point_compare_then_else(w, cond, yes, no, d)
(* Floats are compared as doubles, and moved as floats. *)
move_double_conditionally_fp(w, cond, x, o, yes, no, d) ==
  CompareFP(Full, x, o)
  \o move_double_conditionally_after_floating_point_compare_then_else(w, cond, yes, no, d)
-------------------------------------------------------------------------------
(* Calls.  A call is linked after it has been assembled: set_pointer       *)
(* writes the three moves before it again, with the address.               *)

invalidate_all == << <<"invalidate_all">> >>
move_with_fixed_width32(v, d) ==
  I!movz(Half, d, get_half_word(v, 0, Half), 0) \o I!movk(Half, d, get_half_word(v, 1, Half), Quarter)
move_with_fixed_width64(v, d) ==   (* never the highest of the four *)
  I!movz(Full, d, get_half_word(v, 0, Full), 0)
  \o I!movk(Full, d, get_half_word(v, 1, Full), Quarter)
  \o I!movk(Full, d, get_half_word(v, 2, Full), 2 * Quarter)
call == data_temp \o move_with_fixed_width64(0, "DT") \o invalidate_all \o I!blr("DT")
link_call(code, v) ==
  LET i == Len(code) - 3
  IN SubSeq(code, 1, i - 1) \o I!set_pointer(v, "DT") \o <<code[i + 3]>>
call_op(o) ==
  (CASE o.k = "reg" -> <<>>
     [] o.k = "addr" -> data_temp \o load64(o, "DT")
     [] o.k = "abs" -> data_temp \o mov(o, "DT"))   (* the address, not what is there *)
  \o invalidate_all \o I!blr(IF o.k = "reg" THEN o.r ELSE "DT")

-------------------------------------------------------------------------------
(* The constants in the temporaries: c maps those that are valid to them.  *)

(* To get it wrong: take a temporary without forgetting its constant. *)
Kept(c, t) == c
Without(c, t) == [x \in DOMAIN c \ {t} |-> c[x]]
With(c, t, v) == (t :> v) @@ c
Expanded(code, c) == [code |-> code, cache |-> c]

(* A constant that differs from the one in a temporary by a halfword or    *)
(* two is made from it.                                                    *)
SameUpper(x, y, w) == x \div 2^w = y \div 2^w
move_to_cached_reg(w, t, v, c) ==
  LET known == t \in DOMAIN c
      Half1(x) == get_half_word(x, 1, Full)
      Half0(x) == get_half_word(x, 0, Full)
      code ==
        CASE known /\ c[t] = v -> <<>>
          [] known /\ c[t] # v /\ I!LogicalImmediate(v, w) -> I!movi(w, t, I!Pattern(v, w))
          [] known /\ c[t] # v /\ ~I!LogicalImmediate(v, w) /\ SameUpper(v, c[t], Half) ->
               (IF Half1(v) = Half1(c[t]) THEN <<>> ELSE I!movk(w, t, Half1(v), Quarter))
               \o (IF Half0(v) = Half0(c[t]) THEN <<>> ELSE I!movk(w, t, Half0(v), 0))
          [] OTHER -> move_internal(w, v, t)
  IN Expanded(code, With(c, t, v))

(* An absolute address is reached from the one in the memory temporary: by *)
(* an offset, by writing its low halfword, or by moving it there.          *)
Near(w, c, v) ==
  /\ "MT" \in DOMAIN c
  /\ FitsSigned(v - c["MT"], Half)
  /\ CanEncode(w, v - c["MT"])
SameButLow(c, v) == "MT" \in DOMAIN c /\ SameUpper(v, c["MT"], Quarter)
load_internal(w, d, v, c) ==
  LET valid == IF d = "MT" THEN Without(c, "MT") ELSE c
      plain == IF w = Quarter THEN I!ldrh(d, "MT", "zr") ELSE I!ldr(w, d, "MT", "zr")
  IN CASE Near(w, c, v) -> Expanded(try_load_with_offset(w, d, "MT", v - c["MT"]), valid)
       [] ~Near(w, c, v) /\ SameButLow(c, v) ->
            Expanded(I!movk(Full, "MT", get_half_word(v, 0, Full), 0) \o plain, valid)
       [] ~Near(w, c, v) /\ ~SameButLow(c, v) ->
            Expanded(move_internal(Full, v, "MT") \o plain,
                     IF d = "MT" THEN valid ELSE With(c, "MT", v))
store_internal(w, x, v, c) ==
  LET plain == IF w = Quarter THEN I!strh(x, "MT", "zr") ELSE I!str(w, x, "MT", "zr")
  IN CASE Near(w, c, v) -> Expanded(try_store_with_offset(w, x, "MT", v - c["MT"]), c)
       [] ~Near(w, c, v) /\ SameButLow(c, v) ->
            Expanded(I!movk(Full, "MT", get_half_word(v, 0, Full), 0) \o plain, c)
       [] ~Near(w, c, v) /\ ~SameButLow(c, v) ->
            Expanded(move_internal(Full, v, "MT") \o plain, With(c, "MT", v))

(* The code of an operation assembled with the constants of cache in the   *)
(* temporaries, and the constants it leaves there.                         *)
Expand(i, c) ==
  CASE i[1] = "invalidate" -> Expanded(<<>>, Without(c, i[2]))
    [] i[1] = "invalidate_all" -> Expanded(<<>>, <<>>)
    [] i[1] = "cached" -> move_to_cached_reg(i[2], i[3], i[4], c)
    [] i[1] = "move" -> Expanded(move_internal(i[2], i[3], i[4]), c)
    [] i[1] = "load_internal" -> load_internal(i[2], i[3], i[4], c)
    [] i[1] = "store_internal" -> store_internal(i[2], i[3], i[4], c)
    [] OTHER -> Expanded(<<i>>, c)
After(done, e) == Expanded(done.code \o e.code, e.cache)
Continued(done, i) == After(done, Expand(i, done.cache))
Emit(code, cache) ==
  LET upTo[n \in 0..Len(code)] ==
        IF n = 0 THEN Expanded(<<>>, cache) ELSE Continued(upTo[n - 1], code[n])
  IN upTo[Len(code)]
===============================================================================
