------------------------------- MODULE MCRiscv64 -------------------------------
EXTENDS Assembled, MacroCatalogue, Riscv64Macro

(* A floating-point register and the general register of the same number.  *)
NumberOf == [fa |-> "a", fb |-> "b", fc |-> "c"]

Riscv64Code(o) ==
  LET r(i) == o.s[i].r
  IN CASE o.name = "add32" -> add32(o.s[1], o.s[2])
        [] o.name = "add64" -> add64(o.s[1], o.s[2])
        [] o.name = "sub32" -> sub32(o.s[1], o.s[2])
        [] o.name = "sub64" -> sub64(o.s[1], o.s[2])
        [] o.name = "xor64" -> xor64(o.s[1], o.s[2])
        [] o.name = "or32" -> or32(o.s[1], o.s[2])
        [] o.name = "store8" -> store8(o.s[1], o.s[2])
        [] o.name = "store16" -> store16(o.s[1], o.s[2])
        [] o.name = "store32" -> store32(o.s[1], o.s[2])
        [] o.name = "store64" -> store64(o.s[1], o.s[2])
        [] o.name = "or8" -> or8(o.s[1], o.s[2])
        [] o.name = "or16" -> or16(o.s[1], o.s[2])
        [] o.name = "transfer64" -> transfer64(o.s[1], o.s[2])
        [] o.name = "and32" -> and32(o.s[1], r(2))
        [] o.name = "xor32" -> xor32(o.s[1], r(2))
        [] o.name = "add32_rrr" -> add32_rrr(o.s[1], r(2), r(3))
        [] o.name = "add64_rrr" -> add64_rrr(o.s[1], r(2), r(3))
        [] o.name = "mul32_rrr" -> mul32_rrr(o.s[1], r(2), r(3))
        [] o.name = "and32_rrr" -> and32_rrr(o.s[1], r(2), r(3))
        [] o.name = "and64_rrr" -> and64_rrr(o.s[1], r(2), r(3))
        [] o.name = "or32_rrr" -> or32_rrr(o.s[1], r(2), r(3))
        [] o.name = "or64_rrr" -> or64_rrr(o.s[1], r(2), r(3))
        [] o.name = "xor32_rrr" -> xor32_rrr(o.s[1], r(2), r(3))
        [] o.name = "xor64_rrr" -> xor64_rrr(o.s[1], r(2), r(3))
        [] o.name = "sub32_rrr" -> sub32_rrr(o.s[1], o.s[2], r(3))
        [] o.name = "sub64_rrr" -> sub64_rrr(r(1), o.s[2], r(3))
        [] o.name = "rshift32_rrr" -> rshift32_rrr(r(1), o.s[2], r(3))
        [] o.name = "rshift64_rrr" -> rshift64_rrr(r(1), o.s[2], r(3))
        [] o.name = "urshift32_rrr" -> urshift32_rrr(r(1), o.s[2], r(3))
        [] o.name = "urshift64_rrr" -> urshift64_rrr(r(1), o.s[2], r(3))
        [] o.name = "lshift32_rrr" -> lshift32_rrr(o.s[1], o.s[2], r(3))
        [] o.name = "lshift64_rrr" -> lshift64_rrr(o.s[1], o.s[2], r(3))
        [] o.name = "mul64_rrr" -> mul64_rrr(r(1), r(2), r(3))
        [] o.name = "neg32" -> neg32(r(1))
        [] o.name = "neg64" -> neg64(r(1))
        [] o.name = "not32" -> not32(r(1))
        [] o.name = "byte_swap16" -> byte_swap16(r(1))
        [] o.name = "byte_swap32" -> byte_swap32(r(1))
        [] o.name = "byte_swap64" -> byte_swap64(r(1))
        [] o.name = "push" -> push(r(1))
        [] o.name = "pop" -> pop(r(1))
        [] o.name = "move_zero_to_float" -> move_zero_to_float(r(1))
        [] o.name = "move_zero_to_double" -> move_zero_to_double(r(1))
        [] o.name = "branch_double_non_zero" -> branch_double_non_zero(r(1))
        [] o.name = "branch_double_zero_or_nan" -> branch_double_zero_or_nan(r(1))
        [] o.name = "count_leading_zeros32" -> count_leading_zeros32(r(1), r(2))
        [] o.name = "count_leading_zeros64" -> count_leading_zeros64(r(1), r(2))
        [] o.name = "count_trailing_zeros32" -> count_trailing_zeros32(r(1), r(2))
        [] o.name = "count_trailing_zeros64" -> count_trailing_zeros64(r(1), r(2))
        [] o.name = "zero_extend8_to_32" -> zero_extend8_to_32(r(1), r(2))
        [] o.name = "zero_extend16_to_32" -> zero_extend16_to_32(r(1), r(2))
        [] o.name = "zero_extend32_to_word" -> zero_extend32_to_word(r(1), r(2))
        [] o.name = "sign_extend8_to_32" -> sign_extend8_to_32(r(1), r(2))
        [] o.name = "sign_extend16_to_32" -> sign_extend16_to_32(r(1), r(2))
        [] o.name = "sign_extend8_to_64" -> sign_extend8_to_64(r(1), r(2))
        [] o.name = "swap" -> swap(r(1), r(2))
        [] o.name = "swap_double" -> swap_double(r(1), r(2))
        [] o.name = "push_pair" -> push_pair(r(1), r(2))
        [] o.name = "pop_pair" -> pop_pair(r(1), r(2))
        [] o.name = "move_float" -> move_float(r(1), r(2))
        [] o.name = "move_double" -> move_double(r(1), r(2))
        [] o.name = "move_float_to32" -> move_float_to32(r(1), r(2))
        [] o.name = "convert_float_to_double" -> convert_float_to_double(r(1), r(2))
        [] o.name = "convert_double_to_float" -> convert_double_to_float(r(1), r(2))
        [] o.name = "load8" -> load8(o.s[1], r(2))
        [] o.name = "load8_signed_extend_to_32" -> load8_signed_extend_to_32(o.s[1], r(2))
        [] o.name = "load16" -> load16(o.s[1], r(2))
        [] o.name = "load16_signed_extend_to_32" -> load16_signed_extend_to_32(o.s[1], r(2))
        [] o.name = "load32" -> load32(o.s[1], r(2))
        [] o.name = "load64" -> load64(o.s[1], r(2))
        [] o.name = "get_effective_address" -> get_effective_address(o.s[1], r(2))
        [] o.name = "load_float" -> load_float(o.s[1], r(2))
        [] o.name = "load_double" -> load_double(o.s[1], r(2))
        [] o.name = "sign_extend32_to_64" -> sign_extend32_to_64(o.s[1], r(2))
        [] o.name = "mov" -> mov(o.s[1], r(2))
        [] o.name = "move_with_patch" -> move_with_patch(o.s[1], r(2))
        [] o.name = "convert_int32_to_double" -> convert_int32_to_double(o.s[1], r(2))
        [] o.name = "add_double_rr" -> add_double_rr(o.s[1], r(2))
        [] o.name = "sub_double_rr" -> sub_double_rr(o.s[1], r(2))
        [] o.name = "mul_double_rr" -> mul_double_rr(o.s[1], r(2))
        [] o.name = "div_double_rr" -> div_double_rr(r(1), r(2))
        [] o.name = "store_float" -> store_float(r(1), o.s[2])
        [] o.name = "store_double" -> store_double(r(1), o.s[2])
        [] o.name = "load_pair32" -> load_pair32(o.s[1], r(2), r(3))
        [] o.name = "load_pair64" -> load_pair64(o.s[1], r(2), r(3))
        [] o.name = "store_pair32" -> store_pair32(r(1), r(2), o.s[3])
        [] o.name = "store_pair64" -> store_pair64(r(1), r(2), o.s[3])
        [] o.name = "far_jump" -> far_jump(o.s[1])
        [] o.name = "call_op" -> call_op(o.s[1])
        [] o.name = "push_to_save" -> push_to_save(o.s[1])
        [] o.name = "store_ptr_with_patch" -> store_ptr_with_patch(o.s[1], o.s[2])
        [] o.name = "compare8" -> compare8(o.c, o.s[1], o.s[2].v, r(3))
        [] o.name = "test8" -> test8(o.c, o.s[1], o.s[2].v, r(3))
        [] o.name = "compare32" -> compare32(o.c, o.s[1], o.s[2], r(3))
        [] o.name = "test32_cond" -> test32_cond(o.c, o.s[1], o.s[2], r(3))
        [] o.name = "compare64" -> compare64(o.c, r(1), o.s[2], r(3))
        [] o.name = "test64" -> test64(o.c, r(1), o.s[2], r(3))
        [] o.name = "branch8" -> branch8(o.c, o.s[1], o.s[2].v)
        [] o.name = "branch32" -> branch32(o.c, o.s[1], o.s[2])
        [] o.name = "branch64" -> branch64(o.c, o.s[1], o.s[2])
        [] o.name = "branch_test8" -> branch_test8(o.c, o.s[1], o.s[2])
        [] o.name = "branch_test16" -> branch_test16(o.c, o.s[1], o.s[2])
        [] o.name = "branch_test32" -> branch_test32(o.c, o.s[1], o.s[2])
        [] o.name = "branch_test64" -> branch_test64(o.c, o.s[1], o.s[2])
        [] o.name = "branch32_with_patch" -> branch32_with_patch(o.c, o.s[1], o.s[2])
        [] o.name = "branch_ptr_with_patch" -> branch_ptr_with_patch(o.c, o.s[1], o.s[2])
        [] o.name = "branch_add32" -> branch_add32(o.c, o.s[1], o.s[2])
        [] o.name = "branch_add32_rrr" -> branch_add32_rrr(o.c, r(1), o.s[2], r(3))
        [] o.name = "branch_add64_rrr" -> branch_add64_rrr(o.c, r(1), o.s[2], r(3))
        [] o.name = "branch_sub32_rrr" -> branch_sub32_rrr(o.c, r(1), o.s[2], r(3))
        [] o.name = "branch_sub64_rrr" -> branch_sub64_rrr(o.c, r(1), o.s[2], r(3))
        [] o.name = "branch_mul32_rrr" -> branch_mul32_rrr(o.c, r(1), o.s[2], r(3))
        [] o.name = "branch_mul64_rrr" -> branch_mul64_rrr(o.c, r(1), o.s[2], r(3))
        [] o.name = "branch_mul64" -> branch_mul64(o.c, o.s[1], r(2))
        [] o.name = "branch_neg32" -> branch_sub32_rrr(o.c, "zero", o.s[1], r(1))
        [] o.name = "branch_neg64" -> branch_sub64_rrr(o.c, "zero", o.s[1], r(1))
        [] o.name \in {"add_float", "add_double"} -> Arith3("fadd", o.w, r(1), r(2), r(3))
        [] o.name \in {"sub_float", "sub_double"} -> Arith3("fsub", o.w, r(1), r(2), r(3))
        [] o.name \in {"mul_float", "mul_double"} -> Arith3("fmul", o.w, r(1), r(2), r(3))
        [] o.name \in {"div_float", "div_double"} -> Arith3("fdiv", o.w, r(1), r(2), r(3))
        [] o.name \in {"and_float", "and_double"} -> FloatLogic("and", o.w, r(1), r(2), r(3))
        [] o.name \in {"or_float", "or_double"} -> FloatLogic("or", o.w, r(1), r(2), r(3))
        [] o.name \in {"sqrt_float", "sqrt_double"} -> sqrt(o.w, r(1), r(2))
        [] o.name \in {"abs_float", "abs_double"} -> fsgnjx(o.w, r(2), r(1), r(1))
        [] o.name \in {"negate_float", "negate_double"} -> fsgnjn(o.w, r(2), r(1), r(1))
        [] o.name \in {"ceil_float", "ceil_double"}
             -> round_fp(o.w, r(1), r(2), "up", NumberOf[r(2)])
        [] o.name \in {"floor_float", "floor_double"}
             -> round_fp(o.w, r(1), r(2), "down", NumberOf[r(2)])
        [] o.name \in {"round_to_nearest_int_float", "round_to_nearest_int_double"}
             -> round_fp(o.w, r(1), r(2), "near", NumberOf[r(2)])
        [] o.name \in {"round_toward_zero_float", "round_toward_zero_double"}
             -> round_fp(o.w, r(1), r(2), "zero", NumberOf[r(2)])
        [] o.name = "move_double_to64" -> fmv_fp2i(Full, r(2), r(1))
        [] o.name \in {"move32_to_float", "move64_to_double"} -> fmv_i2fp(o.w, r(2), r(1))
        [] o.name \in {"convert_int32_to_float", "convert_int64_to_float", "convert_int64_to_double"}
             -> fcvt_si2fp(o.rw, r(2), r(1))
        [] o.name \in {"convert_uint64_to_float", "convert_uint64_to_double"}
             -> fcvt_ui2fp(o.rw, r(2), r(1))
        [] o.name = "truncate_float_to_int32" -> truncate(Half, TRUE, TRUE, r(1), r(2))
        [] o.name = "truncate_float_to_int64" -> truncate(Half, TRUE, FALSE, r(1), r(2))
        [] o.name = "truncate_float_to_uint32" -> truncate(Half, FALSE, TRUE, r(1), r(2))
        [] o.name = "truncate_float_to_uint64" -> truncate(Half, FALSE, FALSE, r(1), r(2))
        [] o.name = "truncate_double_to_int32" -> truncate(Full, TRUE, TRUE, r(1), r(2))
        [] o.name = "truncate_double_to_int64" -> truncate(Full, TRUE, FALSE, r(1), r(2))
        [] o.name = "truncate_double_to_uint32" -> truncate(Full, FALSE, TRUE, r(1), r(2))
        [] o.name = "truncate_double_to_uint64" -> truncate(Full, FALSE, FALSE, r(1), r(2))
        [] o.name = "branch_truncate_double_to_int32"
             -> branch_truncate_double_to_int32(r(1), r(2), o.c = "success")
        [] o.name = "branch_convert_double_to_int32"
             -> branch_convert_double_to_int32(r(1), r(2), o.c = "zero_check")
        [] o.name \in {"branch_float", "branch_double"}
             -> branch_fp(o.w, FALSE, o.c, r(1), r(2))
        [] o.name \in {"compare_float", "compare_double"}
             -> compare_fp(o.w, o.c, r(1), r(2), r(3))
        [] o.name = "move_conditionally32" -> move_conditionally32(o.c, r(1), r(2), r(3), r(4))
        [] o.name = "move_conditionally64" -> move_conditionally64(o.c, r(1), r(2), r(3), r(4))
        [] o.name = "move_conditionally_test32"
             -> move_conditionally_test32(o.c, r(1), o.s[2], r(3), r(4))
        [] o.name = "move_conditionally_test64"
             -> move_conditionally_test64(o.c, r(1), o.s[2], r(3), r(4))
        [] o.name = "move_conditionally32_then_else"
             -> move_conditionally32_then_else(o.c, r(1), o.s[2], r(3), r(4), r(5))
        [] o.name = "move_conditionally64_then_else"
             -> move_conditionally64_then_else(o.c, r(1), o.s[2], r(3), r(4), r(5))
        [] o.name = "move_conditionally_test32_then_else"
             -> move_conditionally_test32_then_else(o.c, r(1), o.s[2], r(3), r(4), r(5))
        [] o.name = "move_conditionally_test64_then_else"
             -> move_conditionally_test64_then_else(o.c, r(1), o.s[2], r(3), r(4), r(5))
        [] o.name = "move_double_conditionally32"
             -> move_double_conditionally32(o.c, r(1), o.s[2], r(3), r(4), r(5))
        [] o.name = "move_double_conditionally64"
             -> move_double_conditionally64(o.c, r(1), o.s[2], r(3), r(4), r(5))
        [] o.name = "move_double_conditionally_test32"
             -> move_double_conditionally_test32(o.c, r(1), o.s[2], r(3), r(4), r(5))
        [] o.name = "move_double_conditionally_test64"
             -> move_double_conditionally_test64(o.c, r(1), o.s[2], r(3), r(4), r(5))
        [] o.name \in {"move_conditionally_float", "move_conditionally_double"}
             -> move_conditionally_fp(o.w, o.c, r(1), r(2), r(3), r(4))
        [] o.name \in {"move_conditionally_float_then_else", "move_conditionally_double_then_else"}
             -> move_conditionally_fp_then_else(o.w, o.c, r(1), r(2), r(3), r(4), r(5))
        [] o.name \in {"move_double_conditionally_float", "move_double_conditionally_double"}
             -> move_double_conditionally_fp(o.w, o.c, r(1), r(2), r(3), r(4), r(5))

Temporaries == [DT |-> 23205, MT |-> 42330, ra |-> 7]
Generals == {[a |-> 3, b |-> 5, c |-> 258], [a |-> 65535, b |-> 128, c |-> 127],
             [a |-> 32768, b |-> 32767, c |-> 1], [a |-> 65408, b |-> 21888, c |-> 43647],
             [a |-> 0, b |-> 0, c |-> 21845], [a |-> 4660, b |-> 4660, c |-> 22136]}
(* Zeros, numbers with fractions, of both signs, too large for an integer, *)
(* infinite and not a number.                                              *)
Magnitudes(w) == {0, 6, 18, 100, Infinite(w), NaN(w)} \union (IF w = Full THEN {600} ELSE {})
Floats(w) ==
  {[fa |-> Box(x, w), fb |-> Box(y, w), fc |-> Box(5, w)] :
     x \in Magnitudes(w) \union {MinusZero(w) + 6, MinusZero(w)}, y \in {6, MinusZero(w) + 18, NaN(w)}}
Riscv64Starts(o) ==
  LET floating == o.s[1].k = "freg"
  IN {[g |-> g @@ Temporaries @@ [sp |-> 2000], f |-> f @@ [FT |-> 21930, FT2 |-> 4369],
       mem |-> <<>>, out |-> <<>>] :
        g \in IF floating THEN {[a |-> 3, b |-> 5, c |-> 258]} ELSE Generals,
        f \in IF floating THEN Floats(o.w) ELSE {[fa |-> 6, fb |-> 2, fc |-> 5]}}
-------------------------------------------------------------------------------
(* What the code is known to get wrong.                                    *)

(* IImmediate::is_valid accepts every i32, and the instruction keeps the   *)
(* low twelve bits of it.                                                  *)
TestsImmediates ==
  {"add32", "add32_rrr", "add64", "add64_rrr", "sub32", "sub32_rrr", "sub64", "sub64_rrr",
   "and32", "and32_rrr", "and64_rrr", "or32", "or32_rrr", "or64_rrr", "xor32", "xor32_rrr",
   "xor64", "xor64_rrr", "test32_cond", "test64", "branch_test32", "branch_test64",
   "branch_add64_rrr", "branch_sub64_rrr"}
TruncatedImmediate(o) ==
  /\ o.name \in TestsImmediates
  /\ \E x \in Range(o.s) : x.k = "imm32" /\ ~FitsSigned(x.v, IBits)

(* resolve_address: an offset whose upper part does not fit a lui, and the *)
(* index of scale one forgotten when the offset is large.                  *)
UnresolvedAddress(o) ==
  \E x \in Range(o.s) :
    \/ x.k = "addr" /\ x.off >= 2^(Half - 1) - 2^(IBits - 1)
    \/ x.k = "index" /\ x.scale = 0 /\ ~FitsSigned(x.off, IBits)
    \/ x.k = "ext" /\ x.scale = 1

(* Wrong for all their operands and conditions. *)
Wrong ==
  {"neg32", "byte_swap16", "count_leading_zeros64", "count_trailing_zeros32",
   "count_trailing_zeros64", "compare64", "compare_float", "compare_double", "branch_mul64",
   "branch_double_non_zero", "branch_double_zero_or_nan", "abs_double", "negate_double",
   "convert_float_to_double", "convert_double_to_float", "convert_int64_to_float",
   "convert_int64_to_double", "convert_uint64_to_float", "convert_uint64_to_double",
   "truncate_float_to_uint32", "truncate_float_to_uint64", "truncate_double_to_int32",
   "truncate_double_to_int64", "truncate_double_to_uint32", "truncate_double_to_uint64",
   "branch_truncate_double_to_int32", "branch_convert_double_to_int32",
   "move_conditionally32_then_else", "move_conditionally64_then_else"}
Rounding ==   (* of NaN *)
  {"ceil_float", "ceil_double", "floor_float", "floor_double", "round_to_nearest_int_float",
   "round_to_nearest_int_double", "round_toward_zero_float", "round_toward_zero_double"}
BranchesFloats ==
  {"branch_float", "branch_double", "move_conditionally_float", "move_conditionally_double",
   "move_conditionally_float_then_else", "move_conditionally_double_then_else",
   "move_double_conditionally_float", "move_double_conditionally_double"}

(* Forms without an arm of the match, or with one that has none: the       *)
(* operation panics.                                                       *)
Panicking(o) ==
  \/ o.name = "sub32" /\ o.s[1].k = "imm32" /\ o.s[2].k = "reg"
  \/ o.name = "sub64" /\ o.s[1].k = "imm64"
  \/ o.name \in {"load32", "load64"} /\ o.s[1].k = "ext"
  \/ o.name = "test32_cond" /\ o.s[1].k = "addr" /\ o.s[2].k = "reg"
  \/ o.name \in {"branch_test32", "branch_test64"} /\ o.s[1].k = "index"
  \/ o.name \in {"add_double_rr", "sub_double_rr"} /\ o.s[1].k = "addr"

Riscv64Flawed(o) ==
  \/ Panicking(o)
  \/ TruncatedImmediate(o)
  \/ UnresolvedAddress(o)
  \/ o.name \in Wrong \union Rounding
  \/ o.name \in {"branch8", "branch32", "branch64"} /\ o.c = "LessThanOrEqual"
  \/ o.name \in BranchesFloats /\ FloatRelation(o.c) = "GreaterThanOrEqual"
  \/ o.name = "add32" /\ o.s[1].k = "addr"
  \/ o.name = "sub32" /\ o.s[2].k = "reg"
  \/ o.name = "or32" /\ o.s[2].k = "addr"
  \/ o.name = "call_op" /\ o.s[1].k = "abs"
  \/ o.name = "sign_extend8_to_64" /\ o.s[1] # o.s[2]
  \/ o.name = "branch_test16" /\ o.s[2].v < 0
  \/ o.name \in {"branch_add32", "branch_add32_rrr", "branch_mul32_rrr"} /\ o.c # "Overflow"
  \/ o.name = "branch_add32" /\ o.s[2].k = "addr"
  \/ o.name = "branch_sub32_rrr" /\ o.s[2].k # "reg" /\ o.c # "Overflow"
  \/ o.name = "branch_add64_rrr" /\ o.c = "Overflow"
  \/ o.name = "branch_sub64_rrr" /\ o.s[2].k # "reg" /\ o.c = "Overflow"
  \/ o.name \in {"lshift32_rrr", "rshift32_rrr", "urshift32_rrr"}
       /\ o.s[2].k # "reg" /\ o.s[2].v >= Half

(* Those that write a register of the client that is not their destination, *)
(* and so do not come to an end when it is.                                *)
Riscv64Unruly(o) ==
  o.name \in Rounding \union {"count_leading_zeros64", "count_trailing_zeros64"}
===============================================================================
