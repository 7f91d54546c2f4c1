--------------------------------- MODULE MCX86 ---------------------------------
(***************************************************************************)
(* Every operation of MacroAssemblerX86Common on small words: those it     *)
(* shares with the catalogue and those of its own, on registers and in     *)
(* memory, executed.                                                       *)
(***************************************************************************)
EXTENDS Assembled, MacroCatalogue, X86Macro64

X86Code(o) ==
  CASE o.name = "neg8" -> neg8(o.s[1])
     [] o.name = "neg16" -> neg16(o.s[1])
     [] o.name = "neg32" -> neg32(o.s[1])
     [] o.name = "neg64" -> neg64(o.s[1])
     [] o.name = "not8" -> not8(o.s[1])
     [] o.name = "not16" -> not16(o.s[1])
     [] o.name = "not32" -> not32(o.s[1])
     [] o.name = "not64" -> not64(o.s[1])
     [] o.name = "byte_swap16" -> byte_swap16(o.s[1])
     [] o.name = "byte_swap32" -> byte_swap32(o.s[1])
     [] o.name = "byte_swap64" -> byte_swap64(o.s[1])
     [] o.name = "push" -> push(o.s[1])
     [] o.name = "pop" -> pop(o.s[1])
     [] o.name = "push_to_save" -> push_to_save(o.s[1])
     [] o.name = "far_jump" -> far_jump(o.s[1])
     [] o.name = "call_op" -> call_op(o.s[1])
     [] o.name = "move_zero_to_float" -> move_zero_to_float(o.s[1])
     [] o.name = "move_zero_to_double" -> move_zero_to_double(o.s[1])
     [] o.name = "add8" -> add8(o.s[1], o.s[2])
     [] o.name = "add16" -> add16(o.s[1], o.s[2])
     [] o.name = "add32" -> add32(o.s[1], o.s[2])
     [] o.name = "add64" -> add64(o.s[1], o.s[2])
     [] o.name = "sub8" -> sub8(o.s[1], o.s[2])
     [] o.name = "sub16" -> sub16(o.s[1], o.s[2])
     [] o.name = "sub32" -> sub32(o.s[1], o.s[2])
     [] o.name = "sub64" -> sub64(o.s[1], o.s[2])
     [] o.name = "and8" -> and8(o.s[1], o.s[2])
     [] o.name = "and16" -> and16(o.s[1], o.s[2])
     [] o.name = "and32" -> and32(o.s[1], o.s[2])
     [] o.name = "and64" -> and64(o.s[1], o.s[2])
     [] o.name = "or8" -> or8(o.s[1], o.s[2])
     [] o.name = "or16" -> or16(o.s[1], o.s[2])
     [] o.name = "or32" -> or32(o.s[1], o.s[2])
     [] o.name = "or64" -> or64(o.s[1], o.s[2])
     [] o.name = "xor32" -> xor32(o.s[1], o.s[2])
     [] o.name = "xor64" -> xor64(o.s[1], o.s[2])
     [] o.name = "mul32" -> mul32(o.s[1], o.s[2])
     [] o.name = "mul64" -> mul64(o.s[1], o.s[2])
     [] o.name = "lshift32" -> lshift32(o.s[1], o.s[2])
     [] o.name = "rshift32" -> rshift32(o.s[1], o.s[2])
     [] o.name = "urshift32" -> urshift32(o.s[1], o.s[2])
     [] o.name = "rotate_right32" -> rotate_right32(o.s[1], o.s[2])
     [] o.name = "rotate_left32" -> rotate_left32(o.s[1], o.s[2])
     [] o.name = "lshift64" -> lshift64(o.s[1], o.s[2])
     [] o.name = "rshift64" -> rshift64(o.s[1], o.s[2])
     [] o.name = "urshift64" -> urshift64(o.s[1], o.s[2])
     [] o.name = "rotate_right64" -> rotate_right64(o.s[1], o.s[2])
     [] o.name = "rotate_left64" -> rotate_left64(o.s[1], o.s[2])
     [] o.name = "neg32_rr" -> neg32_rr(o.s[1], o.s[2])
     [] o.name = "count_leading_zeros32" -> count_leading_zeros32(o.s[1], o.s[2])
     [] o.name = "count_leading_zeros64" -> count_leading_zeros64(o.s[1], o.s[2])
     [] o.name = "count_trailing_zeros32" -> count_trailing_zeros32(o.s[1], o.s[2])
     [] o.name = "count_trailing_zeros64" -> count_trailing_zeros64(o.s[1], o.s[2])
     [] o.name = "count_population32" -> count_population32(o.s[1], o.s[2])
     [] o.name = "count_population64" -> count_population64(o.s[1], o.s[2])
     [] o.name = "zero_extend8_to_32" -> zero_extend8_to_32(o.s[1], o.s[2])
     [] o.name = "zero_extend16_to_32" -> zero_extend16_to_32(o.s[1], o.s[2])
     [] o.name = "sign_extend8_to_32" -> sign_extend8_to_32(o.s[1], o.s[2])
     [] o.name = "sign_extend16_to_32" -> sign_extend16_to_32(o.s[1], o.s[2])
     [] o.name = "zero_extend32_to_word" -> zero_extend32_to_word(o.s[1], o.s[2])
     [] o.name = "sign_extend32_to_64" -> sign_extend32_to_64(o.s[1], o.s[2])
     [] o.name = "sign_extend8_to_64" -> sign_extend8_to_64(o.s[1], o.s[2])
     [] o.name = "zero_extend16_to_64" -> zero_extend16_to_64(o.s[1], o.s[2])
     [] o.name = "sign_extend16_to_64" -> sign_extend16_to_64(o.s[1], o.s[2])
     [] o.name = "zero_extend8_to_64" -> zero_extend8_to_64(o.s[1], o.s[2])
     [] o.name = "load8" -> load8(o.s[1], o.s[2])
     [] o.name = "load8_signed_extend_to_32" -> load8_signed_extend_to_32(o.s[1], o.s[2])
     [] o.name = "load16" -> load16(o.s[1], o.s[2])
     [] o.name = "load16_signed_extend_to_32" -> load16_signed_extend_to_32(o.s[1], o.s[2])
     [] o.name = "load32" -> load32(o.s[1], o.s[2])
     [] o.name = "load64" -> load64(o.s[1], o.s[2])
     [] o.name = "load64_with_address_offset_patch" -> load64_with_address_offset_patch(o.s[1], o.s[2])
     [] o.name = "convertible_load_ptr" -> convertible_load_ptr(o.s[1], o.s[2])
     [] o.name = "store8" -> store8(o.s[1], o.s[2])
     [] o.name = "store16" -> store16(o.s[1], o.s[2])
     [] o.name = "store32" -> store32(o.s[1], o.s[2])
     [] o.name = "store64" -> store64(o.s[1], o.s[2])
     [] o.name = "store64_with_address_offset_patch" -> store64_with_address_offset_patch(o.s[1], o.s[2])
     [] o.name = "transfer32" -> transfer32(o.s[1], o.s[2])
     [] o.name = "transfer64" -> transfer64(o.s[1], o.s[2])
     [] o.name = "transfer_ptr" -> transfer_ptr(o.s[1], o.s[2])
     [] o.name = "xchg8" -> xchg8(o.s[1], o.s[2])
     [] o.name = "xchg16" -> xchg16(o.s[1], o.s[2])
     [] o.name = "xchg32" -> xchg32(o.s[1], o.s[2])
     [] o.name = "xchg64" -> xchg64(o.s[1], o.s[2])
     [] o.name = "swap32" -> swap32(o.s[1], o.s[2])
     [] o.name = "swap64" -> swap64(o.s[1], o.s[2])
     [] o.name = "swap" -> swap(o.s[1], o.s[2])
     [] o.name = "swap_double" -> swap_double(o.s[1], o.s[2])
     [] o.name = "mov" -> mov(o.s[1], o.s[2])
     [] o.name = "get_effective_address" -> get_effective_address(o.s[1], o.s[2])
     [] o.name = "add_ptr_no_flags" -> add_ptr_no_flags(o.s[1], o.s[2])
     [] o.name = "push_pair" -> push_pair(o.s[1], o.s[2])
     [] o.name = "pop_pair" -> pop_pair(o.s[1], o.s[2])
     [] o.name = "move_double" -> move_double(o.s[1], o.s[2])
     [] o.name = "move_float_to32" -> move_float_to32(o.s[1], o.s[2])
     [] o.name = "move_double_to64" -> move_double_to64(o.s[1], o.s[2])
     [] o.name = "move32_to_float" -> move32_to_float(o.s[1], o.s[2])
     [] o.name = "move64_to_double" -> move64_to_double(o.s[1], o.s[2])
     [] o.name = "abs_double" -> abs_double(o.s[1], o.s[2])
     [] o.name = "negate_double" -> negate_double(o.s[1], o.s[2])
     [] o.name = "convert_int32_to_float" -> convert_int32_to_float(o.s[1], o.s[2])
     [] o.name = "convert_int32_to_double" -> convert_int32_to_double(o.s[1], o.s[2])
     [] o.name = "convert_int64_to_float" -> convert_int64_to_float(o.s[1], o.s[2])
     [] o.name = "convert_int64_to_double" -> convert_int64_to_double(o.s[1], o.s[2])
     [] o.name = "convert_float_to_double" -> convert_float_to_double(o.s[1], o.s[2])
     [] o.name = "convert_double_to_float" -> convert_double_to_float(o.s[1], o.s[2])
     [] o.name = "add_double_rr" -> add_double_rr(o.s[1], o.s[2])
     [] o.name = "add_float_rr" -> add_float_rr(o.s[1], o.s[2])
     [] o.name = "sub_double_rr" -> sub_double_rr(o.s[1], o.s[2])
     [] o.name = "sub_float_rr" -> sub_float_rr(o.s[1], o.s[2])
     [] o.name = "mul_double_rr" -> mul_double_rr(o.s[1], o.s[2])
     [] o.name = "mul_float_rr" -> mul_float_rr(o.s[1], o.s[2])
     [] o.name = "div_double_rr" -> div_double_rr(o.s[1], o.s[2])
     [] o.name = "div_float_rr" -> div_float_rr(o.s[1], o.s[2])
     [] o.name = "truncate_float_to_uint32" -> truncate_float_to_uint32(o.s[1], o.s[2])
     [] o.name = "truncate_float_to_int64" -> truncate_float_to_int64(o.s[1], o.s[2])
     [] o.name = "truncate_double_to_int64" -> truncate_double_to_int64(o.s[1], o.s[2])
     [] o.name = "truncate_double_to_uint64" -> truncate_double_to_uint64(o.s[1], o.s[2])
     [] o.name = "move_with_patch" -> move_with_patch(o.s[1], o.s[2])
     [] o.name = "store_ptr_with_patch" -> store_ptr_with_patch(o.s[1], o.s[2])
     [] o.name = "add32_rrr" -> add32_rrr(o.s[1], o.s[2], o.s[3])
     [] o.name = "add64_rrr" -> add64_rrr(o.s[1], o.s[2], o.s[3])
     [] o.name = "sub32_rrr" -> sub32_rrr(o.s[1], o.s[2], o.s[3])
     [] o.name = "sub64_rrr" -> sub64_rrr(o.s[1], o.s[2], o.s[3])
     [] o.name = "and32_rrr" -> and32_rrr(o.s[1], o.s[2], o.s[3])
     [] o.name = "and64_rrr" -> and64_rrr(o.s[1], o.s[2], o.s[3])
     [] o.name = "or32_rrr" -> or32_rrr(o.s[1], o.s[2], o.s[3])
     [] o.name = "or64_rrr" -> or64_rrr(o.s[1], o.s[2], o.s[3])
     [] o.name = "xor32_rrr" -> xor32_rrr(o.s[1], o.s[2], o.s[3])
     [] o.name = "xor64_rrr" -> xor64_rrr(o.s[1], o.s[2], o.s[3])
     [] o.name = "mul32_rrr" -> mul32_rrr(o.s[1], o.s[2], o.s[3])
     [] o.name = "mul64_rrr" -> mul64_rrr(o.s[1], o.s[2], o.s[3])
     [] o.name = "lshift32_rrr" -> lshift32_rrr(o.s[1], o.s[2], o.s[3])
     [] o.name = "rshift32_rrr" -> rshift32_rrr(o.s[1], o.s[2], o.s[3])
     [] o.name = "urshift32_rrr" -> urshift32_rrr(o.s[1], o.s[2], o.s[3])
     [] o.name = "rotate_right32_rrr" -> rotate_right32_rrr(o.s[1], o.s[2], o.s[3])
     [] o.name = "rotate_left32_rrr" -> rotate_left32_rrr(o.s[1], o.s[2], o.s[3])
     [] o.name = "lshift64_rrr" -> lshift64_rrr(o.s[1], o.s[2], o.s[3])
     [] o.name = "rshift64_rrr" -> rshift64_rrr(o.s[1], o.s[2], o.s[3])
     [] o.name = "urshift64_rrr" -> urshift64_rrr(o.s[1], o.s[2], o.s[3])
     [] o.name = "rotate_right64_rrr" -> rotate_right64_rrr(o.s[1], o.s[2], o.s[3])
     [] o.name = "rotate_left64_rrr" -> rotate_left64_rrr(o.s[1], o.s[2], o.s[3])
     [] o.name = "load_pair32" -> load_pair32(o.s[1], o.s[2], o.s[3])
     [] o.name = "load_pair64" -> load_pair64(o.s[1], o.s[2], o.s[3])
     [] o.name = "store_pair32" -> store_pair32(o.s[1], o.s[2], o.s[3])
     [] o.name = "store_pair64" -> store_pair64(o.s[1], o.s[2], o.s[3])
     [] o.name = "mul_double" -> mul_double(o.s[1], o.s[2], o.s[3])
     [] o.name = "mul_float" -> mul_float(o.s[1], o.s[2], o.s[3])
     [] o.name = "div_double" -> div_double(o.s[1], o.s[2], o.s[3])
     [] o.name = "div_float" -> div_float(o.s[1], o.s[2], o.s[3])
     [] o.name = "and_double" -> and_double(o.s[1], o.s[2], o.s[3])
     [] o.name = "and_float" -> and_float(o.s[1], o.s[2], o.s[3])
     [] o.name = "or_double" -> or_double(o.s[1], o.s[2], o.s[3])
     [] o.name = "or_float" -> or_float(o.s[1], o.s[2], o.s[3])
     [] o.name = "xor_double" -> xor_double(o.s[1], o.s[2], o.s[3])
     [] o.name = "xor_float" -> xor_float(o.s[1], o.s[2], o.s[3])
     [] o.name = "branch_neg32" -> branch_neg32(o.c, o.s[1])
     [] o.name = "branch_neg64" -> branch_neg64(o.c, o.s[1])
     [] o.name = "branch8" -> branch8(o.c, o.s[1], o.s[2])
     [] o.name = "branch32" -> branch32(o.c, o.s[1], o.s[2])
     [] o.name = "branch64" -> branch64(o.c, o.s[1], o.s[2])
     [] o.name = "branch_test8" -> branch_test8(o.c, o.s[1], o.s[2])
     [] o.name = "branch_test16" -> branch_test16(o.c, o.s[1], o.s[2])
     [] o.name = "branch_test32" -> branch_test32(o.c, o.s[1], o.s[2])
     [] o.name = "branch_test64" -> branch_test64(o.c, o.s[1], o.s[2])
     [] o.name = "branch_test_bit32" -> branch_test_bit32(o.c, o.s[1], o.s[2])
     [] o.name = "branch_test_bit64" -> branch_test_bit64(o.c, o.s[1], o.s[2])
     [] o.name = "branch_add32" -> branch_add32(o.c, o.s[1], o.s[2])
     [] o.name = "branch_add64" -> branch_add64(o.c, o.s[1], o.s[2])
     [] o.name = "branch_sub32" -> branch_sub32(o.c, o.s[1], o.s[2])
     [] o.name = "branch_sub64" -> branch_sub64(o.c, o.s[1], o.s[2])
     [] o.name = "branch_mul32" -> branch_mul32(o.c, o.s[1], o.s[2])
     [] o.name = "branch_mul64" -> branch_mul64(o.c, o.s[1], o.s[2])
     [] o.name = "branch_or32" -> branch_or32(o.c, o.s[1], o.s[2])
     [] o.name = "branch32_with_patch" -> branch32_with_patch(o.c, o.s[1], o.s[2])
     [] o.name = "branch_ptr_with_patch" -> branch_ptr_with_patch(o.c, o.s[1], o.s[2])
     [] o.name = "branch_add32_rrr" -> branch_add32_rrr(o.c, o.s[1], o.s[2], o.s[3])
     [] o.name = "branch_add64_rrr" -> branch_add64_rrr(o.c, o.s[1], o.s[2], o.s[3])
     [] o.name = "branch_sub32_rrr" -> branch_sub32_rrr(o.c, o.s[1], o.s[2], o.s[3])
     [] o.name = "branch_sub64_rrr" -> branch_sub64_rrr(o.c, o.s[1], o.s[2], o.s[3])
     [] o.name = "branch_mul32_rrr" -> branch_mul32_rrr(o.c, o.s[1], o.s[2], o.s[3])
     [] o.name = "branch_mul64_rrr" -> branch_mul64_rrr(o.c, o.s[1], o.s[2], o.s[3])
     [] o.name = "compare8" -> compare8(o.c, o.s[1], o.s[2], o.s[3])
     [] o.name = "compare32" -> compare32(o.c, o.s[1], o.s[2], o.s[3])
     [] o.name = "compare64" -> compare64(o.c, o.s[1], o.s[2], o.s[3])
     [] o.name = "test32_cond" -> test32_cond(o.c, o.s[1], o.s[2], o.s[3])
     [] o.name = "test64" -> test64(o.c, o.s[1], o.s[2], o.s[3])
     [] o.name = "move_conditionally32" -> move_conditionally32(o.c, o.s[1], o.s[2], o.s[3], o.s[4])
     [] o.name = "move_conditionally64" -> move_conditionally64(o.c, o.s[1], o.s[2], o.s[3], o.s[4])
     [] o.name = "move_conditionally_test32"
            -> move_conditionally_test32(o.c, o.s[1], o.s[2], o.s[3], o.s[4])
     [] o.name = "move_conditionally_test64"
            -> move_conditionally_test64(o.c, o.s[1], o.s[2], o.s[3], o.s[4])
     [] o.name = "move_conditionally32_then_else"
            -> move_conditionally32_then_else(o.c, o.s[1], o.s[2], o.s[3], o.s[4], o.s[5])
     [] o.name = "move_conditionally64_then_else"
            -> move_conditionally64_then_else(o.c, o.s[1], o.s[2], o.s[3], o.s[4], o.s[5])
     [] o.name = "move_conditionally_test32_then_else"
            -> move_conditionally_test32_then_else(o.c, o.s[1], o.s[2], o.s[3], o.s[4], o.s[5])
     [] o.name = "move_conditionally_test64_then_else"
            -> move_conditionally_test64_then_else(o.c, o.s[1], o.s[2], o.s[3], o.s[4], o.s[5])
     [] o.name = "move_double_conditionally32"
            -> move_double_conditionally32(o.c, o.s[1], o.s[2], o.s[3], o.s[4], o.s[5])
     [] o.name = "move_double_conditionally64"
            -> move_double_conditionally64(o.c, o.s[1], o.s[2], o.s[3], o.s[4], o.s[5])
     [] o.name = "move_double_conditionally_test32"
            -> move_double_conditionally_test32(o.c, o.s[1], o.s[2], o.s[3], o.s[4], o.s[5])
     [] o.name = "move_double_conditionally_test64"
            -> move_double_conditionally_test64(o.c, o.s[1], o.s[2], o.s[3], o.s[4], o.s[5])
     [] o.name \in {"add_float", "add_double"} -> add_fp(o.w, o.s[1], o.s[2], o.s[3])
     [] o.name \in {"sub_float", "sub_double"} -> sub_fp(o.w, o.s[1], o.s[2], o.s[3])
     [] o.name \in {"load_float", "load_double"} -> load_fp(o.w, o.s[1], o.s[2])
     [] o.name \in {"store_float", "store_double"} -> store_fp(o.w, o.s[1], o.s[2])
     [] o.name \in {"sqrt_float", "sqrt_double"} -> sqrt_fp(o.w, o.s[1], o.s[2])
     [] o.name \in {"ceil_float", "ceil_double"} -> round_fp(o.w, "up", o.s[1], o.s[2])
     [] o.name \in {"floor_float", "floor_double"} -> round_fp(o.w, "down", o.s[1], o.s[2])
     [] o.name \in {"round_to_nearest_int_float", "round_to_nearest_int_double"}
            -> round_fp(o.w, "near", o.s[1], o.s[2])
     [] o.name \in {"round_toward_zero_float", "round_toward_zero_double"}
            -> round_fp(o.w, "zero", o.s[1], o.s[2])
     [] o.name \in {"branch_float", "branch_double"} -> branch_fp(o.w, o.c, o.s[1], o.s[2])
     [] o.name \in {"compare_float", "compare_double"} -> compare_fp(o.w, o.c, o.s[1], o.s[2], o.s[3])
     [] o.name \in {"move_conditionally_float", "move_conditionally_double"}
            -> move_conditionally_fp(o.w, o.c, o.s[1], o.s[2], o.s[3], o.s[4])
     [] o.name \in {"move_conditionally_float_then_else", "move_conditionally_double_then_else"}
            -> move_conditionally_fp_then_else(o.w, o.c, o.s[1], o.s[2], o.s[3], o.s[4], o.s[5])
     [] o.name \in {"move_double_conditionally_float", "move_double_conditionally_double"}
            -> move_double_conditionally_fp(o.w, o.c, o.s[1], o.s[2], o.s[3], o.s[4], o.s[5])
     [] o.name = "branch_double_non_zero" -> branch_double_non_zero(o.s[1], F("x6"))
     [] o.name = "branch_double_zero_or_nan" -> branch_double_zero_or_nan(o.s[1], F("x6"))
     [] o.name = "branch_truncate_double_to_int32"
            -> branch_truncate_double_to_int32(o.s[1], o.s[2], o.c = "success")
     [] o.name = "branch_convert_double_to_int32"
            -> branch_convert_double_to_int32(o.s[1], o.s[2], F("x6"), o.c = "zero_check")
     [] o.name = "truncate_float_to_uint64" -> truncate_float_to_uint64(o.s[1], o.s[2], F("x6"), F("x11"))
     [] o.name = "store_pointer" -> store64(Absolute(o.s[1].v), o.s[2])
     [] o.name \in {"clear_bits64_with_mask"} -> clear_bits64_with_mask(o.s[1], o.s[2], TRUE)
     [] o.name = "clear_bits64_with_mask_rr" -> clear_bits64_with_mask_rr(o.s[1], o.s[2], o.s[3], TRUE)

-------------------------------------------------------------------------------
(* Operations *)

(* Those of the catalogue that MacroAssemblerX86Common has, and the         *)
(* operands it takes.                                                      *)
Unsupported ==
  {"test8", "abs_float", "negate_float", "move_float", "convert_uint64_to_float",
   "convert_uint64_to_double", "truncate_float_to_int32", "truncate_double_to_int32",
   "truncate_double_to_uint32"}
OnlyBased ==   (* no absolute address *)
  {"load8_signed_extend_to_32", "load16", "load16_signed_extend_to_32", "store16", "store_float",
   "store_double", "branch8", "sub_double_rr", "mul_double_rr"}
Supported(o) ==
  LET kind(i) == o.s[i].k
      constant(i) == kind(i) \in {"imm32", "imm64"}
  IN /\ o.name \notin Unsupported
     /\ o.name \in OnlyBased => \A x \in Range(o.s) : x.k # "abs"
     /\ kind(1) = "ext" => o.name = "load16"
     /\ o.name \in {"add64_rrr", "sub64_rrr", "or64_rrr"} => \A x \in Range(o.s) : x.k # "imm64"
     /\ o.name \in {"and64_rrr", "or32_rrr"} => ~constant(1)
     /\ o.name \in {"div_float", "div_double"} => o.s[1] = o.s[3] \/ o.s[2] # o.s[3]
     /\ o.name \in {"or16", "or32"} /\ kind(2) = "abs" => constant(1) = (o.name = "or16")
     /\ o.name = "store64" => /\ kind(1) = "imm32" => kind(2) # "abs"
                              /\ kind(1) = "imm64" => kind(2) # "addr"
     /\ o.name \in {"load_float", "load_double"} => kind(1) # "index"
     /\ o.name = "far_jump" => ~constant(1)
     /\ o.name = "test32_cond" => kind(1) = "reg" \/ constant(2)
     /\ o.name = "branch32" => kind(2) # "addr"
     /\ o.name = "branch64" => ~(kind(1) = "index" /\ constant(2))
     /\ o.name = "branch_add64_rrr" => ~constant(2)
     /\ o.name = "branch_sub64_rrr" => constant(2)
     /\ o.name = "add64" => ~(constant(1) /\ kind(2) = "abs")

Near == {Address("a", 4), BaseIndex("a", "b", 2, 4)}
Few == {Imm(Half, 1), Imm(Half, 40), Imm(Half, -1)}
FewOf(w) == IF w = Byte THEN {Imm(Half, 1), Imm(Half, -1)} ELSE IF w = Quarter THEN Few ELSE Few \union Imms(w)
IntoMemory(name, f, w) == Plain(name, "alu2", f, w, (AB \union FewOf(w)) \X Near)
FromMemory(name, f, w) == Plain(name, "alu2", f, w, Near \X AB)
Either32(name, k, f) == Plain(name, k, f, Half, ((Near \ Indexed) \X AB \X (A \union C)))
InPlace(name, f, w) == Plain(name, "inplace", f, w, {<<o>> : o \in Near})
Rotating(name, f, w) == TwoOperands(name, f, w, AB \union C \union Shifts)
ByMemory(name, f, w) == Plain(name, "alu3", f, w, {Address("a", 4)} \X AB \X (AB \union C))

ItsArithmetic ==
  UNION {UNION {IntoMemory(n[1], n[2], n[3]) :
                  n \in {<<"add8", "add", Byte>>, <<"add16", "add", Quarter>>, <<"add32", "add", Half>>,
                         <<"sub8", "sub", Byte>>, <<"sub16", "sub", Quarter>>, <<"sub32", "sub", Half>>,
                         <<"or8", "or", Byte>>, <<"or16", "or", Quarter>>, <<"and32", "and", Half>>,
                         <<"xor32", "xor", Half>>}},
         UNION {FromMemory(n[1], n[2], n[3]) :
                  n \in {<<"add32", "add", Half>>, <<"add64", "add", Full>>, <<"sub32", "sub", Half>>,
                         <<"sub64", "sub", Full>>, <<"and32", "and", Half>>, <<"and64", "and", Full>>,
                         <<"or32", "or", Half>>, <<"or64", "or", Full>>, <<"xor32", "xor", Half>>,
                         <<"xor64", "xor", Full>>, <<"and16", "and", Quarter>>}},
         UNION {Plain(n[1], "alu2", n[2], Full, (AB \union Few) \X Near) :
                  n \in {<<"add64", "add">>, <<"sub64", "sub">>, <<"and64", "and">>, <<"or64", "or">>}},
         Plain("xor64", "alu2", "xor", Full, (Few \X {Address("a", 4)}) \union (AB \X Near)),
         Plain("add64", "alu2", "add", Full, Imm64s \X {Address("a", 4)}),
         Plain("and64", "alu2", "and", Full, Imm64s \X {Address("a", 4)}),
         Plain("and8", "alu2", "and", Byte, (AB \X Near) \union (FewOf(Byte) \X {Address("a", 4)})),
         Plain("and16", "alu2", "and", Quarter, (AB \X Near) \union (Few \X {Address("a", 4)})),
         Plain("or32", "alu2", "or", Half, ((AB \union Few) \X Near) \union ({Address("b", 4)} \X {Address("a", 4)})),
         Plain("sub32", "alu2", "sub", Half, Few \X Absolutes),
         Plain("and32", "alu2", "and", Half, Few \X Absolutes),
         TwoOperands("and64", "and", Full, AB \union Imms(Full)), TwoOperands("or64", "or", Full, AB \union Imms(Full)),
         Plain("sub32_rrr", "alu3", "sub", Half, Few \X Near \X C),
         UNION {Either32(n[1], "alu3", n[2]) \union
                Plain(n[1], "alu3", n[2], Half, AB \X {Address("a", 4)} \X (A \union C)) :
                  n \in {<<"and32_rrr", "and">>, <<"or32_rrr", "or">>, <<"mul32_rrr", "mul">>}},
         Either32("xor32_rrr", "alu3", "xor"),
         TwoOperands("mul32", "mul", Half, AB \union Few \union {Address("a", 4)}),
         TwoOperands("mul64", "mul", Full, AB),
         UNION {InPlace(n[1], n[2], n[3]) :
                  n \in {<<"neg8", "neg", Byte>>, <<"neg16", "neg", Quarter>>, <<"neg32", "neg", Half>>,
                         <<"neg64", "neg", Full>>, <<"not8", "not", Byte>>, <<"not16", "not", Quarter>>,
                         <<"not32", "not", Half>>, <<"not64", "not", Full>>}},
         Plain("not64", "inplace", "not", Full, {<<R("a")>>}),
         Plain("add64", "alu2", "add", Full, Imms(Full) \X A),
         Plain("add_ptr_no_flags", "alu2", "add", Full, Few \X B),
         Plain("neg32_rr", "unary", "neg", Half, A \X AB)}

ItsBits ==
  UNION {UNION {Rotating(n[1], n[2], n[3]) :
                  n \in {<<"lshift32", "shl", Half>>, <<"rshift32", "sar", Half>>, <<"urshift32", "shr", Half>>,
                         <<"rotate_right32", "ror", Half>>, <<"rotate_left32", "rol", Half>>}},
         UNION {TwoOperands(n[1], n[2], Full, A \union C \union Shifts) :
                  n \in {<<"lshift64", "shl">>, <<"rshift64", "sar">>, <<"urshift64", "shr">>,
                         <<"rotate_right64", "ror">>, <<"rotate_left64", "rol">>}},
         UNION {Shifting(n[1], n[2], n[3], A) :
                  n \in {<<"rotate_right32_rrr", "ror", Half>>, <<"rotate_right64_rrr", "ror", Full>>,
                         <<"rotate_left32_rrr", "rol", Half>>, <<"rotate_left64_rrr", "rol", Full>>}},
         UNION {ByMemory(n[1], n[2], n[3]) :
                  n \in {<<"lshift32_rrr", "shl", Half>>, <<"lshift64_rrr", "shl", Full>>,
                         <<"rshift64_rrr", "sar", Full>>, <<"urshift64_rrr", "shr", Full>>,
                         <<"rotate_right64_rrr", "ror", Full>>, <<"rotate_left64_rrr", "rol", Full>>}},
         UNION {Plain(n[1], "unary", n[2], n[3], (A \union {Address("a", 4)}) \X AB) :
                  n \in {<<"count_population32", "popcnt", Half>>, <<"count_population64", "popcnt", Full>>,
                         <<"count_leading_zeros32", "clz", Half>>, <<"count_leading_zeros64", "clz", Full>>}},
         Plain("clear_bits64_with_mask", "alu2", "bic", Full, A \X B),
         Plain("clear_bits64_with_mask_rr", "alu3", "bic", Full, {<<R("b"), R("a"), R(d)>> : d \in {"b", "c"}})}

ItsMemory ==
  UNION {Plain("transfer32", "store", "id", Half, Addresses \X {Address("b", -40)}),
         Plain("transfer_ptr", "store", "id", Full, Addresses \X {Address("b", -40)}),
         Loads("load64_with_address_offset_patch", "id", Full, Full, Addresses),
         Loads("convertible_load_ptr", "id", Full, Full, {Address("a", 4)}),
         Plain("store64_with_address_offset_patch", "store", "id", Full, AB \X Addresses),
         Plain("store_pointer", "store", "id", Full, {Imm(Full, 1000)} \X Near),
         UNION {Plain(n[1], "exchange", "id", n[2], B \X n[3]) :
                  n \in {<<"xchg8", Byte, Near>>, <<"xchg16", Quarter, Near>>, <<"xchg32", Half, Near>>,
                         <<"xchg64", Full, A \union {Address("a", 4)}>>, <<"swap32", Half, A \union {Address("a", 4)}>>,
                         <<"swap64", Full, A \union {Address("a", 4)}>>}},
         Plain("mov", "unary", "id", Full, Near \X B),
         Plain("mov", "store", "id", Full, B \X Near), Plain("mov", "store", "id", Half, Imm32s \X Near),
         Extends("zero_extend8_to_64", "zext8", Byte, Full), Extends("zero_extend16_to_64", "zext16", Quarter, Full),
         Extends("sign_extend16_to_64", "sext16", Quarter, Full)}

Masks == {Imm(Half, 1), Imm(Half, 2), Imm(Half, 3), Imm(Half, 4), Imm(Half, 16), Imm(Half, 64), Imm(Half, -1)}
ItsControl ==
  UNION {Testing("branch_test8", "branch", Byte, Zeros, Absolutes \X {Imm(Byte, 2)}),
         Testing("branch_test8", "branch", Byte, Zeros, {Extended("a", 0, 4)} \X {Imm(Byte, 2), Imm(Byte, -1)}),
         Testing("branch_test16", "branch", Quarter, Zeros, Absolutes \X {Imm(Quarter, 2)}),
         Testing("branch_test16", "branch", Quarter, Zeros, {Extended("a", 0, 4)} \X {Imm(Quarter, 2)}),
         Testing("branch_test32", "branch", Half, Logical, (AB \union {Address("a", 4), Absolute(1000)}) \X Masks),
         Testing("branch_test64", "branch", Full, Logical, (AB \union {Address("a", 4)}) \X Masks),
         Testing("branch_test64", "branch", Full, Logical, A \X Imm64s),
         Testing("test32_cond", "compare", Half, Zeros, (B \union {Address("a", 4)}) \X Masks \X C),
         Testing("test64", "compare", Full, Zeros, AB \X Masks \X C),
         Family("branch_test_bit32", "branch", "bit", Half, Half, Zeros, (A \X (B \union Imm32s)) \union ({Address("a", 4)} \X Imm32s)),
         Family("branch_test_bit64", "branch", "bit", Full, Full, Zeros, A \X (B \union {Imm(Half, 1), Imm(Half, 13)})),
         Comparing("compare32", "compare", Half, AB \X {Imm(Half, 0)} \X C),
         Comparing("compare32", "compare", Half, (A \X {Address("b", 4)} \X C) \union ({Address("b", 4)} \X Few \X C)),
         Comparing("compare64", "compare", Full, AB \X {Imm(Half, 0)} \X C),
         Comparing("branch64", "branch", Full, A \X {Imm(Half, 0), Imm(Full, 0)}),
         Comparing("branch64", "branch", Full, {BaseIndex("a", "b", 2, 4)} \X B),
         Family("branch_add32", "branch_alu2", "add", Half, Half, ResultConditions, Few \X B),
         Family("branch_add64", "branch_alu2", "add", Full, Full, ResultConditions,
                ((AB \union Few \union {Address("a", 4)}) \X B) \union (Few \X {Address("a", 4)})),
         Family("branch_sub32", "branch_alu2", "sub", Half, Half, ResultConditions,
                ((AB \union Few \union {Address("a", 4)}) \X B) \union (Few \X {Address("a", 4), Absolute(1000)})),
         Family("branch_sub64", "branch_alu2", "sub", Full, Full, ResultConditions, (AB \union Few) \X B),
         Family("branch_mul32", "branch_alu2", "mul", Half, Half, ResultConditions, (A \union {Address("a", 4)}) \X B),
         Family("branch_mul32_rrr", "branch_alu3", "mul", Half, Half, ResultConditions,
                (Few \X B \X C) \union (A \X Few \X C)),
         Family("branch_or32", "branch_alu2", "or", Half, Half, Logical, (A \union Few) \X B),
         Family("branch_add32_rrr", "branch_alu3", "add", Half, Half, ResultConditions, {Address("a", 4)} \X B \X (AB \union C)),
         Family("branch_add64_rrr", "branch_alu3", "add", Full, Full, ResultConditions, {Address("a", 4)} \X B \X (AB \union C)),
         Moves("move_conditionally32_then_else", "choose", "cmp", Half, Full, Relations, A, {Imm(Half, 0)}, B \union C, A \union C),
         Moves("move_conditionally64_then_else", "choose", "cmp", Full, Full, Relations, A, {Imm(Half, 0)}, B \union C, A \union C),
         Moves("move_conditionally_test32", "move_if", "test", Half, Full, Zeros, AB, Masks, C, A),
         Moves("move_conditionally_test64", "move_if", "test", Full, Full, Zeros, AB, Masks, C, A),
         Moves("move_double_conditionally32", "choose", "cmp", Half, Full, Relations, A, B, FA \union FB, FA \union FC)}

ItsFloating ==
  LET Places2 == {Address("a", 4), BaseIndex("a", "b", 2, 4)}
  IN UNION {
       UNION {Plain(n[1], "float3", n[2], n[3], FAB \X {Address("a", 4)} \X (FB \union FC)) :
                n \in {<<"add_float", "fadd", Half>>, <<"add_double", "fadd", Full>>, <<"sub_float", "fsub", Half>>,
                       <<"sub_double", "fsub", Full>>, <<"mul_float", "fmul", Half>>, <<"mul_double", "fmul", Full>>}},
       UNION {Plain(n[1], "float3", n[2], n[3], {Address("a", 4)} \X FAB \X (FB \union FC)) :
                n \in {<<"add_float", "fadd", Half>>, <<"add_double", "fadd", Full>>, <<"mul_float", "fmul", Half>>,
                       <<"mul_double", "fmul", Full>>}},
       UNION {Plain(n[1], "float2", n[2], n[3], Places2 \X FB) :
                n \in {<<"add_float_rr", "fadd", Half>>, <<"sub_float_rr", "fsub", Half>>, <<"mul_float_rr", "fmul", Half>>,
                       <<"add_double_rr", "fadd", Full>>, <<"sub_double_rr", "fsub", Full>>, <<"mul_double_rr", "fmul", Full>>}},
       UNION {Plain(n[1], "float2", n[2], n[3], (FAB \union {Address("a", 4)}) \X FB) :
                n \in {<<"div_float_rr", "fdiv", Half>>, <<"div_double_rr", "fdiv", Full>>}},
       Plain("mul_float", "float3", "fmul", Half, FA \X {BaseIndex("a", "b", 2, 4)} \X FC),
       Float3("xor_float", "xor", Half), Float3("xor_double", "xor", Full),
       UNION {Plain(n[1], "float1", n[2], n[3], {Address("a", 4)} \X FB) :
                n \in {<<"sqrt_float", "sqrt", Half>>, <<"sqrt_double", "sqrt", Full>>, <<"ceil_double", "ceil", Full>>,
                       <<"floor_float", "floor", Half>>, <<"round_toward_zero_double", "trunc", Full>>}},
       Convert("convert_float_to_double", "resize", "", Half, Full, {Address("a", 4)}, FA),
       Convert("convert_double_to_float", "resize", "", Full, Half, {Address("a", 4)}, FA),
       Convert("convert_int32_to_float", "tofloat", "signed", Half, Half, {Address("a", 4)}, FA),
       Convert("convert_int64_to_float", "tofloat", "signed", Full, Half, {Address("a", 4)}, FA),
       Convert("convert_int64_to_double", "tofloat", "signed", Full, Full, {Address("a", 4)}, FA),
       Family("branch_convert_double_to_int32", "branch_exact", "", Full, Half, {"zero_check", "no_check"}, FA \X B),
       Plain("move_float_to32", "unary", "id", Half, FAB \X AB),
       Convert("move32_to_float", "unary", "id", Half, Half, Imm32s, FA),
       Convert("move64_to_double", "unary", "id", Full, Full, Imm64s, FA)}

X86Operations ==
  {o \in Catalogue : Supported(o)} \union ItsArithmetic \union ItsBits \union ItsMemory \union ItsControl
    \union ItsFloating

-------------------------------------------------------------------------------
(* The machine before *)

Generals == {[a |-> 3, b |-> 5, c |-> 258], [a |-> 65535, b |-> 128, c |-> 127],
             [a |-> 32768, b |-> 32767, c |-> 1], [a |-> 65408, b |-> 21888, c |-> 43647],
             [a |-> 0, b |-> 0, c |-> 21845]}
Others == [d |-> 23205, r8 |-> 1111, r11 |-> 23715, sp |-> 2000]
Magnitudes(w) == {0, 6, 18, 100, Infinite(w), NaN(w)} \union (IF w = Full THEN {600} ELSE {})
Floats(w) ==
  {[fa |-> x, fb |-> y, fc |-> 5] :
     x \in Magnitudes(w) \union {MinusZero(w) + 6, MinusZero(w)}, y \in {6, MinusZero(w) + 18, NaN(w)}}
OtherFloats == [x1 |-> 291, x6 |-> 4369, x7 |-> 17476, x11 |-> Infinite(Half)]
X86Starts(o) ==
  LET floating == o.s[1].k = "freg"
  IN {[g |-> g @@ Others, f |-> f @@ OtherFloats, mem |-> <<>>, out |-> <<>>,
       flags |-> Flags(FALSE, TRUE, TRUE, FALSE, FALSE)] :
        g \in IF floating THEN {[a |-> 3, b |-> 5, c |-> 258]} ELSE Generals,
        f \in IF floating THEN Floats(o.w) ELSE {[fa |-> 6, fb |-> 2, fc |-> 5]}}

-------------------------------------------------------------------------------
(* What the code is known to get wrong.                                    *)

Wrong == {"abs_double", "negate_double", "add_ptr_no_flags", "zero_extend8_to_64",
          "branch_convert_double_to_int32", "truncate_float_to_int64"}
Rounding ==
  {"ceil_float", "ceil_double", "floor_float", "floor_double", "round_to_nearest_int_float",
   "round_to_nearest_int_double", "round_toward_zero_float", "round_toward_zero_double"}
Shifts32 == {"lshift32", "rshift32", "urshift32", "rotate_right32", "rotate_left32"}
Shifts32Into ==
  {"lshift32_rrr", "rshift32_rrr", "urshift32_rrr", "rotate_right32_rrr", "rotate_left32_rrr"}

(* The instruction is not the one that was meant: a constant too wide or   *)
(* of another width, a register whose byte or number is another's.         *)
Misencoded(o) ==
  \/ o.name = "add16" /\ o.s[1].k = "imm32" /\ ~can_sign_extend_8_32(o.s[1])
  \/ o.name = "add64" /\ o.s[1].k = "imm32" /\ ~can_sign_extend_8_32(o.s[1]) /\ o.s[2] = eax
  \/ o.name = "branch_sub32" /\ One(o.s[1]) /\ o.s[2].k = "reg"
  \/ o.name = "branch_sub32_rrr" /\ One(o.s[2])
  \/ o.name \in {"or8", "sub8", "xchg8"} /\ o.s[1] = R("b")
  \/ o.name \in Rounding /\ F("fb") \in Range(o.s)
  \/ o.name = "move_float_to32" /\ XNumber[o.s[1].r] # Number[o.s[2].r]

(* A test of fewer bits than the mask was made for, of more, or of others. *)
Mistested(o) ==
  \/ o.name \in {"branch_test8", "branch_test16"} /\ o.s[2].v = -1
  \/ o.name = "branch_test32" /\ o.s[1].k = "abs"
  \/ /\ o.name = "branch_test32" /\ o.c \in {"Signed", "PositiveOrZero"}
     /\ o.s[1] = eax \/ o.s[1].k = "addr"
     /\ o.s[2].k = "imm32" /\ o.s[2].v \in 2^(Byte - 1)..(2^Byte - 1)
  \/ /\ o.name \in {"test64", "branch_test64", "move_conditionally_test64"}
     /\ o.s[1] = R("b") /\ o.s[2].k = "imm32" /\ o.s[2].v \in 0..(2^(Byte - 1) - 1)

(* An operand overwritten before it is used, when it is the destination.   *)
Overwritten(o) ==
  \/ o.name \in Shifts32 /\ o.s[1] = o.s[2] /\ o.s[1] # ecx
  \/ o.name \in Shifts32Into /\ o.s[1].k = "reg" /\ o.s[2] = o.s[3]
  \/ /\ o.name \in {"sub32_rrr", "or64_rrr", "sub_float", "sub_double"}
     /\ o.s[2] = o.s[3] /\ o.s[1] # o.s[2] /\ (o.name = "or64_rrr" => o.s[1].k = "reg")
  \/ o.name = "branch_add64_rrr" /\ o.s[1].k = "addr" /\ o.s[1].base = o.s[3].r

(* A form with the instructions of another, or with none.                  *)
Misformed(o) ==
  \/ o.name = "and64" /\ o.s[1].k = "reg" /\ o.s[2].k = "index"
  \/ o.name = "mul_float" /\ o.s[2].k = "index"
  \/ o.name = "or32" /\ o.s[1].k = "addr" /\ o.s[2].k = "addr"
  \/ o.name = "sub32_rrr" /\ InMemory(o.s[2])
  \/ o.name = "branch_mul32_rrr" /\ ~(o.s[1].k = "reg" /\ o.s[2].k = "reg")
  \/ o.name = "store64" /\ o.s[1] = eax /\ o.s[2].k = "abs"
  \/ o.name \in {"far_jump", "call_op"} /\ o.s[1].k = "abs"
  \/ o.name = "load16" /\ o.s[1].k = "ext"
  \/ o.name = "mov" /\ o.k = "unary" /\ o.s[1].k = "imm32" /\ o.s[1].v < 0
  \/ o.name = "move_conditionally32_then_else" /\ o.s[2].k = "imm32" /\ ~AgainstZero(o.c, o.s[2])
  \/ o.name \in {"compare_float", "compare_double"} /\ o.c = "NotEqualOrUnordered" /\ o.s[1] # o.s[2]
  \/ /\ o.name \in {"move_conditionally_float", "move_conditionally_double",
                    "move_conditionally_float_then_else", "move_conditionally_double_then_else"}
     /\ o.c \in {"EqualOrUnordered", "NotEqualOrUnordered"}

X86Flawed(o) == o.name \in Wrong \/ Misencoded(o) \/ Mistested(o) \/ Overwritten(o) \/ Misformed(o)

(* Those that write a register they were not given: for good, or until     *)
(* they end.  A count is put in ecx, a mask is complemented, and a wide    *)
(* constant goes to memory through eax.                                    *)
Shifts64 == {"lshift64", "rshift64", "urshift64", "rotate_right64", "rotate_left64"}
Shifts64Into ==
  {"lshift64_rrr", "rshift64_rrr", "urshift64_rrr", "rotate_right64_rrr", "rotate_left64_rrr"}
Borrows(o) ==
  \/ o.name \in Shifts32 \union Shifts64 /\ o.s[1].k = "reg" /\ o.s[1] # ecx
  \/ o.name \in Shifts32Into \union Shifts64Into /\ o.s[2].k = "reg" /\ o.s[2] # ecx
  \/ o.name \in {"clear_bits64_with_mask", "clear_bits64_with_mask_rr"}
  \/ o.name = "store64" /\ o.s[1].k = "imm64" /\ o.s[2].k = "abs"
X86Unruly(o) ==
  \/ Borrows(o)
  \/ o.name \in Rounding /\ F("fb") \in Range(o.s)
  \/ o.name = "or32" /\ o.s[1].k = "addr" /\ o.s[2].k = "addr"
  \/ o.name = "move_float_to32" /\ XNumber[o.s[1].r] # Number[o.s[2].r]

================================================================================
