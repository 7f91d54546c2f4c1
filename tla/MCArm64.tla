-------------------------------- MODULE MCArm64 --------------------------------
(***************************************************************************)
(* Every operation of MacroAssemblerARM64 on small words: those it shares  *)
(* with the catalogue and those of its own, assembled with the temporaries *)
(* of the assembler remembered or not, and executed.                       *)
(***************************************************************************)
EXTENDS Assembled, MacroCatalogue, Arm64Macro

Arm64Of(o) ==
  LET r(i) == o.s[i].r
  IN CASE o.name = "add32" -> add32(o.s[1], o.s[2])
       [] o.name = "add64" -> add64(o.s[1], o.s[2])
       [] o.name = "sub32" -> sub32(o.s[1], o.s[2])
       [] o.name = "xor64" -> xor64(o.s[1], o.s[2])
       [] o.name = "or32" -> or32(o.s[1], o.s[2])
       [] o.name = "or8" -> or8(o.s[1], o.s[2])
       [] o.name = "or16" -> or16(o.s[1], o.s[2])
       [] o.name = "store8" -> store8(o.s[1], o.s[2])
       [] o.name = "store16" -> store16(o.s[1], o.s[2])
       [] o.name = "store32" -> store32(o.s[1], o.s[2])
       [] o.name = "store64" -> store64(o.s[1], o.s[2])
       [] o.name = "transfer32" -> transfer32(o.s[1], o.s[2])
       [] o.name = "transfer64" -> transfer64(o.s[1], o.s[2])
       [] o.name = "sub64" -> sub64(o.s[1], r(2))
       [] o.name = "and32" -> and32(o.s[1], r(2))
       [] o.name = "and64" -> and64(o.s[1], r(2))
       [] o.name = "or64" -> or64(o.s[1], r(2))
       [] o.name = "mul32" -> mul32(o.s[1], r(2))
       [] o.name = "xor32" -> xor32(o.s[1], r(2))
       [] o.name = "add32_rrr" -> add32_rrr(o.s[1], r(2), r(3))
       [] o.name = "add64_rrr" -> add64_rrr(o.s[1], r(2), r(3))
       [] o.name = "mul32_rrr" -> mul32_rrr(o.s[1], r(2), r(3))
       [] o.name = "mul64_rrr" -> mul64_rrr(o.s[1], r(2), r(3))
       [] o.name = "and32_rrr" -> and32_rrr(o.s[1], r(2), r(3))
       [] o.name = "and64_rrr" -> and64_rrr(o.s[1], r(2), r(3))
       [] o.name = "or32_rrr" -> or32_rrr(o.s[1], r(2), r(3))
       [] o.name = "or64_rrr" -> or64_rrr(o.s[1], r(2), r(3))
       [] o.name = "xor32_rrr" -> xor32_rrr(o.s[1], r(2), r(3))
       [] o.name = "xor64_rrr" -> xor64_rrr(o.s[1], r(2), r(3))
       [] o.name = "sub32_rrr" -> sub32_rrr(r(1), o.s[2], r(3))
       [] o.name = "sub64_rrr" -> sub64_rrr(r(1), o.s[2], r(3))
       [] o.name = "rshift32_rrr" -> rshift32_rrr(r(1), o.s[2], r(3))
       [] o.name = "rshift64_rrr" -> rshift64_rrr(r(1), o.s[2], r(3))
       [] o.name = "urshift32_rrr" -> urshift32_rrr(r(1), o.s[2], r(3))
       [] o.name = "urshift64_rrr" -> urshift64_rrr(r(1), o.s[2], r(3))
       [] o.name = "rotate_right32_rrr" -> rotate_right32_rrr(r(1), o.s[2], r(3))
       [] o.name = "rotate_right64_rrr" -> rotate_right64_rrr(r(1), o.s[2], r(3))
       [] o.name = "lshift32_rrr" -> lshift32_rrr(o.s[1], o.s[2], r(3))
       [] o.name = "lshift64_rrr" -> lshift64_rrr(o.s[1], o.s[2], r(3))
       [] o.name = "lshift32" -> lshift32(o.s[1], r(2))
       [] o.name = "lshift64" -> lshift64(o.s[1], r(2))
       [] o.name = "rshift32" -> rshift32(o.s[1], r(2))
       [] o.name = "rshift64" -> rshift64(o.s[1], r(2))
       [] o.name = "urshift32" -> urshift32(o.s[1], r(2))
       [] o.name = "urshift64" -> urshift64(o.s[1], r(2))
       [] o.name = "rotate_right32" -> rotate_right32(o.s[1], r(2))
       [] o.name = "rotate_right64" -> rotate_right64(o.s[1], r(2))
       [] o.name = "neg32" -> neg32(r(1))
       [] o.name = "neg64" -> neg64(r(1))
       [] o.name = "not32" -> not32(r(1))
       [] o.name = "not64" -> not64(r(1))
       [] o.name = "neg32_rr" -> neg32_rr(r(1), r(2))
       [] o.name = "neg64_rr" -> neg64_rr(r(1), r(2))
       [] o.name = "not32_rr" -> not32_rr(r(1), r(2))
       [] o.name = "not64_rr" -> not64_rr(r(1), r(2))
       [] o.name = "count_leading_zeros32" -> count_leading_zeros32(r(1), r(2))
       [] o.name = "count_leading_zeros64" -> count_leading_zeros64(r(1), r(2))
       [] o.name = "count_trailing_zeros32" -> count_trailing_zeros32(r(1), r(2))
       [] o.name = "count_trailing_zeros64" -> count_trailing_zeros64(r(1), r(2))
       [] o.name = "zero_extend8_to_64" -> zero_extend8_to_64(r(1), r(2))
       [] o.name = "zero_extend16_to_32" -> zero_extend16_to_32(r(1), r(2))
       [] o.name = "zero_extend16_to_64" -> zero_extend16_to_64(r(1), r(2))
       [] o.name = "zero_extend32_to_word" -> zero_extend32_to_word(r(1), r(2))
       [] o.name = "zero_extend48_to_word" -> zero_extend48_to_word(r(1), r(2))
       [] o.name = "signed_extend16_to_32" -> signed_extend16_to_32(r(1), r(2))
       [] o.name = "sign_extend16_to_32" -> sign_extend16_to_32(r(1), r(2))
       [] o.name = "sign_extend16_to_64" -> sign_extend16_to_64(r(1), r(2))
       [] o.name = "sign_extend8_to_32" -> sign_extend8_to_32(r(1), r(2))
       [] o.name = "sign_extend8_to_64" -> sign_extend8_to_64(r(1), r(2))
       [] o.name = "swap" -> swap(r(1), r(2))
       [] o.name = "swap_double" -> swap_double(r(1), r(2))
       [] o.name = "push_pair" -> push_pair(r(1), r(2))
       [] o.name = "pop_pair" -> pop_pair(r(1), r(2))
       [] o.name = "move_double" -> move_double(r(1), r(2))
       [] o.name = "move_double_to64" -> move_double_to64(r(1), r(2))
       [] o.name = "move_float_to32" -> move_float_to32(r(1), r(2))
       [] o.name = "convert_float_to_double" -> convert_float_to_double(r(1), r(2))
       [] o.name = "convert_double_to_float" -> convert_double_to_float(r(1), r(2))
       [] o.name = "clear_bits64_with_mask" -> clear_bits64_with_mask(r(1), r(2))
       [] o.name = "byte_swap16" -> byte_swap16(r(1), r(1))
       [] o.name = "byte_swap32" -> byte_swap32(r(1), r(1))
       [] o.name = "byte_swap64" -> byte_swap64(r(1), r(1))
       [] o.name = "load8" -> load8(o.s[1], r(2))
       [] o.name = "load8_signed_extend_to_32" -> load8_signed_extend_to_32(o.s[1], r(2))
       [] o.name = "load16" -> load16(o.s[1], r(2))
       [] o.name = "load16_signed_extend_to_32" -> load16_signed_extend_to_32(o.s[1], r(2))
       [] o.name = "load32" -> load32(o.s[1], r(2))
       [] o.name = "load64" -> load64(o.s[1], r(2))
       [] o.name = "get_effective_address" -> get_effective_address(o.s[1], r(2))
       [] o.name = "sign_extend32_to_64" -> sign_extend32_to_64(o.s[1], r(2))
       [] o.name = "mov" -> mov(o.s[1], r(2))
       [] o.name = "move64_to_double" -> move64_to_double(o.s[1], r(2))
       [] o.name = "move32_to_float" -> move32_to_float(o.s[1], r(2))
       [] o.name = "load64_with_address_offset_patch"
             -> load64_with_address_offset_patch(o.s[1], r(2))
       [] o.name = "convertible_load_ptr" -> convertible_load_ptr(o.s[1], r(2))
       [] o.name = "store64_with_address_offset_patch"
             -> store64_with_address_offset_patch(r(1), o.s[2])
       [] o.name = "load_pair32" -> load_pair32(o.s[1].base, o.s[1].off, r(2), r(3))
       [] o.name = "load_pair64" -> load_pair64(o.s[1].base, o.s[1].off, r(2), r(3))
       [] o.name = "load_pair64_with_non_temporal_access"
             -> load_pair64_with_non_temporal_access(o.s[1].base, o.s[1].off, r(2), r(3))
       [] o.name = "store_pair32" -> store_pair32(r(1), r(2), o.s[3].base, o.s[3].off)
       [] o.name = "store_pair64" -> store_pair64(r(1), r(2), o.s[3].base, o.s[3].off)
       [] o.name = "store_pair64_with_non_temporal_access"
             -> store_pair64_with_non_temporal_access(r(1), r(2), o.s[3].base, o.s[3].off)
       [] o.name = "load_pair32_pre" -> load_pair32_pre(o.s[1].base, o.s[1].off, r(2), r(3))
       [] o.name = "load_pair32_post" -> load_pair32_post(o.s[1].base, o.s[1].off, r(2), r(3))
       [] o.name = "store_pair32_pre" -> store_pair32_pre(r(1), r(2), o.s[3].base, o.s[3].off)
       [] o.name = "store_pair32_post" -> store_pair32_post(r(1), r(2), o.s[3].base, o.s[3].off)
       [] o.name = "store_pair64_pre" -> store_pair64_pre(r(1), r(2), o.s[3].base, o.s[3].off)
       [] o.name = "store_pair64_post" -> store_pair64_post(r(1), r(2), o.s[3].base, o.s[3].off)
       [] o.name = "load_pair_float" -> load_pair_float(o.s[1].base, o.s[1].off, r(2), r(3))
       [] o.name = "load_pair_double" -> load_pair_double(o.s[1].base, o.s[1].off, r(2), r(3))
       [] o.name \in {"store_pair_float", "store_pair_double"}
             -> store_pair_fp(o.w, r(1), r(2), o.s[3].base, o.s[3].off)
       [] o.name = "call_op" -> call_op(o.s[1])
       [] o.name = "push_to_save" -> push_to_save(o.s[1])
       [] o.name = "pop_to_restore" -> pop_to_restore(r(1))
       [] o.name = "push_to_save_fp" -> push_to_save_fp(r(1))
       [] o.name = "pop_to_restore_fp" -> pop_to_restore_fp(r(1))
       [] o.name = "move_zero_to_float" -> move_zero_to_float(r(1))
       [] o.name = "move_zero_to_double" -> move_zero_to_double(r(1))
       [] o.name = "branch_double_non_zero" -> branch_double_non_zero(r(1))
       [] o.name = "branch_double_zero_or_nan" -> branch_double_zero_or_nan(r(1))
       [] o.name = "push_to_save_immediate_without_touching_registers"
             -> push_to_save_immediate_without_touching_registers(o.s[1])
       [] o.name = "call" -> link_call(call, o.s[1].v)
       [] o.name = "move_with_fixed_width"
             -> IF o.w = Half THEN move_with_fixed_width32(o.s[1].v, r(2)) ELSE move_with_fixed_width64(o.s[1].v, r(2))
       [] o.name = "add_zero_extend64" -> add_zero_extend64(r(1), r(2), r(4))
       [] o.name = "add_sign_extend64" -> add_sign_extend64(r(1), r(2), r(4))
       [] o.name = "clear_bit64" -> clear_bit64(r(3), r(4), r(5))
       [] o.name = "clear_bits_with_mask" -> clear_bits_with_mask(o.w, r(1), r(2), r(3))
       [] o.name = "or_not" -> or_not(o.w, r(1), r(2), r(3))
       [] o.name = "xor_not" -> xor_not(o.w, r(1), r(2), r(3))
       [] o.name = "div" -> div(o.w, r(1), r(2), r(3))
       [] o.name = "udiv" -> udiv(o.w, r(1), r(2), r(3))
       [] o.name = "add_shift" -> add_shift(o.w, o.c, r(1), r(2), o.s[3].v, r(4))
       [] o.name = "sub_shift" -> sub_shift(o.w, o.c, r(1), r(2), o.s[3].v, r(4))
       [] o.name = "and_shift" -> and_shift(o.w, o.c, r(1), r(2), o.s[3].v, r(4))
       [] o.name = "or_shift" -> or_shift(o.w, o.c, r(1), r(2), o.s[3].v, r(4))
       [] o.name = "xor_shift" -> xor_shift(o.w, o.c, r(1), r(2), o.s[3].v, r(4))
       [] o.name = "xor_not_shift" -> xor_not_shift(o.w, o.c, r(1), r(2), o.s[3].v, r(4))
       [] o.name = "extract_unsigned_bitfield"
             -> extract_unsigned_bitfield(o.w, r(1), o.s[2].v, o.s[3].v, r(4))
       [] o.name = "extract_unsigned_bitfield_in_zero"
             -> extract_unsigned_bitfield_in_zero(o.w, r(1), o.s[2].v, o.s[3].v, r(4))
       [] o.name = "insert_bitfield" -> insert_bitfield(o.w, r(1), o.s[2].v, o.s[3].v, r(4))
       [] o.name = "extract_insert_bitfield_at_lowend"
             -> extract_insert_bitfield_at_lowend(o.w, r(1), o.s[2].v, o.s[3].v, r(4))
       [] o.name = "insert_signed_bitfield_in_zero"
             -> insert_signed_bitfield_in_zero(o.w, r(1), o.s[2].v, o.s[3].v, r(4))
       [] o.name = "extract_signed_bitfield"
             -> extract_signed_bitfield(o.w, r(1), o.s[2].v, o.s[3].v, r(4))
       [] o.name = "clear_bitfield" -> clear_bitfield(o.w, o.s[2].v, o.s[3].v, r(4))
       [] o.name = "extract_register" -> extract_register(o.w, r(1), r(2), o.s[3].v, r(4))
       [] o.name = "multiply_add" -> multiply_add(o.w, r(1), r(2), r(3), r(4))
       [] o.name = "multiply_sub" -> multiply_sub(o.w, r(1), r(2), r(3), r(4))
       [] o.name = "multiply_neg" -> multiply_neg(o.w, r(1), r(2), r(3))
       [] o.name = "multiply_add_signed_extend32"
             -> multiply_add_signed_extend32(r(1), r(2), r(3), r(4))
       [] o.name = "multiply_add_zero_extend32" -> multiply_add_zero_extend32(r(1), r(2), r(3), r(4))
       [] o.name = "multiply_sub_signed_extend32"
             -> multiply_sub_signed_extend32(r(1), r(2), r(3), r(4))
       [] o.name = "multiply_sub_zero_extend32" -> multiply_sub_zero_extend32(r(1), r(2), r(3), r(4))
       [] o.name = "multiply_sign_extend32" -> multiply_sign_extend32(r(1), r(2), r(3))
       [] o.name = "multiply_zero_extend32" -> multiply_zero_extend32(r(1), r(2), r(3))
       [] o.name = "multiply_neg_extend32" -> multiply_neg_extend32(o.c, r(1), r(2), r(3))
       [] o.name = "branch8" -> branch8(o.c, o.s[1], o.s[2].v)
       [] o.name = "branch_test8" -> branch_test8(o.c, o.s[1], o.s[2].v)
       [] o.name = "branch_test16" -> branch_test16(o.c, o.s[1], o.s[2].v)
       [] o.name = "branch32" -> branch32(o.c, o.s[1], o.s[2])
       [] o.name = "branch64" -> branch64(o.c, o.s[1], o.s[2])
       [] o.name = "branch_test32" -> branch_test32(o.c, o.s[1], o.s[2])
       [] o.name = "branch_test64" -> branch_test64(o.c, o.s[1], o.s[2])
       [] o.name = "branch_add32" -> branch_add32(o.c, o.s[1], o.s[2])
       [] o.name = "branch_add64" -> branch_add64(o.c, o.s[1], o.s[2])
       [] o.name = "branch_sub32" -> branch_sub32(o.c, o.s[1], o.s[2])
       [] o.name = "branch_sub64" -> branch_sub64(o.c, o.s[1], o.s[2])
       [] o.name = "branch_add32_rrr" -> branch_add32_rrr(o.c, r(1), o.s[2], r(3))
       [] o.name = "branch_add64_rrr" -> branch_add64_rrr(o.c, r(1), o.s[2], r(3))
       [] o.name = "branch_sub32_rrr" -> branch_sub32_rrr(o.c, r(1), o.s[2], r(3))
       [] o.name = "branch_sub64_rrr" -> branch_sub64_rrr(o.c, r(1), o.s[2], r(3))
       [] o.name = "test32_rrr" -> test32_rrr(o.c, r(1), o.s[2], r(3))
       [] o.name = "test64_rrr" -> test64_rrr(o.c, r(1), o.s[2], r(3))
       [] o.name \in {"add_float", "add_double"} -> add_fp(o.w, r(1), r(2), r(3))
       [] o.name \in {"add_float_rr", "add_double_rr"} -> add_fp_rr(o.w, o.s[1], r(2))
       [] o.name \in {"div_float", "div_double"} -> div_fp(o.w, r(1), r(2), r(3))
       [] o.name \in {"div_float_rr", "div_double_rr"} -> div_fp_rr(o.w, r(1), r(2))
       [] o.name \in {"mul_float", "mul_double"} -> mul_fp(o.w, r(1), r(2), r(3))
       [] o.name \in {"mul_float_rr", "mul_double_rr"} -> mul_fp_rr(o.w, o.s[1], r(2))
       [] o.name \in {"sub_float", "sub_double"} -> sub_fp(o.w, r(1), r(2), r(3))
       [] o.name \in {"sub_float_rr", "sub_double_rr"} -> sub_fp_rr(o.w, o.s[1], r(2))
       [] o.name \in {"and_float", "and_double"} -> and_fp(r(1), r(2), r(3))
       [] o.name \in {"or_float", "or_double"} -> or_fp(r(1), r(2), r(3))
       [] o.name \in {"float_max", "double_max"} -> max_fp(r(1), r(2), r(3))
       [] o.name \in {"float_min", "double_min"} -> min_fp(r(1), r(2), r(3))
       [] o.name \in {"abs_float", "abs_double"} -> abs(o.w, r(1), r(2))
       [] o.name \in {"ceil_float", "ceil_double"} -> ceil(o.w, r(1), r(2))
       [] o.name \in {"floor_float", "floor_double"} -> floor(o.w, r(1), r(2))
       [] o.name \in {"negate_float", "negate_double"} -> negate(o.w, r(1), r(2))
       [] o.name \in {"sqrt_float", "sqrt_double"} -> sqrt(o.w, r(1), r(2))
       [] o.name \in {"round_to_nearest_int_float", "round_to_nearest_int_double"}
             -> round_to_nearest_int(o.w, r(1), r(2))
       [] o.name \in {"round_toward_zero_float", "round_toward_zero_double"}
             -> round_toward_zero(o.w, r(1), r(2))
       [] o.name \in {"load_float", "load_double"} -> load_fp(o.w, o.s[1], r(2))
       [] o.name \in {"store_float", "store_double"} -> store_fp(o.w, r(1), o.s[2])
       [] o.name \in {"convert_int32_to_float", "convert_int32_to_double"}
             -> convert_int32_to_fp(o.rw, o.s[1], r(2))
       [] o.name \in {"convert_int64_to_float", "convert_int64_to_double"}
             -> convert_int64_to_fp(o.rw, o.s[1], r(2))
       [] o.name \in {"convert_uint64_to_float", "convert_uint64_to_double"}
             -> convert_uint64_to_fp(o.rw, o.s[1], r(2))
       [] o.name \in {"truncate_float_to_int32", "truncate_float_to_int64", "truncate_float_to_uint32", "truncate_float_to_uint64", "truncate_double_to_int32", "truncate_double_to_int64", "truncate_double_to_uint32", "truncate_double_to_uint64"}
             -> truncate(o.rw, o.w, o.f = "signed", r(1), r(2))
       [] o.name = "branch_truncate_double_to_int32"
             -> branch_truncate_double_to_int32(r(1), r(2), o.c = "success")
       [] o.name = "branch_convert_double_to_int32"
             -> branch_convert_double_to_int32(r(1), r(2), o.c = "zero_check")
       [] o.name \in {"branch_float", "branch_double"} -> branch_fp(o.w, o.c, r(1), o.s[2])
       [] o.name \in {"compare_float", "compare_double"}
             -> compare_fp(o.w, o.c, r(1), o.s[2], r(3))
       [] o.name = "move_conditionally_test32"
             -> move_conditionally_test32(o.c, r(1), o.s[2], r(3), r(4))
       [] o.name = "move_conditionally32" -> move_conditionally32(o.c, r(1), o.s[2], r(3), r(4))
       [] o.name = "move_conditionally64" -> move_conditionally64(o.c, r(1), r(2), r(3), r(4))
       [] o.name = "move_conditionally_test64"
             -> move_conditionally_test64(o.c, r(1), r(2), r(3), r(4))
       [] o.name = "move_conditionally32_then_else"
             -> move_conditionally32_then_else(o.c, r(1), o.s[2], r(3), r(4), r(5))
       [] o.name = "move_conditionally64_then_else"
             -> move_conditionally64_then_else(o.c, r(1), o.s[2], r(3), r(4), r(5))
       [] o.name = "move_conditionally_test32_then_else"
             -> move_conditionally_test32_then_else(o.c, r(1), o.s[2], r(3), r(4), r(5))
       [] o.name = "move_double_conditionally32"
             -> move_double_conditionally32(o.c, r(1), o.s[2], r(3), r(4), r(5))
       [] o.name = "move_double_conditionally64"
             -> move_double_conditionally64(o.c, r(1), o.s[2], r(3), r(4), r(5))
       [] o.name = "move_double_conditionally_test32"
             -> move_double_conditionally_test32(o.c, r(1), o.s[2], r(3), r(4), r(5))
       [] o.name = "move_conditionally_test64_then_else"
             -> move_conditionally_test64_then_else(o.c, r(1), r(2), r(3), r(4), r(5))
       [] o.name = "move_double_conditionally_test64"
             -> move_double_conditionally_test64(o.c, r(1), r(2), r(3), r(4), r(5))
       [] o.name \in {"move_conditionally_float", "move_conditionally_double"}
             -> move_conditionally_fp(o.w, o.c, r(1), o.s[2], r(3), r(4))
       [] o.name \in {"move_conditionally_float_then_else", "move_conditionally_double_then_else"}
             -> move_conditionally_fp_then_else(o.w, o.c, r(1), o.s[2], r(3), r(4), r(5))
       [] o.name \in {"move_double_conditionally_float", "move_double_conditionally_double"}
             -> move_double_conditionally_fp(o.w, o.c, r(1), o.s[2], r(3), r(4), r(5))

-------------------------------------------------------------------------------
(* Operations *)

(* Those of the catalogue that MacroAssemblerARM64 has, and the operands it *)
(* takes.                                                                  *)
Unsupported ==
  {"compare8", "compare32", "compare64", "test8", "test32_cond", "test64", "far_jump",
   "move_with_patch", "store_ptr_with_patch", "branch32_with_patch", "branch_ptr_with_patch",
   "branch_mul32_rrr", "branch_mul64_rrr", "branch_mul64", "branch_neg32", "branch_neg64",
   "move_float", "zero_extend8_to_32", "push", "pop", "push_to_save"}
Supported(o) ==
  LET kind(i) == o.s[i].k
      constant(i) == kind(i) \in {"imm32", "imm64"}
  IN /\ o.name \notin Unsupported
     /\ kind(1) = "ext" => o.name = "load16"
     /\ o.name = "store16" /\ constant(1) => kind(2) = "abs"
     /\ o.name = "or16" => constant(1)
     /\ o.name = "branch32" => ~InMemory(o.s[2]) /\ ~(kind(1) \in {"addr", "index"} /\ constant(2))
     /\ o.name = "branch64" => /\ ~(kind(1) = "index" /\ constant(2))
                               /\ ~(kind(1) = "addr" /\ kind(2) = "imm32")
     /\ o.name \in {"branch_test64", "xor32"} => ~InMemory(o.s[1])
     /\ o.name = "move_double_conditionally_test64" => ~constant(2)
     /\ o.name \in {"sub_double_rr", "mul_double_rr"} => kind(1) # "abs"

More32s == {Imm(Half, 83), Imm(Half, 0)}
MoreAddresses == {Address("b", -4), Address("a", 8), Address("a", 96)}
Fields(name, f, w) ==
  Plain(name, "bitfield", f, w, A \X {Imm(Half, 0), Imm(Half, 3)} \X {Imm(Half, 2), Imm(Half, 4)} \X AB)
ShiftedOperands(name, f, w) ==
  {[o EXCEPT !.c = c] : o \in Plain(name, "shifted", f, w, A \X B \X {Imm(w, 0), Imm(w, 3)} \X (B \union C)),
                        c \in {"shl", "shr", "sar"}}
Fuses(name, f, w, rw, c, operands) == Family(name, "fused", f, w, rw, {c}, operands)
BothWidths(at(_)) == at(Half) \union at(Full)

OfTheirOwn ==
  LET three(name, f, xs) ==
        LET at(w) == Plain(name, "alu3", f, w, xs \X AB \X (A \union C)) IN BothWidths(at)
      fields(name, f) == LET at(w) == Fields(name, f, w) IN BothWidths(at)
      shifted(name, f) == LET at(w) == ShiftedOperands(name, f, w) IN BothWidths(at)
      fused(name, f, operands) == LET at(w) == Fuses(name, f, w, w, "", operands) IN BothWidths(at)
      unary(name, f, w) == Family(name, "unary", f, w, w, {""}, A \X AB)
      wide(name, f, c, operands) == Fuses(name, f, Half, Full, c, operands)
      four == AB \X B \X C \X B
      two == AB \X B \X C
  IN UNION {
       TwoOperands("and64", "and", Full, AB \union Imms(Full) \union Addresses),
       TwoOperands("or64", "or", Full, AB \union Imms(Full)),
       TwoOperands("mul32", "mul", Half, AB \union Imm32s),
       Plain("mul64_rrr", "alu3", "mul", Full, Imm32s \X AB \X (A \union C)),
       TwoOperands("add64", "add", Full, MoreAddresses \union More32s),
       TwoOperands("sub64", "sub", Full, More32s),
       TwoOperands("clear_bits64_with_mask", "bic", Full, AB),
       UNION {TwoOperands(n[1], n[2], n[3], AB \union Shifts) :
                n \in {<<"lshift32", "shl", Half>>, <<"lshift64", "shl", Full>>,
                       <<"rshift32", "sar", Half>>, <<"rshift64", "sar", Full>>,
                       <<"urshift32", "shr", Half>>, <<"urshift64", "shr", Full>>,
                       <<"rotate_right32", "ror", Half>>, <<"rotate_right64", "ror", Full>>}},
       Shifting("lshift32_rrr", "shl", Half, Addresses),
       Shifting("rotate_right32_rrr", "ror", Half, A), Shifting("rotate_right64_rrr", "ror", Full, A),
       Plain("not64", "inplace", "not", Full, {<<R("a")>>}),
       unary("neg32_rr", "neg", Half), unary("neg64_rr", "neg", Full),
       unary("not32_rr", "not", Half), unary("not64_rr", "not", Full),
       Extends("zero_extend8_to_64", "zext8", Byte, Full),
       Extends("zero_extend16_to_64", "zext16", Quarter, Full),
       Extends("zero_extend48_to_word", "zext48", Full, Full),
       Extends("signed_extend16_to_32", "sext16", Quarter, Half),
       Extends("sign_extend16_to_64", "sext16", Quarter, Full),
       three("clear_bits_with_mask", "bic", AB), three("or_not", "orn", AB), three("xor_not", "xorn", AB),
       three("div", "div", AB), three("udiv", "udiv", AB),
       shifted("add_shift", "add"), shifted("sub_shift", "sub"), shifted("and_shift", "and"),
       shifted("or_shift", "or"), shifted("xor_shift", "xor"), shifted("xor_not_shift", "xorn"),
       Family("add_zero_extend64", "shifted", "add", Full, Full, {"zext"}, AB \X B \X {Imm(Half, Half)} \X C),
       Family("add_sign_extend64", "shifted", "add", Full, Full, {"sext"}, AB \X B \X {Imm(Half, Half)} \X C),
       Family("clear_bit64", "shifted", "bic", Full, Full, {"shl"},
              {<<R(d), Imm(Full, 1), R("b"), R(d), R(t)>> : d \in {"a", "b"}, t \in {"DT"}}),
       fields("extract_unsigned_bitfield", "ubfx"), fields("extract_unsigned_bitfield_in_zero", "ubfiz"),
       fields("insert_bitfield", "bfi"), fields("extract_insert_bitfield_at_lowend", "bfxil"),
       fields("insert_signed_bitfield_in_zero", "sbfiz"), fields("extract_signed_bitfield", "sbfx"),
       Plain("clear_bitfield", "bitfield", "bfi", Full,
             {Imm(Full, 0)} \X {Imm(Half, 0), Imm(Half, 3)} \X {Imm(Half, 4)} \X A),
       Plain("extract_register", "extract", "", Full, AB \X B \X {Imm(Half, 0), Imm(Half, 5)} \X C),
       fused("multiply_add", "add", four), fused("multiply_sub", "sub", four), fused("multiply_neg", "sub", two),
       wide("multiply_add_signed_extend32", "add", "signed", four),
       wide("multiply_add_zero_extend32", "add", "unsigned", four),
       wide("multiply_sub_signed_extend32", "sub", "signed", four),
       wide("multiply_sub_zero_extend32", "sub", "unsigned", four),
       wide("multiply_sign_extend32", "add", "signed", two), wide("multiply_zero_extend32", "add", "unsigned", two),
       wide("multiply_neg_extend32", "sub", "signed", two), wide("multiply_neg_extend32", "sub", "unsigned", two)}

Moving == {Address("a", 8), Address("a", -8), Address("a", 90)}
ApartAt == {Address("a", 8), Address("a", 4), Address("a", 90)}
ItsMemory ==
  UNION {Loads("load32", "id", Half, Half, MoreAddresses), Loads("load64", "id", Full, Full, MoreAddresses),
         Loads("load8", "zext8", Byte, Half, MoreAddresses),
         Plain("store32", "store", "id", Half, (B \union {Imm(Half, 40)}) \X MoreAddresses),
         Plain("store64", "store", "id", Full, (B \union {Imm(Full, 300)}) \X MoreAddresses),
         Plain("transfer32", "store", "id", Half, Addresses \X Addresses),
         Plain("load_pair32", "loadpair", "id", Half, {Address("a", 90)} \X AB \X C),
         Plain("load_pair64", "loadpair", "id", Full, {Address("a", 90)} \X AB \X C),
         Plain("load_pair64_with_non_temporal_access", "loadpair", "id", Full, {Address("a", 4), Address("a", 90)} \X AB \X C),
         Plain("store_pair32", "storepair", "id", Half, AB \X B \X {Address("a", 90)}),
         Plain("store_pair64", "storepair", "id", Full, AB \X B \X {Address("a", 90)}),
         Plain("store_pair64_with_non_temporal_access", "storepair", "id", Full,
               AB \X B \X {Address("a", 4), Address("a", 90)}),
         Family("load_pair32_pre", "loadpair_moving", "pre", Half, Full, {""}, Moving \X B \X C \X A),
         Family("load_pair32_post", "loadpair_moving", "post", Half, Full, {""}, Moving \X B \X C \X A),
         Family("store_pair32_pre", "storepair_moving", "pre", Half, Full, {""}, B \X C \X Moving \X A),
         Family("store_pair32_post", "storepair_moving", "post", Half, Full, {""}, B \X C \X Moving \X A),
         Family("store_pair64_pre", "storepair_moving", "pre", Full, Full, {""}, B \X C \X Moving \X A),
         Family("store_pair64_post", "storepair_moving", "post", Full, Full, {""}, B \X C \X Moving \X A),
         Plain("load_pair_float", "loadpair", "id", Half, ApartAt \X FA \X FB),
         Plain("load_pair_double", "loadpair", "id", Full, ApartAt \X FA \X FB),
         Plain("store_pair_float", "storepair", "id", Half, FA \X FB \X ApartAt),
         Plain("store_pair_double", "storepair", "id", Full, FA \X FB \X ApartAt),
         Loads("load64_with_address_offset_patch", "id", Full, Full, Addresses),
         Plain("store64_with_address_offset_patch", "store", "id", Full, AB \X Addresses),
         Loads("convertible_load_ptr", "id", Full, Full, {Address("a", 4), Address("a", 8)})}

ItsControl ==
  UNION {Family("push_to_save", "push", "", Full, Full, {"two"}, {<<o>> : o \in A \union Addresses \union Imm32s}),
         Family("push_to_save_fp", "push", "", Full, Full, {"two"}, {<<F("fa")>>}),
         Family("push_to_save_immediate_without_touching_registers", "push", "", Full, Full, {"two"},
                {<<o>> : o \in Imm64s}),
         Family("pop_to_restore", "pop", "", Full, Full, {"two"}, {<<R("a")>>}),
         Family("pop_to_restore_fp", "pop", "", Full, Full, {"two"}, {<<F("fa")>>}),
         Plain("call", "jump", "call", Full, {<<Imm(Full, 1000)>>}),
         Plain("move_with_fixed_width", "unary", "id", Half, {Imm(Half, 5), Imm(Half, 83)} \X B),
         Plain("move_with_fixed_width", "unary", "id", Full, {Imm(Full, 5), Imm(Full, 1000)} \X B),
         Comparing("branch32", "branch", Half, A \X More32s),
         Comparing("branch64", "branch", Full, A \X More32s),
         Family("branch_add64", "branch_alu2", "add", Full, Full, ResultConditions,
                ((B \union Imm32s \union {Address("a", 4)}) \X B)
                \union (Imm32s \X {Address("a", 4), Absolute(1000)})),
         Family("branch_sub32", "branch_alu2", "sub", Half, Half, ResultConditions,
                ((B \union Imm32s \union {Address("a", 4)}) \X B)
                \union (Imm32s \X {Address("a", 4), Absolute(1000)})),
         Family("branch_sub64", "branch_alu2", "sub", Full, Full, ResultConditions,
                ((B \union Imm32s \union {Address("a", 4)}) \X B)
                \union (Imm32s \X {Address("a", 4), Absolute(1000)})),
         Testing("branch_test64", "branch", Full, Logical,
                 (A \X Imm64s) \union ({Address("a", 4), BaseIndex("a", "b", 2, 4)} \X Imm64s)),
         Testing("branch_test32", "branch", Half, Logical, A \X {Imm(Half, 16)}),
         Testing("test32_rrr", "compare", Half, Zeros, A \X (AB \union Imm32s \union {Imm(Half, -1)}) \X (A \union C)),
         Testing("test64_rrr", "compare", Full, Zeros, A \X (AB \union Imm32s \union {Imm(Half, -1)}) \X (A \union C)),
         Moves("move_conditionally32", "move_if", "cmp", Half, Full, Relations, A, {Imm(Half, 0), Imm(Half, 83)}, C, AB),
         Moves("move_conditionally32_then_else", "choose", "cmp", Half, Full, Relations,
               A, {Imm(Half, 0)}, B \union C, A),
         Moves("move_conditionally64_then_else", "choose", "cmp", Full, Full, Relations,
               A, {Imm(Half, 0), Imm(Half, 83)}, B \union C, A)}

ItsFloating ==
  LET withMemory(w) == (FAB \union Addresses) \X FB
  IN UNION {
       Plain("add_float_rr", "float2", "fadd", Half, withMemory(Half)),
       Plain("sub_float_rr", "float2", "fsub", Half, withMemory(Half)),
       Plain("mul_float_rr", "float2", "fmul", Half, withMemory(Half)),
       Plain("div_float_rr", "float2", "fdiv", Half, FAB \X FB),
       Float3("float_max", "fmax", Half), Float3("double_max", "fmax", Full),
       Float3("float_min", "fmin", Half), Float3("double_min", "fmin", Full),
       Family("branch_float", "branch", "cmp", Half, Half, FloatConditions, FA \X {Imm(Half, 0)}),
       Family("compare_double", "compare", "cmp", Full, Full, FloatConditions, FA \X {Imm(Full, 0)} \X A),
       Convert("convert_int32_to_double", "tofloat", "signed", Half, Full, {Address("a", 4)}, FA),
       Convert("move64_to_double", "unary", "id", Full, Full, Imm64s, FA),
       Convert("move32_to_float", "unary", "id", Half, Half, Imm32s, FA)}

(* The temporaries before: with nothing known of them, and with constants  *)
(* that are near those the operation uses.                                 *)
Caches(raw) ==
  LET uses == \E i \in Range(raw) : i[1] \in {"cached", "load_internal", "store_internal"}
  IN {<<>>} \union (IF uses THEN {[DT |-> -128, MT |-> 998], [DT |-> 40, MT |-> 1007],
                                  [DT |-> 300, MT |-> 944]} ELSE {})
WithCaches(o) == {o @@ [cache |-> c] : c \in Caches(o.raw)}
Arm64Operations ==
  UNION {WithCaches(o @@ [raw |-> Arm64Of(o)]) :
           o \in {p \in Catalogue : Supported(p)} \union OfTheirOwn \union ItsMemory \union ItsControl
                 \union ItsFloating}

Assembling(o) == Emit(o.raw, o.cache)
Arm64Code(o) == Assembling(o).code

-------------------------------------------------------------------------------
(* The machine before *)

Generals == {[a |-> 3, b |-> 5, c |-> 258], [a |-> 65535, b |-> 128, c |-> 127],
             [a |-> 32768, b |-> 32767, c |-> 1], [a |-> 65408, b |-> 21888, c |-> 43647],
             [a |-> 0, b |-> 0, c |-> 21845]}
Magnitudes(w) == {0, 6, 18, 100, Infinite(w), NaN(w)} \union (IF w = Full THEN {600} ELSE {})
Floats(w) ==
  {[fa |-> x, fb |-> y, fc |-> 5] :
     x \in Magnitudes(w) \union {MinusZero(w) + 6, MinusZero(w)}, y \in {6, MinusZero(w) + 18, NaN(w)}}
Others == [DT |-> 23205, MT |-> 23715, lr |-> 7, x0 |-> 1111, sp |-> 2000]
OtherFloats == [q0 |-> 291, q16 |-> 4369, q17 |-> 17476, q30 |-> 8738, q31 |-> 21930]
Arm64Starts(o) ==
  LET floating == o.s[1].k = "freg"
      cached == [t \in DOMAIN o.cache |-> Wrap(o.cache[t], Full)]
  IN {[g |-> g @@ cached @@ Others, f |-> f @@ OtherFloats,
       mem |-> <<>>, out |-> <<>>, nzcv |-> Flags(FALSE, TRUE, TRUE, FALSE)] :
        g \in IF floating THEN {[a |-> 3, b |-> 5, c |-> 258]} ELSE Generals,
        f \in IF floating THEN Floats(o.w) ELSE {[fa |-> 6, fb |-> 2, fc |-> 5]}}
-------------------------------------------------------------------------------

(* What the code is known to get wrong.                                    *)

(* Constants.  move_internal writes some of the halfwords of a constant    *)
(* and leaves the others as they were; one of thirty-two bits is not       *)
(* extended; and one that is shifted by twelve is encoded as another.      *)
Partial(w, v) ==
  /\ Wrap(v, w) \notin {0, 2^w - 1}
  /\ ~I!LogicalImmediate(v, w)
  /\ \E i \in 0..((w \div Quarter) - 1) : get_half_word(v, i, w) \in {0, 2^Quarter - 1}
Misplaced(v) == try_extract_shifted_imm(v).shift # 0
Constants(o) == {x \in Range(o.s) : x.k \in {"imm32", "imm64"}}
WidthOf(x) == IF x.k = "imm64" THEN Full ELSE Half

Adding ==
  {"add32", "add32_rrr", "add64", "add64_rrr", "sub32", "sub32_rrr", "sub64", "sub64_rrr",
   "branch_add32", "branch_add32_rrr", "branch_add64", "branch_add64_rrr",
   "branch_sub32", "branch_sub32_rrr", "branch_sub64", "branch_sub64_rrr"}
Comparing32Or64 ==
  {"branch32", "branch64", "move_conditionally32", "move_conditionally32_then_else",
   "move_conditionally64_then_else", "move_double_conditionally32", "move_double_conditionally64"}
Extending ==
  {"add64", "add64_rrr", "branch_add64", "branch_add64_rrr", "branch_sub64", "branch_sub64_rrr",
   "and64", "and64_rrr", "or64", "or64_rrr", "branch_test64", "test64_rrr"}
Masking ==
  {"and32", "and32_rrr", "and64", "and64_rrr", "or32_rrr", "or64", "or64_rrr", "xor32", "xor32_rrr",
   "xor64", "xor64_rrr", "branch_test64", "test64_rrr"}
NotExtending == {"branch_test64", "mov", "mul64_rrr", "push_to_save", "store64", "xor64", "xor64_rrr"}
WrongConstant(o) ==
  \E x \in Constants(o) :
    LET partial == Partial(IF o.name \in Extending THEN Full ELSE WidthOf(x), x.v)
    IN \/ o.name \in Adding \union Comparing32Or64 /\ Misplaced(x.v)
       \/ o.name \in Adding /\ ~Encodable(x.v) /\ partial
       \/ o.name \in Masking /\ ~I!LogicalImmediate(x.v, o.w) /\ partial
       \/ o.name \in {"mov", "move64_to_double"} /\ partial
       \/ o.name = "sign_extend32_to_64" /\ Partial(Full, x.v)
       \/ o.name \in NotExtending /\ o.w = Full /\ x.k = "imm32" /\ x.v < 0
       \/ o.name \in {"xor64", "xor64_rrr"} /\ x.k = "imm32" /\ x.v # -1 /\ I!LogicalImmediate(x.v, Half)
       (* in memory, a constant that is not encodable is lost *)
       \/ /\ o.name \in Adding \ {"sub32"}
          /\ InMemory(o.s[2])
          /\ ~Encodable(x.v)
       (* a comparison of a float with zero is one with q0 *)
       \/ o.s[1].k = "freg"

(* The requests an operation makes of the temporaries, each with what is   *)
(* known of them when it is made; and which of them move a constant whole. *)
Requests(o) ==
  {[i |-> o.raw[k], known |-> Emit(SubSeq(o.raw, 1, k - 1), o.cache).cache] :
        k \in {j \in DOMAIN o.raw : o.raw[j][1] \in {"cached", "load_internal", "store_internal"}}}
Moved(q) ==
  /\ q.i[1] = "cached"
  /\ ~(q.i[3] \in DOMAIN q.known /\ SameUpper(q.i[4], q.known[q.i[3]], Half))
Internal(q) == q.i[1] # "cached"
FromAnother(q) == Internal(q) /\ Near(q.i[2], q.known, q.i[4])
Anew(q) == Internal(q) /\ ~FromAnother(q) /\ ~SameButLow(q.known, q.i[4])

(* An offset that is neither small nor too large is encoded as another, and *)
(* a store at one is a load.                                               *)
Scaled(w, off) == ~can_encode_simm_offset(off) /\ can_encode_pimm_offset(w, off)
ScaledAddress(o, x) == x.k = "addr" /\ Scaled(o.w, x.off)
ScaledAbsolute(o) ==
  \E q \in Requests(o) : FromAnother(q) /\ Scaled(q.i[2], q.i[4] - q.known["MT"])

SignedByte(o) ==
  \/ o.name = "load8_signed_extend_to_32"
  \/ o.name = "branch8" /\ ~is_unsigned_rel(o.c)
  \/ o.name = "branch_test8" /\ ~is_unsigned_res(o.c)
LoadsOfFloats == {"load_float", "load_double", "load_pair_float", "load_pair_double"}
Patched == {"load64_with_address_offset_patch", "store64_with_address_offset_patch"}
Paired == {"load_pair32", "store_pair32", "load_pair32_pre", "load_pair32_post", "store_pair32_pre", "store_pair32_post"}
PairedFP == {"load_pair_float", "load_pair_double", "store_pair_float", "store_pair_double"}
WrongAddress(o) ==
  \E x \in Range(o.s) :
    \/ /\ x.k = "addr"
       /\ o.name \notin Patched
       /\ ~can_encode_simm_offset(x.off)
       /\ ~(o.name \in Paired /\ I!is_valid_ldp_imm(Half, x.off))
       /\ ~(o.name \in PairedFP /\ I!is_valid_ldp_fp_imm(o.w, x.off))
       /\ IF Scaled(o.w, x.off) THEN o.name \notin LoadsOfFloats /\ (o.w = Byte => SignedByte(o))
          ELSE Partial(Full, x.off)
    \/ /\ x.k = "index"
       /\ x.off # 0
       /\ IF x.scale \in {0, Scale(o.w)} /\ Folds(x) THEN o.name \in LoadsOfFloats \/ Misplaced(x.off)
          ELSE Partial(Full, x.off) \/ o.name = "load_float"
    \/ x.k = "index" /\ x.scale # 0 /\ o.w = Full /\ o.name \notin LoadsOfFloats
WrongAbsolute(o) ==
  \/ \E q \in Requests(o) :
       (Moved(q) /\ Partial(q.i[2], q.i[4])) \/ (Anew(q) /\ Partial(Full, q.i[4]))
  \/ ScaledAbsolute(o)
  \/ o.name = "store8" /\ o.s[2].k = "abs"

(* Wrong for all their operands and conditions. *)
Wrong ==
  {"add_double", "add_double_rr", "add_float", "add_float_rr", "sub_double", "sub_double_rr",
   "sub_float", "sub_float_rr", "mul_double", "mul_double_rr", "mul_float", "mul_float_rr",
   "div_double", "div_double_rr", "div_float", "div_float_rr", "float_max", "float_min",
   "double_max", "double_min", "or_float", "or_double", "or8", "store_float", "store_double",
   "convertible_load_ptr", "load_pair64", "load_pair64_with_non_temporal_access", "store_pair64",
   "store_pair64_with_non_temporal_access", "store_pair64_pre", "store_pair64_post", "push_pair", "pop_pair", "push_to_save_fp",
   "push_to_save_immediate_without_touching_registers", "branch_double_non_zero",
   "branch_double_zero_or_nan", "branch_truncate_double_to_int32",
   "move_conditionally_float_then_else", "move_double_conditionally_float"}

Arm64Flawed(o) ==
  \/ o.name \in Wrong
  \/ WrongConstant(o) \/ WrongAddress(o) \/ WrongAbsolute(o)
  \/ o.name \in {"branch_sub64", "branch_sub64_rrr"} /\ \A x \in Range(o.s) : x.k \notin {"imm32", "abs"}
  \/ o.name \in {"load_pair32_pre", "load_pair32_post"} /\ ~I!is_valid_ldp_imm(Half, o.s[1].off)
  \/ o.name \in {"store_pair32_pre", "store_pair32_post"} /\ ~I!is_valid_ldp_imm(Half, o.s[3].off)
  \/ o.name \in {"store_pair_float", "store_pair_double"} /\ ~I!is_valid_ldp_fp_imm(o.w, o.s[3].off)
  \/ o.name = "branch_convert_double_to_int32" /\ o.c = "zero_check"
  \/ o.name = "call_op" /\ o.s[1].k = "abs"
  \/ o.name = "or32" /\ o.s[2].k = "addr"
  \/ o.name = "clear_bitfield" /\ o.s[2].v # 0
  \/ o.name \in {"compare_float", "compare_double"} /\ o.c = "NotEqualAndOrdered"
  \/ o.name = "move_conditionally_double_then_else" /\ o.c = "EqualOrUnordered"
  \/ o.name = "move_conditionally32_then_else" /\ TestsZero(o.c, o.s[2]) /\ o.s[1] = o.s[5]

(* Those that write a register they were not given; when it is the         *)
(* constant to store, it is the temporary that holds it.                   *)
StoresByLoading(o) ==
  o.name \in {"store32", "store64"} /\ (ScaledAbsolute(o) \/ ScaledAddress(o, o.s[2]))
Arm64Unruly(o) ==
  \/ o.name \in {"load_pair64", "load_pair64_with_non_temporal_access"} /\ I!is_valid_ldp_imm(Full, o.s[1].off)
  \/ StoresByLoading(o) /\ o.s[1].k = "reg"

(* Constants remembered that are not there: the ones above, a negative one *)
(* of 32 bits, remembered as one of 64, and an address whose low halfword  *)
(* is written over that of the one remembered, which is kept.              *)
Stale(o) ==
  LET remembered == DOMAIN Assembling(o).cache
  IN \/ StoresByLoading(o) /\ \E x \in Constants(o) : x.v # 0
     \/ \E q \in Requests(o) :
          IF Internal(q) THEN /\ "MT" \in remembered
                              /\ ~FromAnother(q)
                              /\ SameButLow(q.known, q.i[4]) \/ Partial(Full, q.i[4])
          ELSE q.i[3] \in remembered /\ Moved(q) /\ (Partial(q.i[2], q.i[4]) \/ (q.i[2] = Half /\ q.i[4] < 0))

(* Whatever an operation leaves behind as a constant known to be in a      *)
(* temporary register is in that register: the next operation, whose code  *)
(* depends on it, starts from the truth.                                   *)
CachedValuesHold ==
  Finished /\ ~Stale(op) =>
    LET known == Assembling(op).cache
    IN \A t \in DOMAIN known : machine.g[t] = Wrap(known[t], Full)

===============================================================================
