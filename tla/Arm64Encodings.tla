----------------------------- MODULE Arm64Encodings -----------------------------
(***************************************************************************)
(* ARM64Assembler (arm64assembler.rs): the instruction each of its         *)
(* functions puts in the buffer, by way of the function that encodes its   *)
(* class.  What a wrong field makes of the instruction is modelled as the  *)
(* machine decodes it.  An offset of a branch counts instructions.         *)
(***************************************************************************)
EXTENDS Arm64Machine

Log2(w) == CASE w = Byte -> 0 [] w = Quarter -> 1 [] w = Half -> 2 [] w = Full -> 3
LOAD == 1
STORE == 0
LOADS64 == LOAD     (* PREFETCH, which is LOAD *)
LOADS32 == 3

-------------------------------------------------------------------------------
(* ARM64LogicalImmediate *)

highest_set_bit(v) == CHOOSE n \in 0..(Full - 1) : 2^n <= v /\ v < 2^(n + 1)
(* Of a word whose topmost bit is clear, and of what is left of it without  *)
(* the run of ones it ends in.                                             *)
RunBelow(rest, hsb, inverted) ==
  LET lsb == highest_set_bit(rest)
  IN IF rest = 0 THEN [found |-> TRUE, hsb |-> hsb, lsb |-> 0, inverted |-> inverted]
     ELSE [found |-> rest = Ones(lsb), hsb |-> hsb, lsb |-> lsb + 1, inverted |-> inverted]
RunFrom(x, hsb, inverted) == RunBelow(x ^^ Ones(hsb), hsb, inverted)
RunOf(x, inverted) == RunFrom(x, highest_set_bit(x), inverted)
find_bit_range(v, w) ==
  IF v >= 2^(w - 1) THEN RunOf(v ^^ Ones(w - 1), TRUE) ELSE RunOf(v, FALSE)
encode_logical_immediate(w, b) ==
  IF b.inverted THEN [width |-> w, r |-> w - 1 - b.hsb, s |-> (w - (b.hsb - b.lsb + 1)) - 1]
  ELSE [width |-> w, r |-> (w - b.lsb) % w, s |-> b.hsb - b.lsb]
NoPattern == [width |-> 0, r |-> 0, s |-> 0]
EncodedOr(b, w, narrower) ==
  IF b.found THEN encode_logical_immediate(w, b) ELSE narrower
create(v, w) ==
  LET at[n \in 1..Log2(Full) + 1] ==   (* elements of 2^n bits *)
        LET e == v % 2^(2^n)
            half == 2^(2^(n - 1))
        IN EncodedOr(find_bit_range(e, 2^n), 2^n,
                     IF n > 1 /\ e % half = e \div half THEN at[n - 1] ELSE NoPattern)
  IN IF v \in {0, 2^w - 1} THEN NoPattern ELSE at[Log2(w) + 1]
Pattern(v, w) == create(Wrap(v, w), w)
LogicalImmediate(v, w) == Pattern(v, w) # NoPattern

-------------------------------------------------------------------------------
(* The encodings *)

Emitted(i) == <<i>>
(* The S bit of an extended addition is set in the wrong place. *)
add_subtract_extended_register(w, op, S, m, extend, amount, n, d) ==
  Emitted(IF S THEN <<"undefined">> ELSE <<"add_extended", w, op, FALSE, m, extend, amount, n, d>>)
(* The field shift has two bits, of which only the lower is allocated:     *)
(* twelve is that of a bitfield move.                                      *)
add_subtract_immediate(w, op, S, shift, imm, n, d) ==
  LET x == imm % 2^Imm12
  IN Emitted(CASE shift = 0 -> <<"add_imm", w, op, S, x, n, d>>
               [] shift = 1 -> <<"add_imm", w, op, S, x * 2^Imm12, n, d>>
               [] OTHER -> IF w = Full THEN <<"undefined">>
                           ELSE <<"bitfield", w, IF S THEN "BFM" ELSE "SBFM", x \div 8, x % 8, n, d>>)
add_subtract_shifted_registers(w, op, S, shift, m, amount, n, d) ==
  Emitted(<<"add_shifted", w, op, S, shift, m, amount, n, d>>)
bitfield(w, op, immr, imms, n, d) == Emitted(<<"bitfield", w, op, immr, imms, n, d>>)
compare_and_branch_immediate(w, nonzero, offset, t) ==
  Emitted(<<"compare_branch", w, nonzero, offset, t>>)
conditional_branch_immediate(offset, cond) == Emitted(<<"b_cond", offset, cond>>)
conditional_select(w, invert, m, cond, increment, n, d) ==
  Emitted(<<"select", w, invert, increment, m, cond, n, d>>)
data_processing_1_source(w, op, n, d) == Emitted(<<"one_source", w, op, n, d>>)
data_processing_2_source(w, m, op, n, d) == Emitted(<<"two_source", w, m, op, n, d>>)
data_processing_3_source(w, op, m, a, n, d) == Emitted(<<"three_source", w, op, m, a, n, d>>)
extract(w, m, lsb, n, d) == Emitted(<<"extract", w, m, lsb, n, d>>)
floating_point_compare(w, m, n) == Emitted(<<"fp_compare", w, m, n>>)
floating_point_conditional_select(w, m, cond, n, d) == Emitted(<<"fp_select", w, m, cond, n, d>>)
floating_point_integer_conversion_f2i(i, f, op, n, d) == Emitted(<<"fp_to_integer", i, f, op, n, d>>)
floating_point_integer_conversion_i2f(i, f, op, n, d) == Emitted(<<"integer_to_fp", i, f, op, n, d>>)
floating_point_data_processing_1_source(w, op, n, d) == Emitted(<<"fp_one_source", w, op, n, d>>)
(* The second register is placed on bits that the word already has, so it  *)
(* is the first of all; the number of FT, which is higher, also makes      *)
(* another class of the word.                                              *)
floating_point_data_processing_2_source(w, op, m, n, d) ==
  Emitted(IF m # "q31" THEN <<"fp_two_source", w, op, "q0", n, d>>
          ELSE IF op = "fsub" THEN <<"usqadd", w, n, d>> ELSE <<"undefined">>)
(* What tells an or from an and goes to bit 30, the width of the vector.   *)
vector_data_processing_logical(op, m, n, d) == Emitted(<<"vector_logic", "AND", m, n, d>>)
simd_move_immediate(d) == Emitted(<<"vector_zero", d>>)   (* of a zero *)

mem_pair_offset_shift(v, size) == IF v THEN size + 2 ELSE (size \div 4) + 2
PairImmediate(size, v, imm) == Signed(imm \div 2^mem_pair_offset_shift(v, size), Imm7)
load_store_register_pair_post_index(size, v, opc, imm, n, t, t2) ==
  Emitted(<<"pair", size, v, opc, "post", PairImmediate(size, v, imm), n, t, t2>>)
load_store_register_pair_post_index_gp(size, v, opc, imm, n, t, t2) ==
  load_store_register_pair_post_index(size, v, opc, imm, n, t, t2)
load_store_register_pair_pre_index(size, v, opc, imm, n, t, t2) ==
  Emitted(<<"pair", size, v, opc, "pre", PairImmediate(size, v, imm), n, t, t2>>)
load_store_register_pair_pre_index_gp(size, opc, imm, n, t, t2) ==
  load_store_register_pair_pre_index(size, FALSE, opc, imm, n, t, t2)
load_store_register_pair_offset(size, v, opc, imm, n, t, t2) ==
  Emitted(<<"pair", size, v, opc, "offset", PairImmediate(size, v, imm), n, t, t2>>)
load_store_register_pair_offset_gp(size, v, opc, imm, n, t, t2) ==
  load_store_register_pair_offset(size, v, opc, imm, n, t, t2)
load_store_register_pair_non_temporal(size, v, opc, imm, n, t, t2) ==
  load_store_register_pair_offset(size, v, opc, imm, n, t, t2)
load_store_register_pair_non_temporal_gp(size, v, opc, imm, n, t, t2) ==
  load_store_register_pair_non_temporal(size, v, opc, imm, n, t, t2)
load_store_register_offset(w, v, opc, m, extend, S, n, t) ==
  Emitted(<<"access", w, v, opc, <<"register", m, extend, IF S THEN Log2(w) ELSE 0>>, n, t>>)
load_store_register_offset_gp(w, v, opc, m, extend, S, n, t) ==
  load_store_register_offset(w, v, opc, m, extend, S, n, t)
load_store_register_unscaled_immediate(w, v, opc, imm, n, t) ==
  Emitted(<<"access", w, v, opc, <<"imm", Signed(imm, Imm9)>>, n, t>>)
load_store_register_unscaled_immediate_gp(w, v, opc, imm, n, t) ==
  load_store_register_unscaled_immediate(w, v, opc, imm, n, t)
load_store_register_unsigned_immediate(w, v, opc, imm, n, t) ==
  Emitted(<<"access", w, v, opc, <<"imm", (imm % 2^Imm12) * (w \div Byte)>>, n, t>>)
load_store_register_unsigned_immediate_gp(w, v, opc, imm, n, t) ==
  load_store_register_unsigned_immediate(w, v, opc, imm, n, t)
logical_immediate(w, op, imm, n, d) == Emitted(<<"logical_imm", w, op, imm, n, d>>)
logical_shifted_register(w, op, shift, inverted, m, amount, n, d) ==
  Emitted(<<"logical_shifted", w, op, shift, inverted, m, amount, n, d>>)
move_wide_immediate(w, op, position, imm, d) == Emitted(<<"move_wide", w, op, position, imm, d>>)
unconditional_branch_immediate(offset) == Emitted(<<"b", offset>>)
test_and_branch_immediate(nonzero, bit, offset, t) ==
  Emitted(<<"test_branch", nonzero, bit, offset, t>>)
unconditional_branch_register(op, n) == Emitted(<<"branch_register", op, n>>)
=================================================================================
