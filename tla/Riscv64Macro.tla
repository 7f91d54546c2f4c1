------------------------------ MODULE Riscv64Macro ------------------------------
(***************************************************************************)
(* MacroAssemblerRISCV64 (macro_assembler_riscv64.rs): the instructions    *)
(* each operation emits.  Operands are those of MacroOps; an operation     *)
(* that takes a register takes its name here.                              *)
(***************************************************************************)
EXTENDS Riscv64Machine

-------------------------------------------------------------------------------
(* The assembler (riscv64assembler.rs) *)

(* IImmediate::is_valid shifts an i32 as an i64 by 32 - 12 bits, which     *)
(* loses nothing: it accepts every i32.                                    *)
is_valid(o) == o.k = "imm32" \/ FitsSigned(o.v, IBits)

mask_register(d, r, bits) ==
  << <<"slli", d, r, Full - bits>>, <<"srli", d, d, Full - bits>> >>
sign_extend(d, r, bits) ==
  CASE bits = Full -> <<>>
    [] bits = Half -> << <<"addiw", d, r, 0>> >>
    [] OTHER -> << <<"slli", d, r, Full - bits>>, <<"srai", d, d, Full - bits>> >>
zero_extend(d, r, bits) == IF bits = Full THEN <<>> ELSE mask_register(d, r, bits)

(* FSGNJN_D and FSGNJX_D have the format bits of other precisions; the     *)
(* conversions, those of other instructions.                               *)
fsgnj(w, d, a, b) == << <<"fsgnj", w, d, a, b>> >>
fsgnjn(w, d, a, b) == IF w = Half THEN << <<"fsgnjn", w, d, a, b>> >> ELSE << <<"illegal">> >>
fsgnjx(w, d, a, b) == IF w = Half THEN << <<"fsgnjx", w, d, a, b>> >> ELSE << <<"illegal">> >>
fcvt_fp2si(w, d, r, rm) == << <<"fcvt_int", Half, d, r, w, TRUE, rm>> >>
fcvt_fp2ui(w, d, r, rm) ==
  IF w = Half THEN << <<"fcvt_int", Full, d, r, Half, TRUE, rm>> >>
  ELSE << <<"fcvt_int", Half, d, r, Full, FALSE, rm>> >>
fcvt_si2fp(w, d, r) == << <<"fcvt_float", w, d, r, Half, TRUE>> >>
fcvt_ui2fp(w, d, r) == << <<"fcvt_float", Half, d, r, w, FALSE>> >>
fcvt_fp2fp(w, w2, d, r) == << <<"fcvt_size", w2, d, r, w>> >>
fmv_fp2i(w, d, r) == << <<"fmv_x", w, d, r>> >>
fmv_i2fp(w, d, r) == << <<"fmv_f", w, d, r>> >>

(* ImmediateLoader: the low 12 bits are added last, sign-extended, and     *)
(* what remains is loaded by a lui once it fits, or built up and shifted.  *)
RECURSIVE Upper(_, _)
Upper(x, d) ==
  LET low == x % 2^IBits
      carried == IF low >= 2^(IBits - 1) THEN x + 2^IBits ELSE x
      rest == Signed(carried, Full) \div 2^IBits
  IN (IF FitsSigned(rest, UBits) THEN << <<"lui", d, Wrap(rest, UBits) * 2^IBits>> >>
      ELSE Upper(rest, d) \o << <<"slli", d, d, IBits>> >>)
     \o << <<"addi", d, d, low>> >>
ImmediateLoader(v, d) ==
  IF FitsSigned(v, IBits) THEN << <<"addi", d, "zero", v>> >> ELSE Upper(v, d)
li(v, d) == ImmediateLoader(v, d)

resolve_address(o, d) ==
  LET At(code, base, off) == [code |-> code, base |-> base, off |-> off]
      fits == FitsSigned(o.off, IBits)
      up == o.off \div 2^o.scale
      sum == IF o.scale = 0 THEN << <<"add", d, o.base, o.index>> >>
             ELSE << <<"slli", d, o.index, o.scale>>, <<"add", d, o.base, d>> >>
      high == o.off + (IF o.off % 2^IBits >= 2^(IBits - 1) THEN 2^IBits ELSE 0)
  IN CASE o.k = "index" /\ (o.off = 0 \/ fits) -> At(sum, d, o.off)
       [] o.k = "index" /\ ~fits ->
            At((IF o.scale = 0 THEN li(o.off, d) \o << <<"add", d, o.base, d>> >>
                ELSE (IF FitsSigned(up, IBits) THEN << <<"addi", d, o.index, up>> >>
                      ELSE li(up, d) \o << <<"add", d, o.index, d>> >>)
                     \o << <<"slli", d, d, o.scale>>, <<"ori", d, d, o.off % 2^o.scale>> >>)
               \o << <<"add", d, o.base, d>> >>, d, 0)
       [] o.k = "addr" /\ ~fits ->
            At(<< <<"lui", d, high>>, <<"addi", d, d, high % 2^IBits>>,
                  <<"add", d, o.base, d>> >>, d, 0)
       [] o.k = "ext" /\ ~fits ->
            At(li(o.off, d) \o << <<"add", d, o.base, d>> >>, d, 0)
       [] OTHER -> At(<<>>, o.base, o.off)

(* An address in memory, absolute ones loaded into MEMORY_TEMP; and one    *)
(* instruction on it, or on the same address once more.                    *)
Resolved(o) ==
  IF o.k \in {"abs", "imm64"} THEN [code |-> li(o.v, "MT"), base |-> "MT", off |-> 0]
  ELSE resolve_address(o, "MT")
Again(mn, x, o) == LET r == Resolved(o) IN << <<mn, x, r.base, r.off>> >>
Mem(mn, x, o) == Resolved(o).code \o Again(mn, x, o)
FMem(mn, w, x, o) ==
  LET r == Resolved(o) IN r.code \o << <<mn, w, x, r.base, r.off>> >>

(* Operands that lead to an unreachable!(): the operation panics while it  *)
(* assembles, and what it was to do is not done.                           *)
unreachable == << <<"unreachable">> >>

-------------------------------------------------------------------------------
(* Addition and subtraction *)

add32_rrr(lhs, rhs, d) ==
  CASE lhs.k = "reg" -> << <<"addw", d, lhs.r, rhs>> >>
    [] is_valid(lhs) -> << <<"addiw", d, rhs, lhs.v>> >>
    [] OTHER -> li(lhs.v, "DT") \o << <<"addw", d, rhs, "DT">> >>

add32(src, dst) ==
  CASE dst.k = "reg" /\ src.k = "addr" ->
         Mem("lw", "DT", src) \o << <<"addw", dst.r, "DT", "zero">> >>
    [] dst.k = "reg" /\ src.k # "addr" -> add32_rrr(src, dst.r, dst.r)
    [] InMemory(dst) /\ is_valid(src) ->
         Mem("lw", "DT", dst) \o << <<"addi", "DT", "DT", src.v>> >> \o Again("sw", "DT", dst)
    [] InMemory(dst) /\ ~is_valid(src) ->
         Mem("lw", IF dst.k = "abs" THEN "DT" ELSE "MT", dst)
         \o li(src.v, "DT") \o << <<"add", "DT", "MT", "DT">> >> \o Mem("sw", "DT", dst)

add64_rrr(lhs, rhs, d) ==
  CASE lhs.k = "reg" -> << <<"add", d, lhs.r, rhs>> >>
    [] is_valid(lhs) -> << <<"addi", d, rhs, lhs.v>> >>
    [] OTHER -> li(lhs.v, "DT") \o << <<"add", d, rhs, "DT">> >>

add64(src, dst) ==
  CASE dst.k = "reg" /\ InMemory(src) ->
         LET t == IF src.k = "abs" THEN "MT" ELSE "DT"
         IN Mem("ld", t, src) \o << <<"add", dst.r, t, dst.r>> >>
    [] dst.k = "reg" /\ ~InMemory(src) -> add64_rrr(src, dst.r, dst.r)
    [] InMemory(dst) /\ is_valid(src) ->
         Mem("ld", "DT", dst) \o << <<"addi", "DT", "DT", src.v>> >> \o Again("sd", "DT", dst)
    [] InMemory(dst) /\ ~is_valid(src) ->
         Mem("ld", "DT", dst) \o li(src.v, "DT")
         \o << <<"add", "DT", "MT", "DT">> >> \o Mem("sd", "DT", dst)

Negated(o) == [o EXCEPT !.v = -@]

sub32_rrr(lhs, rhs, d) ==
  CASE lhs.k = "reg" /\ rhs.k = "reg" -> << <<"subw", d, lhs.r, rhs.r>> >>
    [] lhs.k = "reg" /\ rhs.k = "imm32" -> add32_rrr(Negated(rhs), lhs.r, d)
    [] OTHER -> unreachable

(* On a register, sub32_rrr is given the source first. *)
sub32(src, dst) ==
  CASE dst.k = "reg" /\ src.k = "addr" ->
         Mem("lw", "DT", src) \o << <<"subw", dst.r, "DT", dst.r>> >>
    [] dst.k = "reg" /\ src.k # "addr" -> sub32_rrr(src, dst, dst.r)
    [] InMemory(dst) /\ is_valid(Negated(src)) ->
         Mem("lw", "DT", dst) \o << <<"addiw", "DT", "DT", -src.v>> >> \o Again("sw", "DT", dst)
    [] InMemory(dst) /\ ~is_valid(Negated(src)) ->
         Mem("lw", "DT", dst) \o li(src.v, "MT")
         \o << <<"subw", "DT", "DT", "MT">> >> \o Mem("sw", "DT", dst)

sub64_rrr(lhs, rhs, d) ==
  IF rhs.k = "reg" THEN << <<"sub", d, lhs, rhs.r>> >> ELSE add64_rrr(Negated(rhs), lhs, d)
sub64(src, dst) ==
  IF src.k \in {"reg", "imm32"} THEN sub64_rrr(dst.r, src, dst.r) ELSE unreachable

mul32_rrr(lhs, rhs, d) ==
  IF lhs.k = "reg" THEN << <<"mulw", d, lhs.r, rhs>> >>
  ELSE li(lhs.v, "DT") \o << <<"mulw", d, "DT", rhs>> >>
mul64_rrr(lhs, rhs, d) == << <<"mul", d, lhs, rhs>> >>

-------------------------------------------------------------------------------
(* Bits: a counting loop shifts until nothing is left; to get it wrong,    *)
(* jump back to the test and not to the shift.                             *)

LoopWithoutShift(shift, x, d) ==
  << <<"beq", x, "zero", 5>>, <<shift, x, x, 1>>, <<"addi", d, d, -1>>,
     <<"beq", x, "zero", 2>>, <<"jal", -1>> >>
CountingLoop(shift, x, d) ==
  << <<"beq", x, "zero", 5>>, <<shift, x, x, 1>>, <<"addi", d, d, -1>>,
     <<"beq", x, "zero", 2>>, <<"jal", -3>> >>
(* To get it wrong: counting in the register itself, as the 64-bit forms   *)
(* do.                                                                     *)
CountInPlace(r, d) ==
  zero_extend(r, r, Half) \o << <<"addi", d, "zero", Half>> >> \o CountingLoop("srli", r, d)
count_leading_zeros32(r, d) ==
  zero_extend("DT", r, Half) \o << <<"addi", d, "zero", Half>> >> \o CountingLoop("srli", "DT", d)
count_leading_zeros64(r, d) ==
  << <<"addi", "DT", "zero", 0>>, <<"addi", d, "zero", Full>> >> \o CountingLoop("srli", r, d)
count_trailing_zeros32(r, d) ==
  << <<"addi", d, "zero", Half>> >> \o zero_extend("DT", r, Half) \o CountingLoop("slli", "DT", d)
count_trailing_zeros64(r, d) ==
  << <<"addi", d, "zero", Full>> >> \o CountingLoop("slli", r, d)

ByteMask == 2^Byte - 1
byte_swap16(r) ==
  << <<"andi", "DT", r, ByteMask>>, <<"slli", "DT", "DT", Byte>>, <<"andi", r, r, 12>>,
     <<"andi", r, r, 14>>, <<"or", r, "DT", "DT">> >>

(* All bytes but the last go through DATA_TEMP, n of them in a loop. *)
SwapBytes(r, n) ==
  << <<"andi", "DT", r, ByteMask>>, <<"slli", "DT", "DT", Byte>>, <<"srli", r, r, Byte>> >>
  \o FlattenSeq([i \in 1..n |->
       << <<"andi", "MT", r, ByteMask>>, <<"or", "DT", "DT", "MT">>,
          <<"slli", "DT", "DT", Byte>>, <<"srli", r, r, Byte>> >>])
  \o << <<"andi", "MT", r, ByteMask>>, <<"or", r, "DT", "MT">> >>
byte_swap32(r) == SwapBytes(r, 2)
byte_swap64(r) == SwapBytes(r, 6)

(* A shift amount keeps six bits, in the 32-bit operations too. *)
Shift(mn, immediate, x, amount, d) ==
  IF amount.k = "reg" THEN << <<mn, d, x, amount.r>> >>
  ELSE << <<immediate, d, x, amount.v % Full>> >>
lshift32_rrr(x, amount, d) ==
  IF x.k = "reg" THEN Shift("sllw", "slliw", x.r, amount, d)
  ELSE Mem("lwu", "DT", x) \o Shift("sllw", "slliw", "DT", amount, d)
lshift64_rrr(x, amount, d) ==
  IF x.k = "reg" THEN Shift("sll", "slli", x.r, amount, d)
  ELSE Mem("ld", "DT", x) \o Shift("sll", "slli", "DT", amount, d)
rshift32_rrr(x, amount, d) == Shift("sraw", "sraiw", x, amount, d)
urshift32_rrr(x, amount, d) == Shift("srlw", "srliw", x, amount, d)
rshift64_rrr(x, amount, d) == Shift("sra", "srai", x, amount, d)
urshift64_rrr(x, amount, d) == Shift("srl", "srli", x, amount, d)

-------------------------------------------------------------------------------
(* Loads and stores *)

load8(o, d) == Mem("lbu", d, o)
load8_signed_extend_to_32(o, d) == Mem("lb", d, o)

(* The scale of an ExtendedAddress is -1, as an unsigned shift amount. *)
ExtendedHalfWord(mn, o, d) ==
  li(o.off, "MT") \o << <<"slli", "DT", o.base, -1>>, <<"add", "MT", "MT", "DT">>,
                        <<mn, d, "MT", 0>> >>
load16(o, d) == IF o.k = "ext" THEN ExtendedHalfWord("lhu", o, d) ELSE Mem("lhu", d, o)
load16_signed_extend_to_32(o, d) ==
  IF o.k = "ext" THEN ExtendedHalfWord("lh", o, d) ELSE Mem("lh", d, o)
load32(o, d) == IF o.k = "ext" THEN unreachable ELSE Mem("lwu", d, o)
load64(o, d) == IF o.k = "ext" THEN unreachable ELSE Mem("ld", d, o)

load_pair32(o, d1, d2) ==
  LET hi == [o EXCEPT !.off = @ + 4]
  IN IF o.base = d1 THEN load32(hi, d2) \o load32(o, d1) ELSE load32(o, d1) \o load32(hi, d2)
LoadPairInOrder(o, d1, d2) == load64(o, d1) \o load64([o EXCEPT !.off = @ + 8], d2)
load_pair64(o, d1, d2) ==
  LET hi == [o EXCEPT !.off = @ + 8]
  IN IF o.base = d1 THEN load64(hi, d2) \o load64(o, d1) ELSE load64(o, d1) \o load64(hi, d2)

(* The value stored is a register, x0, or a constant v in DATA_TEMP. *)
StoreOf(mn, x, v, o) ==
  CASE x.k = "reg" -> Mem(mn, x.r, o)
    [] v = 0 -> Mem(mn, "zero", o)
    [] OTHER -> li(v, "DT") \o Mem(mn, "DT", o)
store8(x, o) == StoreOf("sb", x, IF x.k = "reg" THEN 0 ELSE Wrap(x.v, Byte), o)
store16(x, o) == StoreOf("sh", x, IF x.k = "reg" THEN 0 ELSE Wrap(x.v, Quarter), o)
store32(x, o) == StoreOf("sw", x, IF x.k = "reg" THEN 0 ELSE x.v, o)
store64(x, o) == StoreOf("sd", x, IF x.k = "reg" THEN 0 ELSE x.v, o)

transfer64(from, to) == load64(from, "DT") \o store64(R("DT"), to)
store_pair32(x1, x2, o) == store32(R(x1), o) \o store32(R(x2), [o EXCEPT !.off = @ + 4])
store_pair64(x1, x2, o) == store64(R(x1), o) \o store64(R(x2), [o EXCEPT !.off = @ + 8])

zero_extend8_to_32(r, d) == mask_register(d, r, Byte)
zero_extend16_to_32(r, d) == mask_register(d, r, Quarter)
zero_extend32_to_word(r, d) == mask_register(d, r, Half)
sign_extend8_to_32(r, d) ==
  << <<"slli", d, r, Full - Byte>>, <<"srai", d, d, Half - Byte>>, <<"srli", d, d, Half>> >>
sign_extend16_to_32(r, d) ==
  << <<"slli", d, r, Full - Quarter>>, <<"srai", d, d, Half - Quarter>>,
     <<"srli", d, d, Half>> >>
sign_extend32_to_64(x, d) == IF x.k = "reg" THEN << <<"addiw", d, x.r, 0>> >> ELSE li(x.v, d)
sign_extend8_to_64(r, d) == sign_extend8_to_32(r, d) \o sign_extend32_to_64(R(r), d)

-------------------------------------------------------------------------------
(* Logic: f and fi are the instruction and its immediate form. *)

Logic(f, fi, x, y, d) ==
  CASE x.k = "reg" -> << <<f, d, x.r, y>> >>
    [] x.k # "reg" /\ is_valid(x) -> << <<fi, d, y, x.v>> >>
    [] OTHER -> li(x.v, "DT") \o << <<f, d, "DT", y>> >>
and32_rrr(x, y, d) == Logic("and", "andi", x, y, d)
and64_rrr(x, y, d) == Logic("and", "andi", x, y, d)
or32_rrr(x, y, d) == Logic("or", "ori", x, y, d)
or64_rrr(x, y, d) == Logic("or", "ori", x, y, d)
xor32_rrr(x, y, d) == Logic("xor", "xori", x, y, d)
xor64_rrr(x, y, d) == Logic("xor", "xori", x, y, d)

(* One byte, half word or word in absolute memory. *)
OrMemory(ld, st, x, o) ==
  Mem(ld, "DT", o) \o
  CASE x.k = "reg" -> << <<"or", "DT", x.r, "DT">> >> \o Again(st, "DT", o)
    [] x.k # "reg" /\ is_valid(x) -> << <<"ori", "DT", "DT", x.v>> >> \o Again(st, "DT", o)
    [] OTHER -> li(x.v, "MT") \o << <<"or", "DT", "DT", "MT">> >> \o Mem(st, "DT", o)
or8(x, o) == OrMemory("lb", "sb", x, o)
or16(x, o) == OrMemory("lh", "sh", x, o)

and32(x, d) == IF x.k = "addr" THEN Mem("lw", "DT", x) \o << <<"and", d, "DT", d>> >>
               ELSE and32_rrr(x, d, d)
or32(x, o) ==
  CASE o.k = "reg" -> or32_rrr(x, o.r, o.r)
    [] o.k = "abs" -> OrMemory("lw", "sw", x, o)
    [] o.k = "addr" /\ x.k = "imm32" ->   (* which is always valid *)
         Mem("lw", "DT", o)
         \o << <<"ori", "DT", "MT", x.v>>, <<"sw", "DT", Resolved(o).base, 0>> >>
    [] OTHER -> unreachable
xor32(x, d) == IF x.k = "addr" THEN Mem("lw", "DT", x) \o << <<"xor", d, "DT", d>> >>
               ELSE xor32_rrr(x, d, d)
xor64(x, o) ==
  CASE x.k = "addr" -> Mem("ld", "DT", x) \o << <<"xor", o.r, "DT", o.r>> >>
    [] o.k = "addr" -> Mem("ld", "DT", o) \o << <<"xor", "DT", "DT", x.r>> >> \o Again("sd", "DT", o)
    [] OTHER -> xor64_rrr(x, o.r, o.r)
not32(r) == << <<"xori", r, r, -1>> >>
neg32(r) == << <<"subw", r, "zero", r>> >> \o mask_register(r, "DT", Half)
neg64(r) == << <<"sub", r, "zero", r>> >>

mov(x, d) == IF x.k = "reg" THEN << <<"addi", d, x.r, 0>> >> ELSE li(x.v, d)
swap(r1, r2) == mov(R(r1), "DT") \o mov(R(r2), r1) \o mov(R("DT"), r2)

move_double(x, d) == fsgnj(Full, d, x, x)
move_float(x, d) == fsgnj(Half, d, x, x)
swap_double(r1, r2) ==
  IF r1 = r2 THEN <<>>
  ELSE move_double(r1, "FT") \o move_double(r2, r1) \o move_double("FT", r2)
move_zero_to_float(d) == fcvt_si2fp(Half, d, "zero")
move_zero_to_double(d) == fcvt_si2fp(Full, d, "zero")
move_float_to32(x, d) == fmv_fp2i(Half, d, x) \o mask_register(d, d, Half)

-------------------------------------------------------------------------------
(* Jumps *)

far_jump(o) ==
  CASE o.k = "reg" -> << <<"jalr", "zero", o.r>> >>
    [] o.k = "imm64" -> li(o.v, "DT") \o << <<"jalr", "zero", "DT">> >>
    [] o.k = "abs" -> li(o.v, "DT") \o << <<"ld", "DT", "DT", 0>>, <<"jalr", "zero", "DT">> >>
    [] OTHER -> Mem("ld", "DT", o) \o << <<"jalr", "zero", "DT">> >>

call_op(o) ==
  CASE o.k = "reg" -> << <<"jalr", "ra", o.r>> >>
    [] o.k = "addr" -> Mem("ld", "DT", o) \o << <<"jalr", "ra", "DT">> >>
    [] OTHER -> li(o.v, "DT") \o << <<"jalr", "ra", "DT">> >>

push(r) == << <<"addi", "sp", "sp", -8>>, <<"sd", r, "sp", 0>> >>
push_to_save(x) ==
  CASE x.k = "reg" -> push(x.r)
    [] x.k = "addr" -> Mem("ld", "DT", x) \o push("DT")
    [] OTHER -> li(x.v, "DT") \o push("DT")
pop(r) == << <<"ld", r, "sp", 0>>, <<"addi", "sp", "sp", 8>> >>
push_pair(r1, r2) ==
  << <<"addi", "sp", "sp", -16>>, <<"sd", r1, "sp", 0>>, <<"sd", r2, "sp", 8>> >>
pop_pair(r1, r2) ==
  << <<"ld", r1, "sp", 0>>, <<"ld", r2, "sp", 8>>, <<"addi", "sp", "sp", 16>> >>

-------------------------------------------------------------------------------
(* Conditional jumps.  Each ends in a jump it returns to the client. *)

make_branch(cond, x, y) ==
  CASE cond = "Equal" -> << <<"beq", x, y, Target>> >>
    [] cond = "NotEqual" -> << <<"bne", x, y, Target>> >>
    [] cond = "LessThan" -> << <<"blt", x, y, Target>> >>
    [] cond \in {"LessThanOrEqual", "GreaterThanOrEqual"} -> << <<"bge", x, y, Target>> >>
    [] cond = "GreaterThan" -> << <<"blt", y, x, Target>> >>
    [] cond = "Above" -> << <<"bltu", y, x, Target>> >>
    [] cond = "AboveOrEqual" -> << <<"bgeu", x, y, Target>> >>
    [] cond = "Below" -> << <<"bltu", x, y, Target>> >>
    [] cond = "BelowOrEqual" -> << <<"bgeu", y, x, Target>> >>

branch_test_finalize(cond, x) ==
  make_branch(CASE cond = "Signed" -> "LessThan"
                [] cond = "Zero" -> "Equal"
                [] cond = "NonZero" -> "NotEqual"
                [] cond = "PositiveOrZero" -> "GreaterThanOrEqual", x, "zero")

compare_finalize(cond, x, y, d) ==
  LET Inverted(code) == code \o << <<"xori", d, d, 1>> >>
      Less(mn, u, v) == << <<mn, d, u, v>> >>
  IN CASE cond = "Equal" -> << <<"xor", d, x, y>>, <<"sltiu", d, d, 1>> >>
       [] cond = "NotEqual" -> << <<"xor", d, x, y>>, <<"sltu", d, "zero", d>> >>
       [] cond = "Above" -> Less("sltu", y, x)
       [] cond = "AboveOrEqual" -> Inverted(Less("sltu", x, y))
       [] cond = "Below" -> Less("sltu", x, y)
       [] cond = "BelowOrEqual" -> Inverted(Less("sltu", y, x))
       [] cond = "GreaterThan" -> Less("slt", y, x)
       [] cond = "GreaterThanOrEqual" -> Inverted(Less("slt", x, y))
       [] cond = "LessThan" -> Less("slt", x, y)
       [] cond = "LessThanOrEqual" -> Inverted(Less("slt", y, x))

test_finalize(cond, x, d) ==   (* for the two conditions a test may have *)
  IF cond = "Zero" THEN << <<"sltiu", d, x, 1>> >> ELSE << <<"sltu", d, "zero", x>> >>

compare8(cond, o, imm, d) ==
  Mem("lb", "MT", o) \o li(imm, "DT") \o compare_finalize(cond, "MT", "DT", d)
compare32(cond, x, y, d) ==
  (IF x.k = "reg" THEN sign_extend("MT", x.r, Half) ELSE Mem("lw", "MT", x))
  \o (IF y.k = "reg" THEN sign_extend("DT", y.r, Half) ELSE li(y.v, "DT"))
  \o compare_finalize(cond, "MT", "DT", d)
compare64(cond, x, y, d) ==
  sign_extend("MT", x, Full)
  \o (IF y.k = "reg" THEN sign_extend("DT", y.r, Full) ELSE li(y.v, "DT"))
  \o compare_finalize(cond, "MT", "DT", d)

(* x and a constant or register, into d. *)
AndWith(x, y, d, temp) ==
  CASE y.k = "reg" -> << <<"and", d, x, y.r>> >>
    [] y.k # "reg" /\ is_valid(y) -> << <<"andi", d, x, y.v>> >>
    [] OTHER -> li(y.v, temp) \o << <<"and", d, x, temp>> >>

test8(cond, o, imm, d) ==
  Mem("lbu", "DT", o) \o << <<"andi", "DT", "DT", imm>> >> \o test_finalize(cond, "DT", d)
test32_cond(cond, x, y, d) ==
  CASE x.k = "reg" -> AndWith(x.r, y, "DT", "DT") \o mask_register("DT", "DT", Half)
                      \o test_finalize(cond, "DT", d)
    [] x.k = "addr" /\ y.k = "imm32" ->
         Mem("lwu", "MT", x) \o AndWith("MT", y, "DT", "DT") \o test_finalize(cond, "DT", d)
    [] OTHER -> unreachable
test64(cond, x, y, d) == AndWith(x, y, d, "DT") \o test_finalize(cond, d, d)

branch8(cond, o, imm) ==
  Mem("lb", "MT", o) \o li(imm, "DT") \o make_branch(cond, "MT", "DT")

branch32(cond, x, y) ==
  CASE x.k = "reg" ->
         (IF InMemory(y) THEN Mem("lw", "MT", y) ELSE <<>>)
         \o sign_extend("DT", x.r, Half)
         \o (CASE y.k = "reg" -> sign_extend("MT", y.r, Half)
               [] y.k = "imm32" -> li(y.v, "MT")
               [] OTHER -> <<>>)
         \o make_branch(cond, "DT", "MT")
    [] x.k = "addr" ->
         Mem("lw", "DT", x)
         \o (IF y.k = "reg" THEN sign_extend("MT", y.r, Half) ELSE li(y.v, "MT"))
         \o make_branch(cond, "DT", "MT")
    [] x.k \in {"abs", "index"} ->   (* with a register and a constant *)
         Mem("lw", "MT", x)
         \o (IF x.k = "abs" THEN sign_extend("DT", y.r, Half) ELSE li(y.v, "DT"))
         \o make_branch(cond, "MT", "DT")

branch64(cond, x, y) ==
  CASE x.k = "reg" /\ y.k = "reg" -> make_branch(cond, x.r, y.r)
    [] x.k = "reg" /\ y.k \in {"imm32", "imm64"} ->
         li(y.v, "MT") \o make_branch(cond, x.r, "MT")
    [] x.k = "reg" /\ y.k = "addr" -> Mem("ld", "MT", y) \o make_branch(cond, x.r, "MT")
    [] x.k = "addr" /\ y.k = "reg" -> Mem("ld", "DT", x) \o make_branch(cond, "DT", y.r)
    [] x.k = "addr" /\ y.k = "imm32" ->
         Mem("ld", "DT", x) \o li(y.v, "MT") \o make_branch(cond, "DT", "MT")
    [] x.k = "addr" /\ y.k = "addr" ->
         Mem("ld", "DT", x) \o Mem("ld", "MT", y) \o make_branch(cond, "DT", "MT")
    [] x.k = "abs" -> Mem("ld", "MT", x) \o make_branch(cond, "MT", y.r)
    [] OTHER -> Mem("ld", "MT", x) \o li(y.v, "DT") \o make_branch(cond, "MT", "DT")

(* The operation on op1 and op2, a register or constant, into d, and a     *)
(* jump if it overflows.                                                   *)
branch_for_arithmetic_overflow32(f, op1, op2, d) ==
  LET other == IF d = "DT" THEN "MT" ELSE "DT"
  IN sign_extend("DT", op1, Half)
     \o (IF op2.k = "reg" THEN sign_extend("MT", op2.r, Half) ELSE li(op2.v, "MT"))
     \o IF d \in {"DT", "MT"}
        THEN << <<f, d, "DT", "MT">> >> \o sign_extend(other, d, Half)
             \o << <<"xor", other, d, other>> >> \o make_branch("NotEqual", other, "zero")
        ELSE << <<f, "DT", "DT", "MT">> >> \o mask_register(d, "DT", Half)
             \o sign_extend("MT", d, Half) \o make_branch("NotEqual", "DT", "MT")

branch_for_arithmetic_overflow64(f, op1, op2, d) ==
  LET rop2 == IF op2.k = "reg" THEN op2.r ELSE "MT"
      twice == op1 = d /\ rop2 = d
  IN (IF op2.k = "reg" THEN <<>> ELSE li(op2.v, "MT"))
     \o CASE f = "add" /\ twice ->
               << <<"slli", "MT", d, 1>>, <<"xor", "DT", "MT", d>> >> \o mov(R("MT"), d)
               \o make_branch("LessThan", "DT", "zero")
          [] f = "add" /\ ~twice ->
               << <<"xor", "DT", op1, rop2>>, <<"xori", "MT", "DT", -1>>,
                  <<"add", d, op1, rop2>>,
                  <<"xor", "MT", IF op1 = d THEN rop2 ELSE op1, "MT">>,
                  <<"and", "MT", "MT", "DT">> >>
               \o make_branch("LessThan", "DT", "zero")
          [] f = "sub" /\ twice ->
               mov(R("zero"), d) \o mov(R("zero"), "DT") \o make_branch("LessThan", "DT", "zero")
          [] f = "sub" /\ ~twice ->
               << <<"xor", "DT", op1, rop2>>, <<"sub", d, op1, rop2>> >>
               \o (IF op1 = d THEN << <<"xor", "MT", rop2, d>>, <<"xori", "MT", "MT", -1>> >>
                   ELSE << <<"xor", "MT", op1, d>> >>)
               \o << <<"and", "DT", "DT", "MT">> >> \o make_branch("LessThan", "DT", "zero")
          [] f = "mul" ->
               << <<"mulh", "DT", op1, rop2>>, <<"mul", d, op1, rop2>>,
                  <<"srai", "MT", d, Full - 1>> >>
               \o make_branch("NotEqual", "DT", "MT")

(* x plus a constant or register, into d. *)
PlusWord(f, fi, x, y, d, temp) ==
  CASE y.k = "reg" -> << <<f, d, x, y.r>> >>
    [] y.k # "reg" /\ is_valid(y) -> << <<fi, d, x, y.v>> >>
    [] OTHER -> li(y.v, temp) \o << <<f, d, x, temp>> >>

branch_add32_rrr(cond, op1, op2, d) ==
  IF cond = "Overflow" THEN branch_for_arithmetic_overflow32("add", op1, op2, d)
  ELSE PlusWord("addw", "addiw", op1, op2, "DT", "DT") \o branch_test_finalize(cond, "DT")

branch_add32(cond, x, o) ==
  CASE InMemory(o) ->
         Mem("lw", IF o.k = "addr" THEN "MT" ELSE "DT", o)
         \o IF cond = "Overflow"
            THEN branch_for_arithmetic_overflow32("add", "DT", x, "DT") \o Mem("sw", "DT", o)
            ELSE PlusWord("addw", "addiw", "DT", x, "DT", "MT") \o Mem("sw", "DT", o)
                 \o branch_test_finalize(cond, "DT")
    [] x.k = "addr" ->
         Mem("lw", "MT", x)
         \o IF cond = "Overflow"
            THEN branch_for_arithmetic_overflow32("add", o.r, R("MT"), o.r)
            ELSE << <<"addw", "DT", o.r, "MT">> >> \o branch_test_finalize(cond, "DT")
    [] OTHER -> branch_add32_rrr(cond, o.r, x, o.r)

branch_add64_rrr(cond, op1, op2, d) ==
  IF cond = "Overflow" THEN branch_for_arithmetic_overflow64("add", op1, op2, d)
  ELSE PlusWord("add", "addi", op1, op2, d, "DT") \o branch_test_finalize(cond, d)
branch_sub32_rrr(cond, op1, op2, d) ==
  CASE op2.k # "reg" -> branch_add32_rrr(cond, op1, Negated(op2), d)
    [] op2.k = "reg" /\ cond = "Overflow" -> branch_for_arithmetic_overflow32("sub", op1, op2, d)
    [] OTHER -> << <<"subw", d, op1, op2.r>> >> \o branch_test_finalize(cond, d)
branch_sub64_rrr(cond, op1, op2, d) ==
  CASE op2.k # "reg" -> branch_add64_rrr(cond, op1, Negated(op2), d)
    [] op2.k = "reg" /\ cond = "Overflow" -> branch_for_arithmetic_overflow64("sub", op1, op2, d)
    [] OTHER -> << <<"sub", d, op1, op2.r>> >> \o branch_test_finalize(cond, d)
branch_mul32_rrr(cond, op1, op2, d) ==
  IF cond = "Overflow" THEN branch_for_arithmetic_overflow32("mul", op1, op2, d)
  ELSE sign_extend("MT", op1, Half)
       \o (IF op2.k = "reg" THEN sign_extend("DT", op2.r, Half) ELSE li(op2.v, "DT"))
       \o << <<"mul", "DT", "MT", "DT">> >> \o mask_register(d, "DT", Half)
       \o branch_test_finalize(cond, "DT")
branch_mul64(cond, x, d) == branch_mul32_rrr(cond, d, x, d)
branch_mul64_rrr(cond, op1, op2, d) ==
  CASE cond = "Overflow" /\ op2.k # "reg" -> branch_for_arithmetic_overflow32("mul", op1, op2, d)
    [] cond = "Overflow" /\ op2.k = "reg" -> branch_for_arithmetic_overflow64("mul", op1, op2, d)
    [] OTHER -> (IF op2.k = "reg" THEN << <<"mul", d, op1, op2.r>> >>
                 ELSE li(op2.v, "DT") \o << <<"mul", d, op1, "DT">> >>)
                \o branch_test_finalize(cond, d)

(* A byte of memory, in both. *)
branch_test8(cond, o, imm) ==
  Mem("lbu", "MT", o) \o AndWith("MT", imm, "DT", "DT")
  \o sign_extend("DT", "DT", Byte) \o branch_test_finalize(cond, "DT")
branch_test16(cond, o, imm) ==
  Mem("lbu", "MT", o) \o AndWith("MT", imm, "DT", "DT")
  \o sign_extend("DT", "DT", Quarter) \o branch_test_finalize(cond, "DT")
branch_test32(cond, x, y) ==
  LET Finish == sign_extend("DT", "DT", Half) \o branch_test_finalize(cond, "DT")
  IN CASE x.k = "reg" -> zero_extend("DT", x.r, Half) \o AndWith("DT", y, "DT", "MT") \o Finish
       [] x.k \in {"addr", "abs"} /\ y.k = "imm32" ->
            Mem("lwu", "MT", x) \o AndWith("MT", y, "DT", "DT") \o Finish
       [] OTHER -> unreachable
branch_test64(cond, x, y) ==
  CASE x.k = "reg" -> AndWith(x.r, y, "DT", "MT") \o branch_test_finalize(cond, "DT")
    [] x.k = "addr" \/ (x.k = "abs" /\ y.k = "imm32") ->
         Mem("ld", "MT", x) \o AndWith("MT", y, "DT", "DT") \o branch_test_finalize(cond, "DT")
    [] OTHER -> unreachable

-------------------------------------------------------------------------------
(* Patchable forms: a constant takes eight instructions, whatever it is.   *)

Placeholder(code) == [i \in 1..(8 - Len(code)) |-> <<"addi", "zero", "zero", 0>>] \o code
move_with_patch(x, d) == Placeholder(li(x.v, d))
store_ptr_with_patch(x, o) == Placeholder(li(x.v, "DT")) \o Mem("sd", "DT", o)
branch32_with_patch(cond, o, x) ==
  Mem("lw", "MT", o) \o move_with_patch(x, "DT") \o make_branch(cond, "MT", "DT")
branch_ptr_with_patch(cond, o, x) ==
  IF o.k = "reg" THEN move_with_patch(x, "DT") \o make_branch(cond, o.r, "DT")
  ELSE Mem("ld", "MT", o) \o move_with_patch(x, "DT") \o make_branch(cond, "MT", "DT")

-------------------------------------------------------------------------------
(* Floating point *)

Ordered(cond) == cond \in OrderedConditions

(* DATA_TEMP is NaN's verdict or the comparison's: feq, flt, fle, swapped  *)
(* and complemented as the condition says.                                 *)
branch_fp(w, invert, cond, x, y) ==
  LET rel == FloatRelation(cond)
      test == CASE rel \in {"Equal", "NotEqual"} -> <<"feq", w, "DT", x, y>>
                [] rel = "GreaterThan" -> <<"flt", w, "DT", y, x>>
                [] rel = "GreaterThanOrEqual" -> <<"fle", w, "DT", y, x>>
                [] rel = "LessThan" -> <<"flt", w, "DT", x, y>>
                [] rel = "LessThanOrEqual" -> <<"fle", w, "DT", x, y>>
      body == <<test>> \o (IF rel \in {"NotEqual", "GreaterThanOrEqual"}
                           THEN << <<"xori", "DT", "DT", 1>> >> ELSE <<>>)
  IN << <<"fnan", w, "DT", x>>, <<"bne", "DT", "zero", Len(body) + 4>>,
        <<"fnan", w, "DT", y>>, <<"bne", "DT", "zero", Len(body) + 2>> >>
     \o body
     \o << <<"jal", 2>>, <<"addi", "DT", "zero", IF Ordered(cond) THEN 0 ELSE 1>> >>
     \o make_branch(IF invert THEN "Equal" ELSE "NotEqual", "DT", "zero")

(* The jumps to the answer for NaN are taken when there is none. *)
compare_fp(w, cond, x, y, d) ==
  LET rel == FloatRelation(cond)
      test == CASE rel \in {"Equal", "NotEqual"} -> <<"feq", w, d, x, y>>
                [] rel = "GreaterThan" -> <<"flt", w, d, y, x>>
                [] rel = "GreaterThanOrEqual" -> <<"fle", w, d, y, x>>
                [] rel = "LessThan" -> <<"flt", w, d, x, y>>
                [] rel = "LessThanOrEqual" -> <<"fle", w, d, x, y>>
      body == <<test>> \o (IF rel = "NotEqual" THEN << <<"xori", d, d, 1>> >> ELSE <<>>)
  IN << <<"fnan", w, "DT", x>>, <<"beq", "DT", "zero", Len(body) + 4>>,
        <<"fnan", w, "DT", y>>, <<"beq", "DT", "zero", Len(body) + 2>> >>
     \o body
     \o << <<"jal", 2>>, <<"addi", d, "zero", IF Ordered(cond) THEN 0 ELSE 1>> >>

(* Through an integer, when the magnitude is below a limit above which     *)
(* floats are whole; for NaN, feq is given a register of the other kind.   *)
round_fp(w, x, d, rm, dNumber) ==
  LET limit == li(Infinite(w), "DT") \o fmv_i2fp(w, "FT2", "DT")
      from == IF x = d THEN "FT" ELSE x
      convert == (IF x = d THEN fsgnj(w, "FT", x, x) ELSE <<>>)
                 \o fcvt_fp2si(w, "DT", from, rm) \o fcvt_si2fp(w, d, "DT") \o fsgnj(w, d, d, from)
      copy == IF x # d THEN fsgnj(w, d, x, x) ELSE <<>>
      rest == fsgnjx(w, "FT", x, x) \o limit
              \o << <<"flt", w, "DT", "FT", "FT2">>, <<"beq", "DT", "zero", Len(convert) + 2>> >>
              \o convert \o << <<"jal", Len(copy) + 1>> >> \o copy
  IN << <<"fnan", w, "DT", x>>, <<"beq", "DT", "zero", 3>>,
        <<"feq", w, dNumber, x, x>>, <<"jal", Len(rest) + 1>> >> \o rest

branch_double_non_zero(x) ==
  fcvt_si2fp(Full, "FT", "zero") \o branch_fp(Full, TRUE, "NotEqualAndOrdered", x, "FT")
branch_double_zero_or_nan(x) ==
  fcvt_si2fp(Full, "FT", "zero") \o branch_fp(Full, TRUE, "EqualOrUnordered", x, "FT")
branch_truncate_double_to_int32(x, d, successful) ==
  fcvt_fp2si(Full, d, x, "zero") \o sign_extend("DT", d, Half)
  \o << IF successful THEN <<"sltu", "DT", "zero", "DT">> ELSE <<"sltiu", "DT", "DT", 1>> >>
  \o mask_register(d, d, Half) \o make_branch("NotEqual", "DT", "zero")
branch_convert_double_to_int32(x, d, neg_zero_check) ==
  fcvt_fp2si(Full, "DT", x, "near") \o fcvt_si2fp(Full, "FT", "DT")
  \o mask_register(d, "DT", Half) \o branch_fp(Full, FALSE, "NotEqualOrUnordered", x, "FT")
  \o IF neg_zero_check
     THEN << <<"bne", "DT", "zero", 3>> >> \o fmv_fp2i(Full, "DT", x)
          \o make_branch("LessThan", "DT", "zero")
     ELSE <<>>

get_effective_address(o, d) ==
  LET r == resolve_address(o, d) IN r.code \o << <<"addi", d, r.base, r.off>> >>
load_float(o, d) == FMem("fl", Half, d, o)
load_double(o, d) == FMem("fl", Full, d, o)
store_float(x, o) == FMem("fs", Half, x, o)
store_double(x, o) == FMem("fs", Full, x, o)

Arith3(f, w, x, y, d) == << <<f, w, d, x, y>> >>
ArithMemory(f, x, d) ==
  IF x.k = "freg" THEN Arith3(f, Full, d, x.r, d)
  ELSE load_double(x, "FT") \o Arith3(f, Full, d, "FT", d)
add_double_rr(x, d) == IF x.k = "addr" THEN unreachable ELSE ArithMemory("fadd", x, d)
sub_double_rr(x, d) == IF x.k = "addr" THEN unreachable ELSE ArithMemory("fsub", x, d)
mul_double_rr(x, d) == ArithMemory("fmul", x, d)
div_double_rr(x, d) == Arith3("fdiv", Full, d, x, d)
sqrt(w, x, d) == << <<"fsqrt", w, d, x>> >>

FloatLogic(f, w, x, y, d) ==
  fmv_fp2i(w, "DT", x) \o fmv_fp2i(w, "MT", y) \o << <<f, "DT", "DT", "MT">> >>
  \o fmv_i2fp(w, d, "DT")

convert_int32_to_double(x, d) ==
  IF x.k = "reg" THEN fcvt_si2fp(Full, d, x.r) ELSE li(x.v, "DT") \o fcvt_si2fp(Full, d, "DT")
convert_float_to_double(x, d) ==
  fmv_fp2i(Half, "DT", x) \o fmv_i2fp(Full, d, "DT") \o fcvt_fp2fp(Full, Half, d, d)
convert_double_to_float(x, d) == fcvt_fp2fp(Half, Full, d, x)

(* A truncation; the 32-bit ones clear the upper half. *)
truncate(w, signed, half, x, d) ==
  (IF signed THEN fcvt_fp2si(w, d, x, "zero") ELSE fcvt_fp2ui(w, d, x, "zero"))
  \o IF half THEN mask_register(d, d, Half) ELSE <<>>

-------------------------------------------------------------------------------
(* Compare and swap of a part of a word, and a jump on failure or success. *)

branch_atomic_weak_cas_impl(w, is_failure, expected, new, o) ==
  LET r == resolve_address(o, "MT")
      last == << <<"srli", expected, expected, Half>>, <<"scw", "DT", "MT", expected>> >>
  IN << <<"xor", expected, expected, new>> >> \o r.code
     \o << <<"addi", "MT", r.base, r.off>>, <<"andi", "DT", "MT", 3>>, <<"andi", "MT", "MT", -4>>,
           <<"slli", "DT", "DT", 1>>, <<"addi", "MT", "MT", Half>>,
           <<"sll", expected, expected, "DT">>, <<"or", expected, expected, "DT">>,
           <<"lrw", "DT", "MT">>, <<"slli", "DT", "DT", Half>>,
           <<"xor", expected, "DT", expected>>, <<"srl", "DT", expected, expected>>,
           <<"xor", "DT", "DT", new>>, <<"slli", "DT", "DT", Full - w>> >>
     \o IF is_failure
        THEN make_branch("NotEqual", "DT", "zero") \o last
             \o make_branch("NotEqual", "DT", "zero")
        ELSE << <<"bne", "DT", "zero", 4>> >> \o last \o make_branch("Equal", "DT", "zero")

-------------------------------------------------------------------------------
(* Conditional moves *)

branch_for_move_conditionally(cond, x, y, n) ==
  CASE cond = "Equal" -> << <<"beq", x, y, n>> >>
    [] cond = "NotEqual" -> << <<"bne", x, y, n>> >>
    [] cond = "Above" -> << <<"bltu", y, x, n>> >>
    [] cond = "AboveOrEqual" -> << <<"bgeu", x, y, n>> >>
    [] cond = "Below" -> << <<"bltu", x, y, n>> >>
    [] cond = "BelowOrEqual" -> << <<"bgeu", y, x, n>> >>
    [] cond = "GreaterThan" -> << <<"blt", y, x, n>> >>
    [] cond = "GreaterThanOrEqual" -> << <<"bge", x, y, n>> >>
    [] cond = "LessThan" -> << <<"blt", x, y, n>> >>
    [] cond = "LessThanOrEqual" -> << <<"bge", y, x, n>> >>

invert(cond) ==
  CASE cond = "Equal" -> "NotEqual" [] cond = "NotEqual" -> "Equal"
    [] cond = "Above" -> "BelowOrEqual" [] cond = "BelowOrEqual" -> "Above"
    [] cond = "AboveOrEqual" -> "Below" [] cond = "Below" -> "AboveOrEqual"
    [] cond = "GreaterThan" -> "LessThanOrEqual" [] cond = "LessThanOrEqual" -> "GreaterThan"
    [] cond = "GreaterThanOrEqual" -> "LessThan" [] cond = "LessThan" -> "GreaterThanOrEqual"

Moved(x, d) == << <<"addi", d, x, 0>> >>
FMoved(x, d) == << <<"fsgnj", Full, d, x, x>> >>
(* The first move, unless a branch to the second one precedes. *)
Either(move1, move2) == move1 \o << <<"jal", 2>> >> \o move2

move_conditionally32(cond, x, y, from, d) ==
  sign_extend("DT", x, Half) \o sign_extend("MT", y, Half)
  \o branch_for_move_conditionally(invert(cond), "DT", "MT", 2) \o Moved(from, d)
move_conditionally32_then_else(cond, x, y, then, else, d) ==
  sign_extend("DT", x, Half)
  \o (IF y.k = "reg" THEN sign_extend("MT", y.r, Half) ELSE li(y.v, "MT"))
  \o branch_for_move_conditionally(cond, "DT", "MT", 3) \o Either(Moved(then, d), Moved(else, d))
move_conditionally64(cond, x, y, from, d) ==
  branch_for_move_conditionally(invert(cond), x, y, 2) \o Moved(from, d)
move_conditionally64_then_else(cond, x, y, then, else, d) ==
  (IF y.k = "reg" THEN <<>> ELSE li(y.v, "DT"))
  \o branch_for_move_conditionally(cond, x, IF y.k = "reg" THEN y.r ELSE "DT", 3)
  \o Either(Moved(then, d), Moved(else, d))

(* branch_fp with its jump linked to n instructions further on. *)
Skip(w, cond, x, y, n) ==
  LET b == branch_fp(w, TRUE, cond, x, y) IN [b EXCEPT ![Len(b)][4] = n]
move_conditionally_fp(w, cond, x, y, from, d) == Skip(w, cond, x, y, 2) \o Moved(from, d)
move_conditionally_fp_then_else(w, cond, x, y, then, else, d) ==
  Skip(w, cond, x, y, 3) \o Either(Moved(then, d), Moved(else, d))

(* x and a register or constant, tested into DATA_TEMP. *)
TestOf(w, cond, x, y) ==
  (IF y.k = "reg" THEN << <<"and", "DT", x, y.r>> >>
   ELSE li(y.v, "DT") \o << <<"and", "DT", x, "DT">> >>)
  \o sign_extend("DT", "DT", w) \o test_finalize(cond, "DT", "DT")
move_conditionally_test32(cond, x, y, from, d) ==
  TestOf(Half, cond, x, y) \o << <<"beq", "DT", "zero", 2>> >> \o Moved(from, d)
move_conditionally_test32_then_else(cond, x, y, then, else, d) ==
  TestOf(Half, cond, x, y) \o << <<"beq", "DT", "zero", 3>> >> \o Either(Moved(then, d), Moved(else, d))
move_conditionally_test64(cond, x, y, from, d) ==
  TestOf(Full, cond, x, y) \o << <<"beq", "DT", "zero", 2>> >> \o Moved(from, d)
move_conditionally_test64_then_else(cond, x, y, then, else, d) ==
  TestOf(Full, cond, x, y) \o << <<"beq", "DT", "zero", 3>> >> \o Either(Moved(then, d), Moved(else, d))

move_double_conditionally32(cond, x, y, then, else, d) ==
  sign_extend("DT", x, Half)
  \o (IF y.k = "reg" THEN sign_extend("MT", y.r, Half) ELSE li(y.v, "MT"))
  \o branch_for_move_conditionally(invert(cond), "DT", "MT", 3)
  \o Either(FMoved(then, d), FMoved(else, d))
move_double_conditionally64(cond, x, y, then, else, d) ==
  (IF y.k = "reg" THEN <<>> ELSE li(y.v, "MT"))
  \o branch_for_move_conditionally(invert(cond), x, IF y.k = "reg" THEN y.r ELSE "MT", 3)
  \o Either(FMoved(then, d), FMoved(else, d))
move_double_conditionally_fp(w, cond, x, y, then, else, d) ==
  Skip(w, cond, x, y, 3) \o Either(FMoved(then, d), FMoved(else, d))
move_double_conditionally_test32(cond, x, y, then, else, d) ==
  (IF y.k = "reg" THEN sign_extend("MT", y.r, Half) ELSE li(y.v, "MT"))
  \o sign_extend("DT", x, Half) \o << <<"and", "DT", "DT", "MT">> >>
  \o test_finalize(cond, "DT", "DT") \o << <<"beq", "DT", "zero", 3>> >>
  \o Either(FMoved(then, d), FMoved(else, d))
move_double_conditionally_test64(cond, x, y, then, else, d) ==
  (IF y.k = "reg" THEN << <<"and", "DT", x, y.r>> >>
   ELSE li(y.v, "MT") \o << <<"and", "DT", x, "MT">> >>)
  \o test_finalize(cond, "DT", "DT") \o << <<"beq", "DT", "zero", 3>> >>
  \o Either(FMoved(then, d), FMoved(else, d))

===============================================================================
