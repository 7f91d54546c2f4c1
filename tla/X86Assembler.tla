------------------------------ MODULE X86Assembler ------------------------------
(***************************************************************************)
(* X86Assembler (x86assembler.rs): the instruction each of its functions   *)
(* encodes.  The forms of a function (register to register, from and to    *)
(* memory, from an immediate, with an index) are one operator here, since  *)
(* its operands tell them apart; what is kept of the encoding is the width *)
(* it makes of the instruction, and the registers its bytes name.          *)
(***************************************************************************)
EXTENDS X86Machine

IsImmediate(o) == o.k \in {"imm32", "imm64"}
can_sign_extend_8_32(o) == FitsSigned(o.v, Byte)
eax == R("a")
ecx == R("c")
r11 == R("r11")

(* The formatters: one_byte_op emits a prefix for the registers from r8 on, *)
(* one_byte_op8 for the byte registers that need one too, and three_byte_op *)
(* none.                                                                   *)
one_byte_op(mn, w, x, y) ==
  << IF w = Byte THEN <<mn, w, WithoutREX(x), WithoutREX(y)>> ELSE <<mn, w, x, y>> >>
one_byte_op8(mn, w, x, y) == << <<mn, w, x, y>> >>
one_byte_op64(mn, x, y) == << <<mn, Full, x, y>> >>
two_byte_op(mn, w, x, y, rw) == << <<mn, w, x, y, rw>> >>
three_byte_op(mn, w, x, y, mode) ==
  LET Low(o) == IF o.k = "freg" THEN F(XNumbered(XNumber[o.r] % 8)) ELSE o IN << <<mn, w, Low(x), Low(y), mode>> >>

(* An immediate of 32 bits where the operand-size prefix announces one of  *)
(* 16: the bytes left over are taken for the next instruction.             *)
TooWide == << <<"illegal">> >>

(* Operands that lead to an unreachable!(): the operation panics while it  *)
(* assembles, and what it was to do is not done.                           *)
unreachable == << <<"illegal">> >>

-------------------------------------------------------------------------------
(* Arithmetic; those of 64 bits are apart. *)

add(w, x, y) ==
  IF w = Quarter /\ IsImmediate(x) /\ ~can_sign_extend_8_32(x) THEN TooWide
  ELSE one_byte_op8("add", w, x, y)
addq(x, y) ==   (* the form of eax has no REX.W *)
  IF IsImmediate(x) /\ ~can_sign_extend_8_32(x) /\ y = eax THEN one_byte_op("add", Half, x, y)
  ELSE one_byte_op64("add", x, y)
and(w, x, y) == one_byte_op8("and", w, x, y)
andq(x, y) == one_byte_op64("and", x, y)
or(w, x, y) == one_byte_op("or", w, x, y)
orq(x, y) == one_byte_op64("or", x, y)
sub(w, x, y) == one_byte_op("sub", w, x, y)
subq(x, y) == one_byte_op64("sub", x, y)
xor(w, x, y) == one_byte_op("xor", w, x, y)
xorq(x, y) == one_byte_op64("xor", x, y)

dec_r(d) == << <<"dec", Full, d>> >>   (* as decq_r *)
inc_r(d) == << <<"inc", Half, d>> >>
incq(d) == << <<"inc", Full, d>> >>
decq_r(d) == << <<"dec", Full, d>> >>
neg(w, d) == << <<"neg", w, d>> >>
not(w, d) == << <<"not", w, d>> >>
bswap(w, d) == << <<"swap", w, d>> >>

lzcnt(w, x, y) == << <<"clz", w, x, y>> >>
tzcnt(w, x, y) == << <<"ctz", w, x, y>> >>
popcnt(w, x, y) == << <<"popcnt", w, x, y>> >>

(* The count is an immediate, or ecx. *)
shift32(mn, n, d) == << <<mn, Half, n, d>> >>
shift64(mn, n, d) == << <<mn, Full, n, d>> >>
rolw_i8r(n, d) == << <<"ror", Quarter, n, d>> >>   (* to the right *)

imul(w, x, y) == << <<"imul", w, x, y>> >>
imull_i32r(x, n, d) == << <<"imul3", Half, n, d, x>> >>

cmp(w, x, y) == one_byte_op("cmp", w, x, y)
cmpq(x, y) == one_byte_op64("cmp", x, y)
test(w, x, y) == one_byte_op("test", w, x, y)
testq(x, y) == one_byte_op64("test", x, y)
testb_i8r(n, d) == one_byte_op("test", Byte, n, d)
bt(n, x) == << <<"bt", Half, n, x>> >>
btw(n, x) == << <<"bt", Full, n, x>> >>   (* REX.W prevails over the prefix *)
setcc_r(cc, d) == << <<"setcc", cc, d>> >>

-------------------------------------------------------------------------------
(* Moves *)

xchg(w, x, y) == one_byte_op("xchg", w, x, y)
xchgq(x, y) == one_byte_op64("xchg", x, y)

movl(x, y) == one_byte_op("mov", Half, x, y)
movb(x, y) == one_byte_op8("mov", Byte, x, y)
movw(x, y) == one_byte_op8("mov", Quarter, x, y)
movq(x, y) == one_byte_op64("mov", x, y)
movl_meax(v) == movl(Absolute(v), eax)
movl_eaxm(v) == movl(eax, Absolute(v))
movq_meax(v) == movq(Absolute(v), eax)
movq_eaxm(v) == movq(eax, Absolute(v))
movl_i32r(v, d) == movl(Imm(Half, v), d)
movq_i64r(v, d) == movq(Imm(Full, v), d)
mov_i32r(v, d) == movq(Imm(Half, v), d)
movsxd_rr(x, y) == << <<"movsx", Half, x, y, Full>> >>
movz(w, x, y) == << <<"movzx", w, x, y, Half>> >>
movs(w, x, y) == << <<"movsx", w, x, y, Half>> >>
movsq(w, x, y) == << <<"movsx", w, x, y, Full>> >>
cmovq(cc, x, y) == << <<"cmov", cc, Full, x, y>> >>
leal(x, y) == one_byte_op("lea", Half, x, y)
leaq(x, y) == one_byte_op64("lea", x, y)
push_r(x) == << <<"push", x>> >>
pop_r(x) == << <<"pop", x>> >>

(* Jumps; n counts instructions, or is the client's target. *)
call_r(x) == << <<"call_to", x>> >>
jmp(n) == << <<"jmp", n>> >>
jmp_r(x) == << <<"jump_to", x>> >>
jcc(cc, n) == << <<"jcc", cc, n>> >>

-------------------------------------------------------------------------------
(* Floating point *)

adds(w, x, y) == two_byte_op("fadd", w, x, y, w)
muls(w, x, y) == two_byte_op("fmul", w, x, y, w)
subs(w, x, y) == two_byte_op("fsub", w, x, y, w)
divs(w, x, y) == two_byte_op("fdiv", w, x, y, w)
sqrts(w, x, y) == two_byte_op("fsqrt", w, x, y, w)
ucomis(w, x, y) == two_byte_op("ucomi", w, x, y, w)
rounds(w, x, y, mode) == three_byte_op("fround", w, x, y, mode)
andps_rr(x, y) == two_byte_op("fand", Full, x, y, Full)
orps_rr(x, y) == two_byte_op("for", Full, x, y, Full)
xorps_rr(x, y) == two_byte_op("fxor", Full, x, y, Full)
xorpd_rr(x, y) == two_byte_op("fxor", Full, x, y, Full)
andnpd_rr(x, y) == two_byte_op("fandn", Full, x, y, Full)

(* From an integer of iw bits to a float of w. *)
cvtsi2s(iw, w, x, y) == two_byte_op("cvtsi", iw, x, y, w)
cvttsd2si_rr(x, y) == two_byte_op("cvtt", Full, x, y, Half)
cvttsd2siq_rr(x, y) == two_byte_op("cvtt", Full, x, y, Full)
cvtss2siq_rr(x, y) == two_byte_op("cvtt", Half, x, y, Half)   (* without REX.W *)
cvtsd2ss(x, y) == two_byte_op("cvtf", Full, x, y, Half)
cvtss2sd(x, y) == two_byte_op("cvtf", Half, x, y, Full)

(* Between a general register and a floating-point one: movd_f2r has its   *)
(* operands the other way round, so their numbers name others.             *)
movd_f2r(x, y) ==
  << <<"mov", Half, F(XNumbered(Number[y.r])), R(Numbered(XNumber[x.r]))>> >>
movd_r2f(x, y) == << <<"mov", Half, x, y>> >>
movq_f2r(x, y) == << <<"mov", Full, x, y>> >>
movq_r2f(x, y) == << <<"mov", Full, x, y>> >>
movmskpd_rr(x, y) == << <<"movmsk", Full, x, y>> >>
movap(x, y) == two_byte_op("movf", Full, x, y, Full)
movs_fp(w, x, y) == (* between a register and memory, which clears the rest *)
  two_byte_op("movf", w, x, y, w)

===============================================================================
