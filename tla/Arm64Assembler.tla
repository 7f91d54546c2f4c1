----------------------------- MODULE Arm64Assembler -----------------------------
(***************************************************************************)
(* ARM64Assembler (arm64assembler.rs): the instruction each of its         *)
(* functions puts in the buffer.                                           *)
(***************************************************************************)
EXTENDS Arm64Encodings

-------------------------------------------------------------------------------
(* Arithmetic *)

is_sp(r) == r = "sp"
add_imm(w, S, d, n, imm, shift) == add_subtract_immediate(w, "add", S, shift, imm, n, d)
add_extend(w, S, d, n, m, extend, amount) ==
  add_subtract_extended_register(w, "add", S, m, extend, amount, n, d)
add_shifted(w, S, d, n, m, shift, amount) ==
  IF is_sp(d) \/ is_sp(n) THEN add_extend(w, S, d, n, m, "UXTX", amount)
  ELSE add_subtract_shifted_registers(w, "add", S, shift, m, amount, n, d)
add(w, S, d, n, m) == add_shifted(w, S, d, n, m, "LSL", 0)
sub_imm(w, S, d, n, imm, shift) ==
  add_subtract_immediate(w, "sub", S, Bool(shift = Imm12), imm, n, d)
sub_shifted(w, S, d, n, m, shift, amount) ==
  add_subtract_shifted_registers(w, "sub", S, shift, m, amount, n, d)
sub(w, S, d, n, m) == sub_shifted(w, S, d, n, m, "LSL", 0)
sub_extend(w, S, d, n, m, extend, amount) ==
  add_subtract_extended_register(w, "sub", S, m, extend, amount, n, d)
cmn_imm(w, n, imm, shift) == add_imm(w, TRUE, "zr", n, imm, shift)
cmp_imm(w, n, imm, shift) == sub_imm(w, TRUE, "zr", n, imm, shift)
cmp(w, n, m) == sub(w, TRUE, "zr", n, m)
cmp_extend(w, n, m, extend, amount) == sub_extend(w, TRUE, "zr", n, m, extend, amount)
neg(w, d, m) == sub(w, FALSE, d, "zr", m)
madd(w, d, n, m, a) == data_processing_3_source(w, "MADD", m, a, n, d)
msub(w, d, n, m, a) == data_processing_3_source(w, "MSUB", m, a, n, d)
mul(w, d, n, m) == madd(w, d, n, m, "zr")
mneg(w, d, n, m) == msub(w, d, n, m, "zr")
smaddl(d, n, m, a) == data_processing_3_source(Full, "SMADDL", m, a, n, d)
smsubl(d, n, m, a) == data_processing_3_source(Full, "SMSUBL", m, a, n, d)
smull(d, n, m) == smaddl(d, n, m, "zr")
smnegl(d, n, m) == smsubl(d, n, m, "zr")
umaddl(d, n, m, a) == data_processing_3_source(Full, "UMADDL", m, a, n, d)
umsubl(d, n, m, a) == data_processing_3_source(Full, "UMSUBL", m, a, n, d)
umull(d, n, m) == umaddl(d, n, m, "zr")
umnegl(d, n, m) == umsubl(d, n, m, "zr")
sdiv(w, d, n, m) == data_processing_2_source(w, m, "SDIV", n, d)
udiv(w, d, n, m) == data_processing_2_source(w, m, "UDIV", n, d)

-------------------------------------------------------------------------------
(* Logic *)

AndOp(S) == IF S THEN "ANDS" ELSE "AND"
and_shifted(w, S, d, n, m, shift, amount) ==
  logical_shifted_register(w, AndOp(S), shift, FALSE, m, amount, n, d)
and(w, S, d, n, m) == and_shifted(w, S, d, n, m, "LSL", 0)
and_imm(w, S, d, n, imm) == logical_immediate(w, AndOp(S), imm, n, d)
bic_shifted(w, S, d, n, m, shift, amount) ==
  logical_shifted_register(w, AndOp(S), shift, TRUE, m, amount, n, d)
bic(w, S, d, n, m) == bic_shifted(w, S, d, n, m, "LSL", 0)
eon_shifted(w, d, n, m, shift, amount) ==
  logical_shifted_register(w, "EOR", shift, TRUE, m, amount, n, d)
eon(w, d, n, m) == eon_shifted(w, d, n, m, "LSL", 0)
eor_shifted(w, d, n, m, shift, amount) ==
  logical_shifted_register(w, "EOR", shift, FALSE, m, amount, n, d)
eor(w, d, n, m) == eor_shifted(w, d, n, m, "LSL", 0)
eor_imm(w, d, n, imm) == logical_immediate(w, "EOR", imm, n, d)
orn_shifted(w, d, n, m, shift, amount) ==
  logical_shifted_register(w, "ORR", shift, TRUE, m, amount, n, d)
orn(w, d, n, m) == orn_shifted(w, d, n, m, "LSL", 0)
orr_shifted(w, d, n, m, shift, amount) ==
  logical_shifted_register(w, "ORR", shift, FALSE, m, amount, n, d)
orr(w, d, n, m) == orr_shifted(w, d, n, m, "LSL", 0)
orr_imm(w, d, n, imm) == logical_immediate(w, "ORR", imm, n, d)
mvn(w, d, m) == orn(w, d, "zr", m)
tst(w, n, m) == and(w, TRUE, "zr", n, m)
tst_imm(w, n, imm) == and_imm(w, TRUE, "zr", n, imm)

mov(w, d, m) ==
  IF is_sp(d) \/ is_sp(m) THEN add_imm(w, FALSE, d, m, 0, 0) ELSE orr(w, d, "zr", m)
movi(w, d, imm) == orr_imm(w, d, "zr", imm)
movk(w, d, v, shift) == move_wide_immediate(w, "K", shift \div Quarter, v, d)
movn(w, d, v, shift) == move_wide_immediate(w, "N", shift \div Quarter, v, d)
movz(w, d, v, shift) == move_wide_immediate(w, "Z", shift \div Quarter, v, d)

-------------------------------------------------------------------------------
(* Shifts and fields *)

asrv(w, d, n, m) == data_processing_2_source(w, m, "ASRV", n, d)
lslv(w, d, n, m) == data_processing_2_source(w, m, "LSLV", n, d)
lsrv(w, d, n, m) == data_processing_2_source(w, m, "LSRV", n, d)
rorv(w, d, n, m) == data_processing_2_source(w, m, "RORV", n, d)
sbfm(w, d, n, immr, imms) == bitfield(w, "SBFM", immr, imms, n, d)
ubfm(w, d, n, immr, imms) == bitfield(w, "UBFM", immr, imms, n, d)
bfm(w, d, n, immr, imms) == bitfield(w, "BFM", immr, imms, n, d)
asr_imm(w, d, n, shift) == sbfm(w, d, n, shift, w - 1)
lsl_imm(w, d, n, shift) == ubfm(w, d, n, (w - shift) % w, w - 1 - shift)
lsr_imm(w, d, n, shift) == ubfm(w, d, n, shift, w - 1)
extr(w, d, n, m, lsb) == extract(w, m, lsb, n, d)
ror_imm(w, d, n, shift) == extr(w, d, n, n, shift)
bfi(w, d, n, lsb, width) == bfm(w, d, n, (w - lsb) % w, width - 1)
bfc(w, d, lsb, width) == bfm(w, d, "zr", lsb, width - 1)   (* lsb as it is *)
bfxil(w, d, n, lsb, width) == bfm(w, d, n, lsb, lsb + width - 1)
sbfiz(w, d, n, lsb, width) == sbfm(w, d, n, (w - lsb) % w, width - 1)
sbfx(w, d, n, lsb, width) == sbfm(w, d, n, lsb, lsb + width - 1)
ubfiz(w, d, n, lsb, width) == ubfm(w, d, n, (w - lsb) % w, width - 1)
ubfx(w, d, n, lsb, width) == ubfm(w, d, n, lsb, lsb + width - 1)
sxtb(w, d, n) == sbfm(w, d, n, 0, Byte - 1)
sxth(w, d, n) == sbfm(w, d, n, 0, Quarter - 1)
sxtw(d, n) == sbfm(Full, d, n, 0, Half - 1)
clz(w, d, n) == data_processing_1_source(w, "CLZ", n, d)
rbit(w, d, n) == data_processing_1_source(w, "RBIT", n, d)
rev16(w, d, n) == data_processing_1_source(w, "REV16", n, d)
rev(w, d, n) == data_processing_1_source(w, IF w = Half THEN "REV32" ELSE "REV64", n, d)

-------------------------------------------------------------------------------
(* Memory *)

Offset16(opc, t, n, m, S) == load_store_register_offset_gp(Quarter, FALSE, opc, m, "UXTX", S, n, t)
Offset8(opc, t, n, m, S) == load_store_register_offset_gp(Byte, FALSE, opc, m, "UXTX", S, n, t)
Signing(w) == IF w = Full THEN LOADS64 ELSE LOADS32

ldr_by_extended(w, t, n, m, extend) ==
  load_store_register_offset_gp(w, FALSE, LOAD, m, extend, FALSE, n, t)
ldr_extend(w, t, n, m, amount) ==
  load_store_register_offset_gp(w, FALSE, LOAD, m, "UXTX", amount # 0, n, t)
ldr(w, t, n, m) == ldr_extend(w, t, n, m, 0)
ldr_imm(w, t, n, imm) == load_store_register_unscaled_immediate_gp(w, FALSE, LOAD, imm, n, t)
ldrb(t, n, m) == Offset8(LOAD, t, n, m, FALSE)
ldrb_extend(t, n, m, amount) == Offset8(LOAD, t, n, m, TRUE)   (* an amount of zero *)
ldrb_imm(t, n, imm) == load_store_register_unsigned_immediate_gp(Byte, FALSE, LOAD, imm, n, t)
ldrh_extend(t, n, m, amount) == Offset16(LOAD, t, n, m, amount = 1)
ldrh(t, n, m) == ldrh_extend(t, n, m, 0)
ldrh_imm(t, n, imm) == load_store_register_unsigned_immediate_gp(Quarter, FALSE, LOAD, imm, n, t)
ldrsb(w, t, n, m) == Offset8(Signing(w), t, n, m, FALSE)
ldrsb_extend(w, t, n, m, amount) == Offset8(Signing(w), t, n, m, TRUE)
ldrsb_imm(w, t, n, imm) ==
  load_store_register_unsigned_immediate_gp(Byte, FALSE, Signing(w), imm, n, t)
ldrsh(w, t, n, m) == Offset16(Signing(w), t, n, m, FALSE)
ldrsh_extend(w, t, n, m, amount) == Offset16(Signing(w), t, n, m, amount = 1)
ldrsh_imm(w, t, n, imm) ==
  load_store_register_unsigned_immediate_gp(Quarter, FALSE, Signing(w), imm, n, t)
ldur(w, t, n, imm) == load_store_register_unscaled_immediate_gp(w, FALSE, LOAD, imm, n, t)
ldurb(t, n, imm) == load_store_register_unscaled_immediate_gp(Byte, FALSE, LOAD, imm, n, t)
ldurh(t, n, imm) == load_store_register_unscaled_immediate_gp(Quarter, FALSE, LOAD, imm, n, t)
ldursb(w, t, n, imm) ==
  load_store_register_unscaled_immediate_gp(Byte, FALSE, Signing(w), imm, n, t)
ldursh(w, t, n, imm) ==
  load_store_register_unscaled_immediate_gp(Quarter, FALSE, Signing(w), imm, n, t)

str_by_extended(w, t, n, m, extend) ==
  load_store_register_offset_gp(w, FALSE, STORE, m, extend, FALSE, n, t)
str_extend(w, t, n, m, amount) ==
  load_store_register_offset_gp(w, FALSE, STORE, m, "UXTX", amount # 0, n, t)
str(w, t, n, m) == str_extend(w, t, n, m, 0)
str_imm(w, t, n, imm) ==
  load_store_register_unsigned_immediate_gp(w, FALSE, LOAD, imm, n, t)
strb(t, n, m) == Offset8(STORE, t, n, m, FALSE)
strb_extend(t, n, m, amount) == Offset8(STORE, t, n, m, TRUE)
strb_imm(t, n, imm) == load_store_register_unsigned_immediate_gp(Byte, FALSE, STORE, imm, n, t)
strh_extend(t, n, m, amount) == Offset16(STORE, t, n, m, amount = 1)
strh(t, n, m) == strh_extend(t, n, m, 0)
strh_imm(t, n, imm) == load_store_register_unsigned_immediate_gp(Quarter, FALSE, STORE, imm, n, t)
stur(w, t, n, imm) == load_store_register_unscaled_immediate_gp(w, FALSE, STORE, imm, n, t)
sturb(t, n, imm) == load_store_register_unscaled_immediate_gp(Byte, FALSE, STORE, imm, n, t)
sturh(t, n, imm) == load_store_register_unscaled_immediate_gp(Quarter, FALSE, STORE, imm, n, t)

mem_pair_op_size(w) == IF w = Full THEN 2 ELSE 0
mem_pair_op_size_fp(w) == CASE w = Full -> 1 [] w = 2 * Full -> 2 [] OTHER -> 0
is_valid_signed_imm7(x, shift) == FitsSigned(x \div 2^shift, Imm7) /\ x % 2^shift = 0
is_valid_ldp_imm(w, imm) ==
  is_valid_signed_imm7(imm, mem_pair_offset_shift(FALSE, mem_pair_op_size(w)))
is_valid_ldp_fp_imm(w, imm) ==
  is_valid_signed_imm7(imm, mem_pair_offset_shift(TRUE, mem_pair_op_size_fp(w)))
ldp_post(w, t, t2, n, imm) ==
  load_store_register_pair_post_index_gp(mem_pair_op_size(w), FALSE, LOAD, imm, n, t, t2)
ldp_pre(w, t, t2, n, imm) ==
  load_store_register_pair_pre_index_gp(mem_pair_op_size(w), LOAD, imm, n, t, t2)
ldp_imm_fp(w, t, t2, n, imm) ==
  load_store_register_pair_offset_gp(mem_pair_op_size_fp(w), TRUE, LOAD, imm, n, t, t2)
ldp_imm(w, t, t2, n, imm) ==
  load_store_register_pair_offset_gp(mem_pair_op_size(w), FALSE, LOAD, imm, n, t, t2)
ldnp(w, t, t2, n, imm) ==
  load_store_register_pair_non_temporal_gp(mem_pair_op_size(w), TRUE, LOAD, imm, n, t, t2)
stp_pair_pre(w, t, t2, n, imm) ==
  load_store_register_pair_pre_index_gp(mem_pair_op_size(w), STORE, imm, n, t, t2)
stp_pair_post(w, t, t2, n, imm) ==
  load_store_register_pair_post_index_gp(mem_pair_op_size(w), FALSE, STORE, imm, n, t, t2)
stp_pair_fp(w, t, t2, n, imm) ==
  load_store_register_pair_offset(mem_pair_op_size_fp(w), TRUE, STORE, imm, n, t, t2)
stp_pair_imm(w, t, t2, n, imm) ==
  load_store_register_pair_offset_gp(mem_pair_op_size(w), FALSE, STORE, imm, n, t, t2)
stnp_pair(w, t, t2, n, imm) ==
  load_store_register_pair_non_temporal_gp(mem_pair_op_size(w), FALSE, STORE, imm, n, t, t2)

(* Of floating-point registers: the stores are encoded as those of general *)
(* ones.                                                                   *)
encode_positive_immediate(w, imm) == imm \div (w \div Byte)
ldr_extend_fp(w, t, n, m, amount) ==
  load_store_register_offset(w, TRUE, LOAD, m, "UXTX", amount # 0, n, t)
ldr_fp(w, t, n, m) == ldr_extend_fp(w, t, n, m, 0)
ldr_imm_fp(w, t, n, imm) ==
  load_store_register_unsigned_immediate(w, TRUE, LOAD, encode_positive_immediate(w, imm), n, t)
ldur_fp(w, t, n, imm) == load_store_register_unscaled_immediate(w, TRUE, LOAD, imm, n, t)
str_extend_fp(w, t, n, m, amount) ==
  load_store_register_offset(w, FALSE, STORE, m, "UXTX", amount # 0, n, t)
str_fp(w, t, n, m) == str_extend_fp(w, t, n, m, 0)
str_imm_fp(w, t, n, imm) ==
  load_store_register_unsigned_immediate(w, FALSE, STORE, encode_positive_immediate(w, imm), n, t)
stur_fp(w, t, n, imm) == load_store_register_unscaled_immediate(w, FALSE, STORE, imm, n, t)

-------------------------------------------------------------------------------
(* Control and conditions *)

invert(cond) ==
  [EQ |-> "NE", NE |-> "EQ", HS |-> "LO", LO |-> "HS", MI |-> "PL", PL |-> "MI", VS |-> "VC",
   VC |-> "VS", HI |-> "LS", LS |-> "HI", GE |-> "LT", LT |-> "GE", GT |-> "LE", LE |-> "GT"][cond]
b(offset) == unconditional_branch_immediate(offset)
b_cond(cond, offset) == conditional_branch_immediate(offset, cond)
blr(n) == unconditional_branch_register("call", n)
br(n) == unconditional_branch_register("jump", n)
cbnz(w, t, offset) == compare_and_branch_immediate(w, TRUE, offset, t)
cbz(w, t, offset) == compare_and_branch_immediate(w, FALSE, offset, t)
tbnz(t, bit, offset) == test_and_branch_immediate(TRUE, bit, offset, t)
tbz(t, bit, offset) == test_and_branch_immediate(FALSE, bit, offset, t)
csel(w, d, n, m, cond) == conditional_select(w, FALSE, m, cond, FALSE, n, d)
csinc(w, d, n, m, cond) == conditional_select(w, FALSE, m, cond, TRUE, n, d)
cset(w, d, cond) == csinc(w, d, "zr", "zr", invert(cond))

(* An address, in the fixed number of moves that a linked call has. *)
HalfWord(v, i) == (v \div 2^(Quarter * i)) % 2^Quarter
set_pointer(v, d) ==
  move_wide_immediate(Full, "Z", 0, HalfWord(v, 0), d)
  \o move_wide_immediate(Full, "K", 1, HalfWord(v, 1), d)
  \o move_wide_immediate(Full, "K", 2, HalfWord(v, 2), d)

-------------------------------------------------------------------------------
(* Floating point *)

fcmp(w, n, m) == floating_point_compare(w, m, n)
fcmp_0(w, n) == floating_point_compare(w, "q0", n)   (* with the register of number zero *)
fcsel(w, d, n, m, cond) == floating_point_conditional_select(w, m, cond, n, d)
fabs(w, d, n) == floating_point_data_processing_1_source(w, "FABS", n, d)
fneg(w, d, n) == floating_point_data_processing_1_source(w, "FNEG", n, d)
fsqrt(w, d, n) == floating_point_data_processing_1_source(w, "FSQRT", n, d)
fmov(w, d, n) == floating_point_data_processing_1_source(w, "FMOV", n, d)
frintm(w, d, n) == floating_point_data_processing_1_source(w, "FRINTM", n, d)
frintn(w, d, n) == floating_point_data_processing_1_source(w, "FRINTN", n, d)
frintp(w, d, n) == floating_point_data_processing_1_source(w, "FRINTP", n, d)
frintz(w, d, n) == floating_point_data_processing_1_source(w, "FRINTZ", n, d)
fcvt(to, from, d, n) ==
  floating_point_data_processing_1_source(
    from, IF to = Full THEN "FCVTToDouble" ELSE "FCVTToSingle", n, d)
fadd(w, d, n, m) == floating_point_data_processing_2_source(w, "fadd", m, n, d)
fsub(w, d, n, m) == floating_point_data_processing_2_source(w, "fsub", m, n, d)
fmul(w, d, n, m) == floating_point_data_processing_2_source(w, "fmul", m, n, d)
fdiv(w, d, n, m) == floating_point_data_processing_2_source(w, "fdiv", m, n, d)
fmax(w, d, n, m) == floating_point_data_processing_2_source(w, "fmax", m, n, d)
fmin(w, d, n, m) == floating_point_data_processing_2_source(w, "fmin", m, n, d)
vand(w, d, n, m) == vector_data_processing_logical("AND", m, n, d)
vorr(w, d, n, m) == vector_data_processing_logical("ORR", m, n, d)
movi_fp(d) == simd_move_immediate(d)
fcvtns(i, f, d, n) == floating_point_integer_conversion_f2i(i, f, "FCVTNS", n, d)
fcvtzs(i, f, d, n) == floating_point_integer_conversion_f2i(i, f, "FCVTZS", n, d)
fcvtzu(i, f, d, n) == floating_point_integer_conversion_f2i(i, f, "FCVTZU", n, d)
fmov_f2i(w, d, n) == floating_point_integer_conversion_f2i(w, w, "FMOV", n, d)
fmov_i2f(w, d, n) == floating_point_integer_conversion_i2f(w, w, "FMOV", n, d)
scvtf(f, i, d, n) == floating_point_integer_conversion_i2f(i, f, "SCVTF", n, d)
ucvtf(f, i, d, n) == floating_point_integer_conversion_i2f(i, f, "UCVTF", n, d)

===============================================================================
