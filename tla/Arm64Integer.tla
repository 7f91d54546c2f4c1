------------------------------ MODULE Arm64Integer ------------------------------
(***************************************************************************)
(* MacroAssemblerARM64 (macro_assembler_arm64.rs): the instructions each   *)
(* operation emits.  Operands are those of MacroOps; an operation that     *)
(* takes a register takes its name here, and a width is one of Words.      *)
(*                                                                         *)
(* The assembler remembers the constants it has put in its temporaries and *)
(* what it emits depends on them, so an operation is a sequence of         *)
(* instructions and of requests that Emit expands: "invalidate" forgets a  *)
(* temporary, "cached" puts a constant in one, "move" in any register,      *)
(* "load_internal" and "store_internal" reach an absolute address.         *)
(***************************************************************************)
EXTENDS Arm64Machine, FiniteSets

I == INSTANCE Arm64Assembler

-------------------------------------------------------------------------------
(* Constants *)

is_uint12(x) == Signed(x, Half) \in 0..(2^Imm12 - 1)   (* which takes an i32 *)

(* A constant as twelve bits, possibly shifted by twelve, possibly         *)
(* negated; the last case keeps the constant before its shift.             *)
NoImmediate == [imm |-> 0, shift |-> 0, negated |-> FALSE, fits |-> FALSE]
Fits(x, shift, negated) ==
  [imm |-> Signed(x, Half), shift |-> shift, negated |-> negated, fits |-> TRUE]
FitsShifted(v, up) ==
  CASE up * 2^Imm12 # v -> NoImmediate
    [] up * 2^Imm12 = v -> IF is_uint12(up) THEN Fits(up, Imm12, FALSE)
                           ELSE IF is_uint12(-up) THEN Fits(-v, Imm12, TRUE) ELSE NoImmediate
try_extract_shifted_imm(v) ==
  IF is_uint12(v) THEN Fits(v, 0, FALSE)
  ELSE IF is_uint12(-v) THEN Fits(-v, 0, TRUE) ELSE FitsShifted(v, v \div 2^Imm12)
Encodable(v) == try_extract_shifted_imm(v).fits

AddShifted(w, S, d, n, e) ==
  IF e.negated THEN I!sub_imm(w, S, d, n, e.imm, e.shift) ELSE I!add_imm(w, S, d, n, e.imm, e.shift)
SubShifted(w, S, d, n, e) ==
  IF e.negated THEN I!add_imm(w, S, d, n, e.imm, e.shift) ELSE I!sub_imm(w, S, d, n, e.imm, e.shift)
AddImm(w, S, d, n, v) == AddShifted(w, S, d, n, try_extract_shifted_imm(v))
SubImm(w, S, d, n, v) == SubShifted(w, S, d, n, try_extract_shifted_imm(v))

get_half_word(v, i, w) == Shr(v, Quarter * i, w) % 2^Quarter

(* need_to_clear_register starts false: no halfword clears the others. *)
move_internal(w, v, d) ==
  LET halves == w \div Quarter
      zeros == Cardinality({i \in 1..halves : get_half_word(v, i - 1, w) = 0})
      ones == Cardinality({i \in 1..halves : get_half_word(v, i - 1, w) = 2^Quarter - 1})
      common == IF zeros >= ones THEN 0 ELSE 2^Quarter - 1
  IN CASE Wrap(v, w) = 0 -> I!movz(w, d, 0, 0)
       [] Wrap(v, w) = 2^w - 1 -> I!movn(w, d, 0, 0)
       [] Wrap(v, w) \notin {0, 2^w - 1} /\ I!LogicalImmediate(v, w) -> I!movi(w, d, I!Pattern(v, w))
       [] OTHER ->
            FlattenSeq([i \in 1..halves |->
              IF get_half_word(v, i - 1, w) = common THEN <<>>
              ELSE I!movk(w, d, get_half_word(v, i - 1, w), Quarter * (i - 1))])
move_internal32(v, d) == <<<<"move", Half, v, d>>>>
move_internal64(v, d) == <<<<"move", Full, v, d>>>>

mov(o, d) ==
  CASE o.k = "imm32" -> move_internal32(o.v, d)
    [] o.k \in {"imm64", "abs"} -> move_internal64(o.v, d)
    [] o.k = "reg" /\ o.r = d -> <<>>
    [] o.k = "reg" /\ o.r # d ->
         IF o.r = "zr" /\ d = "sp" THEN I!movz(0, d, 0, 0) ELSE I!mov(Full, d, o.r)
Mov(r, d) == mov(R(r), d)
sign_extend32_to_64(o, d) ==
  IF o.k = "imm32" THEN mov(Imm(Full, o.v), d) ELSE I!sxtw(d, o.r)

(* get_cached_*_temp_register_id_and_invalidate. *)
data_temp == << <<"invalidate", "DT">> >>
memory_temp == << <<"invalidate", "MT">> >>

(* A constant that is not encodable, in the data temporary. *)
InData(o) == data_temp \o mov(o, "DT")
Extended64(v) == data_temp \o sign_extend32_to_64(Imm(Half, v), "DT")
move_to_cached_reg32(v, t) == << <<"cached", Half, t, v>> >>
move_to_cached_reg64(v, t) == << <<"cached", Full, t, v>> >>

-------------------------------------------------------------------------------
(* Addresses *)

can_encode_simm_offset(off) == FitsSigned(off, Imm9)
can_encode_pimm_offset(w, off) ==
  LET size == w \div Byte
  IN off >= 0 /\ off % size = 0 /\ off \div size < 2^Imm12
CanEncode(w, off) == can_encode_simm_offset(off) \/ can_encode_pimm_offset(w, off)

load_unsigned_immediate(w, t, n, off) ==
  CASE w = Byte -> I!ldrb_imm(t, n, off)
    [] w = Quarter -> I!ldrh_imm(t, n, off)
    [] OTHER -> I!ldr_imm(w, t, n, off)
load_unscaled_immediate(w, t, n, off) ==
  CASE w = Byte -> I!ldurb(t, n, off)
    [] w = Quarter -> I!ldurh(t, n, off)
    [] OTHER -> I!ldur(w, t, n, off)
load_signed_address_by_unsigned_immediate(w, t, n, off) ==
  IF w = Byte THEN I!ldrsb_imm(Full, t, n, off) ELSE I!ldrsh_imm(Full, t, n, off)
load_signed_address_by_unscaled_immediate(w, t, n, off) ==
  IF w = Byte THEN I!ldursb(Full, t, n, off) ELSE I!ldursh(Full, t, n, off)
store_unsigned_immediate(w, t, n, off) ==
  CASE w = Byte -> I!strb_imm(t, n, off)
    [] w = Quarter -> I!strh_imm(t, n, off)
    [] OTHER -> I!str_imm(w, t, n, off)
store_unscaled_immediate(w, t, n, off) ==
  CASE w = Byte -> I!sturb(t, n, off)
    [] w = Quarter -> I!sturh(t, n, off)
    [] OTHER -> I!stur(w, t, n, off)

(* These are asked only for an offset that CanEncode. *)
try_load_with_offset(w, t, n, off) ==
  IF can_encode_simm_offset(off) THEN load_unscaled_immediate(w, t, n, off)
  ELSE load_unsigned_immediate(w, t, n, off)
try_load_signed_with_offset(w, t, n, off) ==
  IF can_encode_simm_offset(off) THEN load_signed_address_by_unscaled_immediate(w, t, n, off)
  ELSE load_signed_address_by_unsigned_immediate(w, t, n, off)
fp_try_load_with_offset(w, t, n, off) ==
  IF can_encode_simm_offset(off) THEN I!ldur_fp(w, t, n, off) ELSE I!ldr_imm_fp(w, t, n, off)
try_store_with_offset(w, t, n, off) ==
  IF can_encode_simm_offset(off) THEN store_unscaled_immediate(w, t, n, off)
  ELSE store_unsigned_immediate(w, t, n, off)
fp_try_store_with_offset(w, t, n, off) ==
  IF can_encode_simm_offset(off) THEN I!stur_fp(w, t, n, off) ELSE I!str_imm_fp(w, t, n, off)

(* try_fold_base_and_offset_part: the code, and the base it leaves. *)
Folds(o) == o.off = 0 \/ Encodable(o.off)
try_fold_base_and_offset_part(o) ==
  IF o.off = 0 THEN <<>> ELSE memory_temp \o AddImm(Full, FALSE, "MT", o.base, o.off)
FoldedBase(o) == IF o.off = 0 THEN o.base ELSE "MT"

(* An offset that is too far in the memory temporary, and the index added  *)
(* to it.                                                                  *)
Far(o) == memory_temp \o sign_extend32_to_64(Imm(Half, o.off), "MT")
FarIndex(w, o) == Far(o) \o I!add_extend(w, FALSE, "MT", "MT", o.index, "UXTX", o.scale)

Scale(w) == CASE w = Byte -> 0 [] w = Quarter -> 1 [] w = Half -> 2 [] w = Full -> 3

load64(o, d) ==
  CASE o.k = "addr" /\ CanEncode(Full, o.off) -> try_load_with_offset(Full, d, o.base, o.off)
    [] o.k = "addr" /\ ~CanEncode(Full, o.off) -> Far(o) \o I!ldr(Full, d, o.base, "MT")
    [] o.k = "index" ->
         IF o.scale \in {0, 2} /\ Folds(o)
         THEN try_fold_base_and_offset_part(o) \o I!ldr_extend(Full, d, FoldedBase(o), o.index, o.scale)
         ELSE Far(o) \o I!ldr(Full, d, o.base, "MT") \o I!ldr_extend(Full, d, d, o.index, o.scale)
    [] o.k = "abs" -> << <<"load_internal", Full, d, o.v>> >>

(* The other accesses: near says how to reach an offset, extend a base and    *)
(* an index, and plain a base and a register.                              *)
Accesses(w, o, near, extend, plain) ==
  CASE o.k = "addr" /\ CanEncode(w, o.off) -> near
    [] o.k = "addr" /\ ~CanEncode(w, o.off) -> Far(o) \o plain
    [] o.k = "index" ->
         IF o.scale \in {0, Scale(w)} /\ Folds(o) THEN try_fold_base_and_offset_part(o) \o extend
         ELSE FarIndex(Full, o) \o plain

load32(o, d) ==
  IF o.k = "abs" THEN << <<"load_internal", Half, d, o.v>> >>
  ELSE Accesses(Half, o, try_load_with_offset(Half, d, o.base, o.off),
                 I!ldr_extend(Half, d, FoldedBase(o), o.index, o.scale), I!ldr(Half, d, o.base, "MT"))
load16(o, d) ==
  CASE o.k = "abs" -> << <<"load_internal", Quarter, d, o.v>> >>
    [] o.k = "ext" ->
         move_to_cached_reg64(o.off, "MT") \o I!ldrh_extend(d, "MT", o.base, 1)
         \o (IF d = "MT" THEN memory_temp ELSE <<>>)
    [] OTHER -> Accesses(Quarter, o, try_load_with_offset(Quarter, d, o.base, o.off),
                          I!ldr_extend(Quarter, d, FoldedBase(o), o.index, o.scale),
                          I!ldr(Quarter, d, o.base, "MT"))
(* A load from an absolute address in the cached memory temporary. *)
FromCached(v, load, d) ==
  move_to_cached_reg64(v, "MT") \o load \o (IF d = "MT" THEN memory_temp ELSE <<>>)
load16_signed_extend_to_32(o, d) ==
  IF o.k = "abs" THEN FromCached(o.v, I!ldrsh(Half, d, "MT", "zr"), d)
  ELSE Accesses(Quarter, o, try_load_signed_with_offset(Quarter, d, o.base, o.off),
                 I!ldrsh_extend(Half, d, FoldedBase(o), o.index, o.scale),
                 I!ldrsh(Half, d, o.base, "MT"))
load8(o, d) ==
  IF o.k = "abs" THEN FromCached(o.v, I!ldrb(d, "MT", "zr"), d)
  ELSE Accesses(Byte, o, try_load_with_offset(Byte, d, o.base, o.off),
                 I!ldrb_extend(d, FoldedBase(o), o.index, o.scale), I!ldrb(d, o.base, "MT"))
load8_signed_extend_to_32(o, d) ==
  IF o.k = "abs" THEN FromCached(o.v, I!ldrsb(Half, d, "MT", "zr"), d)
  ELSE Accesses(Byte, o, try_load_signed_with_offset(Byte, d, o.base, o.off),
                 I!ldrsb_extend(Half, d, FoldedBase(o), o.index, o.scale),
                 I!ldrsb(Half, d, o.base, "MT"))

(* The stores of a register, and those of a constant: zero, or a constant  *)
(* in the data temporary.                                                  *)
StoresTo32Or64(w, scales, x, o) ==
  CASE o.k = "abs" -> << <<"store_internal", w, x, o.v>> >>
    [] o.k = "addr" /\ CanEncode(w, o.off) -> try_store_with_offset(w, x, o.base, o.off)
    [] o.k = "addr" /\ ~CanEncode(w, o.off) -> Far(o) \o I!str(w, x, o.base, "MT")
    [] o.k = "index" /\ o.scale \in scales /\ Folds(o) ->
         try_fold_base_and_offset_part(o) \o I!str_extend(w, x, FoldedBase(o), o.index, o.scale)
    [] o.k = "index" /\ ~(o.scale \in scales /\ Folds(o)) ->
         IF w = Half THEN FarIndex(Full, o) \o I!str(Half, x, o.base, "MT")
         ELSE memory_temp \o I!str(Full, x, o.base, "MT") \o FarIndex(Full, o)
store32(x, o) ==
  CASE x.k = "reg" -> StoresTo32Or64(Half, {0, 2}, x.r, o)
    [] x.k = "imm32" /\ x.v = 0 -> StoresTo32Or64(Half, {0, 2}, "zr", o)
    [] x.k = "imm32" /\ x.v # 0 ->
         move_to_cached_reg32(x.v, "DT") \o StoresTo32Or64(Half, {0, 2}, "DT", o)
store64(x, o) ==
  CASE x.k = "reg" -> StoresTo32Or64(Full, {0, 2}, x.r, o)
    [] x.k # "reg" /\ x.v = 0 -> StoresTo32Or64(Full, {0, 2}, "zr", o)
    [] x.k # "reg" /\ x.v # 0 ->
         (IF x.k = "imm64" THEN move_to_cached_reg64(x.v, "DT") ELSE move_to_cached_reg32(x.v, "DT"))
         \o StoresTo32Or64(Full, {0, 2}, "DT", o)

store8_register(x, o) ==
  IF o.k = "abs" THEN memory_temp \o mov(Imm(Full, o.v), "MT") \o I!strb(x, "MT", "x0")
  ELSE Accesses(Byte, o, try_store_with_offset(Byte, x, o.base, o.off),
                I!strb_extend(x, FoldedBase(o), o.index, o.scale), I!strb(x, o.base, "MT"))
store8(x, o) ==
  CASE x.k = "reg" -> store8_register(x.r, o)
    [] x.k # "reg" /\ x.v = 0 -> store8_register("zr", o)
    [] x.k # "reg" /\ x.v # 0 ->
         data_temp \o mov(Imm(Full, x.v), "DT") \o store8_register("DT", o)

store16_register(x, o) ==
  IF o.k = "abs" THEN << <<"store_internal", Quarter, x, o.v>> >>
  ELSE Accesses(Quarter, o, try_store_with_offset(Quarter, x, o.base, o.off),
                I!strh_extend(x, FoldedBase(o), o.index, o.scale), I!strh(x, o.base, "MT"))
store16(x, o) ==   (* a constant only to an absolute address *)
  CASE x.k = "reg" -> store16_register(x.r, o)
    [] x.k # "reg" /\ x.v = 0 -> store16_register("zr", o)
    [] x.k # "reg" /\ x.v # 0 -> move_to_cached_reg32(x.v, "DT") \o store16_register("DT", o)

(* Pairs; load_pair64 takes the offset as the increment of a post-indexed  *)
(* load.                                                                   *)
Further(n, off, w) == Address(n, off + (w \div Byte))
InOrder(n, d, near, far) == IF n = d THEN far \o near ELSE near \o far
load_pair_far64(n, off, d, e) ==
  InOrder(n, d, load64(Address(n, off), d), load64(Further(n, off, Full), e))
load_pair32(n, off, d, e) ==
  IF I!is_valid_ldp_imm(Half, off) THEN I!ldp_imm(Half, d, e, n, off)
  ELSE InOrder(n, d, load32(Address(n, off), d), load32(Further(n, off, Half), e))
load_pair32_pre(n, index, d, e) == I!ldp_pre(Half, d, e, n, index)
load_pair32_post(n, index, d, e) == I!ldp_post(Half, d, e, n, index)
load_pair64(n, off, d, e) ==
  IF I!is_valid_ldp_imm(Full, off) THEN I!ldp_post(Full, d, e, n, off)
  ELSE load_pair_far64(n, off, d, e)
load_pair64_with_non_temporal_access(n, off, d, e) ==
  IF I!is_valid_ldp_imm(Full, off) THEN I!ldnp(Full, d, e, n, off)
  ELSE load_pair_far64(n, off, d, e)
store_pair32(x, y, n, off) ==
  IF I!is_valid_ldp_imm(Half, off) THEN I!stp_pair_imm(Half, x, y, n, off)
  ELSE store32(R(x), Address(n, off)) \o store32(R(y), Further(n, off, Half))
store_pair64(x, y, n, off) ==
  IF I!is_valid_ldp_imm(Full, off) THEN I!stp_pair_imm(Full, x, y, n, off)
  ELSE store64(R(x), Address(n, off)) \o store64(R(y), Further(n, off, Full))
store_pair32_pre(x, y, n, index) == I!stp_pair_pre(Half, x, y, n, index)
store_pair64_pre(x, y, n, index) == I!stp_pair_pre(Full, x, y, n, index)
store_pair32_post(x, y, n, index) == I!stp_pair_post(Half, x, y, n, index)
store_pair64_post(x, y, n, index) == I!stp_pair_post(Full, x, y, n, index)
store_pair64_with_non_temporal_access(x, y, n, off) ==
  IF I!is_valid_ldp_imm(Full, off) THEN I!stnp_pair(Full, x, y, n, off)
  ELSE store64(R(x), Address(n, off)) \o store64(R(y), Further(n, off, Full))
transfer32(x, o) == data_temp \o load32(x, "DT") \o data_temp \o store32(R("DT"), o)
transfer64(x, o) == data_temp \o load64(x, "DT") \o data_temp \o store64(R("DT"), o)

(* An offset patched later: always the same number of instructions.        *)
sign_extend_32_to_ptr_with_fixed_width(v, d) ==
  IF v >= 0
  THEN I!movz(Half, d, get_half_word(v, 0, Half), 0)
       \o I!movk(Half, d, get_half_word(v, 1, Half), Quarter)
  ELSE I!movn(Half, d, Complement(get_half_word(v, 0, Half), Quarter), 0)
       \o I!movk(Half, d, get_half_word(v, 1, Half), Quarter)
load64_with_address_offset_patch(o, d) ==
  memory_temp \o sign_extend_32_to_ptr_with_fixed_width(o.off, "MT")
  \o I!ldr_by_extended(Full, d, o.base, "MT", "SXTW")
store64_with_address_offset_patch(x, o) ==
  memory_temp \o sign_extend_32_to_ptr_with_fixed_width(o.off, "MT")
  \o I!str_by_extended(Full, x, o.base, "MT", "SXTW")
convertible_load_ptr(o, d) == I!ldr_imm(Full, d, o.base, o.off)

-------------------------------------------------------------------------------
(* Addition and subtraction *)

add32_rrr(x, y, d) ==
  CASE x.k = "reg" ->
         IF y = "sp" THEN I!add(Half, FALSE, d, y, x.r) ELSE I!add(Half, FALSE, d, x.r, y)
    [] x.k # "reg" /\ Encodable(x.v) -> AddImm(Half, FALSE, d, y, x.v)
    [] x.k # "reg" /\ ~Encodable(x.v) ->
         IF y # d THEN mov(x, d) \o I!add(Half, FALSE, d, d, y)
         ELSE InData(x) \o I!add(Half, FALSE, d, y, "DT")

(* A constant added to memory; one that is not encodable overwrites the    *)
(* value loaded.                                                           *)
add32(x, o) ==
  CASE InMemory(o) /\ Encodable(x.v) ->
         data_temp \o load32(o, "DT") \o AddImm(Half, FALSE, "DT", "DT", x.v) \o store32(R("DT"), o)
    [] InMemory(o) /\ ~Encodable(x.v) ->
         data_temp \o load32(o, "DT") \o memory_temp \o mov(x, "DT")
         \o I!add(Half, FALSE, "DT", "DT", "MT") \o store32(R("DT"), o)
    [] InMemory(x) -> data_temp \o load32(x, "DT") \o I!add(Half, FALSE, o.r, o.r, "DT")
    [] x.k = "reg" -> IF x.r = "sp" THEN I!add(Half, FALSE, o.r, x.r, o.r)
                      ELSE I!add(Half, FALSE, o.r, o.r, x.r)
    [] x.k = "imm32" /\ o.k = "reg" -> add32_rrr(x, o.r, o.r)

add64_rrr(x, y, d) ==
  CASE x.k = "reg" ->
         IF y = "sp" THEN I!add(Full, FALSE, d, y, x.r) ELSE I!add(Full, FALSE, d, x.r, y)
    [] x.k # "reg" /\ Encodable(x.v) -> AddImm(Full, FALSE, d, y, x.v)
    [] x.k = "imm32" /\ ~Encodable(x.v) -> Extended64(x.v) \o I!add(Full, FALSE, d, y, "DT")
    [] x.k = "imm64" /\ ~Encodable(x.v) -> InData(x) \o I!add(Full, FALSE, d, y, "DT")
add64(x, o) ==
  CASE x.k = "imm32" /\ InMemory(o) ->
         data_temp \o load64(o, "DT")
         \o (IF Encodable(x.v) THEN AddImm(Full, FALSE, "DT", "DT", x.v)
             ELSE memory_temp \o sign_extend32_to_64(x, "MT") \o I!add(Full, FALSE, "DT", "DT", "MT"))
         \o store64(R("DT"), o)
    [] x.k \in {"imm32", "imm64"} /\ o.k = "reg" -> add64_rrr(x, o.r, o.r)
    [] x.k = "reg" /\ o.k = "reg" -> IF x.r = "sp" THEN I!add(Full, FALSE, o.r, x.r, o.r)
                                     ELSE I!add(Full, FALSE, o.r, o.r, x.r)
    [] InMemory(x) -> data_temp \o load64(x, "DT") \o I!add(Full, FALSE, o.r, o.r, "DT")
    [] x.k = "reg" /\ InMemory(o) ->
         data_temp \o load64(o, "DT") \o I!add(Full, FALSE, "DT", "DT", x.r) \o store64(R("DT"), o)
add_zero_extend64(n, m, d) == I!add_extend(Full, FALSE, d, n, m, "UXTW", 0)
add_sign_extend64(n, m, d) == I!add_extend(Full, FALSE, d, n, m, "SXTW", 0)

(* For a subtraction a 64-bit one moves an i32 as 32 bits. *)
SubtractImmediate(w, x, o, d) ==
  IF Encodable(o.v) THEN SubImm(w, FALSE, d, x, o.v) ELSE InData(o) \o I!sub(w, FALSE, d, x, "DT")
sub32_rrr(x, o, d) ==
  IF o.k = "reg" THEN I!sub(Half, FALSE, d, x, o.r) ELSE SubtractImmediate(Half, x, o, d)
(* A value from memory is subtracted in the data temporary, and left there. *)
sub32(x, o) ==
  CASE x.k = "reg" -> I!sub(Half, FALSE, o.r, o.r, x.r)
    [] x.k = "imm32" /\ o.k = "reg" -> sub32_rrr(o.r, x, o.r)
    [] x.k = "imm32" /\ InMemory(o) ->
         data_temp \o load32(o, "DT")
         \o (IF Encodable(x.v) THEN SubImm(Half, FALSE, "DT", "DT", x.v)
             ELSE memory_temp \o mov(x, "MT") \o I!sub(Half, FALSE, "DT", "DT", "MT"))
         \o store32(R("DT"), o)
    [] InMemory(x) -> data_temp \o load32(x, "DT") \o I!sub(Half, FALSE, "DT", "DT", o.r)
sub64_rrr(x, o, d) ==
  IF o.k = "reg" THEN I!sub(Full, FALSE, d, x, o.r) ELSE SubtractImmediate(Full, x, o, d)
sub64(x, d) ==
  IF x.k = "reg" THEN I!sub(Full, FALSE, d, d, x.r) ELSE sub64_rrr(d, x, d)

neg32(r) == I!neg(Half, r, r)
neg32_rr(r, d) == I!neg(Half, d, r)
neg64(r) == I!neg(Full, r, r)
neg64_rr(r, d) == I!neg(Full, d, r)

mul32_rrr(x, y, d) ==
  IF x.k = "reg" THEN I!mul(Half, d, x.r, y) ELSE InData(x) \o I!mul(Half, d, "DT", y)
mul32(x, d) == mul32_rrr(x, d, d)
mul64_rrr(x, y, d) ==
  IF x.k = "reg" THEN I!mul(Full, d, x.r, y) ELSE InData(x) \o I!mul(Full, d, "DT", y)
multiply_add(w, l, r, s, d) == I!madd(w, d, l, r, s)
multiply_sub(w, l, r, s, d) == I!msub(w, d, l, r, s)
multiply_neg(w, l, r, d) == I!mneg(w, d, l, r)
multiply_add_signed_extend32(l, r, s, d) == I!smaddl(d, l, r, s)
multiply_add_zero_extend32(l, r, s, d) == I!umaddl(d, l, r, s)
multiply_sub_signed_extend32(l, r, s, d) == I!smsubl(d, l, r, s)
multiply_sub_zero_extend32(l, r, s, d) == I!umsubl(d, l, r, s)
multiply_sign_extend32(l, r, d) == I!smull(d, l, r)
multiply_zero_extend32(l, r, d) == I!umull(d, l, r)
div(w, x, y, d) == I!sdiv(w, d, x, y)
udiv(w, x, y, d) == I!udiv(w, d, x, y)
multiply_neg_extend32(f, l, r, d) == IF f = "signed" THEN I!smnegl(d, l, r) ELSE I!umnegl(d, l, r)

-------------------------------------------------------------------------------
(* Logic: a constant is one the instruction can hold, or in a register.    *)

and32_rrr(x, y, d) ==
  CASE x.k = "reg" -> I!and(Half, FALSE, d, y, x.r)
    [] x.k # "reg" /\ I!LogicalImmediate(x.v, Half) -> I!and_imm(Half, FALSE, d, y, I!Pattern(x.v, Half))
    [] x.k # "reg" /\ ~I!LogicalImmediate(x.v, Half) -> InData(x) \o I!and(Half, FALSE, d, y, "DT")
and32(x, d) ==
  IF InMemory(x) THEN data_temp \o load32(x, "DT") \o I!and(Half, FALSE, d, d, "DT")
  ELSE and32_rrr(x, d, d)
and64_rrr(x, y, d) ==
  CASE x.k = "reg" -> I!and(Full, FALSE, d, y, x.r)
    [] x.k # "reg" /\ I!LogicalImmediate(x.v, Full) -> I!and_imm(Full, FALSE, d, y, I!Pattern(x.v, Full))
    [] x.k = "imm64" /\ ~I!LogicalImmediate(x.v, Full) -> InData(x) \o I!and(Full, FALSE, d, y, "DT")
    [] x.k = "imm32" /\ ~I!LogicalImmediate(x.v, Full) ->
         Extended64(x.v) \o I!and(Full, FALSE, d, y, "DT")
and64(x, d) ==
  IF InMemory(x) THEN data_temp \o load64(x, "DT") \o I!and(Full, FALSE, d, d, "DT")
  ELSE and64_rrr(x, d, d)

or32_rrr(x, y, d) ==
  CASE x.k = "reg" -> I!orr(Half, d, x.r, y)
    [] x.k # "reg" /\ I!LogicalImmediate(x.v, Half) -> I!orr_imm(Half, d, y, I!Pattern(x.v, Half))
    [] x.k # "reg" /\ ~I!LogicalImmediate(x.v, Half) -> InData(x) \o I!orr(Half, d, y, "DT")
(* In memory, at each width: in the data temporary, or in the memory one   *)
(* when the constant takes the data one.                                   *)
OrInMemory(x, toData, toMemory, store) ==
  IF x.k = "reg" \/ I!LogicalImmediate(x.v, Half)
  THEN data_temp \o toData
       \o (IF x.k = "reg" THEN or32_rrr(x, "DT", "DT") ELSE I!orr_imm(Half, "DT", "DT", I!Pattern(x.v, Half))) \o store
  ELSE data_temp \o memory_temp \o toMemory \o or32_rrr(x, "MT", "DT") \o store
or16(x, o) == OrInMemory(x, load16(o, "DT"), load16(o, "MT"), store16(R("DT"), o))
or8(x, o) == OrInMemory(x, load8(o, "DT"), load8(o, "MT"), store8(R("DT"), o))
or32(x, o) ==
  CASE o.k = "reg" /\ x.k = "reg" -> or32_rrr(R(o.r), x.r, o.r)
    [] o.k = "reg" /\ x.k # "reg" -> or32_rrr(x, o.r, o.r)
    [] o.k = "abs" -> OrInMemory(x, load32(o, "DT"), load32(o, "MT"), store32(R("DT"), o))
    [] o.k = "addr" -> data_temp \o or32_rrr(x, "DT", "DT") \o store32(R("DT"), o)
or64_rrr(x, y, d) ==
  CASE x.k = "reg" -> I!orr(Full, d, x.r, y)
    [] x.k # "reg" /\ I!LogicalImmediate(x.v, Full) -> I!orr_imm(Full, d, y, I!Pattern(x.v, Full))
    [] x.k # "reg" /\ ~I!LogicalImmediate(x.v, Full) ->
         (IF x.k = "imm64" THEN InData(x) ELSE Extended64(x.v)) \o I!orr(Full, d, y, "DT")
or64(x, d) == IF x.k = "reg" THEN or64_rrr(R(d), x.r, d) ELSE or64_rrr(x, d, d)

(* xor64_rrr tests a 32-bit constant as one of 32 bits, and moves it as one. *)
xor32_rrr(x, y, d) ==
  CASE x.k = "reg" -> I!eor(Half, d, x.r, y)
    [] x.k # "reg" /\ x.v = -1 -> I!mvn(Half, d, y)
    [] x.k # "reg" /\ x.v # -1 ->
         IF I!LogicalImmediate(x.v, Half) THEN I!eor_imm(Half, d, y, I!Pattern(x.v, Half))
         ELSE InData(x) \o I!eor(Half, d, "DT", y)
xor32(x, d) == IF x.k = "reg" THEN I!eor(Half, d, d, x.r) ELSE xor32_rrr(x, d, d)
xor64_rrr(x, y, d) ==
  CASE x.k = "reg" -> I!eor(Full, d, x.r, y)
    [] x.k # "reg" /\ x.v = -1 -> I!mvn(Full, d, y)
    [] x.k = "imm64" /\ x.v # -1 ->
         IF I!LogicalImmediate(x.v, Full) THEN I!eor_imm(Full, d, y, I!Pattern(x.v, Full))
         ELSE InData(x) \o I!eor(Full, d, "DT", y)
    [] x.k = "imm32" /\ x.v # -1 ->
         IF I!LogicalImmediate(x.v, Half) THEN I!eor_imm(Full, d, y, I!Pattern(x.v, Half))
         ELSE InData(x) \o I!eor(Full, d, "DT", y)
xor64(x, o) ==
  CASE x.k = "reg" /\ o.k = "reg" -> I!eor(Full, o.r, o.r, x.r)
    [] x.k = "reg" /\ InMemory(o) ->
         data_temp \o load64(o, "DT") \o I!eor(Full, "DT", "DT", x.r) \o store64(R("DT"), o)
    [] x.k \in {"imm32", "imm64"} -> xor64_rrr(x, o.r, o.r)
    [] InMemory(x) -> data_temp \o load64(x, "DT") \o I!eor(Full, o.r, o.r, "DT")

not32(r) == I!mvn(Half, r, r)
not64(r) == I!mvn(Full, r, r)
not32_rr(r, d) == I!mvn(Half, d, r)
not64_rr(r, d) == I!mvn(Full, d, r)
clear_bits_with_mask(w, x, mask, d) == I!bic(w, FALSE, d, x, mask)
or_not(w, x, mask, d) == I!orn(w, d, x, mask)
xor_not(w, x, mask, d) == I!eon(w, d, x, mask)
clear_bits64_with_mask_rrr(x, mask, d) == I!bic(Full, FALSE, d, x, mask)
clear_bits64_with_mask(mask, d) == clear_bits64_with_mask_rrr(d, mask, d)

-------------------------------------------------------------------------------
(* Shifts, by a register or by an amount reduced to the width.             *)

ByRegister(f, w, d, n, m) ==
  CASE f = "shl" -> I!lslv(w, d, n, m) [] f = "shr" -> I!lsrv(w, d, n, m)
    [] f = "sar" -> I!asrv(w, d, n, m) [] f = "ror" -> I!rorv(w, d, n, m)
ByAmount(f, w, d, n, v) ==
  CASE f = "shl" -> I!lsl_imm(w, d, n, v) [] f = "shr" -> I!lsr_imm(w, d, n, v)
    [] f = "sar" -> I!asr_imm(w, d, n, v) [] f = "ror" -> I!ror_imm(w, d, n, v)
Shifted(w, f, x, o, d) ==
  IF o.k = "reg" THEN ByRegister(f, w, d, x, o.r) ELSE ByAmount(f, w, d, x, o.v % w)
lshift32_rrr(x, o, d) ==
  IF InMemory(x) THEN data_temp \o load32(x, "DT") \o Shifted(Half, "shl", "DT", o, d)
  ELSE Shifted(Half, "shl", x.r, o, d)
lshift32(o, d) == lshift32_rrr(R(d), o, d)
lshift64_rrr(x, o, d) ==
  IF InMemory(x) THEN data_temp \o load64(x, "DT") \o Shifted(Full, "shl", "DT", o, d)
  ELSE Shifted(Full, "shl", x.r, o, d)
lshift64(o, d) == lshift64_rrr(R(d), o, d)
rotate_right32_rrr(x, o, d) == Shifted(Half, "ror", x, o, d)
rotate_right32(o, d) == Shifted(Half, "ror", d, o, d)
rotate_right64_rrr(x, o, d) == Shifted(Full, "ror", x, o, d)
rotate_right64(o, d) == Shifted(Full, "ror", d, o, d)
rshift32(o, d) == Shifted(Half, "sar", d, o, d)
rshift32_rrr(x, o, d) == Shifted(Half, "sar", x, o, d)
rshift64(o, d) == Shifted(Full, "sar", d, o, d)
rshift64_rrr(x, o, d) == Shifted(Full, "sar", x, o, d)
urshift32_rrr(x, o, d) == Shifted(Half, "shr", x, o, d)
urshift32(o, d) == urshift32_rrr(d, o, d)
urshift64_rrr(x, o, d) == Shifted(Full, "shr", x, o, d)
urshift64(o, d) == urshift64_rrr(d, o, d)

clear_bit64(bit, d, scratch) ==
  (IF scratch = "DT" THEN data_temp ELSE <<>>) \o mov(Imm(Half, 1), scratch)
  \o lshift64(R(bit), scratch) \o clear_bits64_with_mask(scratch, d)

(* Second operands shifted on the way. *)
ShiftOf == [shl |-> "LSL", sar |-> "ASR", shr |-> "LSR"]
xor_not_shift(w, s, n, m, v, d) == I!eon_shifted(w, d, n, m, ShiftOf[s], v)
add_shift(w, s, n, m, v, d) == I!add_shifted(w, FALSE, d, n, m, ShiftOf[s], v)
sub_shift(w, s, n, m, v, d) == I!sub_shifted(w, FALSE, d, n, m, ShiftOf[s], v)
and_shift(w, s, n, m, v, d) == I!and_shifted(w, FALSE, d, n, m, ShiftOf[s], v)
xor_shift(w, s, n, m, v, d) == I!eor_shifted(w, d, n, m, ShiftOf[s], v)
or_shift(w, s, n, m, v, d) == I!orr_shifted(w, d, n, m, ShiftOf[s], v)

-------------------------------------------------------------------------------
(* Bits *)

extract_unsigned_bitfield(w, x, lsb, width, d) == I!ubfx(w, d, x, lsb, width)
extract_unsigned_bitfield_in_zero(w, x, lsb, width, d) == I!ubfiz(w, d, x, lsb, width)
insert_bitfield(w, x, lsb, width, d) == I!bfi(w, d, x, lsb, width)
clear_bitfield(w, lsb, width, d) == I!bfc(w, d, lsb, width)
extract_insert_bitfield_at_lowend(w, x, lsb, width, d) == I!bfxil(w, d, x, lsb, width)
insert_signed_bitfield_in_zero(w, x, lsb, width, d) == I!sbfiz(w, d, x, lsb, width)
extract_signed_bitfield(w, x, lsb, width, d) == I!sbfx(w, d, x, lsb, width)
extract_register(w, n, m, lsb, d) == I!extr(w, d, n, m, lsb)

count_leading_zeros32(r, d) == I!clz(Half, d, r)
count_leading_zeros64(r, d) == I!clz(Full, d, r)
(* To get it wrong: reverse the bits where they are. *)
TrailingZerosInPlace(r, d) == I!rbit(Half, r, r) \o I!clz(Half, d, r)
count_trailing_zeros32(r, d) == I!rbit(Half, d, r) \o I!clz(Half, d, d)
count_trailing_zeros64(r, d) == I!rbit(Full, d, r) \o I!clz(Full, d, d)
zero_extend8_to_64(r, d) == and64_rrr(Imm(Full, 2^Byte - 1), r, d)
zero_extend16_to_32(r, d) == and32_rrr(Imm(Half, 2^Quarter - 1), r, d)
zero_extend16_to_64(r, d) == and64_rrr(Imm(Half, 2^Quarter - 1), r, d)
zero_extend32_to_word(r, d) == and64_rrr(Imm(Full, 2^Half - 1), r, d)
zero_extend48_to_word(r, d) == I!ubfx(Full, d, r, 0, 3 * Quarter)
signed_extend16_to_32(r, d) == I!sxth(Half, d, r)
sign_extend16_to_32(r, d) == I!sxth(Half, d, r)
sign_extend16_to_64(r, d) == I!sxth(Full, d, r)
sign_extend8_to_32(r, d) == I!sxtb(Half, d, r)
sign_extend8_to_64(r, d) == I!sxtb(Full, d, r)
byte_swap16(r, d) == I!rev16(Half, d, r) \o zero_extend16_to_32(d, d)
byte_swap32(r, d) == I!rev(Half, d, r)
byte_swap64(r, d) == I!rev(Full, d, r)

get_effective_address(o, d) ==
  I!add_shifted(Full, FALSE, d, o.base, o.index, "LSL", o.scale)
  \o (IF o.off = 0 THEN <<>> ELSE add64(Imm(Half, o.off), R(d)))
swap(x, y) ==
  IF x = y THEN <<>> ELSE data_temp \o Mov(x, "DT") \o Mov(y, x) \o Mov("DT", y)
=================================================================================
