------------------------------ MODULE Arm64Machine ------------------------------
(***************************************************************************)
(* The A64 instructions the macro assembler uses, at the width of Words.   *)
(* An instruction is a tuple of its class and its fields, as the word has  *)
(* them: a field that names register 31 is the zero register or the stack  *)
(* pointer according to the class, and the V bit of an access says whether *)
(* its register is a general or a floating-point one.  The offset of a     *)
(* branch counts instructions.  "undefined" stands for every word that is  *)
(* not an instruction.                                                     *)
(***************************************************************************)
EXTENDS MacroOps

Imm12 == 5     (* bits of a UInt12, of which sixteen, a slot of the stack, is one *)
Imm9 == 3      (* and of the offsets of an access and of a pair                   *)
Imm7 == 3

(* The registers of one number in both files.  FT is q31; a client's       *)
(* floating-point registers are among the first eight.                     *)
GeneralOf == [fa |-> "a", fb |-> "b", fc |-> "c", q0 |-> "x0", q16 |-> "DT", q17 |-> "MT",
              q30 |-> "lr", q31 |-> "zr"]
FloatOf == [a |-> "fa", b |-> "fb", c |-> "fc", x0 |-> "q0", DT |-> "q16", MT |-> "q17",
            lr |-> "q30", zr |-> "q31", sp |-> "q31"]
InGeneral(r) == IF r \in DOMAIN GeneralOf THEN GeneralOf[r] ELSE r
InFloat(r) == IF r \in DOMAIN FloatOf THEN FloatOf[r] ELSE r

(* Register 31 as zero, and as the stack pointer. *)
X(m, r, w) == IF r \in {"zr", "sp"} THEN 0 ELSE Wrap(m.g[r], w)
XorSP(m, r, w) == IF r \in {"zr", "sp"} THEN Wrap(m.g["sp"], w) ELSE Wrap(m.g[r], w)
Q(m, r, w) == Wrap(m.f[InFloat(r)], w)

SetX(m, r, v) == IF r \in {"zr", "sp"} THEN m ELSE [m EXCEPT !.g[r] = v]
SetXorSP(m, r, v) == [m EXCEPT !.g[IF r = "zr" THEN "sp" ELSE r] = v]
SetQ(m, r, v) == [m EXCEPT !.f[InFloat(r)] = v]
Undefined(m) == [m EXCEPT !.out = <<"trap">>]

Ones(hsb) == 2^(hsb + 1) - 1   (* the bits hsb..0 *)

-------------------------------------------------------------------------------
(* Flags and conditions *)

Flags(n, z, c, v) == [n |-> n, z |-> z, c |-> c, v |-> v]
ArithmeticFlags(op, x, y, w) ==
  LET r == Binary(op, x, y, w)
  IN Flags(Signed(r, w) < 0, r = 0,
           IF op = "add" THEN x + y >= 2^w ELSE x >= y, Overflows(op, x, y, w))
LogicalFlags(r, w) == Flags(Signed(r, w) < 0, r = 0, FALSE, FALSE)
FloatFlags(x, y, w) ==
  IF IsNaN(x, w) \/ IsNaN(y, w) THEN Flags(FALSE, FALSE, TRUE, TRUE)
  ELSE LET p == Quarters(x, w)
           q == Quarters(y, w)
       IN Flags(p < q, p = q, p >= q, FALSE)

Met(cond, f) ==
  CASE cond = "EQ" -> f.z           [] cond = "NE" -> ~f.z
    [] cond = "HS" -> f.c           [] cond = "LO" -> ~f.c
    [] cond = "MI" -> f.n           [] cond = "PL" -> ~f.n
    [] cond = "VS" -> f.v           [] cond = "VC" -> ~f.v
    [] cond = "HI" -> f.c /\ ~f.z   [] cond = "LS" -> ~f.c \/ f.z
    [] cond = "GE" -> f.n = f.v     [] cond = "LT" -> f.n # f.v
    [] cond = "GT" -> ~f.z /\ f.n = f.v [] cond = "LE" -> f.z \/ f.n # f.v

-------------------------------------------------------------------------------
(* Data processing *)

(* The bits lo..hi of x; x with its n bits from lo replaced by those of y. *)
Field(x, lo, hi) == (x \div 2^lo) % 2^(hi - lo + 1)
Replace(x, y, lo, n) == x - (Field(x, lo, lo + n - 1) * 2^lo) + (y * 2^lo)

Bitfield(op, r, s, x, d, w) ==
  LET n == IF s >= r THEN s - r + 1 ELSE s + 1
      field == IF s >= r THEN Field(x, r, s) ELSE Field(x, 0, s)
      at == IF s >= r THEN 0 ELSE w - r
  IN CASE op = "BFM" -> Replace(d, field, at, n)
       [] op = "UBFM" -> field * 2^at
       [] op = "SBFM" -> Wrap(Signed(field, n) * 2^at, w)

ReversedBits(x, w) ==
  LET r[i \in 0..w] == IF i = 0 THEN 0 ELSE (2 * r[i - 1]) + ((x \div 2^(i - 1)) % 2) IN r[w]
OneSource(op, x, w) ==
  CASE op = "CLZ" -> LeadingZeros(x, w)
    [] op = "RBIT" -> ReversedBits(x, w)
    [] op = "REV16" ->
         Reversed(x % 2^Quarter, Quarter)
         + (2^Quarter * Reversed(Shr(x, Quarter, w) % 2^Quarter, Quarter))
         + (IF w = Full THEN 2^Half * (Reversed(Field(x, Half, Half + Quarter - 1), Quarter)
              + (2^Quarter * Reversed(Field(x, Half + Quarter, Full - 1), Quarter))) ELSE 0)
    [] op \in {"REV32", "REV64"} -> Reversed(x, w)

TwoSources(op, x, y, w) ==
  CASE op = "LSLV" -> Binary("shl", x, y, w)
    [] op = "LSRV" -> Binary("shr", x, y, w)
    [] op = "ASRV" -> Binary("sar", x, y, w)
    [] op = "RORV" -> Binary("ror", x, y, w)
    [] op = "UDIV" -> Binary("udiv", x, y, w)
    [] op = "SDIV" -> Binary("div", x, y, w)

ThreeSources(op, n, m, a, w) ==
  LET P(sign) == IF sign THEN Product(n, m, Half) ELSE Wrap(n, Half) * Wrap(m, Half)
      S(x) == Signed(x, Full)
  IN CASE op = "MADD" -> Wrap(Signed(a, w) + Product(n, m, w), w)
       [] op = "MSUB" -> Wrap(Signed(a, w) - Product(n, m, w), w)
       [] op = "SMADDL" -> Wrap(S(a) + P(TRUE), Full)
       [] op = "SMSUBL" -> Wrap(S(a) - P(TRUE), Full)
       [] op = "UMADDL" -> Wrap(S(a) + P(FALSE), Full)
       [] op = "UMSUBL" -> Wrap(S(a) - P(FALSE), Full)

ExtendedBy(x, extend, amount) ==
  Shl(CASE extend = "UXTX" -> x [] extend = "SXTX" -> x
        [] extend = "UXTW" -> Wrap(x, Half)
        [] extend = "SXTW" -> SignExtend(x, Half), amount, Full)
ShiftedBy(x, shift, amount, w) ==
  CASE shift = "LSL" -> Shl(x, amount, w) [] shift = "LSR" -> Shr(x, amount, w)
    [] shift = "ASR" -> Sar(x, amount, w) [] shift = "ROR" -> Ror(x, amount, w)
Combined(op, x, y) == CASE op = "ORR" -> x | y [] op = "EOR" -> x ^^ y [] OTHER -> x & y

(* A logical immediate: s + 1 ones, rotated to the right by r in an element *)
(* of some width, which fills the word.                                    *)
Repeated(p, w) ==
  Ror(Ones(p.s), p.r, p.width) * ((2^w - 1) \div (2^p.width - 1))

(* An addition or a subtraction, and a logical operation, whose result is  *)
(* kept in the zero register when it sets the flags.                       *)
AddSub(m, op, S, x, y, w, rd, zero) ==
  LET r == Binary(op, x, y, w)
  IN CASE S -> [SetX(m, rd, r) EXCEPT !.nzcv = ArithmeticFlags(op, x, y, w)]
       [] ~S -> IF zero THEN SetX(m, rd, r) ELSE SetXorSP(m, rd, r)
Logic(m, op, r, w, rd, zero) ==
  CASE op = "ANDS" -> [SetX(m, rd, r) EXCEPT !.nzcv = LogicalFlags(r, w)]
    [] op # "ANDS" -> IF zero THEN SetX(m, rd, r) ELSE SetXorSP(m, rd, r)

Process(i, m) ==
  LET w == i[2] IN
  CASE i[1] = "add_imm" ->    (* w, op, S, imm, rn, rd *)
         AddSub(m, i[3], i[4], XorSP(m, i[6], w), i[5], w, i[7], FALSE)
    [] i[1] = "add_extended" -> (* w, op, S, rm, extend, amount, rn, rd *)
         AddSub(m, i[3], i[4], XorSP(m, i[8], w),
                Wrap(ExtendedBy(X(m, i[5], Full), i[6], i[7]), w), w, i[9], FALSE)
    [] i[1] = "add_shifted" -> (* w, op, S, shift, rm, amount, rn, rd *)
         AddSub(m, i[3], i[4], X(m, i[8], w), ShiftedBy(X(m, i[6], w), i[5], i[7], w), w, i[9], TRUE)
    [] i[1] = "logical_imm" -> (* w, op, pattern, rn, rd *)
         IF i[4].width > w THEN Undefined(m)
         ELSE Logic(m, i[3], Combined(i[3], X(m, i[5], w), Repeated(i[4], w)), w, i[6], FALSE)
    [] i[1] = "logical_shifted" -> (* w, op, shift, inverted, rm, amount, rn, rd *)
         LET y == ShiftedBy(X(m, i[6], w), i[4], i[7], w)
         IN Logic(m, i[3], Combined(i[3], X(m, i[8], w), IF i[5] THEN Complement(y, w) ELSE y),
                  w, i[9], TRUE)
    [] i[1] = "bitfield" ->    (* w, op, immr, imms, rn, rd *)
         IF {i[4], i[5]} \subseteq 0..(w - 1)
         THEN SetX(m, i[7], Bitfield(i[3], i[4], i[5], X(m, i[6], w), X(m, i[7], w), w))
         ELSE Undefined(m)
    [] i[1] = "extract" ->     (* w, rm, lsb, rn, rd *)
         IF i[4] \notin 0..(w - 1) THEN Undefined(m)
         ELSE SetX(m, i[6], Shr(X(m, i[3], w), i[4], w) + Shl(X(m, i[5], w), w - i[4], w))
    [] i[1] = "move_wide" ->   (* w, op, position, imm, rd *)
         LET at == Quarter * i[4]
         IN SetX(m, i[6], CASE i[3] = "Z" -> i[5] * 2^at
                            [] i[3] = "N" -> Complement(i[5] * 2^at, w)
                            [] i[3] = "K" -> Replace(X(m, i[6], w), i[5], at, Quarter))
    [] i[1] = "one_source" -> SetX(m, i[5], OneSource(i[3], X(m, i[4], w), w))
    [] i[1] = "two_source" -> SetX(m, i[6], TwoSources(i[4], X(m, i[5], w), X(m, i[3], w), w))
    [] i[1] = "three_source" -> (* w, op, rm, ra, rn, rd *)
         SetX(m, i[7], ThreeSources(i[3], X(m, i[6], Full), X(m, i[4], Full), X(m, i[5], Full), w))
    [] i[1] = "select" ->      (* w, invert, increment, rm, cond, rn, rd *)
         LET y == X(m, i[5], w)
         IN SetX(m, i[8], IF Met(i[6], m.nzcv) THEN X(m, i[7], w)
                          ELSE Wrap((IF i[3] THEN Complement(y, w) ELSE y) + Bool(i[4]), w))

-------------------------------------------------------------------------------
(* Memory.  opc is 0 for a store, 1 a load, 2 and 3 a load that extends    *)
(* the sign to 64 and to 32 bits.                                          *)

Offset(m, at) ==   (* <<"imm", n>>, or <<"register", rm, extend, amount>> *)
  IF at[1] = "imm" THEN at[2] ELSE ExtendedBy(X(m, at[2], Full), at[3], at[4])
Access(i, m) ==    (* w, v, opc, offset, rn, rt *)
  LET w == i[2]
      address == XorSP(m, i[6], Full) + Offset(m, i[5])
      x == Load(m, address, w)
      r == InGeneral(i[7])
  IN CASE i[4] = 0 -> Store(m, address, w, IF i[3] THEN Q(m, i[7], w) ELSE X(m, r, w))
       [] i[4] = 1 -> IF i[3] THEN SetQ(m, i[7], x) ELSE SetX(m, r, x)
       [] i[4] = 2 -> SetX(m, r, SignExtend(x, w))
       [] i[4] = 3 -> SetX(m, r, Wrap(Signed(x, w), Half))

(* A pair: of 32-, 64-, or for floating point 128-bit registers. *)
Pair(i, m) ==      (* size, v, opc, mode, imm, rn, rt, rt2 *)
  LET w == IF i[3] THEN <<Half, Full, 2 * Full>>[i[2] + 1] ELSE IF i[2] = 0 THEN Half ELSE Full
      n == w \div Byte
      base == XorSP(m, i[7], Full)
      near == IF i[5] = "post" THEN base ELSE base + (i[6] * n)
      Q2(r) == IF i[3] THEN Wrap(Q(m, r, Full), w) ELSE X(m, InGeneral(r), w)
      S2(k, r, x) == IF i[3] THEN SetQ(k, r, Wrap(x, Full)) ELSE SetX(k, InGeneral(r), x)
      low == IF w > Full THEN Full ELSE w
      done == IF i[4] = 0 THEN Store(Store(m, near, low, Q2(i[8])), near + n, low, Q2(i[9]))
              ELSE S2(S2(m, i[8], Load(m, near, low)), i[9], Load(m, near + n, low))
  IN IF i[5] = "offset" THEN done
     ELSE SetXorSP(done, i[7], Wrap(base + (i[6] * n), Full))

-------------------------------------------------------------------------------
(* Floating point: a result of a narrow operation clears the rest of its   *)
(* register.                                                               *)

RoundingOf == [FCVTNS |-> "near", FCVTZS |-> "zero", FCVTZU |-> "zero"]
Saturated(x, w, mode, sign, rw) ==
  LET lo == IF sign THEN -(2^(rw - 1)) ELSE 0
      hi == IF sign THEN 2^(rw - 1) - 1 ELSE 2^rw - 1
  IN CASE IsNaN(x, w) -> 0
       [] IsInfinite(x, w) -> IF Negative(x, w) THEN lo ELSE hi
       [] OTHER -> LET n == Rounded(Quarters(x, w), mode)
                   IN IF n < lo THEN lo ELSE IF n > hi THEN hi ELSE n

FloatOne(op, x, w) ==
  CASE op = "FMOV" -> x
    [] op = "FABS" -> FloatUnary("abs", x, w) [] op = "FNEG" -> FloatUnary("neg", x, w)
    [] op = "FSQRT" -> FloatUnary("sqrt", x, w)
    [] op = "FRINTN" -> FloatUnary("near", x, w) [] op = "FRINTP" -> FloatUnary("ceil", x, w)
    [] op = "FRINTM" -> FloatUnary("floor", x, w) [] op = "FRINTZ" -> FloatUnary("trunc", x, w)
    [] op = "FCVTToSingle" -> Resize(x, w, Half) [] op = "FCVTToDouble" -> Resize(x, w, Full)

FloatProcess(i, m) ==
  LET w == i[2] IN
  CASE i[1] = "fp_compare" -> [m EXCEPT !.nzcv = FloatFlags(Q(m, i[4], w), Q(m, i[3], w), w)]
    [] i[1] = "fp_select" ->   (* w, rm, cond, rn, rd *)
         SetQ(m, i[6], IF Met(i[4], m.nzcv) THEN Q(m, i[5], w) ELSE Q(m, i[3], w))
    [] i[1] = "fp_one_source" -> SetQ(m, i[5], FloatOne(i[3], Q(m, i[4], w), w))
    [] i[1] = "fp_two_source" -> SetQ(m, i[6], FloatBinary(i[3], Q(m, i[5], w), Q(m, i[4], w), w))
    [] i[1] = "usqadd" ->      (* w, rn, rd: on an element of a quarter of the width *)
         LET e == w \div 4
             n == Q(m, i[4], e) + Signed(Q(m, i[3], e), e)
         IN SetQ(m, i[4], IF n < 0 THEN 0 ELSE IF n >= 2^e THEN 2^e - 1 ELSE n)
    [] i[1] = "vector_logic" -> (* op, rm, rn, rd *)
         SetQ(m, i[5], Combined(i[2], Q(m, i[4], Full), Q(m, i[3], Full)))
    [] i[1] = "vector_zero" -> SetQ(m, i[2], 0)
    [] i[1] = "fp_to_integer" -> (* integer, float, op, vn, rd *)
         SetX(m, i[6], IF i[4] = "FMOV" THEN Q(m, i[5], w)
                       ELSE Wrap(Saturated(Q(m, i[5], i[3]), i[3], RoundingOf[i[4]], i[4] # "FCVTZU", w), w))
    [] i[1] = "integer_to_fp" ->
         LET x == X(m, i[5], w)
         IN SetQ(m, i[6], IF i[4] = "FMOV" THEN x
                          ELSE FromQuarters(4 * (IF i[4] = "SCVTF" THEN Signed(x, w) ELSE x), i[3]))

-------------------------------------------------------------------------------
(* Control *)

Branches == {"b", "b_cond", "compare_branch", "test_branch"}
Arm64Advance(i, m) ==
  CASE i[1] = "b" -> i[2]
    [] i[1] = "b_cond" -> IF Met(i[3], m.nzcv) THEN i[2] ELSE 1
    [] i[1] = "compare_branch" ->   (* w, nonzero, offset, rt *)
         IF (X(m, i[5], i[2]) # 0) = i[3] THEN i[4] ELSE 1
    [] i[1] = "test_branch" ->      (* nonzero, bit, offset, rt *)
         IF (Field(X(m, i[5], Full), i[3], i[3]) = 1) = i[2] THEN i[4] ELSE 1
    [] OTHER -> 1

Arm64Exec(i, m) ==
  CASE i[1] \in Branches ->
         IF Arm64Advance(i, m) = Target THEN [m EXCEPT !.out = <<"taken">>] ELSE m
    [] i[1] = "undefined" -> Undefined(m)
    [] i[1] = "branch_register" -> [m EXCEPT !.out = <<i[2], X(m, i[3], Full)>>]
    [] i[1] = "access" -> Access(i, m)
    [] i[1] = "pair" -> Pair(i, m)
    [] i[1] \in {"fp_compare", "fp_select", "fp_one_source", "fp_two_source", "usqadd", "vector_logic",
                 "vector_zero", "fp_to_integer", "integer_to_fp"} -> FloatProcess(i, m)
    [] OTHER -> Process(i, m)

===============================================================================
