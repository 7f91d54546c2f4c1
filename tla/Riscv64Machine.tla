----------------------------- MODULE Riscv64Machine -----------------------------
(***************************************************************************)
(* The RISC-V instructions the macro assembler uses, at the width of       *)
(* Words.  An instruction is a tuple of its mnemonic and its operands, the *)
(* destination first and the value before the address in a store.  The     *)
(* offset of a branch counts instructions.                                 *)
(***************************************************************************)
EXTENDS MacroOps

IBits == 6              (* the 12 bits of an I- or S-type immediate          *)
UBits == Half - IBits   (* and the 20 of a U-type one                        *)

(* Registers: x0 is "zero", x1 "ra", DATA_TEMP and MEMORY_TEMP "DT", "MT". *)
Get(m, r) == IF r = "zero" THEN 0 ELSE m.g[r]
Put(m, r, v) == IF r = "zero" THEN m ELSE [m EXCEPT !.g[r] = Wrap(v, Full)]

Immediate(n) == Wrap(Signed(n, IBits), Full)

-------------------------------------------------------------------------------
(* Integer arithmetic *)

RType ==
  [add |-> <<"add", Full>>, sub |-> <<"sub", Full>>, mul |-> <<"mul", Full>>,
   and |-> <<"and", Full>>, or |-> <<"or", Full>>, xor |-> <<"xor", Full>>,
   sll |-> <<"shl", Full>>, srl |-> <<"shr", Full>>, sra |-> <<"sar", Full>>,
   slt |-> <<"slt", Full>>, sltu |-> <<"sltu", Full>>, mulh |-> <<"mulh", Full>>,
   addw |-> <<"add", Half>>, subw |-> <<"sub", Half>>, mulw |-> <<"mul", Half>>,
   sllw |-> <<"shl", Half>>, srlw |-> <<"shr", Half>>, sraw |-> <<"sar", Half>>]
IType ==
  [addi |-> <<"add", Full>>, addiw |-> <<"add", Half>>, andi |-> <<"and", Full>>,
   ori |-> <<"or", Full>>, xori |-> <<"xor", Full>>, sltiu |-> <<"sltu", Full>>]
ShiftType ==
  [slli |-> <<"shl", Full>>, srli |-> <<"shr", Full>>, srai |-> <<"sar", Full>>,
   slliw |-> <<"shl", Half>>, srliw |-> <<"shr", Half>>, sraiw |-> <<"sar", Half>>]

Arith(t, x, y) ==
  CASE t[1] = "slt" -> Bool(Signed(x, Full) < Signed(y, Full))
    [] t[1] = "sltu" -> Bool(x < y)
    [] t[1] = "mulh" -> Wrap(Product(x, y, Full) \div 2^Full, Full)
    [] OTHER -> SignExtend(Binary(t[1], Wrap(x, t[2]), Wrap(y, t[2]), t[2]), t[2])

BType == [beq |-> "Equal", bne |-> "NotEqual", blt |-> "LessThan",
          bge |-> "GreaterThanOrEqual", bltu |-> "Below", bgeu |-> "AboveOrEqual"]

-------------------------------------------------------------------------------
(* Memory, general registers: the width, and whether the load extends the sign. *)

LoadType == [lb |-> <<Byte, TRUE>>, lbu |-> <<Byte, FALSE>>, lh |-> <<Quarter, TRUE>>,
             lhu |-> <<Quarter, FALSE>>, lw |-> <<Half, TRUE>>, lwu |-> <<Half, FALSE>>,
             ld |-> <<Full, FALSE>>]
StoreType == [sb |-> Byte, sh |-> Quarter, sw |-> Half, sd |-> Full]

-------------------------------------------------------------------------------
(* Floats: a single is boxed, its register's upper half all ones; another  *)
(* value is NaN to an instruction on singles.                              *)

Ones == (2^(Full - Half) - 1) * 2^Half
Box(x, w) == IF w = Full THEN x ELSE Wrap(x, Half) + Ones
Unbox(x, w) == IF w = Full THEN x ELSE IF x >= Ones THEN x - Ones ELSE NaN(Half)

FType == {"fadd", "fsub", "fmul", "fdiv"}
FCompare == [feq |-> "EqualAndOrdered", flt |-> "LessThanAndOrdered",
             fle |-> "LessThanOrEqualAndOrdered"]

WithSign(x, s, w) == Magnitude(x, w) + (IF s THEN MinusZero(w) ELSE 0)
SignInject(mn, x, y, w) ==
  WithSign(x, CASE mn = "fsgnj" -> Negative(y, w)
                [] mn = "fsgnjn" -> ~Negative(y, w)
                [] mn = "fsgnjx" -> Negative(x, w) # Negative(y, w), w)

(* A float as an integer between lo and hi; NaN is the largest. *)
ToInteger(x, w, mode, lo, hi) ==
  CASE IsNaN(x, w) -> hi
    [] IsInfinite(x, w) -> IF Negative(x, w) THEN lo ELSE hi
    [] OTHER -> LET n == Rounded(Quarters(x, w), mode)
                IN IF n < lo THEN lo ELSE IF n > hi THEN hi ELSE n
Bounds(signed, w) ==
  IF signed THEN <<-(2^(w - 1)), 2^(w - 1) - 1>> ELSE <<0, 2^w - 1>>

ToFloat(x, w, signed, fw) == FromQuarters(4 * (IF signed THEN Signed(x, w) ELSE Wrap(x, w)), fw)

PutF(m, r, v, w) == [m EXCEPT !.f[r] = Box(v, w)]

-------------------------------------------------------------------------------
(* The machine after an instruction other than a branch. *)

ExecInteger(i, m) ==
  LET mn == i[1] IN
  CASE mn \in DOMAIN RType -> Put(m, i[2], Arith(RType[mn], Get(m, i[3]), Get(m, i[4])))
    [] mn \in DOMAIN IType -> Put(m, i[2], Arith(IType[mn], Get(m, i[3]), Immediate(i[4])))
    [] mn \in DOMAIN ShiftType ->
         IF i[4] \in 0..(ShiftType[mn][2] - 1)
         THEN Put(m, i[2], Arith(ShiftType[mn], Get(m, i[3]), i[4]))
         ELSE [m EXCEPT !.out = <<"trap">>]
    [] mn = "lui" -> Put(m, i[2], Signed(i[3] - (i[3] % 2^IBits), Half))
    [] mn \in DOMAIN LoadType ->
         LET t == LoadType[mn]
             v == Load(m, Get(m, i[3]) + Signed(i[4], IBits), t[1])
         IN Put(m, i[2], IF t[2] THEN SignExtend(v, t[1]) ELSE v)
    [] mn \in DOMAIN StoreType ->
         Store(m, Get(m, i[3]) + Signed(i[4], IBits), StoreType[mn], Get(m, i[2]))
    [] mn = "lrw" /\ Get(m, i[3]) % 4 = 0 ->   (* load-reserved, store-conditional *)
         Put(m, i[2], SignExtend(Load(m, Get(m, i[3]), Half), Half))
    [] mn = "scw" -> Put(Store(m, Get(m, i[3]), Half, Get(m, i[4])), i[2], 0)
    [] mn = "jalr" -> [m EXCEPT !.out =   (* whose offset is 0 *)
                         <<IF i[2] = "ra" THEN "call" ELSE "jump", Get(m, i[3])>>]
    [] OTHER -> [m EXCEPT !.out = <<"trap">>]

ExecFloat(i, m) ==   (* the width is the second component *)
  LET mn == i[1]
      w == i[2]
      X == Unbox(m.f[i[4]], w)
      Y == Unbox(m.f[i[5]], w)
      at == Get(m, i[4]) + Signed(i[5], IBits)
  IN CASE mn = "fl" -> PutF(m, i[3], Load(m, at, w), w)
       [] mn = "fs" -> Store(m, at, w, Wrap(m.f[i[3]], w))
       [] mn \in FType -> PutF(m, i[3], FloatBinary(mn, X, Y, w), w)
       [] mn = "fsqrt" -> PutF(m, i[3], FloatUnary("sqrt", X, w), w)
       [] mn \in {"fsgnj", "fsgnjn", "fsgnjx"} -> PutF(m, i[3], SignInject(mn, X, Y, w), w)
       [] mn \in DOMAIN FCompare -> Put(m, i[3], Bool(FloatHolds(FCompare[mn], X, Y, w)))
       [] mn = "fnan" -> Put(m, i[3], Bool(IsNaN(X, w)))   (* fclass, andi *)
       [] mn = "fmv_x" -> Put(m, i[3], Signed(m.f[i[4]], w))
       [] mn = "fmv_f" -> PutF(m, i[3], Wrap(Get(m, i[4]), w), w)
       [] mn = "fcvt_int" ->   (* from a float of w to an integer of i[5], i[6] *)
            LET b == Bounds(i[6], i[5])
            IN Put(m, i[3], Signed(ToInteger(X, w, i[7], b[1], b[2]), i[5]))
       [] mn = "fcvt_float" -> (* from an integer of i[5], i[6] *)
            PutF(m, i[3], ToFloat(Get(m, i[4]), i[5], i[6], w), w)
       [] mn = "fcvt_size" ->  (* from a float of i[5] *)
            PutF(m, i[3], Resize(Unbox(m.f[i[4]], i[5]), i[5], w), w)

IsFloat(i) == i[1] \in FType \union DOMAIN FCompare \union
  {"fl", "fs", "fsqrt", "fsgnj", "fsgnjn", "fsgnjx", "fnan", "fmv_x", "fmv_f",
   "fcvt_int", "fcvt_float", "fcvt_size"}

(* Where control goes: by how many instructions, or to the client's target. *)
Riscv64Advance(i, m) ==
  CASE i[1] = "jal" -> i[2]
    [] i[1] \in DOMAIN BType ->
         IF Holds(BType[i[1]], Get(m, i[2]), Get(m, i[3]), Full) THEN i[4] ELSE 1
    [] OTHER -> 1

Riscv64Exec(i, m) ==
  CASE i[1] = "jal" \/ i[1] \in DOMAIN BType ->
         IF Riscv64Advance(i, m) = Target THEN [m EXCEPT !.out = <<"taken">>] ELSE m
    [] IsFloat(i) -> ExecFloat(i, m)
    [] OTHER -> ExecInteger(i, m)

===============================================================================
