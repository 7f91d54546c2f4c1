----------------------------- MODULE MacroCatalogue -----------------------------
(***************************************************************************)
(* The operations the macro assemblers offer, with the operands they are   *)
(* checked with and their contracts: registers that are distinct and that  *)
(* coincide, constants an instruction can hold and constants it cannot,    *)
(* and every form of address with small and large offsets.                 *)
(***************************************************************************)
EXTENDS MacroOps

Family(name, k, f, w, rw, conds, operands) ==
  {Op(name, k, f, w, rw, c, s) : c \in conds, s \in operands}
Plain(name, k, f, w, operands) == Family(name, k, f, w, w, {""}, operands)

A == {R("a")}
B == {R("b")}
C == {R("c")}
AB == A \union B
Imm32s == {Imm(Half, 1), Imm(Half, 40), Imm(Half, -128)}
Imm64s == {Imm(Full, 5), Imm(Full, 300), Imm(Full, -20000)}
Imms(w) == IF w = Full THEN Imm32s \union Imm64s ELSE Imm32s
Addresses == {Address("a", 4), Address("a", 90), Address("a", 120), Address("b", -40)}
Indexed == {BaseIndex("a", "b", 0, 4), BaseIndex("a", "b", 2, 4),
            BaseIndex("a", "b", 0, 90), BaseIndex("b", "a", 1, 90), BaseIndex("a", "a", 1, -128)}
Absolutes == {Absolute(1000)}
Extendeds == {Extended("a", 0, 4), Extended("b", 0, 1000)}
HalfExtendeds == {Extended("a", 1, 4), Extended("b", 1, 1000)}
Places == Addresses \union Indexed \union Absolutes
Shifts == {Imm(Half, n) : n \in {0, 1, 7, 9}}

FA == {F("fa")}
FB == {F("fb")}
FC == {F("fc")}
FAB == FA \union FB

ResultConditions == {"Overflow", "Signed", "PositiveOrZero", "Zero", "NonZero"}
Logical == ResultConditions \ {"Overflow"}
Zeros == {"Zero", "NonZero"}

-------------------------------------------------------------------------------

TwoOperands(name, f, w, from) == Plain(name, "alu2", f, w, from \X B)
ThreeOperands(name, f, w, xs, ys) == Plain(name, "alu3", f, w, xs \X ys \X (A \union C))

Arithmetic ==
  UNION {TwoOperands("add32", "add", Half, AB \union Imm32s \union Addresses),
         Plain("add32", "alu2", "add", Half, Imm32s \X (Addresses \union Absolutes)),
         ThreeOperands("add32_rrr", "add", Half, AB \union Imm32s, AB),
         TwoOperands("add64", "add", Full, AB \union Imms(Full) \union Addresses \union Absolutes),
         Plain("add64", "alu2", "add", Full, Imm32s \X (Addresses \union Absolutes)),
         ThreeOperands("add64_rrr", "add", Full, AB \union Imms(Full), AB),
         TwoOperands("sub32", "sub", Half, AB \union Imm32s \union Addresses),
         Plain("sub32", "alu2", "sub", Half, Imm32s \X (Addresses \union Absolutes)),
         ThreeOperands("sub32_rrr", "sub", Half, AB, AB \union Imm32s),
         TwoOperands("sub64", "sub", Full, AB \union Imms(Full)),
         ThreeOperands("sub64_rrr", "sub", Full, AB, AB \union Imms(Full)),
         ThreeOperands("mul32_rrr", "mul", Half, AB \union Imm32s, AB),
         ThreeOperands("mul64_rrr", "mul", Full, AB, AB),
         Plain("neg32", "inplace", "neg", Half, {<<R("a")>>}),
         Plain("neg64", "inplace", "neg", Full, {<<R("a")>>})}

Counts(name, f, w) == Plain(name, "unary", f, w, A \X AB)
Shifting(name, f, w, xs) == Plain(name, "alu3", f, w, xs \X (AB \union Shifts) \X (A \union C))

Bits ==
  UNION {Counts("count_leading_zeros32", "clz", Half), Counts("count_leading_zeros64", "clz", Full),
         Counts("count_trailing_zeros32", "ctz", Half), Counts("count_trailing_zeros64", "ctz", Full),
         Plain("byte_swap16", "inplace", "swap16", Half, {<<R("a")>>}),
         Plain("byte_swap32", "inplace", "swap", Half, {<<R("a")>>}),
         Plain("byte_swap64", "inplace", "swap", Full, {<<R("a")>>}),
         Shifting("lshift32_rrr", "shl", Half, A), Shifting("lshift64_rrr", "shl", Full, A),
         Shifting("rshift32_rrr", "sar", Half, A), Shifting("rshift64_rrr", "sar", Full, A),
         Shifting("urshift32_rrr", "shr", Half, A), Shifting("urshift64_rrr", "shr", Full, A)}

Loads(name, f, w, rw, places) == Family(name, "load", f, w, rw, {""}, places \X AB)
Stores(name, w, places) ==
  Plain(name, "store", "id", w, (AB \union Imms(w) \union {Imm(w, 0)}) \X places)
Extends(name, f, w, rw) == Family(name, "unary", f, w, rw, {""}, A \X AB)

Memory ==
  UNION {Loads("load8", "zext8", Byte, Half, Places),
         Loads("load8_signed_extend_to_32", "sext8", Byte, Half, Places),
         Loads("load16", "zext16", Quarter, Half, Places \union HalfExtendeds),
         Loads("load16_signed_extend_to_32", "sext16", Quarter, Half, Places \union HalfExtendeds),
         Loads("load32", "id", Half, Half, Places \union Extendeds),
         Loads("load64", "id", Full, Full, Places \union Extendeds),
         Stores("store8", Byte, Places), Stores("store16", Quarter, Places),
         Stores("store32", Half, Places), Stores("store64", Full, Places),
         Plain("load_pair32", "loadpair", "id", Half, {Address("a", 4)} \X AB \X C),
         Plain("load_pair64", "loadpair", "id", Full, {Address("a", 4)} \X AB \X C),
         Plain("store_pair32", "storepair", "id", Half, AB \X B \X {Address("a", 4)}),
         Plain("store_pair64", "storepair", "id", Full, AB \X B \X {Address("a", 4)}),
         Plain("transfer64", "store", "id", Full, Addresses \X Addresses),
         Family("get_effective_address", "address", "id", Full, Full, {""}, Indexed \X C),
         Extends("zero_extend8_to_32", "zext8", Byte, Half),
         Extends("zero_extend16_to_32", "zext16", Quarter, Half),
         Extends("zero_extend32_to_word", "zext32", Half, Full),
         Extends("sign_extend8_to_32", "sext8", Byte, Half),
         Extends("sign_extend16_to_32", "sext16", Quarter, Half),
         Extends("sign_extend8_to_64", "sext8", Byte, Full),
         Family("sign_extend32_to_64", "unary", "sext32", Half, Full, {""},
                (A \union Imm32s) \X AB)}

Logic2 ==
  UNION {TwoOperands("and32", "and", Half, AB \union Imm32s \union Addresses),
         ThreeOperands("and32_rrr", "and", Half, AB \union Imm32s, AB),
         ThreeOperands("and64_rrr", "and", Full, AB \union Imms(Full), AB),
         Plain("or8", "alu2", "or", Byte, (A \union Imm32s) \X Absolutes),
         Plain("or16", "alu2", "or", Quarter, (A \union Imm32s) \X Absolutes),
         Plain("or32", "alu2", "or", Half, (A \union Imm32s) \X (B \union Absolutes)),
         Plain("or32", "alu2", "or", Half, Imm32s \X Addresses),
         ThreeOperands("or32_rrr", "or", Half, AB \union Imm32s, AB),
         ThreeOperands("or64_rrr", "or", Full, AB \union Imms(Full), AB),
         TwoOperands("xor32", "xor", Half, AB \union Imm32s \union Addresses),
         ThreeOperands("xor32_rrr", "xor", Half, AB \union Imm32s, AB),
         TwoOperands("xor64", "xor", Full, AB \union Imms(Full) \union Addresses),
         Plain("xor64", "alu2", "xor", Full, AB \X Addresses),
         ThreeOperands("xor64_rrr", "xor", Full, AB \union Imms(Full), AB),
         Plain("not32", "inplace", "not", Half, {<<R("a")>>}),
         Plain("mov", "unary", "id", Full, (AB \union Imms(Full)) \X B),
         Plain("swap", "exchange", "id", Full, {<<R("a"), R("b")>>, <<R("a"), R("a")>>}),
         Plain("swap_double", "exchange", "id", Full, {<<F("fa"), F("fb")>>, <<F("fa"), F("fa")>>})}

Control ==
  UNION {Plain("far_jump", "jump", "jump", Full, {<<o>> : o \in A \union Imm64s \union Places}),
         Plain("call_op", "jump", "call", Full,
               {<<o>> : o \in A \union {Address("a", 4), Address("a", 90)} \union Absolutes}),
         Plain("push", "push", "", Full, {<<R("a")>>}),
         Plain("push_to_save", "push", "", Full, {<<o>> : o \in A \union Addresses \union Imm32s}),
         Plain("pop", "pop", "", Full, {<<R("a")>>}),
         Family("push_pair", "push", "", Full, Full, {"two"}, A \X AB),
         Family("pop_pair", "pop", "", Full, Full, {"two"}, A \X B)}

-------------------------------------------------------------------------------

Comparing(name, k, w, operands) == Family(name, k, "cmp", w, Full, Relations, operands)
Testing(name, k, w, conds, operands) == Family(name, k, "test", w, Full, conds, operands)

Comparisons ==
  UNION {Comparing("compare8", "compare", Byte, {Address("a", 4)} \X {Imm(Byte, -1)} \X AB),
         Comparing("compare32", "compare", Half,
                   (A \X (AB \union Imm32s) \X AB) \union ({Address("a", 4)} \X B \X B)),
         Comparing("compare64", "compare", Full, A \X (B \union Imm32s) \X AB),
         Testing("test8", "compare", Byte, Zeros, {Address("a", 4)} \X {Imm(Byte, -1), Imm(Byte, 2)} \X AB),
         Testing("test32_cond", "compare", Half, Zeros,
                 (AB \union {Address("a", 4)}) \X (B \union Imm32s) \X AB),
         Testing("test64", "compare", Full, Zeros, AB \X (B \union Imm32s) \X AB),
         Comparing("branch8", "branch", Byte, {Address("a", 4), Absolute(1000)} \X {Imm(Byte, -1)}),
         Comparing("branch32", "branch", Half,
                   (A \X (AB \union Imm32s \union {Address("b", 4)}))
                   \union ({Address("a", 4)} \X (B \union {Imm(Half, 40)}))
                   \union ({BaseIndex("a", "b", 2, 4)} \X {Imm(Half, 40)})
                   \union (Absolutes \X B)),
         Comparing("branch64", "branch", Full,
                   (A \X (AB \union Imm32s \union {Imm(Full, 300), Address("b", 4)}))
                   \union ({Address("a", 4)} \X (B \union {Imm(Half, 40), Imm(Full, 300), Address("b", 4)}))
                   \union ({BaseIndex("a", "b", 2, 4)} \X {Imm(Half, 40)})
                   \union (Absolutes \X B)),
         Testing("branch_test8", "branch", Byte, Logical,
                 {Address("a", 4), BaseIndex("a", "b", 2, 4)} \X {Imm(Byte, -1), Imm(Byte, 2)}),
         Testing("branch_test16", "branch", Quarter, Logical,
                 {Address("a", 4), BaseIndex("a", "b", 2, 4)} \X {Imm(Quarter, -1), Imm(Quarter, 2)}),
         Testing("branch_test32", "branch", Half, Logical,
                 (A \X (AB \union Imm32s))
                 \union ({Address("a", 4), BaseIndex("a", "b", 2, 4)} \X {Imm(Half, -1), Imm(Half, 40)})),
         Testing("branch_test64", "branch", Full, Logical,
                 (A \X (AB \union Imm32s))
                 \union ({Address("a", 4), BaseIndex("a", "b", 2, 4)} \X {Imm(Half, -1), Imm(Half, 40)}))}

Branching3(name, f, w, imms) ==
  Family(name, "branch_alu3", f, w, w, ResultConditions, AB \X (B \union imms) \X (A \union C))

ArithmeticBranches ==
  UNION {Branching3("branch_add32_rrr", "add", Half, Imm32s),
         Branching3("branch_add64_rrr", "add", Full, Imm32s),
         Branching3("branch_sub32_rrr", "sub", Half, Imm32s),
         Branching3("branch_sub64_rrr", "sub", Full, Imm32s),
         Branching3("branch_mul32_rrr", "mul", Half, {}),
         Branching3("branch_mul64_rrr", "mul", Full, {}),
         Family("branch_add32", "branch_alu2", "add", Half, Half, ResultConditions,
                ((B \union {Address("a", 4)}) \X B)
                \union ({Imm(Half, 1), Imm(Half, 40)} \X {Address("a", 4), Absolute(1000)})),
         Family("branch_mul64", "branch_alu2", "mul", Full, Full, ResultConditions, A \X B),
         Family("branch_neg32", "branch_neg", "neg", Half, Half, ResultConditions, {<<R("a")>>}),
         Family("branch_neg64", "branch_neg", "neg", Full, Full, ResultConditions, {<<R("a")>>})}

Patchable ==
  UNION {Plain("move_with_patch", "unary", "id", Full, Imms(Full) \X B),
         Plain("store_ptr_with_patch", "store", "id", Full, Imm64s \X {Address("a", 4)}),
         Family("branch32_with_patch", "branch", "cmp", Half, Half, {"Equal", "NotEqual"},
                {Address("a", 4)} \X Imm32s),
         Family("branch_ptr_with_patch", "branch", "cmp", Full, Full, {"Equal", "NotEqual"},
                (A \union {Address("a", 4)}) \X Imm64s)}

-------------------------------------------------------------------------------
(* Floating point *)

Float1(name, f, w) == Plain(name, "float1", f, w, FA \X FAB)
Float3(name, f, w) == Plain(name, "float3", f, w, FAB \X FAB \X (FA \union FC))
FloatingBranch(name, k, w, rw, rest) == Family(name, k, "cmp", w, rw, FloatConditions, FA \X FAB \X rest)

Floating ==
  UNION {Float3("add_float", "fadd", Half), Float3("add_double", "fadd", Full),
         Float3("sub_float", "fsub", Half), Float3("sub_double", "fsub", Full),
         Float3("mul_float", "fmul", Half), Float3("mul_double", "fmul", Full),
         Float3("div_float", "fdiv", Half), Float3("div_double", "fdiv", Full),
         Float3("and_float", "and", Half), Float3("and_double", "and", Full),
         Float3("or_float", "or", Half), Float3("or_double", "or", Full),
         Plain("add_double_rr", "float2", "fadd", Full, (FAB \union {Address("a", 4), Absolute(1000)}) \X FB),
         Plain("sub_double_rr", "float2", "fsub", Full, (FAB \union {Address("a", 4), Absolute(1000)}) \X FB),
         Plain("mul_double_rr", "float2", "fmul", Full, (FAB \union {Address("a", 4), Absolute(1000)}) \X FB),
         Plain("div_double_rr", "float2", "fdiv", Full, FAB \X FB),
         Float1("sqrt_float", "sqrt", Half), Float1("sqrt_double", "sqrt", Full),
         Float1("abs_float", "abs", Half), Float1("abs_double", "abs", Full),
         Float1("ceil_float", "ceil", Half), Float1("ceil_double", "ceil", Full),
         Float1("floor_float", "floor", Half), Float1("floor_double", "floor", Full),
         Float1("round_to_nearest_int_float", "near", Half),
         Float1("round_to_nearest_int_double", "near", Full),
         Float1("round_toward_zero_float", "trunc", Half),
         Float1("round_toward_zero_double", "trunc", Full),
         Float1("negate_float", "neg", Half), Float1("negate_double", "neg", Full),
         Float1("move_float", "id", Half), Float1("move_double", "id", Full),
         Plain("move_zero_to_float", "zero", "", Half, {<<F("fa")>>}),
         Plain("move_zero_to_double", "zero", "", Full, {<<F("fa")>>}),
         Plain("move_float_to32", "unary", "id", Half, FA \X A),
         Plain("move_double_to64", "unary", "id", Full, FA \X A),
         Plain("move32_to_float", "unary", "id", Half, A \X FA),
         Plain("move64_to_double", "unary", "id", Full, A \X FA),
         Plain("load_float", "load", "id", Half, Places \X FA),
         Plain("load_double", "load", "id", Full, Places \X FA),
         Plain("store_float", "store", "id", Half, FA \X Places),
         Plain("store_double", "store", "id", Full, FA \X Places)}

Convert(name, k, f, w, rw, from, to) == Family(name, k, f, w, rw, {""}, from \X to)

Conversions ==
  UNION {Convert("convert_int32_to_float", "tofloat", "signed", Half, Half, A, FA),
         Convert("convert_int32_to_double", "tofloat", "signed", Half, Full, A \union Imm32s, FA),
         Convert("convert_int64_to_float", "tofloat", "signed", Full, Half, A, FA),
         Convert("convert_int64_to_double", "tofloat", "signed", Full, Full, A, FA),
         Convert("convert_uint64_to_float", "tofloat", "unsigned", Full, Half, A, FA),
         Convert("convert_uint64_to_double", "tofloat", "unsigned", Full, Full, A, FA),
         Convert("convert_float_to_double", "resize", "", Half, Full, FA, FAB),
         Convert("convert_double_to_float", "resize", "", Full, Half, FA, FAB),
         Convert("truncate_float_to_int32", "toint", "signed", Half, Half, FA, A),
         Convert("truncate_float_to_uint32", "toint", "unsigned", Half, Half, FA, A),
         Convert("truncate_float_to_int64", "toint", "signed", Half, Full, FA, A),
         Convert("truncate_float_to_uint64", "toint", "unsigned", Half, Full, FA, A),
         Convert("truncate_double_to_int32", "toint", "signed", Full, Half, FA, A),
         Convert("truncate_double_to_uint32", "toint", "unsigned", Full, Half, FA, A),
         Convert("truncate_double_to_int64", "toint", "signed", Full, Full, FA, A),
         Convert("truncate_double_to_uint64", "toint", "unsigned", Full, Full, FA, A),
         Family("branch_truncate_double_to_int32", "branch_toint", "", Full, Half,
                {"success", "failure"}, FA \X A),
         Family("branch_convert_double_to_int32", "branch_exact", "", Full, Half,
                {"zero_check", "no_check"}, FA \X A),
         Family("branch_float", "branch", "cmp", Half, Half, FloatConditions, FA \X FAB),
         Family("branch_double", "branch", "cmp", Full, Full, FloatConditions, FA \X FAB),
         Family("compare_float", "compare", "cmp", Half, Full, FloatConditions, FA \X FAB \X A),
         Family("compare_double", "compare", "cmp", Full, Full, FloatConditions, FA \X FAB \X A),
         Family("branch_double_non_zero", "branch_zero", "", Full, Full, {"NotEqualAndOrdered"}, {<<F("fa")>>}),
         Family("branch_double_zero_or_nan", "branch_zero", "", Full, Full, {"EqualOrUnordered"}, {<<F("fa")>>})}

-------------------------------------------------------------------------------
(* Conditional moves *)

Moves(name, k, f, w, rw, conds, xs, ys, from, to) ==
  Family(name, k, f, w, rw, conds,
         IF k = "move_if" THEN xs \X ys \X from \X to ELSE xs \X ys \X from \X from \X to)

ConditionalMoves ==
  UNION {Moves("move_conditionally32", "move_if", "cmp", Half, Full, Relations, A, B, C, AB),
         Moves("move_conditionally64", "move_if", "cmp", Full, Full, Relations, A, B, C, AB),
         Moves("move_conditionally32_then_else", "choose", "cmp", Half, Full, Relations,
               A, {R("b"), Imm(Half, 40)}, B \union C, A),
         Moves("move_conditionally64_then_else", "choose", "cmp", Full, Full, Relations,
               A, {R("b"), Imm(Half, 40)}, B \union C, A),
         Moves("move_conditionally_float", "move_if", "cmp", Half, Full, FloatConditions, FA, FB, B, A),
         Moves("move_conditionally_double", "move_if", "cmp", Full, Full, FloatConditions, FA, FB, B, A),
         Moves("move_conditionally_float_then_else", "choose", "cmp", Half, Full, FloatConditions,
               FA, FB, B \union C, A),
         Moves("move_conditionally_double_then_else", "choose", "cmp", Full, Full, FloatConditions,
               FA, FB, B \union C, A),
         Moves("move_conditionally_test32", "move_if", "test", Half, Full, Zeros, A, B, C, A),
         Moves("move_conditionally_test64", "move_if", "test", Full, Full, Zeros, A, B, C, A),
         Moves("move_conditionally_test32_then_else", "choose", "test", Half, Full, Zeros,
               A, {R("b"), Imm(Half, 40)}, B \union C, A),
         Moves("move_conditionally_test64_then_else", "choose", "test", Full, Full, Zeros,
               A, {R("b")}, B \union C, A),
         Moves("move_double_conditionally32", "choose", "cmp", Half, Full, Relations,
               A, {R("b"), Imm(Half, 40)}, FB \union FC, FA),
         Moves("move_double_conditionally64", "choose", "cmp", Full, Full, Relations,
               A, {R("b"), Imm(Half, 40)}, FB \union FC, FA),
         Moves("move_double_conditionally_float", "choose", "cmp", Half, Full, FloatConditions,
               FA, FB, FB \union FC, FA),
         Moves("move_double_conditionally_double", "choose", "cmp", Full, Full, FloatConditions,
               FA, FB, FB \union FC, FA),
         Moves("move_double_conditionally_test32", "choose", "test", Half, Full, Zeros,
               A, {R("b"), Imm(Half, 40)}, FB \union FC, FA),
         Moves("move_double_conditionally_test64", "choose", "test", Full, Full, Zeros,
               A, {R("b"), Imm(Half, 40)}, FB \union FC, FA)}

Catalogue == UNION {Arithmetic, Bits, Memory, Logic2, Control, Comparisons, ArithmeticBranches,
                    Patchable, Floating, Conversions, ConditionalMoves}

===============================================================================
