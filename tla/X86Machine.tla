------------------------------- MODULE X86Machine -------------------------------
(***************************************************************************)
(* The x86-64 instructions the macro assembler uses, at the width of       *)
(* Words.  An instruction is a tuple of its mnemonic and its operands, the *)
(* destination last, as the functions of the assembler have them.          *)
(***************************************************************************)
EXTENDS MacroOps

(* The numbers of the registers.  The client's are rax, rsi and rcx: one   *)
(* with instructions of its own, one whose low byte needs a prefix to be   *)
(* named, and the one that counts shifts.                                  *)
Number == [a |-> 0, c |-> 1, d |-> 2, sp |-> 4, b |-> 6, r8 |-> 8, r11 |-> 11]
XNumber == [fa |-> 0, x1 |-> 1, fc |-> 2, x6 |-> 6, x7 |-> 7, fb |-> 8, x11 |-> 11]
Numbered(n) == CHOOSE r \in DOMAIN Number : Number[r] = n
XNumbered(n) == CHOOSE r \in DOMAIN XNumber : XNumber[r] = n

(* Without a prefix the byte registers 4 to 7 are the second bytes of 0 to 3. *)
High(r) == [k |-> "high", r |-> r]
WithoutREX(o) ==
  IF o.k = "reg" /\ Number[o.r] \in 4..7 THEN High(Numbered(Number[o.r] - 4)) ELSE o

Get(m, o, w) ==
  CASE o.k = "high" -> (m.g[o.r] \div 2^Byte) % 2^Byte
    [] o.k \in {"imm32", "imm64"} -> Wrap(Signed(o.v, IF o.k = "imm64" THEN Full ELSE Half), w)
    [] OTHER -> Value(m, o, w)

(* Writing half a general register clears the other half; writing less of  *)
(* one, or half a floating-point register, keeps the rest.                 *)
Over(old, v, w) == old - (old % 2^w) + Wrap(v, w)
Put(m, o, w, v) ==
  CASE o.k = "high" ->
         [m EXCEPT !.g[o.r] = @ - (((@ \div 2^Byte) % 2^Byte) * 2^Byte) + (Wrap(v, Byte) * 2^Byte)]
    [] o.k = "reg" -> [m EXCEPT !.g[o.r] = IF w >= Half THEN Wrap(v, w) ELSE Over(@, v, w)]
    [] o.k = "freg" -> [m EXCEPT !.f[o.r] = Over(@, v, w)]
    [] OTHER -> Assign(m, o, w, Wrap(v, w))

-------------------------------------------------------------------------------
(* Flags *)

Flags(z, s, c, o, p) == [z |-> z, s |-> s, c |-> c, o |-> o, p |-> p]
OfResult(m, x, w, carry, overflow) ==
  [m EXCEPT !.flags = Flags(Wrap(x, w) = 0, Signed(x, w) < 0, carry, overflow, @.p)]

Met(cc, fl) ==
  CASE cc = "O" -> fl.o         [] cc = "NO" -> ~fl.o
    [] cc = "B" -> fl.c         [] cc = "AE" -> ~fl.c
    [] cc = "E" -> fl.z         [] cc = "NE" -> ~fl.z
    [] cc = "BE" -> fl.c \/ fl.z [] cc = "A" -> ~(fl.c \/ fl.z)
    [] cc = "S" -> fl.s         [] cc = "NS" -> ~fl.s
    [] cc = "P" -> fl.p         [] cc = "NP" -> ~fl.p
    [] cc = "L" -> fl.s # fl.o  [] cc = "GE" -> fl.s = fl.o
    [] cc = "LE" -> fl.z \/ fl.s # fl.o [] cc = "G" -> ~fl.z /\ fl.s = fl.o

(* y f x, as sub, cmp, test and the others set the flags. *)
Alu(m, f, x, y, w) ==
  OfResult(m, Binary(f, y, x, w), w,
           (f = "add" /\ x + y >= 2^w) \/ (f = "sub" /\ y < x),
           f \in {"add", "sub"} /\ Overflows(f, y, x, w))

(* Of two floats: unordered, below, equal or above. *)
Compared(m, x, y, w) ==
  LET unordered == IsNaN(x, w) \/ IsNaN(y, w)
      qx == Quarters(x, w)
      qy == Quarters(y, w)
  IN [m EXCEPT !.flags = Flags(unordered \/ qx = qy, FALSE, unordered \/ qy < qx, FALSE, unordered)]

-------------------------------------------------------------------------------

ExecUnary(m, f, w, y) ==
  LET v == Get(m, y, w)
      n == CASE f = "inc" -> v + 1 [] f = "dec" -> v - 1 [] f = "neg" -> -v
             [] f = "not" -> Complement(v, w) [] f = "swap" -> Reversed(v, w)
      e == Put(m, y, w, Wrap(n, w))
  IN CASE f \in {"not", "swap"} -> e
       [] f = "neg" -> OfResult(e, n, w, v # 0, Overflows("sub", 0, v, w))
       [] f = "inc" -> OfResult(e, n, w, m.flags.c, Overflows("add", v, 1, w))
       [] f = "dec" -> OfResult(e, n, w, m.flags.c, Overflows("sub", v, 1, w))

Trap(m) == [m EXCEPT !.out = <<"trap">>]

ExecInteger(i, m) ==
  LET mn == i[1]
      w == i[2]
      X == Get(m, i[3], w)
      Y == Get(m, i[4], w)
  IN CASE mn \in {"add", "sub", "and", "or", "xor"} -> Put(Alu(m, mn, X, Y, w), i[4], w, Binary(mn, Y, X, w))
       [] mn = "cmp" -> Alu(m, "sub", X, Y, w)
       [] mn = "test" -> Alu(m, "and", X, Y, w)
       [] mn = "mov" -> Put(m, i[4], w, X)
       [] mn = "movsx" -> Put(m, i[4], i[5], Signed(X, w))
       [] mn = "movzx" -> Put(m, i[4], i[5], X)
       [] mn = "lea" -> Put(m, i[4], w, EffectiveAddress(m, i[3]))
       [] mn = "xchg" -> Put(Put(m, i[4], w, X), i[3], w, Y)
       [] mn \in {"shl", "shr", "sar", "ror", "rol"} -> Put(m, i[4], w, Binary(mn, Y, X, w))
       [] mn \in {"imul", "imul3"} ->   (* the flags but two are undefined: as for what is in r11 *)
            LET y == IF mn = "imul" THEN Y ELSE Get(m, i[5], w)
                over == Overflows("mul", y, X, w)
            IN Put(OfResult(m, m.g["r11"], w, over, over), i[4], w, Product(X, y, w))
       [] mn \in {"clz", "ctz", "popcnt"} -> Put(m, i[4], w, Unary(mn, X, w))
       [] mn = "bt" -> [m EXCEPT !.flags.c = (Y \div 2^(X % w)) % 2 = 1]

ExecFloat(i, m) ==
  LET mn == i[1]
      w == i[2]
      X == Get(m, i[3], w)
      Y == Get(m, i[4], w)
      xf == Get(m, i[3], Full)
      yf == Get(m, i[4], Full)
  IN CASE mn \in {"fadd", "fsub", "fmul", "fdiv"} -> Put(m, i[4], w, FloatBinary(mn, Y, X, w))
       [] mn = "fsqrt" -> Put(m, i[4], w, FloatUnary("sqrt", X, w))
       [] mn = "fround" -> Put(m, i[4], w, RoundFloat(X, i[5], w))
       [] mn \in {"fand", "for", "fxor", "fandn"} ->   (* of the whole register *)
            Put(m, i[4], Full, CASE mn = "fand" -> xf & yf [] mn = "for" -> xf | yf
                                 [] mn = "fxor" -> xf ^^ yf [] mn = "fandn" -> xf & Complement(yf, Full))
       [] mn = "ucomi" -> Compared(m, X, Y, w)
       [] mn = "movf" -> IF InMemory(i[3]) THEN Put(m, i[4], Full, X) ELSE Put(m, i[4], w, X)
       [] mn = "movmsk" -> Put(m, i[4], Half, Bool(Negative(X, w)))
       [] mn = "cvtt" ->   (* to an integer of i[5], the least one when there is none *)
            Put(m, i[4], i[5], IF InRange(X, w, "signed", i[5]) THEN Truncated(X, w) ELSE 2^(i[5] - 1))
       [] mn = "cvtsi" -> Put(m, i[4], i[5], FromQuarters(4 * Signed(X, w), i[5]))
       [] mn = "cvtf" -> Put(m, i[4], i[5], Resize(X, w, i[5]))

(* Where control goes: by how many instructions, or to the client's target. *)
X86Advance(i, m) ==
  CASE i[1] = "jcc" -> IF Met(i[2], m.flags) THEN i[3] ELSE 1
    [] i[1] = "jmp" -> i[2]
    [] OTHER -> 1

IsFloat(i) == i[1] \in {"fadd", "fsub", "fmul", "fdiv", "fsqrt", "fround", "fand", "for", "fxor",
                        "fandn", "ucomi", "movf", "movmsk", "cvtt", "cvtsi", "cvtf"}

X86Exec(i, m) ==
  CASE i[1] \in {"jcc", "jmp"} ->
         IF X86Advance(i, m) = Target THEN [m EXCEPT !.out = <<"taken">>] ELSE m
    [] i[1] \in {"jump_to", "call_to"} ->
         [m EXCEPT !.out = <<IF i[1] = "call_to" THEN "call" ELSE "jump", Get(m, i[2], Full)>>]
    [] i[1] = "push" ->
         LET sp == Wrap(m.g["sp"] - 8, Full)
         IN Store([m EXCEPT !.g["sp"] = sp], sp, Full, Get(m, i[2], Full))
    [] i[1] = "pop" -> [Put(m, i[2], Full, Load(m, m.g["sp"], Full)) EXCEPT !.g["sp"] = Wrap(m.g["sp"] + 8, Full)]
    [] i[1] = "setcc" -> Put(m, i[3], Byte, Bool(Met(i[2], m.flags)))
    [] i[1] = "cmov" -> Put(m, i[5], i[3], Get(m, IF Met(i[2], m.flags) THEN i[4] ELSE i[5], i[3]))
    [] i[1] \in {"inc", "dec", "neg", "not", "swap"} -> ExecUnary(m, i[1], i[2], i[3])
    [] i[1] = "illegal" -> Trap(m)
    [] IsFloat(i) -> ExecFloat(i, m)
    [] OTHER -> ExecInteger(i, m)

===============================================================================
