--------------------------------- MODULE Words ---------------------------------
(***************************************************************************)
(* Machine words, at a quarter of their width: a byte has two bits, and    *)
(* the registers the macro assemblers work on have sixteen.  What the code *)
(* generators get right or wrong, sign and zero extension, truncation,     *)
(* wrapping and overflow, shows at this width as it does at the real one.  *)
(***************************************************************************)
EXTENDS Integers, Bitwise

Byte == 2       (* u8        *)
Quarter == 4    (* u16       *)
Half == 8       (* u32, f32  *)
Full == 16      (* u64, f64  *)

Wrap(x, w) == x % 2^w
Words(w) == 0..(2^w - 1)
Signed(x, w) == LET y == Wrap(x, w) IN IF y >= 2^(w - 1) THEN y - 2^w ELSE y

(* The low w bits of x, extended to a whole register. *)
SignExtend(x, w) == Wrap(Signed(x, w), Full)
ZeroExtend(x, w) == Wrap(x, w)

FitsSigned(x, w) == -(2^(w - 1)) <= x /\ x < 2^(w - 1)
FitsUnsigned(x, w) == 0 <= x /\ x < 2^w

Shl(x, n, w) == IF n >= w THEN 0 ELSE Wrap(x, w - n) * 2^n
Shr(x, n, w) == Wrap(x, w) \div 2^n
Sar(x, n, w) == Wrap(Signed(x, w) \div 2^n, w)
Ror(x, n, w) == Shr(x, n, w) + Shl(x, w - n, w)
Product(x, y, w) == Signed(x, w) * Signed(y, w)
Complement(x, w) == 2^w - 1 - Wrap(x, w)

LeadingZeros(x, w) ==
  CHOOSE n \in 0..w : x < 2^(w - n) /\ (n = w \/ x >= 2^(w - n - 1))
TrailingZeros(x, w) ==
  IF x = 0 THEN w ELSE CHOOSE n \in 0..(w - 1) : x % 2^n = 0 /\ x % 2^(n + 1) # 0

(* The bytes of a word in the opposite order. *)
Reversed(x, w) ==
  LET r[i \in 0..(w \div Byte)] ==
        IF i = 0 THEN 0 ELSE (2^Byte * r[i - 1]) + ((x \div 2^(Byte * (i - 1))) % 2^Byte)
  IN r[w \div Byte]

-------------------------------------------------------------------------------
(* Floating-point numbers: a sign, and a magnitude in quarters; the two    *)
(* largest magnitudes are the infinity and NaN.                            *)

Magnitude(x, w) == x % 2^(w - 1)
Negative(x, w) == Wrap(x, w) >= 2^(w - 1)
Infinite(w) == 2^(w - 1) - 2
NaN(w) == 2^(w - 1) - 1
IsNaN(x, w) == Magnitude(x, w) = NaN(w)
IsInfinite(x, w) == Magnitude(x, w) = Infinite(w)
MinusZero(w) == 2^(w - 1)

(* The number of quarters, of anything but NaN. *)
Quarters(x, w) == IF Negative(x, w) THEN -Magnitude(x, w) ELSE Magnitude(x, w)

Float(sign, q, w) ==   (* q quarters, or the infinity when there are too many *)
  LET m == IF q > Infinite(w) THEN Infinite(w) ELSE q
  IN IF sign THEN 2^(w - 1) + m ELSE m
FromQuarters(q, w) == Float(q < 0, IF q < 0 THEN -q ELSE q, w)

Rounded(q, mode) ==   (* quarters to a whole number *)
  CASE mode = "down" -> q \div 4
    [] mode = "up" -> -((-q) \div 4)
    [] mode = "zero" -> IF q < 0 THEN -((-q) \div 4) ELSE q \div 4
    [] mode = "near" -> LET d == q \div 4
                        IN CASE q % 4 < 2 -> d
                             [] q % 4 > 2 -> d + 1
                             [] OTHER -> IF d % 2 = 0 THEN d ELSE d + 1

(* A float rounded to a float; NaN and the infinities are themselves, and  *)
(* the sign is kept.                                                       *)
RoundFloat(x, mode, w) ==
  IF Magnitude(x, w) >= Infinite(w) THEN x
  ELSE LET n == Rounded(Quarters(x, w), mode)
       IN Float(Negative(x, w), 4 * (IF n < 0 THEN -n ELSE n), w)

===============================================================================
