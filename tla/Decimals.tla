------------------------------ MODULE Decimals ------------------------------
(***************************************************************************)
(* The arithmetic of Decimal (src/src/decimal.rs): mantissa / 10^scale, with  *)
(* a mantissa of fixed width.  The widths are parameters: MaxMantissa stands  *)
(* for i64::MAX, and the wide integers of the intermediate results keep       *)
(* their proportion to it (2^128 is 4 * (2^63)^2).                            *)
(*                                                                          *)
(* Parsing and printing are left out, and so are the caps of 38 digits on a   *)
(* shift, which no pair of scales reaches.                                    *)
(***************************************************************************)
EXTENDS Integers

CONSTANTS
  MaxMantissa,  \* i64::MAX
  MAX_SCALE,
  MaxShift,     \* the 40 of checked_pow10
  Numbers,      \* the mantissas of the operands
  NoDecimal     \* None

MinMantissa == -MaxMantissa - 1                        \* i64::MIN
MaxWide == 4 * (MaxMantissa + 1) * (MaxMantissa + 1) - 1   \* u128::MAX
Scales == 0 .. MAX_SCALE

ASSUME DecimalsAssumption ==
  /\ MaxMantissa \in Nat /\ MAX_SCALE \in Nat /\ MaxShift \in Nat
  /\ Numbers \subseteq MinMantissa .. MaxMantissa

Decimal(mantissa, scale) == [mantissa |-> mantissa, scale |-> scale]
ZERO == Decimal(0, 0)
Samples == {Decimal(n, s) : n \in Numbers, s \in Scales}

VARIABLES left, right     \* two operands, one after the other

decInit == left \in Samples /\ right = NoDecimal
decNext == right = NoDecimal /\ right' \in Samples /\ UNCHANGED left

---------------------------------------------------------------------------

magnitude(n) == IF n < 0 THEN -n ELSE n
signed(negative, n) == IF negative THEN -n ELSE n
larger(m, n) == IF m > n THEN m ELSE n

narrow(n, scale) == IF n \in MinMantissa .. MaxMantissa THEN Decimal(n, scale) ELSE NoDecimal

(* Drops digits, half to even; sticky: something was dropped before them. *)
round_off(n, digits, sticky) ==
  LET divisor == 10 ^ digits
      quotient == n \div divisor
      remainder == n % divisor
      half == divisor \div 2
  IN IF digits = 0 THEN n
     ELSE IF remainder > half \/ (remainder = half /\ (sticky \/ quotient % 2 = 1)) THEN quotient + 1
     ELSE quotient

Rounded(negative, n, scale) == IF n > MaxMantissa THEN NoDecimal ELSE Decimal(signed(negative, n), scale)

rescale(d, scale) ==
  IF scale > MAX_SCALE THEN NoDecimal
  ELSE IF scale >= d.scale THEN narrow(d.mantissa * 10 ^ (scale - d.scale), scale)
  ELSE IF d.mantissa % 10 ^ (d.scale - scale) # 0 THEN NoDecimal
  ELSE Decimal(d.mantissa \div 10 ^ (d.scale - scale), scale)

round_to(d, scale) ==
  IF scale >= d.scale THEN rescale(d, scale)
  ELSE Rounded(d.mantissa < 0, round_off(magnitude(d.mantissa), d.scale - scale, FALSE), scale)

to_i128_at(d, scale) == d.mantissa * 10 ^ (scale - d.scale)

checked_add(a, b) ==
  LET scale == larger(a.scale, b.scale) IN narrow(to_i128_at(a, scale) + to_i128_at(b, scale), scale)
checked_sub(a, b) ==
  LET scale == larger(a.scale, b.scale) IN narrow(to_i128_at(a, scale) - to_i128_at(b, scale), scale)

checked_mul(a, b) ==
  LET scale == a.scale + b.scale
      product == a.mantissa * b.mantissa
  IN IF scale <= MAX_SCALE THEN narrow(product, scale)
     ELSE Rounded(product < 0, round_off(magnitude(product), scale - MAX_SCALE, FALSE), MAX_SCALE)

checked_div_blunt(a, b, scale) ==  \* mutant: what the quotient leaves over is not looked at
  LET shift == scale + b.scale - a.scale + 1
      numerator == magnitude(a.mantissa) * (IF shift >= 0 THEN 10 ^ shift ELSE 1)
      denominator == magnitude(b.mantissa) * (IF shift >= 0 THEN 1 ELSE 10 ^ (-shift))
  IN IF b.mantissa = 0 \/ scale > MAX_SCALE \/ numerator > MaxWide THEN NoDecimal
     ELSE Rounded((a.mantissa < 0) # (b.mantissa < 0), round_off(numerator \div denominator, 1, FALSE), scale)
(* One digit more than asked for, so that the quotient can be rounded. *)
checked_div(a, b, scale) ==
  LET shift == scale + b.scale - a.scale + 1
      numerator == magnitude(a.mantissa) * (IF shift >= 0 THEN 10 ^ shift ELSE 1)
      denominator == magnitude(b.mantissa) * (IF shift >= 0 THEN 1 ELSE 10 ^ (-shift))
  IN IF b.mantissa = 0 \/ scale > MAX_SCALE \/ numerator > MaxWide \/ denominator > MaxWide THEN NoDecimal
     ELSE Rounded((a.mantissa < 0) # (b.mantissa < 0),
                  round_off(numerator \div denominator, 1, numerator % denominator # 0), scale)

(* The scale is spent first, then the mantissa grows or loses its zeros. *)
checked_pow10(d, exp) ==
  LET want == d.scale - exp
      surplus == want - MAX_SCALE
      left_over == exp - d.scale
  IN IF exp = 0 THEN d
     ELSE IF exp > MaxShift \/ exp < -MaxShift THEN IF d.mantissa = 0 THEN ZERO ELSE NoDecimal
     ELSE IF exp > 0 THEN IF left_over <= 0 THEN Decimal(d.mantissa, want)
                          ELSE narrow(d.mantissa * 10 ^ left_over, 0)
     ELSE IF want <= MAX_SCALE THEN Decimal(d.mantissa, want)
     ELSE IF surplus > MAX_SCALE \/ d.mantissa % 10 ^ surplus # 0 THEN NoDecimal
     ELSE Decimal(d.mantissa \div 10 ^ surplus, MAX_SCALE)

compare(a, b) ==
  LET scale == larger(a.scale, b.scale)
      x == to_i128_at(a, scale)
      y == to_i128_at(b, scale)
  IN IF x < y THEN "Less" ELSE IF x > y THEN "Greater" ELSE "Equal"

(* Trailing zeros removed; what Hash is computed from. *)
normalized(d) ==
  IF d.mantissa = 0 THEN ZERO
  ELSE LET zeros == CHOOSE k \in 0 .. d.scale :
                      /\ d.mantissa % 10 ^ k = 0
                      /\ k = d.scale \/ d.mantissa % 10 ^ (k + 1) # 0
       IN Decimal(d.mantissa \div 10 ^ zeros, d.scale - zeros)

---------------------------------------------------------------------------
(* The reference: p / q for every Decimal, and the rounding of a fraction.   *)

Num(d) == d.mantissa * 10 ^ (MAX_SCALE - d.scale)      \* over 10^MAX_SCALE
Fits(d) == d.scale \in Scales /\ d.mantissa \in MinMantissa .. MaxMantissa

(* n is p / q (q > 0) rounded to a whole number, half to even. *)
IsHalfEven(n, p, q) ==
  LET error == 2 * magnitude(p - n * q) IN error < q \/ (error = q /\ n % 2 = 0)

Pairs == right # NoDecimal

(* Sums and differences are exact: the energy of a session is what the       *)
(* meter's two readings differ by, whatever scales the station wrote them    *)
(* with.  They are None only when no mantissa of the result's scale holds    *)
(* them, and what was subtracted can be added back.                          *)
DifferencesExact ==
  Pairs =>
    LET sum == checked_add(left, right)
        diff == checked_sub(left, right)
        unit == 10 ^ (MAX_SCALE - larger(left.scale, right.scale))
        holds(n) == n \div unit \in MinMantissa .. MaxMantissa
    IN /\ IF sum = NoDecimal THEN ~holds(Num(left) + Num(right)) ELSE Fits(sum) /\ Num(sum) = Num(left) + Num(right)
       /\ IF diff = NoDecimal THEN ~holds(Num(left) - Num(right)) ELSE Fits(diff) /\ Num(diff) = Num(left) - Num(right)
       /\ diff # NoDecimal /\ checked_add(diff, right) # NoDecimal => compare(checked_add(diff, right), left) = "Equal"

(* Products, quotients and roundings are the exact result rounded once, half *)
(* to even, and fit the type; a quotient is None only for a zero divisor, a  *)
(* mantissa that is too large, or a numerator that the wide integer cannot   *)
(* take one more digit of.                                                   *)
RoundedOnce ==
  Pairs =>
    /\ LET product == checked_mul(left, right)
           q == 10 ^ larger(0, left.scale + right.scale - MAX_SCALE)
       IN product # NoDecimal =>
            Fits(product) /\ IsHalfEven(product.mantissa, left.mantissa * right.mantissa, q)
    /\ \A scale \in Scales :
         LET quotient == checked_div(left, right, scale)
             shift == scale + right.scale - left.scale
             p == (IF right.mantissa < 0 THEN -left.mantissa ELSE left.mantissa) * 10 ^ larger(0, shift)
             q == magnitude(right.mantissa) * 10 ^ larger(0, -shift)
         IN IF quotient # NoDecimal
            THEN Fits(quotient) /\ quotient.scale = scale /\ IsHalfEven(quotient.mantissa, p, q)
            ELSE right.mantissa = 0 \/ 2 * magnitude(p) >= (2 * MaxMantissa + 1) * q \/ 10 * magnitude(p) > MaxWide
    /\ \A scale \in Scales :
         LET rounded == round_to(left, scale)
             shift == scale - left.scale
         IN rounded # NoDecimal =>
              Fits(rounded) /\ IsHalfEven(rounded.mantissa, left.mantissa * 10 ^ larger(0, shift), 10 ^ larger(0, -shift))

(* The order is that of the numbers, two Decimals are equal exactly when     *)
(* their normal forms are (which is what Hash relies on), and a shift of the *)
(* point or a change of scale never changes the number.                      *)
OrderIsNumeric ==
  Pairs =>
    /\ compare(left, right) = (IF Num(left) < Num(right) THEN "Less" ELSE IF Num(left) > Num(right) THEN "Greater" ELSE "Equal")
    /\ compare(left, right) = "Equal" <=> normalized(left) = normalized(right)
    /\ \A scale \in Scales : rescale(left, scale) # NoDecimal => compare(rescale(left, scale), left) = "Equal"
    /\ \A exp \in -(MaxShift + 1) .. MaxShift + 1 :
         LET moved == checked_pow10(left, exp)
         IN moved # NoDecimal =>
              Fits(moved) /\ Num(moved) * 10 ^ larger(0, -exp) = Num(left) * 10 ^ larger(0, exp)

(* The arithmetic is that of the numbers the Decimals stand for, within the    *)
(* width of the type.                                                        *)
ArithmeticExact == DifferencesExact /\ RoundedOnce /\ OrderIsNumeric
=============================================================================
