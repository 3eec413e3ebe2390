------------------------------ MODULE Amounts -------------------------------
(***************************************************************************)
(* How an amount that a client writes becomes a number of smallest units,  *)
(* parseAmountToCents, and how a balance is shown to it, FormatCents.      *)
(*                                                                         *)
(* A text that passes the handlers' "numeric" validation is an optional    *)
(* sign, digits and, after a point, more digits.  It is a record of the    *)
(* sign, the number that the first digits spell, and the sequence of the   *)
(* digits after the point.                                                 *)
(***************************************************************************)
EXTENDS Integers, Sequences

CONSTANT MaxInt   \* the largest int64: 2^63 - 1 in the program

ASSUME MaxIntAssumption == MaxInt \in Nat \ {0}

Rejected == -1
Currencies == {"usd", "eur", "idr"}
NoDecimals == {"idr"}
SmallestUnitFactor == 100
Sign == {"", "+", "-"}
Text(sign, whole, frac) == [sign |-> sign, whole |-> whole, frac |-> frac]

Saturated(x) == IF x > MaxInt THEN MaxInt ELSE x   \* mutant: overflow sticks at the limit

\* int64 arithmetic, whatever multiple of 2^64 the exact result is off by.
Int64Of(x) == ((x + MaxInt + 1) % (2 * (MaxInt + 1))) - (MaxInt + 1)

\* The fraction padded to the two kept digits and the rounding digit.
Digit(frac, n) == IF n <= Len(frac) THEN frac[n] ELSE 0
Kept(frac) == 10 * Digit(frac, 1) + Digit(frac, 2)
HalfDown(frac) == IF Digit(frac, 3) > 5 THEN 1 ELSE 0   \* mutant: a half is rounded down
RoundingUp(frac) == IF Digit(frac, 3) >= 5 THEN 1 ELSE 0

\* Mutant: the fraction's carry is lost.
InCentsNoCarry(a) ==
  Int64Of(a.whole * SmallestUnitFactor + ((Kept(a.frac) + RoundingUp(a.frac)) % SmallestUnitFactor))

\* whole += carry; whole = whole*smallestUnitFactor + fracValue
InCents(a) ==
  LET fracValue == Kept(a.frac) + RoundingUp(a.frac)
      whole     == Int64Of(a.whole + (fracValue \div SmallestUnitFactor))
  IN  Int64Of(whole * SmallestUnitFactor + (fracValue % SmallestUnitFactor))

\* Mutant: what the multiplication makes of a large amount is not looked at.
ParseUnchecked(a, cur) ==
  IF a.sign = "-" \/ a.whole > MaxInt THEN Rejected
  ELSE IF cur \in NoDecimals THEN a.whole ELSE InCents(a)

ParseAmountToCents(a, cur) ==
  IF a.sign = "-" \/ a.whole > MaxInt THEN Rejected   \* strconv.ParseInt: out of range
  ELSE IF cur \in NoDecimals THEN a.whole
  ELSE IF InCents(a) <= 0 THEN Rejected
  ELSE InCents(a)

\* Mutant: "%d.%d", without the leading zero of the cents.
TwoDigitsBare(n) == IF n < 10 THEN <<n>> ELSE <<n \div 10, n % 10>>
TwoDigits(n) == <<n \div 10, n % 10>>

\* For every int64 but the smallest, whose negation overflows.
FormatCents(cents, cur) ==
  LET sign      == IF cents < 0 THEN "-" ELSE ""
      magnitude == IF cents < 0 THEN -cents ELSE cents
  IN  IF cur \in NoDecimals THEN Text(sign, magnitude, << >>)
      ELSE Text(sign, magnitude \div SmallestUnitFactor, TwoDigits(magnitude % SmallestUnitFactor))

-----------------------------------------------------------------------------
(* The rounding by rational arithmetic: the amount is Numerator / Denominator. *)

\* The number that the digits of frac spell when they are written after those of n.
Spelled(n, frac) ==
  LET value[i \in 0..Len(frac)] == IF i = 0 THEN n ELSE 10 * value[i - 1] + frac[i]
  IN  value[Len(frac)]

\* All the digits without the point, and 1 with a zero for each digit after it.
Numerator(a) == Spelled(a.whole, a.frac)
Denominator(a) == Spelled(1, [i \in 1..Len(a.frac) |-> 0])

\* The whole number nearest to factor * amount, a half going up.
Nearest(a, factor) ==
  (2 * factor * Numerator(a) + Denominator(a)) \div (2 * Denominator(a))
=============================================================================
