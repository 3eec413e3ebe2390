----------------------------- MODULE AmountProofs -----------------------------
(***************************************************************************)
(* For every width of the integers, every amount and every number of       *)
(* decimals: what parseAmountToCents makes of an amount is its value       *)
(* rounded half up, while that fits; and what FormatCents shows is read    *)
(* back as the number it stands for, so that it can be paid.               *)
(*                                                                         *)
(* Induction on the digits takes the form of the least number principle.   *)
(***************************************************************************)
EXTENDS AmountSession, WellFoundedInduction, TLAPS

LEMMA LargestInt == MaxInt \in Nat /\ MaxInt >= 1
  BY MaxIntAssumption

\* Arithmetic that the provers do not find by themselves.
LEMMA LargerFactor ==
  ASSUME NEW j \in Int, NEW k \in Int, NEW m \in Nat, j <= k
  PROVE  j * m <= k * m
OBVIOUS

LEMMA Quotient ==
  ASSUME NEW a \in Int, NEW m \in Nat \ {0}, NEW q \in Int, q * m <= a, a < (q + 1) * m
  PROVE  a \div m = q
<1> DEFINE p == a \div m
<1>1. p \in Int /\ a = m * p + (a % m) /\ a % m \in 0..m - 1
  OBVIOUS
<1> HIDE DEF p
<1>2. m * p = p * m
  BY <1>1
<1>3. CASE p >= q + 1
  <2>1. (q + 1) * m <= p * m
    BY <1>1, <1>3, LargerFactor
  <2> QED
    BY <1>1, <1>2, <2>1
<1>4. CASE p <= q - 1
  <2>1. (p + 1) * m <= q * m
    BY <1>1, <1>4, LargerFactor
  <2>2. (p + 1) * m = p * m + m
    BY <1>1
  <2> QED
    BY <1>1, <1>2, <2>1, <2>2
<1> QED
  BY <1>1, <1>3, <1>4 DEF p

LEMMA Multiple ==
  ASSUME NEW k \in Int, NEW m \in Nat \ {0}
  PROVE  (k * m) % m = 0
<1> DEFINE a == k * m
<1>1. a \in Int /\ k * m <= a /\ a < (k + 1) * m
  BY (k + 1) * m = k * m + m
<1> HIDE DEF a
<1>2. a \div m = k
  BY <1>1, Quotient
<1>3. a = m * (a \div m) + (a % m) /\ a % m \in Int
  BY <1>1
<1>4. m * k = a
  BY DEF a
<1> QED
  BY <1>2, <1>3, <1>4 DEF a

-----------------------------------------------------------------------------
(* Induction, and the recursion that spells a number out *)

\* Every set of naturals that is not empty has a least element.
LEMMA LeastNatural ==
  ASSUME NEW S, S \subseteq Nat, S # {}
  PROVE  \E n \in S : \A m \in S : n <= m
<1> DEFINE R == OpToRel(<, Nat)
<1>1. IsWellFoundedOn(R, Nat)
  BY NatLessThanWellFounded
<1>2. \A m, n \in Nat : m < n => <<m, n>> \in R
  BY DEF OpToRel
<1> HIDE DEF R
<1>3. PICK n \in S : \A m \in S : <<m, n>> \notin R
  BY <1>1, WFMin
<1>4. ASSUME NEW m \in S PROVE n <= m
  <2>1. m \in Nat /\ n \in Nat /\ (m < n \/ n <= m)
    OBVIOUS
  <2>2. <<m, n>> \notin R
    BY <1>3
  <2>3. ~(m < n)
    BY <2>1, <2>2, <1>2, Zenon
  <2> QED
    BY <2>1, <2>3
<1> QED
  BY <1>4

\* value reads the digits up to the k-th as the recursion of Spelled does.
Reads(n, frac, k, value) ==
  value = [i \in 0..k |-> IF i = 0 THEN n ELSE 10 * value[i - 1] + frac[i]]

LEMMA ReadingExists ==
  ASSUME NEW n, NEW frac
  PROVE  \A k \in Nat : \E value : Reads(n, frac, k, value)
<1> DEFINE Bad == {k \in Nat : ~ \E value : Reads(n, frac, k, value)}
<1>1. SUFFICES ASSUME Bad # {} PROVE FALSE
  OBVIOUS
<1>2. PICK k \in Bad : \A m \in Bad : k <= m
  BY <1>1, LeastNatural
<1>3. CASE k = 0
  <2>1. Reads(n, frac, 0, [i \in 0..0 |-> n])
    BY DEF Reads
  <2> QED
    BY <1>3, <2>1
<1>4. CASE k # 0
  <2>1. k - 1 \in Nat /\ k - 1 \notin Bad
    BY <1>2, <1>4
  <2>2. PICK g : Reads(n, frac, k - 1, g)
    BY <2>1
  <2> DEFINE h == [i \in 0..k |-> IF i = k THEN 10 * g[k - 1] + frac[k] ELSE g[i]]
  <2>3. ASSUME NEW i \in 0..k PROVE h[i] = IF i = 0 THEN n ELSE 10 * h[i - 1] + frac[i]
    <3>1. CASE i = k
      BY <3>1, <1>4, <2>1
    <3>2. CASE i # k
      <4>1. i \in 0..(k - 1) /\ (i # 0 => i - 1 \in 0..k /\ i - 1 # k)
        BY <3>2, <2>1
      <4>2. g[i] = IF i = 0 THEN n ELSE 10 * g[i - 1] + frac[i]
        BY <2>2, <4>1, Zenon DEF Reads
      <4> QED
        BY <4>1, <4>2, <3>2
    <3> QED
      BY <3>1, <3>2
  <2>4. Reads(n, frac, k, h)
    BY <2>3, Zenon DEF Reads
  <2> QED
    BY <2>4
<1> QED
  BY <1>3, <1>4

\* Spelled is what such a function has read at the last digit.
LEMMA SpelledIsRead ==
  ASSUME NEW n, NEW frac, Len(frac) \in Nat
  PROVE  \E value : Reads(n, frac, Len(frac), value) /\ Spelled(n, frac) = value[Len(frac)]
<1> DEFINE k == Len(frac)
           value == CHOOSE v : Reads(n, frac, k, v)
<1>1. Reads(n, frac, k, value)
  BY ReadingExists
<1>2. Spelled(n, frac) = value[k]
  BY Zenon DEF Spelled, Reads
<1> QED
  BY <1>1, <1>2

LEMMA ZeroDigits ==
  ASSUME NEW n \in Nat
  PROVE  /\ [i \in 1..n |-> 0] \in Seq(0..9)
         /\ Len([i \in 1..n |-> 0]) = n
         /\ \A i \in 1..n : [j \in 1..n |-> 0][i] = 0
OBVIOUS

-----------------------------------------------------------------------------
(* Rounding: only the first three decimals matter *)

\* One digit more, and the thousandths before it are as they were.
LEMMA DigitsGoOn ==
  ASSUME NEW h \in Nat, NEW num \in Nat, NEW den \in Nat \ {0}, NEW d \in 0..9,
         h * den <= 1000 * num, 1000 * (num + 1) <= (h + 1) * den
  PROVE  /\ h * (10 * den + 0) <= 1000 * (10 * num + d)
         /\ 1000 * ((10 * num + d) + 1) <= (h + 1) * (10 * den + 0)
<1> DEFINE p == h * den
           q == (h + 1) * den
<1>1. p \in Int /\ q \in Int /\ h * (10 * den + 0) = 10 * p /\ (h + 1) * (10 * den + 0) = 10 * q
  OBVIOUS
<1> HIDE DEF p, q
<1>2. p <= 1000 * num /\ 1000 * (num + 1) <= q
  BY DEF p, q
<1> QED
  BY <1>1, <1>2

\* The first three digits after the point, with those before it.
Hundredths(whole, x, y) == 100 * whole + 10 * x + y
Thousandths(whole, x, y, z) == 1000 * whole + 100 * x + 10 * y + z
Leading(whole, frac) == Thousandths(whole, Digit(frac, 1), Digit(frac, 2), Digit(frac, 3))

LEMMA DigitTypes ==
  ASSUME NEW frac \in Seq(0..9), NEW n \in {1, 2, 3}
  PROVE  Digit(frac, n) \in 0..9
BY DEF Digit

\* n / m lies between h thousandths and the next thousandth.
Between(h, n, m) == /\ n \in Nat /\ m \in Nat \ {0}
                    /\ h * m <= 1000 * n /\ 1000 * n < (h + 1) * m

LEMMA ThousandthsType ==
  ASSUME NEW w \in Nat, NEW x \in 0..9, NEW y \in 0..9, NEW z \in 0..9
  PROVE  /\ Thousandths(w, x, y, z) \in Nat
         /\ Hundredths(w, x, y) \in Nat
         /\ Thousandths(w, x, y, 0) = 10 * Hundredths(w, x, y)
BY DEF Thousandths, Hundredths

\* num[k] / den[k] lies between its first three decimals and the next thousandth.
LEMMA ThreeDigits ==
  ASSUME NEW whole \in Nat, NEW k \in Nat, NEW d, NEW num, NEW den,
         NEW a \in 0..9, NEW b \in 0..9, NEW c \in 0..9,
         a = (IF 1 <= k THEN d[1] ELSE 0), b = (IF 2 <= k THEN d[2] ELSE 0),
         c = (IF 3 <= k THEN d[3] ELSE 0), \A i \in 1..k : d[i] \in 0..9,
         num[0] = whole, den[0] = 1,
         \A i \in 1..k : num[i] = 10 * num[i - 1] + d[i] /\ den[i] = 10 * den[i - 1] + 0
  PROVE  Between(Thousandths(whole, a, b, c), num[k], den[k])
<1> DEFINE h == Thousandths(whole, a, b, c)
           Within(i) == /\ num[i] \in Nat /\ den[i] \in Nat \ {0}
                        /\ h * den[i] <= 1000 * num[i]
                        /\ 1000 * (num[i] + 1) <= (h + 1) * den[i]
<1>1. h \in Nat
  BY ThousandthsType
<1>2. CASE k = 0
  BY <1>2 DEF Thousandths, Between
<1>3. 1 <= k => num[1] = 10 * whole + a /\ den[1] = 10
  <2> SUFFICES ASSUME 1 <= k PROVE num[1] = 10 * whole + a /\ den[1] = 10
    OBVIOUS
  <2>1. 1 \in 1..k /\ 1 - 1 = 0
    OBVIOUS
  <2>2. num[1] = 10 * num[0] + d[1] /\ den[1] = 10 * den[0] + 0
    BY <2>1
  <2> QED
    BY <2>2
<1>4. 2 <= k => num[2] = Hundredths(whole, a, b) /\ den[2] = 100
  <2> SUFFICES ASSUME 2 <= k PROVE num[2] = Hundredths(whole, a, b) /\ den[2] = 100
    OBVIOUS
  <2>1. 2 \in 1..k /\ 2 - 1 = 1
    OBVIOUS
  <2>2. num[2] = 10 * num[1] + d[2] /\ den[2] = 10 * den[1] + 0
    BY <2>1
  <2> QED
    BY <1>3, <2>2 DEF Hundredths
<1>5. 3 <= k => num[3] = h /\ den[3] = 1000
  <2> SUFFICES ASSUME 3 <= k PROVE num[3] = h /\ den[3] = 1000
    OBVIOUS
  <2>1. 3 \in 1..k /\ 3 - 1 = 2
    OBVIOUS
  <2>2. num[3] = 10 * num[2] + d[3] /\ den[3] = 10 * den[2] + 0
    BY <2>1
  <2> QED
    BY <1>4, <2>2 DEF Thousandths, Hundredths
<1>6. CASE k = 1
  BY <1>3, <1>6 DEF Thousandths, Between
<1>7. CASE k = 2
  <2> DEFINE n == Hundredths(whole, a, b)
  <2>1. num[k] = n /\ den[k] = 100 /\ c = 0
    BY <1>4, <1>7
  <2>2. n \in Nat /\ h = 10 * n
    <3>2. n \in Nat /\ Thousandths(whole, a, b, 0) = 10 * n
      BY DEF Thousandths, Hundredths
    <3> QED
      BY <2>1, <3>2, Zenon
  <2> HIDE DEF h, n
  <2>3. Between(h, num[k], den[k])
    BY <2>1, <2>2 DEF Between
  <2> QED
    BY <2>3 DEF h
<1>8. CASE k >= 3
  <2> HIDE DEF h
  <2>1. Within(3)
    BY <1>1, <1>5, <1>8
  <2>2. ASSUME NEW i \in 4..k, Within(i - 1) PROVE Within(i)
    <3>1. i \in 1..k
      BY <1>8
    <3>2. d[i] \in 0..9 /\ num[i] = 10 * num[i - 1] + d[i] /\ den[i] = 10 * den[i - 1] + 0
      BY <3>1
    <3> DEFINE n == num[i - 1]
               m == den[i - 1]
    <3>3. n \in Nat /\ m \in Nat \ {0} /\ h * m <= 1000 * n /\ 1000 * (n + 1) <= (h + 1) * m
      BY <2>2
    <3>4. num[i] = 10 * n + d[i] /\ den[i] = 10 * m + 0
      BY <3>2
    <3> HIDE DEF n, m
    <3>5. num[i] \in Nat /\ den[i] \in Nat \ {0}
      BY <3>2, <3>3, <3>4
    <3>6. h * (10 * m + 0) <= 1000 * (10 * n + d[i]) /\ 1000 * ((10 * n + d[i]) + 1) <= (h + 1) * (10 * m + 0)
      BY <1>1, <3>2, <3>3, DigitsGoOn
    <3> QED
      BY <3>4, <3>5, <3>6
  <2> HIDE DEF Within
  <2> DEFINE Bad == {i \in 3..k : ~Within(i)}
  <2>3. Bad = {}
    <3>1. SUFFICES ASSUME Bad # {} PROVE FALSE
      OBVIOUS
    <3>2. Bad \subseteq Nat
      OBVIOUS
    <3>3. PICK i \in Bad : \A j \in Bad : i <= j
      <4> HIDE DEF Bad
      <4> QED
        BY <3>1, <3>2, LeastNatural
    <3>4. i \in 4..k /\ i - 1 \in 3..k /\ i - 1 \notin Bad
      BY <2>1, <3>3
    <3> QED
      BY <2>2, <3>3, <3>4
  <2>4. Within(k)
    BY <1>8, <2>3
  <2>5. /\ num[k] \in Nat /\ den[k] \in Nat \ {0} /\ h * den[k] <= 1000 * num[k]
        /\ 1000 * (num[k] + 1) <= (h + 1) * den[k]
    BY <2>4 DEF Within
  <2>6. (h + 1) * den[k] \in Int
    BY <1>1, <2>5
  <2>7. 1000 * num[k] < (h + 1) * den[k]
    <3> DEFINE q == (h + 1) * den[k]
    <3> HIDE DEF q
    <3>1. q \in Int /\ 1000 * (num[k] + 1) <= q
      BY <2>5, <2>6 DEF q
    <3>2. 1000 * num[k] < q
      BY <2>5, <3>1
    <3> QED
      BY <3>2 DEF q
  <2> QED
    BY <2>5, <2>7, Zenon DEF h, Between
<1> QED
  BY <1>2, <1>6, <1>7, <1>8

LEMMA LeadingDigits ==
  ASSUME NEW a, a.whole \in Nat, a.frac \in Seq(0..9)
  PROVE  /\ Leading(a.whole, a.frac) \in Nat
         /\ Between(Leading(a.whole, a.frac), Numerator(a), Denominator(a))
<1> DEFINE k == Len(a.frac)
           zeros == [i \in 1..k |-> 0]
<1>1. k \in Nat /\ \A i \in 1..k : a.frac[i] \in 0..9
  OBVIOUS
<1>2. PICK num : Reads(a.whole, a.frac, k, num) /\ Numerator(a) = num[k]
  BY <1>1, SpelledIsRead DEF Numerator
<1>3. PICK den : Reads(1, zeros, k, den) /\ Denominator(a) = den[k]
  <2>1. Len(zeros) = k
    BY <1>1, ZeroDigits
  <2> HIDE DEF zeros
  <2>2. PICK den : Reads(1, zeros, Len(zeros), den) /\ Spelled(1, zeros) = den[Len(zeros)]
    BY <1>1, <2>1, SpelledIsRead
  <2> QED
    BY <2>1, <2>2 DEF Denominator, zeros
<1>4. num[0] = a.whole /\ den[0] = 1
  <2>1. 0 \in 0..k
    BY <1>1
  <2> HIDE DEF k, zeros
  <2> QED
    BY <1>2, <1>3, <2>1, Zenon DEF Reads
<1>5. ASSUME NEW i \in 1..k PROVE num[i] = 10 * num[i - 1] + a.frac[i] /\ den[i] = 10 * den[i - 1] + 0
  <2>1. i \in 0..k /\ i # 0 /\ zeros[i] = 0
    BY <1>1
  <2> HIDE DEF zeros
  <2> QED
    BY <1>2, <1>3, <2>1, Zenon DEF Reads
<1>6. \A n \in {1, 2, 3} : /\ Digit(a.frac, n) \in 0..9
                          /\ Digit(a.frac, n) = IF n <= k THEN a.frac[n] ELSE 0
  BY DigitTypes DEF Digit
<1> DEFINE x == Digit(a.frac, 1)
           y == Digit(a.frac, 2)
           z == Digit(a.frac, 3)
           h == Thousandths(a.whole, x, y, z)
<1>7. /\ x \in 0..9 /\ x = IF 1 <= k THEN a.frac[1] ELSE 0
      /\ y \in 0..9 /\ y = IF 2 <= k THEN a.frac[2] ELSE 0
      /\ z \in 0..9 /\ z = IF 3 <= k THEN a.frac[3] ELSE 0
  BY <1>6
<1>8. Leading(a.whole, a.frac) = h
  BY DEF Leading
<1> HIDE DEF k, zeros, x, y, z
<1>9. h \in Nat
  BY <1>7, ThousandthsType
<1>10. Between(h, num[k], den[k])
  <2>1. \A i \in 1..k : num[i] = 10 * num[i - 1] + a.frac[i] /\ den[i] = 10 * den[i - 1] + 0
    BY <1>5
  <2>2. a.whole \in Nat /\ k \in Nat /\ \A i \in 1..k : a.frac[i] \in 0..9
    BY <1>1
  <2> DEFINE d == a.frac
             w == a.whole
  <2>3. /\ w \in Nat /\ num[0] = w /\ \A i \in 1..k : d[i] \in 0..9
        /\ \A i \in 1..k : num[i] = 10 * num[i - 1] + d[i] /\ den[i] = 10 * den[i - 1] + 0
        /\ x = IF 1 <= k THEN d[1] ELSE 0
        /\ y = IF 2 <= k THEN d[2] ELSE 0
        /\ z = IF 3 <= k THEN d[3] ELSE 0
    BY <1>4, <1>7, <2>1, <2>2
  <2> HIDE DEF d, w
  <2>4. Between(Thousandths(w, x, y, z), num[k], den[k])
    BY <1>4, <1>7, <2>2, <2>3, ThreeDigits
  <2> QED
    BY <2>4 DEF w
<1> HIDE DEF h
<1> QED
  BY <1>2, <1>3, <1>8, <1>9, <1>10

\* h thousandths are q hundredths, a half going up.
RoundsTo(h, q) == 10 * q <= h + 5 /\ h + 6 <= 10 * q + 10

LEMMA NearestHundredth ==
  ASSUME NEW a, NEW h \in Nat, NEW q \in Nat, RoundsTo(h, q),
         Between(h, Numerator(a), Denominator(a))
  PROVE  Nearest(a, SmallestUnitFactor) = q
<1> DEFINE n == Numerator(a)
           m == Denominator(a)
<1>0. Nearest(a, SmallestUnitFactor) = (2 * SmallestUnitFactor * n + m) \div (2 * m)
  BY Zenon DEF Nearest
<1>01. Between(h, n, m)
  OBVIOUS
<1> HIDE DEF n, m
<1>1. 10 * q <= h + 5 /\ h + 6 <= 10 * q + 10
  BY DEF RoundsTo
<1>2. n \in Nat /\ m \in Nat \ {0} /\ h * m <= 1000 * n /\ 1000 * n < (h + 1) * m
  BY <1>01 DEF Between
<1> DEFINE p == h * m
           s == q * m
<1>3. /\ p \in Int /\ s \in Int /\ (h + 1) * m = p + m
      /\ (10 * q) * m = 10 * s /\ (10 * q + 10) * m = 10 * s + 10 * m
      /\ (h + 5) * m = p + 5 * m /\ (h + 6) * m = p + 6 * m
      /\ q * (2 * m) = 2 * s /\ (q + 1) * (2 * m) = 2 * s + 2 * m
  BY <1>1, <1>2
<1>4. (10 * q) * m <= (h + 5) * m
  BY <1>1, <1>2, LargerFactor
<1>5. (h + 6) * m <= (10 * q + 10) * m
  BY <1>1, <1>2, LargerFactor
<1> DEFINE t == 2 * 100 * n + m
           d == 2 * m
           lo == q * d
           hi == (q + 1) * d
<1>6. lo = 2 * s /\ hi = 2 * s + 2 * m
  BY <1>3
<1>7. p <= 1000 * n /\ 1000 * n < p + m /\ 10 * s <= p + 5 * m /\ p + 6 * m <= 10 * s + 10 * m
  BY <1>2, <1>3, <1>4, <1>5
<1>8. t \in Int /\ d \in Nat \ {0}
  BY <1>2
<1>9. 2 * s <= t /\ t < 2 * s + 2 * m
  <2>1. p \in Int /\ s \in Int
    BY <1>3
  <2> HIDE DEF p, s
  <2> QED
    BY <1>2, <1>7, <2>1
<1> HIDE DEF t, d, s, p
<1>10. q * d <= t /\ t < (q + 1) * d
  BY <1>6, <1>9
<1>11. t \div d = q
  BY <1>1, <1>8, <1>10, Quotient
<1> QED
  BY <1>0, <1>11 DEF t, d, SmallestUnitFactor

LEMMA WholePart ==
  ASSUME NEW w \in Nat, NEW h \in Nat, 1000 * w <= h, h + 1 <= 1000 * w + 1000,
         NEW n, NEW m, Between(h, n, m)
  PROVE  n \div m = w
<1>1. n \in Nat /\ m \in Nat \ {0} /\ h * m <= 1000 * n /\ 1000 * n < (h + 1) * m
  BY DEF Between
<1> DEFINE p == h * m
           s == w * m
           hi == (w + 1) * m
<1>2. /\ p \in Int /\ s \in Int /\ (h + 1) * m = p + m /\ hi = s + m
      /\ (1000 * w) * m = 1000 * s /\ (1000 * w + 1000) * m = 1000 * s + 1000 * m
  BY <1>1
<1>3. (1000 * w) * m <= h * m
  BY <1>1, LargerFactor
<1>4. (h + 1) * m <= (1000 * w + 1000) * m
  BY <1>1, LargerFactor
<1>5. 1000 * s <= p /\ p + m <= 1000 * s + 1000 * m /\ p <= 1000 * n /\ 1000 * n < p + m
  BY <1>1, <1>2, <1>3, <1>4
<1>6. s <= n /\ n < s + m
  <2>1. p \in Int /\ s \in Int
    BY <1>2
  <2> HIDE DEF p, s
  <2> QED
    BY <1>1, <1>5, <2>1
<1>7. n \in Int /\ w \in Int /\ w * m <= n /\ n < (w + 1) * m
  BY <1>1, <1>2, <1>6
<1> QED
  BY <1>1, <1>7, Quotient

Rounded(a) == SmallestUnitFactor * a.whole + (Kept(a.frac) + RoundingUp(a.frac))

LEMMA NearestIsRounded ==
  ASSUME NEW a, a.whole \in Nat, a.frac \in Seq(0..9)
  PROVE  /\ Nearest(a, SmallestUnitFactor) = Rounded(a)
         /\ Numerator(a) \div Denominator(a) = a.whole
<1> DEFINE w == a.whole
           x == Digit(a.frac, 1)
           y == Digit(a.frac, 2)
           z == Digit(a.frac, 3)
           h == Thousandths(w, x, y, z)
           e == Hundredths(w, x, y)
           r == RoundingUp(a.frac)
           n == Numerator(a)
           m == Denominator(a)
<1>1. w \in Nat /\ x \in 0..9 /\ y \in 0..9 /\ z \in 0..9
  BY DigitTypes
<1>2. Between(h, n, m)
  BY LeadingDigits DEF Leading
<1>3. r = IF z >= 5 THEN 1 ELSE 0
  BY Zenon DEF RoundingUp
<1>4. Rounded(a) = SmallestUnitFactor * w + ((10 * x + y) + r)
  BY Zenon DEF Rounded, Kept
<1> HIDE DEF w, x, y, z, r, n, m
<1>6. /\ e \in Nat /\ h \in Nat /\ h = 10 * e + z
      /\ 1000 * w <= h /\ h + 1 <= 1000 * w + 1000
  BY <1>1 DEF Hundredths, Thousandths
<1>7. SmallestUnitFactor * w + ((10 * x + y) + r) = e + r
  BY <1>1, <1>3 DEF Hundredths, SmallestUnitFactor
<1> HIDE DEF h, e
<1> DEFINE q == e + r
<1>8. q \in Nat /\ RoundsTo(h, q)
  BY <1>1, <1>3, <1>6 DEF RoundsTo
<1> HIDE DEF q
<1>9. n \div m = w
  BY <1>1, <1>2, <1>6, WholePart
<1>10. Nearest(a, SmallestUnitFactor) = q
  BY <1>2, <1>6, <1>8, NearestHundredth DEF n, m
<1> QED
  BY <1>4, <1>7, <1>9, <1>10 DEF n, m, w, q

-----------------------------------------------------------------------------
(* 64-bit integers, and what is parsed with them *)

\* int64 arithmetic stays in its range, is exact there, and off by a multiple of 2^64 elsewhere.
LEMMA Int64Range ==
  ASSUME NEW x \in Int
  PROVE  /\ Int64Of(x) \in -(MaxInt + 1)..MaxInt
         /\ x \in -(MaxInt + 1)..MaxInt => Int64Of(x) = x
         /\ \E k \in Int : Int64Of(x) = x + k * (2 * (MaxInt + 1))
<1> DEFINE m == 2 * (MaxInt + 1)
           y == x + MaxInt + 1
<1>1. m \in Nat \ {0} /\ y \in Int /\ Int64Of(x) = (y % m) - (MaxInt + 1)
  BY LargestInt DEF Int64Of
<1> HIDE DEF m, y
<1>2. (y % m) \in 0..m - 1
  BY <1>1
<1>3. ASSUME y \in 0..m - 1 PROVE y % m = y
  <2> DEFINE q == y \div m
  <2>1. q \in Int /\ y = m * q + (y % m) /\ y % m \in Int
    BY <1>1
  <2>2. CASE q >= 1
    BY <1>1, <1>2, <1>3, <2>1, <2>2
  <2>3. CASE q <= -1
    BY <1>1, <1>2, <1>3, <2>1, <2>3
  <2>4. CASE q = 0
    BY <1>1, <2>1, <2>4
  <2> QED
    BY <2>1, <2>2, <2>3, <2>4
<1>4. \E k \in Int : Int64Of(x) = x + k * m
  <2> DEFINE q == y \div m
             k == -q
  <2>1. q \in Int /\ y = m * q + (y % m) /\ y % m \in Int
    BY <1>1
  <2> HIDE DEF q
  <2>2. m * q = -(k * m) /\ k \in Int /\ k * m \in Int
    BY <1>1, <2>1
  <2> HIDE DEF k
  <2> DEFINE p == k * m
             r == y % m
  <2>3. p \in Int /\ r \in Int /\ y = -p + r /\ Int64Of(x) = r - (MaxInt + 1) /\ y = x + MaxInt + 1
    BY <1>1, <2>1, <2>2 DEF y
  <2> HIDE DEF p, r
  <2>4. Int64Of(x) = x + p
    BY <2>3, LargestInt
  <2> QED
    BY <2>2, <2>4 DEF p
<1>5. /\ Int64Of(x) \in -(MaxInt + 1)..MaxInt
      /\ x \in -(MaxInt + 1)..MaxInt => Int64Of(x) = x
  BY <1>1, <1>2, <1>3, LargestInt DEF m, y
<1> QED
  BY <1>4, <1>5, Zenon DEF m

LEMMA SameInt64 ==
  ASSUME NEW x \in -(MaxInt + 1)..MaxInt, NEW y \in -(MaxInt + 1)..MaxInt, NEW k \in Int,
         x = y + k * (2 * (MaxInt + 1))
  PROVE  x = y
<1> DEFINE m == 2 * (MaxInt + 1)
           p == k * m
<1>1. m \in Nat /\ p \in Int /\ x \in Int /\ y \in Int /\ x = y + p /\ x < y + m /\ y < x + m
  BY LargestInt
<1>2. CASE k = 0
  <2>1. p = 0
    BY <1>1, <1>2
  <2> QED
    BY <1>1, <2>1
<1>3. CASE k >= 1
  <2>1. 1 * m <= p
    BY <1>1, <1>3, LargerFactor
  <2> QED
    BY <1>1, <2>1
<1>4. CASE k <= -1
  <2>1. p <= (-1) * m
    BY <1>1, <1>4, LargerFactor
  <2> QED
    BY <1>1, <2>1
<1> QED
  BY <1>2, <1>3, <1>4

LEMMA FractionTypes ==
  ASSUME NEW frac \in Seq(0..9)
  PROVE  Kept(frac) \in 0..99 /\ RoundingUp(frac) \in 0..1
<1>1. Digit(frac, 1) \in 0..9 /\ Digit(frac, 2) \in 0..9 /\ Digit(frac, 3) \in 0..9
  BY DigitTypes
<1>2. \A a, b \in 0..9 : 10 * a + b \in 0..99
  OBVIOUS
<1>3. Kept(frac) \in 0..99
  BY <1>1, <1>2, Zenon DEF Kept
<1>4. RoundingUp(frac) \in 0..1
  <2>1. 0 \in 0..1 /\ 1 \in 0..1
    OBVIOUS
  <2> QED
    BY <2>1, Zenon DEF RoundingUp
<1> QED
  BY <1>3, <1>4

\* Whatever the products wrap to, it differs from the rounded amount by a multiple of 2^64.
LEMMA CentsAreRounded ==
  ASSUME NEW a, a.whole \in Nat, a.frac \in Seq(0..9)
  PROVE  /\ InCents(a) \in -(MaxInt + 1)..MaxInt
         /\ Rounded(a) \in Nat /\ 100 * a.whole <= Rounded(a)
         /\ \E k \in Int : InCents(a) = Rounded(a) + k * (2 * (MaxInt + 1))
<1> DEFINE M == 2 * (MaxInt + 1)
           w == a.whole
           v == Kept(a.frac) + RoundingUp(a.frac)
           c == v \div 100
           f == v % 100
           x == Int64Of(w + c)
           y == Int64Of(x * 100 + f)
<1>1. v \in Nat
  <2>1. \A j \in 0..99, k \in 0..1 : j + k \in Nat
    OBVIOUS
  <2> QED
    BY <2>1, FractionTypes, Zenon
<1>2. InCents(a) = y /\ Rounded(a) = 100 * w + v
  BY DEF InCents, Rounded, SmallestUnitFactor
<1>3. M \in Int /\ w \in Nat
  BY LargestInt
<1> HIDE DEF M, w, v
<1>4. c \in Int /\ f \in Int /\ v = 100 * c + f
  BY <1>1
<1> HIDE DEF c, f
<1>5. PICK j \in Int : x = (w + c) + j * M
  BY <1>3, <1>4, Int64Range DEF M
<1>6. x \in Int
  BY <1>3, <1>4, <1>5
<1> HIDE DEF x
<1>7. x * 100 + f \in Int
  BY <1>4, <1>6
<1>8. y \in -(MaxInt + 1)..MaxInt
  BY <1>7, Int64Range
<1>9. PICK k \in Int : y = (x * 100 + f) + k * M
  BY <1>7, Int64Range DEF M
<1> HIDE DEF y
<1> DEFINE n == 100 * j + k
<1>10. n \in Int /\ n * M = 100 * (j * M) + k * M /\ j * M \in Int /\ k * M \in Int
  BY <1>3
<1>11. y = (100 * w + v) + n * M
  <2> DEFINE p == j * M
             q == k * M
             r == n * M
  <2>1. p \in Int /\ q \in Int /\ r = 100 * p + q /\ x = (w + c) + p /\ y = (x * 100 + f) + q
    BY <1>5, <1>9, <1>10
  <2> HIDE DEF p, q, r
  <2>2. y = (100 * w + v) + r
    BY <1>3, <1>4, <2>1
  <2> QED
    BY <2>2 DEF r
<1>12. 100 * w + v \in Nat /\ 100 * w <= 100 * w + v
  BY <1>1, <1>3
<1> HIDE DEF n
<1> QED
  BY <1>2, <1>8, <1>10, <1>11, <1>12 DEF M, w

\* The parse, compared with the amount's exact value.
LEMMA ParsedAmount ==
  ASSUME NEW a, a.whole \in Nat, a.frac \in Seq(0..9), NEW cur
  PROVE  LET cents == ParseAmountToCents(a, cur)
             exact == Nearest(a, SmallestUnitFactor)
         IN  IF cur \in NoDecimals
             THEN cents # Rejected => cents = Numerator(a) \div Denominator(a)
             ELSE /\ exact <= MaxInt =>
                       /\ cents = Rejected <=> a.sign = "-" \/ exact = 0
                       /\ cents # Rejected => cents = exact
                  /\ cents # Rejected => (cents - exact) % (2 * (MaxInt + 1)) = 0
<1> DEFINE cents == ParseAmountToCents(a, cur)
           exact == Nearest(a, SmallestUnitFactor)
           M == 2 * (MaxInt + 1)
           c == InCents(a)
<1>1. exact = Rounded(a) /\ Numerator(a) \div Denominator(a) = a.whole
  BY NearestIsRounded
<1>2. CASE cur \in NoDecimals
  BY <1>1, <1>2, Zenon DEF ParseAmountToCents
<1>3. CASE cur \notin NoDecimals
  <2>1. /\ c \in -(MaxInt + 1)..MaxInt /\ exact \in Nat /\ 100 * a.whole <= exact
        /\ MaxInt \in Nat /\ M \in Nat \ {0}
    BY <1>1, CentsAreRounded, LargestInt
  <2>2. PICK k \in Int : c = exact + k * M
    BY <1>1, CentsAreRounded
  <2>3. exact <= MaxInt => c = exact
    <3> SUFFICES ASSUME exact <= MaxInt PROVE c = exact
      OBVIOUS
    <3>1. exact \in -(MaxInt + 1)..MaxInt
      BY <2>1
    <3> HIDE DEF exact, c
    <3> QED
      BY <2>1, <2>2, <3>1, SameInt64
  <2>4. cents = IF a.sign = "-" \/ a.whole > MaxInt \/ c <= 0 THEN -1 ELSE c
    BY <1>3, Zenon DEF ParseAmountToCents, Rejected
  <2>5. (c - exact) % M = 0
    <3> DEFINE p == k * M
    <3> HIDE DEF M
    <3>1. p \in Int /\ p % M = 0
      BY <2>1, Multiple
    <3> HIDE DEF p, c, exact
    <3>2. c - exact = p
      BY <2>1, <2>2, <3>1 DEF p
    <3> QED
      BY <3>1, <3>2
  <2> HIDE DEF cents, c, exact, M
  <2>6. exact <= MaxInt => ~(a.whole > MaxInt)
    BY <2>1
  <2>7. c \in Int
    BY <2>1
  <2>8. exact <= MaxInt => /\ cents = Rejected <=> a.sign = "-" \/ exact = 0
                           /\ cents # Rejected => cents = exact
    BY <2>1, <2>3, <2>4, <2>6, <2>7 DEF Rejected
  <2>9. cents # Rejected => (cents - exact) % M = 0
    BY <2>4, <2>5, Zenon DEF Rejected
  <2> QED
    BY <1>3, <2>8, <2>9, Zenon DEF cents, exact, M
<1> QED
  BY <1>2, <1>3

\* Whatever the text, the result is an error or a number that an int64 holds and that
\* is not negative; for USD and EUR it is not zero.  This is what AmountAssumption of
\* module Ledger takes for granted of its constant Cents.
THEOREM ParsedAmountsAreCents ==
  ASSUME NEW sign \in Sign, NEW whole \in Nat, NEW frac \in Seq(0..9), NEW cur \in Currencies
  PROVE  LET a == Text(sign, whole, frac) IN
         /\ ParseAmountToCents(a, cur) \in Rejected..MaxInt
         /\ cur \notin NoDecimals => ParseAmountToCents(a, cur) # 0
<1> DEFINE a == Text(sign, whole, frac)
<1>1. a.whole = whole /\ a.frac = frac /\ a.sign = sign
  BY DEF Text
<1>2. InCents(a) \in -(MaxInt + 1)..MaxInt
  BY <1>1, CentsAreRounded
<1> HIDE DEF a
<1>3. /\ ParseAmountToCents(a, cur) \in Rejected..MaxInt
      /\ cur \notin NoDecimals => ParseAmountToCents(a, cur) # 0
  BY <1>1, <1>2, LargestInt DEF ParseAmountToCents, Rejected
<1> QED
  BY <1>3 DEF a

-----------------------------------------------------------------------------
(* What is shown *)

LEMMA DigitsOfHundred ==
  ASSUME NEW n \in 0..99
  PROVE  /\ n \div 10 \in 0..9 /\ n % 10 \in 0..9
         /\ 10 * (n \div 10) + (n % 10) = n
OBVIOUS

\* The inverse: what is shown for a positive number of cents, or for none in a
\* currency without decimals, is read as that number.
LEMMA ShownIsRead ==
  ASSUME NEW cents \in 0..MaxInt, NEW cur \in Currencies, cur \notin NoDecimals => cents > 0
  PROVE  ParseAmountToCents(FormatCents(cents, cur), cur) = cents
<1>1. MaxInt \in Nat /\ cents \in Nat
  BY LargestInt
<1>2. CASE cur \in NoDecimals
  <2>1. FormatCents(cents, cur) = Text("", cents, << >>)
    <3>1. ~(cents < 0)
      BY <1>1
    <3> QED
      BY <1>2, <3>1, Zenon DEF FormatCents
  <2>2. Text("", cents, << >>).sign = "" /\ Text("", cents, << >>).whole = cents
    BY Zenon DEF Text
  <2>3. "" # "-" /\ ~(cents > MaxInt)
    BY <1>1
  <2> QED
    BY <1>2, <2>1, <2>2, <2>3, Zenon DEF ParseAmountToCents
<1>3. CASE cur \notin NoDecimals
  <2> DEFINE w == cents \div 100
             m == cents % 100
             t == Text("", w, <<m \div 10, m % 10>>)
  <2>1. FormatCents(cents, cur) = t
    <3>1. ~(cents < 0)
      BY <1>1
    <3> QED
      BY <1>3, <3>1, Zenon DEF FormatCents, TwoDigits, SmallestUnitFactor
  <2>2. w \in Nat /\ m \in 0..99 /\ w * 100 + m = cents /\ w <= cents
    BY <1>1
  <2>3. t.sign = "" /\ t.whole = w /\ t.frac = <<m \div 10, m % 10>>
    BY DEF Text
  <2> HIDE DEF w, m, t
  <2>4. Kept(t.frac) = m /\ RoundingUp(t.frac) = 0
    <3>1. m \div 10 \in Int /\ m % 10 \in Int
      BY <2>2
    <3>2. /\ Digit(t.frac, 1) = m \div 10 /\ Digit(t.frac, 2) = m % 10 /\ Digit(t.frac, 3) = 0
      <4>1. ASSUME NEW a, NEW b
            PROVE  Digit(<<a, b>>, 1) = a /\ Digit(<<a, b>>, 2) = b /\ Digit(<<a, b>>, 3) = 0
        BY DEF Digit
      <4> DEFINE p == <<m \div 10, m % 10>>
      <4>2. Digit(p, 1) = m \div 10 /\ Digit(p, 2) = m % 10 /\ Digit(p, 3) = 0
        BY <4>1
      <4>3. t.frac = p
        BY <2>3
      <4> QED
        BY <4>2, <4>3
    <3> QED
      BY <2>2, <3>2, DigitsOfHundred DEF Kept, RoundingUp
  <2>5. (m + 0) \div 100 = 0 /\ (m + 0) % 100 = m
    BY <2>2
  <2>6. Int64Of(w + 0) = w /\ Int64Of(w * 100 + m) = cents
    <3>1. w \in -(MaxInt + 1)..MaxInt /\ w + 0 = w /\ cents \in -(MaxInt + 1)..MaxInt /\ w \in Int /\ cents \in Int
      BY <1>1, <2>2
    <3> QED
      BY <2>2, <3>1, Int64Range
  <2>7. InCents(t) = cents
    BY <2>3, <2>4, <2>5, <2>6 DEF InCents, SmallestUnitFactor
  <2>8. ~(w > MaxInt) /\ ~(cents <= 0)
    BY <1>1, <1>3, <2>2
  <2> QED
    BY <1>3, <2>1, <2>3, <2>7, <2>8, Zenon DEF ParseAmountToCents
<1> QED
  BY <1>2, <1>3

-----------------------------------------------------------------------------
\* The amount is parsed as ParsedAmount says, and the balance is the result until
\* it is paid, as shown.
SessionInv ==
  /\ TypeOK
  /\ stage # "start" =>
       /\ amount.whole \in Nat /\ amount.frac \in Seq(0..9)
       /\ stage = "refused" <=> ParseAmountToCents(amount, currency) = Rejected
  /\ stage \in {"posted", "shown"} => balance = ParseAmountToCents(amount, currency)
  /\ stage \in {"posted", "shown"} /\ currency \notin NoDecimals => balance > 0
  /\ stage = "shown" => shown = FormatCents(balance, currency)
  /\ ShownIsPayable

LEMMA SessionStep == SessionInv /\ [Next]_vars => SessionInv'
<1> SUFFICES ASSUME SessionInv, [Next]_vars PROVE SessionInv'
  OBVIOUS
<1> USE DEF SessionInv, TypeOK, ShownIsPayable
<1>0. balance \in Nat /\ MaxInt \in Nat
  BY LargestInt
<1>1. ASSUME NEW sign \in Sign, NEW whole \in Whole, NEW frac \in Fraction, NEW cur \in Currencies,
             Topup(Text(sign, whole, frac), cur)
      PROVE  SessionInv'
  <2> DEFINE a == Text(sign, whole, frac)
             cents == ParseAmountToCents(a, cur)
  <2>1. cents \in Rejected..MaxInt /\ (cur \notin NoDecimals => cents # 0)
    BY WrittenAssumption, ParsedAmountsAreCents
  <2>2. a.whole \in Nat /\ a.frac \in Seq(0..9)
    BY WrittenAssumption DEF Text
  <2>3. /\ amount' = a /\ currency' = cur
        /\ \/ cents = Rejected /\ stage' = "refused" /\ balance' = balance
           \/ cents # Rejected /\ stage' = "posted" /\ balance' = cents
    BY <1>1 DEF Topup
  <2>4. ParseAmountToCents(amount', currency') = cents
    BY <2>3
  <2> HIDE DEF cents, a
  <2> QED
    BY <1>0, <2>1, <2>2, <2>3, <2>4 DEF Rejected
<1>2. CASE GetWallet
  BY <1>2 DEF GetWallet
<1>3. CASE PayShown
  <2>1. ParseAmountToCents(shown, currency) = balance
    BY <1>3, ShownIsRead DEF PayShown
  <2>2. balance # Rejected /\ balance <= balance /\ balance - balance = 0
    BY <1>0 DEF Rejected
  <2>3. stage' = "paid" /\ balance' = 0 /\ UNCHANGED <<amount, currency>> /\ stage = "shown"
    BY <1>3, <2>1, <2>2 DEF PayShown
  <2>4. ParseAmountToCents(amount, currency) # Rejected
    BY <2>3
  <2> QED
    BY <1>0, <2>3, <2>4
<1>4. CASE UNCHANGED vars
  BY <1>4 DEF vars
<1> QED
  BY <1>1, <1>2, <1>3, <1>4 DEF Next

LEMMA SessionInvariant == Spec => []SessionInv
<1>1. Init => SessionInv
  BY LargestInt DEF Init, SessionInv, TypeOK, ShownIsPayable, Currencies
<1> QED
  BY <1>1, SessionStep, PTL DEF Spec

\* No amount that a client can write makes a balance negative, however large it is
\* and whatever whole * 100 wraps to.
THEOREM CreditsAreNotNegative == Spec => []TypeOK
  BY SessionInvariant, PTL DEF SessionInv

\* Every USD or EUR amount whose cents an int64 can hold is credited as its exact
\* value rounded half up, whatever digits it has and however many: the code looks at
\* three decimals, and carries the fraction that is rounded up to 100.
THEOREM AmountsRoundHalfUp == Spec => []RoundsHalfUp
<1>1. SessionInv => RoundsHalfUp
  <2> SUFFICES ASSUME SessionInv, stage # "start", currency \notin NoDecimals,
                      Nearest(amount, SmallestUnitFactor) <= MaxInt
               PROVE  /\ stage = "refused" <=> amount.sign = "-" \/ Nearest(amount, SmallestUnitFactor) = 0
                      /\ stage \in {"posted", "shown"} => balance = Nearest(amount, SmallestUnitFactor)
    BY Zenon DEF RoundsHalfUp
  <2> DEFINE cents == ParseAmountToCents(amount, currency)
             exact == Nearest(amount, SmallestUnitFactor)
  <2>1. /\ cents = Rejected <=> amount.sign = "-" \/ exact = 0
        /\ cents # Rejected => cents = exact
    BY ParsedAmount, Zenon DEF SessionInv
  <2> QED
    BY <2>1 DEF SessionInv
<1> QED
  BY <1>1, SessionInvariant, PTL

\* What any other amount is credited as: beyond the range, its exact value rounded,
\* modulo 2^64; in a currency without decimals, its whole part.
THEOREM OtherAmountsWrapOrTruncate == Spec => []CreditedAmount
<1>1. SessionInv => CreditedAmount
  <2> SUFFICES ASSUME SessionInv, stage \in {"posted", "shown"}
               PROVE  IF currency \in NoDecimals THEN balance = Numerator(amount) \div Denominator(amount)
                      ELSE (balance - Nearest(amount, SmallestUnitFactor)) % (2 * (MaxInt + 1)) = 0
    BY Zenon DEF CreditedAmount
  <2>1. /\ amount.whole \in Nat /\ amount.frac \in Seq(0..9)
        /\ ParseAmountToCents(amount, currency) # Rejected
        /\ balance = ParseAmountToCents(amount, currency)
    BY DEF SessionInv
  <2> QED
    BY <2>1, ParsedAmount, Zenon
<1> QED
  BY <1>1, SessionInvariant, PTL

\* A client that pays the balance it is shown, to the last cent, is never refused
\* and empties its wallet: FormatCents and parseAmountToCents are inverse.
THEOREM ShownBalanceCanBePaid == Spec => []ShownIsPayable
  BY SessionInvariant, PTL DEF SessionInv
=============================================================================
