---------------------------- MODULE LedgerProofs -----------------------------
(***************************************************************************)
(* LedgerSum is the sum of the entries, for ledgers of every length.       *)
(* Induction on the naturals takes the form of the least number principle, *)
(* a consequence of the well-founded order that the library proves.        *)
(***************************************************************************)
EXTENDS Ledger, WellFoundedInduction, TLAPS

\* Every set of naturals that is not empty has a least element.
LEMMA LeastNatural ==
  ASSUME NEW S, S \subseteq Nat, S # {}
  PROVE  \E n \in S : \A m \in S : n <= m
<1> DEFINE R == OpToRel(<, Nat)
<1>1. IsWellFoundedOn(R, Nat)
  BY NatLessThanWellFounded
<1>2. \A m, n \in Nat : m < n => <<m, n>> \in R
  BY DEF OpToRel
<1> HIDE DEF R
<1>3. PICK n \in S : \A m \in S : <<m, n>> \notin R
  BY <1>1, WFMin
<1>4. ASSUME NEW m \in S PROVE n <= m
  <2>1. m \in Nat /\ n \in Nat /\ (m < n \/ n <= m)
    OBVIOUS
  <2>2. <<m, n>> \notin R
    BY <1>3
  <2>3. ~(m < n)
    BY <2>1, <2>2, <1>2, Zenon
  <2> QED
    BY <2>1, <2>3
<1> QED
  BY <1>4

-----------------------------------------------------------------------------
(* The recursion that defines the sum has a solution *)

\* g runs up to n and satisfies the recursion there.
Partial(A, n, g) == g = [i \in 0..n |-> IF i = 0 THEN 0 ELSE g[i - 1] + A[i]]

LEMMA PartialExists ==
  ASSUME NEW A
  PROVE  \A n \in Nat : \E g : Partial(A, n, g)
<1> DEFINE Bad == {n \in Nat : ~ \E g : Partial(A, n, g)}
<1>1. SUFFICES ASSUME Bad # {} PROVE FALSE
  OBVIOUS
<1>2. PICK n \in Bad : \A m \in Bad : n <= m
  BY <1>1, LeastNatural
<1>3. CASE n = 0
  <2>1. Partial(A, 0, [i \in 0..0 |-> 0])
    BY DEF Partial
  <2> QED
    BY <1>3, <2>1
<1>4. CASE n # 0
  <2>1. n - 1 \in Nat /\ n - 1 \notin Bad
    BY <1>2, <1>4
  <2>2. PICK g : Partial(A, n - 1, g)
    BY <2>1
  <2> DEFINE h == [i \in 0..n |-> IF i = n THEN g[n - 1] + A[n] ELSE g[i]]
  <2>3. ASSUME NEW i \in 0..n PROVE h[i] = IF i = 0 THEN 0 ELSE h[i - 1] + A[i]
    <3>1. CASE i = n
      BY <3>1, <1>4, <2>1
    <3>2. CASE i # n
      <4>1. i \in 0..(n - 1) /\ (i # 0 => i - 1 \in 0..n /\ i - 1 # n)
        BY <3>2, <2>1
      <4>2. g[i] = IF i = 0 THEN 0 ELSE g[i - 1] + A[i]
        BY <2>2, <4>1, Zenon DEF Partial
      <4> QED
        BY <4>1, <4>2, <3>2
    <3> QED
      BY <3>1, <3>2
  <2>4. Partial(A, n, h)
    BY <2>3, Zenon DEF Partial
  <2> QED
    BY <2>4
<1> QED
  BY <1>3, <1>4

\* Two of them agree where both are defined.
LEMMA PartialAgree ==
  ASSUME NEW A, NEW m \in Nat, NEW n \in Nat, m <= n, NEW g, NEW h,
         Partial(A, m, g), Partial(A, n, h)
  PROVE  \A i \in 0..m : g[i] = h[i]
<1> DEFINE Bad == {i \in 0..m : g[i] # h[i]}
<1>1. SUFFICES ASSUME Bad # {} PROVE FALSE
  OBVIOUS
<1>2. PICK i \in Bad : \A j \in Bad : i <= j
  <2>1. Bad \subseteq Nat
    OBVIOUS
  <2> QED
    BY <1>1, <2>1, LeastNatural
<1>3. g[i] = IF i = 0 THEN 0 ELSE g[i - 1] + A[i]
  BY DEF Partial
<1>4. h[i] = IF i = 0 THEN 0 ELSE h[i - 1] + A[i]
  BY DEF Partial
<1>5. i # 0 => g[i - 1] = h[i - 1]
  <2> SUFFICES ASSUME i # 0 PROVE i - 1 \in 0..m /\ i - 1 \notin Bad
    OBVIOUS
  <2> QED
    BY <1>2
<1> QED
  BY <1>3, <1>4, <1>5

LEMMA RecursionExists ==
  ASSUME NEW A
  PROVE  \E f : f = [n \in Nat |-> IF n = 0 THEN 0 ELSE f[n - 1] + A[n]]
<1> DEFINE part(n) == CHOOSE g : Partial(A, n, g)
           f == [n \in Nat |-> part(n)[n]]
<1>1. \A n \in Nat : Partial(A, n, part(n))
  BY PartialExists
<1>2. ASSUME NEW n \in Nat PROVE f[n] = IF n = 0 THEN 0 ELSE f[n - 1] + A[n]
  <2>1. part(n)[n] = IF n = 0 THEN 0 ELSE part(n)[n - 1] + A[n]
    <3>1. n \in 0..n /\ Partial(A, n, part(n))
      BY <1>1
    <3> HIDE DEF part
    <3> QED
      BY <3>1, Zenon DEF Partial
  <2>2. n # 0 => part(n)[n - 1] = part(n - 1)[n - 1]
    <3> SUFFICES ASSUME n # 0 PROVE part(n)[n - 1] = part(n - 1)[n - 1]
      OBVIOUS
    <3>1. n - 1 \in Nat /\ n - 1 <= n /\ n - 1 \in 0..(n - 1)
      OBVIOUS
    <3>2. Partial(A, n, part(n)) /\ Partial(A, n - 1, part(n - 1))
      BY <1>1, <3>1
    <3> HIDE DEF part
    <3> QED
      BY <3>1, <3>2, PartialAgree
  <2> QED
    BY <2>1, <2>2
<1>3. f = [n \in Nat |-> IF n = 0 THEN 0 ELSE f[n - 1] + A[n]]
  <2> HIDE DEF part
  <2>1. f = [n \in Nat |-> f[n]]
    OBVIOUS
  <2> HIDE DEF f
  <2> QED
    BY <1>2, <2>1, Zenon
<1> QED
  BY <1>3

-----------------------------------------------------------------------------
(* The sum of a ledger *)

\* The function that LedgerSum defines: the sums of the prefixes of L.
RunningSum(L, w) ==
  CHOOSE sum : sum = [n \in Nat |-> IF n = 0 THEN 0 ELSE sum[n - 1] + AmountFor(L[n], w)]

LEMMA RunningSumUnfolds ==
  ASSUME NEW L, NEW w, NEW n \in Nat
  PROVE  RunningSum(L, w)[n] = IF n = 0 THEN 0 ELSE RunningSum(L, w)[n - 1] + AmountFor(L[n], w)
<1> DEFINE Solves(f) == f = [i \in Nat |-> IF i = 0 THEN 0 ELSE f[i - 1] + AmountFor(L[i], w)]
<1>1. \E f : Solves(f)
  <2> DEFINE A == [i \in Nat |-> AmountFor(L[i], w)]
  <2>1. PICK f : f = [i \in Nat |-> IF i = 0 THEN 0 ELSE f[i - 1] + A[i]]
    <3> HIDE DEF A
    <3> QED
      BY RecursionExists
  <2>2. \A i \in Nat : A[i] = AmountFor(L[i], w)
    OBVIOUS
  <2>3. Solves(f)
    <3> HIDE DEF A
    <3> QED
      BY <2>1, <2>2, Zenon
  <2> QED
    BY <2>3
<1>2. Solves(CHOOSE f : Solves(f))
  <2> HIDE DEF Solves
  <2> QED
    BY <1>1
<1>3. RunningSum(L, w) = CHOOSE f : Solves(f)
  BY DEF RunningSum
<1>4. Solves(RunningSum(L, w))
  <2> HIDE DEF Solves
  <2> QED
    BY <1>2, <1>3
<1> QED
  BY <1>4, Zenon

LEMMA SumIsRunningSum ==
  ASSUME NEW L, NEW w
  PROVE  LedgerSum(L, w) = RunningSum(L, w)[Len(L)]
  BY Zenon DEF LedgerSum, RunningSum

\* It is an integer, and decided by the entries it has passed.
LEMMA RunningSumType ==
  ASSUME NEW L \in Seq(EntryRecord), NEW w, NEW n \in 0..Len(L)
  PROVE  RunningSum(L, w)[n] \in Int
<1> DEFINE Bad == {i \in 0..Len(L) : RunningSum(L, w)[i] \notin Int}
<1>1. SUFFICES ASSUME Bad # {} PROVE FALSE
  OBVIOUS
<1>2. PICK i \in Bad : \A j \in Bad : i <= j
  <2>1. Bad \subseteq Nat
    OBVIOUS
  <2> QED
    BY <1>1, <2>1, LeastNatural
<1>3. CASE i = 0
  BY <1>3, RunningSumUnfolds
<1>4. CASE i # 0
  <2>1. i \in Nat /\ i - 1 \in 0..Len(L) /\ i - 1 \notin Bad
    BY <1>2, <1>4
  <2>2. L[i] \in EntryRecord
    BY <1>4
  <2>3. AmountFor(L[i], w) \in Int
    BY <2>2, AmountAssumption DEF AmountFor, EntryRecord, Int64
  <2>4. RunningSum(L, w)[i] = RunningSum(L, w)[i - 1] + AmountFor(L[i], w)
    BY <1>4, <2>1, RunningSumUnfolds
  <2> QED
    BY <2>1, <2>3, <2>4
<1> QED
  BY <1>3, <1>4

LEMMA RunningSumOfPrefix ==
  ASSUME NEW L, NEW M, NEW w, NEW k \in Nat, \A i \in 1..k : L[i] = M[i], NEW n \in 0..k
  PROVE  RunningSum(L, w)[n] = RunningSum(M, w)[n]
<1> DEFINE Bad == {i \in 0..k : RunningSum(L, w)[i] # RunningSum(M, w)[i]}
<1>1. SUFFICES ASSUME Bad # {} PROVE FALSE
  OBVIOUS
<1>2. PICK i \in Bad : \A j \in Bad : i <= j
  <2>1. Bad \subseteq Nat
    OBVIOUS
  <2> QED
    BY <1>1, <2>1, LeastNatural
<1>3. CASE i = 0
  BY <1>3, RunningSumUnfolds
<1>4. CASE i # 0
  <2>1. i \in Nat /\ i - 1 \in 0..k /\ i - 1 \notin Bad /\ i \in 1..k
    BY <1>2, <1>4
  <2>2. RunningSum(L, w)[i] = RunningSum(L, w)[i - 1] + AmountFor(L[i], w)
    BY <1>4, <2>1, RunningSumUnfolds
  <2>3. RunningSum(M, w)[i] = RunningSum(M, w)[i - 1] + AmountFor(M[i], w)
    BY <1>4, <2>1, RunningSumUnfolds
  <2> QED
    BY <2>1, <2>2, <2>3
<1> QED
  BY <1>3, <1>4

-----------------------------------------------------------------------------
(* Addition modulo 2^64 *)

\* A multiple of m leaves no remainder, and m is beyond everything but 0.
LEMMA Multiple ==
  ASSUME NEW m \in Nat \ {0}, NEW k \in Int
  PROVE  /\ (k * m) % m = 0
         /\ -m < k * m /\ k * m < m => k * m = 0
<1> DEFINE q == (k * m) \div m
           r == (k * m) % m
<1>1. k * m \in Int /\ q \in Int /\ r \in Int /\ k * m = m * q + r /\ 0 <= r /\ r < m
  OBVIOUS
<1>2. r = m * (k - q)
  BY <1>1
<1>3. CASE k - q >= 1
  BY <1>1, <1>2, <1>3
<1>4. CASE k - q <= -1
  BY <1>1, <1>2, <1>4
<1>5. CASE k - q = 0
  BY <1>1, <1>2, <1>5
<1>6. -m < k * m /\ k * m < m => k * m = 0
  OBVIOUS
<1> QED
  BY <1>1, <1>3, <1>4, <1>5, <1>6

LEMMA Distributive ==
  ASSUME NEW m \in Int, NEW j \in Int, NEW k \in Int
  PROVE  (k + j) * m = k * m + j * m /\ k * m \in Int /\ j * m \in Int
  OBVIOUS

\* Wrap changes a number by a multiple of 2^64.
LEMMA WrapIsModular ==
  ASSUME NEW x \in Int
  PROVE  /\ Wrap(x) \in Int
         /\ \E j \in Int : Wrap(x) = x + j * Modulus
         /\ x \in Int64 => Wrap(x) = x
<1>1. MaxInt \in Nat /\ Modulus \in Int
  BY AmountAssumption DEF Modulus
<1>2. CASE x > MaxInt
  <2>1. Wrap(x) = x + (-1) * Modulus
    BY <1>1, <1>2 DEF Wrap
  <2> QED
    BY <1>1, <1>2, <2>1 DEF Int64
<1>3. CASE x < -(MaxInt + 1)
  <2>1. Wrap(x) = x + 1 * Modulus
    BY <1>1, <1>3 DEF Wrap
  <2> QED
    BY <1>1, <1>3, <2>1 DEF Int64
<1>4. CASE x \in Int64
  <2>1. Wrap(x) = x + 0 * Modulus
    BY <1>1, <1>4 DEF Wrap, Int64
  <2> QED
    BY <1>1, <1>4, <2>1
<1> QED
  BY <1>1, <1>2, <1>3, <1>4 DEF Int64

-----------------------------------------------------------------------------
(* What the sum of a ledger is *)

\* No entries, no money.
LEMMA SumOfNothing == \A w : LedgerSum(<< >>, w) = 0
<1> TAKE w
<1>1. Len(<< >>) = 0
  OBVIOUS
<1> QED
  BY <1>1, SumIsRunningSum, RunningSumUnfolds

LEMMA SumType ==
  ASSUME NEW L \in Seq(EntryRecord), NEW w
  PROVE  LedgerSum(L, w) \in Int
<1>1. Len(L) \in 0..Len(L)
  OBVIOUS
<1> QED
  BY <1>1, SumIsRunningSum, RunningSumType

\* A new entry adds its amount to the sum of its wallet, nothing to the others.
LEMMA SumOfAppend ==
  ASSUME NEW L \in Seq(EntryRecord), NEW e \in EntryRecord, NEW w
  PROVE  LedgerSum(Append(L, e), w) = LedgerSum(L, w) + AmountFor(e, w)
<1> DEFINE M == Append(L, e)
           k == Len(L)
<1>1. k \in Nat /\ Len(M) = k + 1 /\ k \in 0..k /\ M[k + 1] = e /\ \A i \in 1..k : M[i] = L[i]
  OBVIOUS
<1> HIDE DEF M, k
<1>2. RunningSum(M, w)[k + 1] = RunningSum(M, w)[k] + AmountFor(M[k + 1], w)
  <2>1. k + 1 \in Nat /\ k + 1 # 0 /\ (k + 1) - 1 = k
    BY <1>1
  <2> QED
    BY <2>1, RunningSumUnfolds
<1>3. RunningSum(M, w)[k] = RunningSum(L, w)[k]
  <2>1. \A n \in 0..k : RunningSum(M, w)[n] = RunningSum(L, w)[n]
    BY <1>1, RunningSumOfPrefix
  <2> QED
    BY <1>1, <2>1
<1>4. LedgerSum(M, w) = RunningSum(M, w)[k + 1]
  BY <1>1, SumIsRunningSum
<1>5. LedgerSum(L, w) = RunningSum(L, w)[k]
  BY SumIsRunningSum DEF k
<1>6. LedgerSum(M, w) = LedgerSum(L, w) + AmountFor(e, w)
  BY <1>1, <1>2, <1>3, <1>4, <1>5, Zenon
<1> QED
  BY <1>6 DEF M

\* The sum of a prefix is what the recursion has reached there.
LEMMA SumOfPrefix ==
  ASSUME NEW L \in Seq(EntryRecord), NEW w, NEW n \in 0..Len(L)
  PROVE  LedgerSum(SubSeq(L, 1, n), w) = RunningSum(L, w)[n]
<1> DEFINE P == SubSeq(L, 1, n)
<1>1. n \in Nat /\ Len(P) = n /\ n \in 0..n /\ \A i \in 1..n : P[i] = L[i]
  OBVIOUS
<1> HIDE DEF P
<1>2. RunningSum(P, w)[n] = RunningSum(L, w)[n]
  BY <1>1, RunningSumOfPrefix
<1> QED
  BY <1>1, <1>2, SumIsRunningSum DEF P
=============================================================================
