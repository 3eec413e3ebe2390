----------------------------- MODULE MoneyProofs -----------------------------
(***************************************************************************)
(* Balances and ledger agree, and no debit overdraws, for every number of  *)
(* wallets, requests, instances and faults, and ledgers of every length.   *)
(* What a step may do to them is what AtomicWallet allows.                 *)
(***************************************************************************)
EXTENDS WalletServiceProofs, LedgerProofs

\* Between them, the two clauses of Reconciled in the form a step preserves.
Congruent(w) == \E k \in Int : balance[w] = LedgerSum(ledger, w) + k * Modulus
MoneyInv == TypeOK /\ \A w \in Wallet : Congruent(w)

LEMMA CongruentReconciles == MoneyInv => Reconciled
<1> SUFFICES ASSUME MoneyInv, NEW w \in Wallet
             PROVE  /\ (balance[w] - LedgerSum(ledger, w)) % Modulus = 0
                    /\ LedgerSum(ledger, w) \in Int64 => balance[w] = LedgerSum(ledger, w)
  BY DEF Reconciled
<1>1. PICK k \in Int : balance[w] = LedgerSum(ledger, w) + k * Modulus
  BY DEF MoneyInv, Congruent
<1>2. LedgerSum(ledger, w) \in Int /\ balance[w] \in Int64
  BY SumType DEF MoneyInv, TypeOK, DbTypeOK
<1>3. MaxInt \in Nat /\ Modulus = 2 * (MaxInt + 1) /\ Modulus \in Nat \ {0}
  BY AmountAssumption DEF Modulus
<1>4. balance[w] \in Int /\ k * Modulus \in Int /\ balance[w] - LedgerSum(ledger, w) = k * Modulus
  BY <1>1, <1>2, <1>3 DEF Int64
<1>5. (k * Modulus) % Modulus = 0
  BY <1>3, Multiple
<1>6. ASSUME LedgerSum(ledger, w) \in Int64 PROVE k * Modulus = 0
  <2>1. -Modulus < k * Modulus /\ k * Modulus < Modulus
    BY <1>2, <1>3, <1>4, <1>6 DEF Int64
  <2> QED
    BY <1>3, <2>1, Multiple
<1> QED
  BY <1>1, <1>2, <1>4, <1>5, <1>6

-----------------------------------------------------------------------------
(* What a posted call adds *)

\* The facts of Atomic!Post in terms of this module.
Posts(c) ==
  /\ c \in Call /\ ValidCall(c)
  /\ c.op = "transfer" => c.from # c.to
  /\ Wrap(balance[c.from] + Delta(c, c.from)) >= 0
  /\ balance' = [w \in Wallet |-> IF w \in Legs(c) THEN Wrap(balance[w] + Delta(c, w)) ELSE balance[w]]
  /\ ledger' = ledger \o Entries(c)

LEMMA PostOrNothing ==
  ASSUME IInv, [Next]_vars
  PROVE  UNCHANGED <<balance, ledger>> \/ \E c \in Call : Posts(c)
<1>1. CASE \E c \in Call : Atomic!Post(c)
  <2> PICK c \in Call : Atomic!Post(c)
    BY <1>1
  <2>1. Posts(c)
    BY SameValues DEF Atomic!Post, Atomic!Postable, Posts, ValidCall
  <2> QED
    BY <2>1
<1>2. CASE ~ \E c \in Call : Atomic!Post(c)
  BY <1>2, NextRefines DEF Atomic!Next, Atomic!Suspend
<1> QED
  BY <1>1, <1>2

\* The entries of a call follow the ledger one by one.
LEMMA EntriesAppended ==
  ASSUME TypeOK, TypeOK', NEW c, Posts(c)
  PROVE  /\ Entry(c, c.from) \in EntryRecord
         /\ c.op # "transfer" => ledger' = Append(ledger, Entry(c, c.from))
         /\ c.op = "transfer" =>
              /\ Entry(c, c.to) \in EntryRecord
              /\ ledger' = Append(Append(ledger, Entry(c, c.from)), Entry(c, c.to))
<1>1. ledger \in Seq(EntryRecord) /\ ledger' \in Seq(EntryRecord)
  BY DEF TypeOK, DbTypeOK
<1>2. ASSUME NEW L, L \in Seq(EntryRecord), NEW a, L \o <<a>> \in Seq(EntryRecord)
      PROVE  a \in EntryRecord /\ L \o <<a>> = Append(L, a)
  <2>1. Len(L) + 1 \in 1..Len(L \o <<a>>) /\ (L \o <<a>>)[Len(L) + 1] = a
    BY <1>2
  <2> QED
    BY <1>2, <2>1
<1>3. ASSUME NEW L, L \in Seq(EntryRecord), NEW a, NEW b, L \o <<a, b>> \in Seq(EntryRecord)
      PROVE  a \in EntryRecord /\ b \in EntryRecord /\ L \o <<a, b>> = Append(Append(L, a), b)
  <2>1. /\ Len(L) + 1 \in 1..Len(L \o <<a, b>>) /\ (L \o <<a, b>>)[Len(L) + 1] = a
        /\ Len(L) + 2 \in 1..Len(L \o <<a, b>>) /\ (L \o <<a, b>>)[Len(L) + 2] = b
    BY <1>3
  <2> QED
    BY <1>3, <2>1
<1>4. CASE c.op = "transfer"
  BY <1>1, <1>3, <1>4 DEF Posts, Entries
<1>5. CASE c.op # "transfer"
  BY <1>1, <1>2, <1>5 DEF Posts, Entries
<1> QED
  BY <1>4, <1>5

LEMMA AmountOfEntry ==
  \A c, v, w : AmountFor(Entry(c, v), w) = IF v = w THEN Delta(c, v) ELSE 0
  BY DEF AmountFor, Entry

\* So the sum of a wallet moves by the amount that the call moves its balance by.
LEMMA SumMoves ==
  ASSUME TypeOK, TypeOK', NEW c, Posts(c), NEW w \in Wallet
  PROVE  LedgerSum(ledger', w) = LedgerSum(ledger, w) + (IF w \in Legs(c) THEN Delta(c, w) ELSE 0)
<1> DEFINE a == Entry(c, c.from)
           b == Entry(c, c.to)
<1>1. ledger \in Seq(EntryRecord) /\ LedgerSum(ledger, w) \in Int
  BY SumType DEF TypeOK, DbTypeOK
<1>2. \A v : Delta(c, v) \in Int
  BY DeltaType, AmountAssumption DEF Posts, Int64
<1>3. a \in EntryRecord
  BY EntriesAppended
<1>4. CASE c.op # "transfer"
  <2>1. LedgerSum(ledger', w) = LedgerSum(ledger, w) + AmountFor(a, w)
    BY <1>1, <1>3, <1>4, EntriesAppended, SumOfAppend
  <2> QED
    BY <1>1, <1>2, <1>4, <2>1, AmountOfEntry DEF Legs
<1>5. CASE c.op = "transfer"
  <2>1. b \in EntryRecord /\ Append(ledger, a) \in Seq(EntryRecord)
    BY <1>1, <1>3, <1>5, EntriesAppended
  <2> HIDE DEF a, b
  <2>2. LedgerSum(Append(ledger, a), w) = LedgerSum(ledger, w) + AmountFor(a, w)
    BY <1>1, <1>3, SumOfAppend
  <2>3. LedgerSum(Append(Append(ledger, a), b), w) = LedgerSum(Append(ledger, a), w) + AmountFor(b, w)
    BY <2>1, SumOfAppend
  <2>4. ledger' = Append(Append(ledger, a), b)
    BY <1>5, EntriesAppended DEF a, b
  <2>5. AmountFor(a, w) = (IF w = c.from THEN Delta(c, w) ELSE 0) /\ AmountFor(b, w) = (IF w = c.to THEN Delta(c, w) ELSE 0)
    BY AmountOfEntry DEF a, b
  <2> QED
    BY <1>1, <1>2, <1>5, <2>2, <2>3, <2>4, <2>5 DEF Legs, Posts
<1> QED
  BY <1>4, <1>5

-----------------------------------------------------------------------------
(* Reconciliation *)

LEMMA MoneyInvStep == IInv /\ TypeOK' /\ MoneyInv /\ [Next]_vars => MoneyInv'
<1> SUFFICES ASSUME IInv, TypeOK', MoneyInv, [Next]_vars, NEW w \in Wallet PROVE Congruent(w)'
  BY DEF MoneyInv
<1>1. CASE UNCHANGED <<balance, ledger>>
  BY <1>1 DEF MoneyInv, Congruent
<1>2. CASE \E c \in Call : Posts(c)
  <2> PICK c \in Call : Posts(c)
    BY <1>2
  <2>1. PICK k \in Int : balance[w] = LedgerSum(ledger, w) + k * Modulus
    BY DEF MoneyInv, Congruent
  <2>2. LedgerSum(ledger', w) = LedgerSum(ledger, w) + (IF w \in Legs(c) THEN Delta(c, w) ELSE 0)
    BY SumMoves DEF MoneyInv
  <2>3. /\ LedgerSum(ledger, w) \in Int /\ Delta(c, w) \in Int /\ Modulus \in Int
        /\ balance[w] \in Int
    BY SumType, DeltaType, AmountAssumption DEF MoneyInv, TypeOK, DbTypeOK, Posts, Int64, Modulus
  <2>4. CASE w \in Legs(c)
    <3> DEFINE x == balance[w] + Delta(c, w)
    <3>0. x \in Int
      BY <2>3
    <3> HIDE DEF x
    <3>1. PICK j \in Int : Wrap(x) = x + j * Modulus
      BY <3>0, WrapIsModular
    <3>2. balance'[w] = (balance[w] + Delta(c, w)) + j * Modulus
      BY <2>4, <3>1 DEF Posts, x
    <3>3. (k + j) * Modulus = k * Modulus + j * Modulus /\ k * Modulus \in Int /\ j * Modulus \in Int
      BY <2>3, Distributive
    <3>4. balance'[w] = LedgerSum(ledger', w) + (k + j) * Modulus
      BY <2>1, <2>2, <2>3, <2>4, <3>2, <3>3
    <3> QED
      BY <3>4 DEF Congruent
  <2>5. CASE w \notin Legs(c)
    <3>1. balance'[w] = balance[w] /\ LedgerSum(ledger', w) = LedgerSum(ledger, w)
      BY <2>2, <2>3, <2>5 DEF Posts
    <3> QED
      BY <2>1, <3>1 DEF Congruent
  <2> QED
    BY <2>4, <2>5
<1> QED
  BY <1>1, <1>2, PostOrNothing

LEMMA InitMoneyInv == Init => MoneyInv
<1> SUFFICES ASSUME Init, NEW w \in Wallet PROVE Congruent(w)
  BY InitTypeOK DEF MoneyInv
<1>1. balance[w] = LedgerSum(ledger, w) /\ LedgerSum(ledger, w) \in Int /\ Modulus \in Int
  BY OpeningAssumption, AmountAssumption DEF Init, DbInit, Modulus
<1>2. balance[w] = LedgerSum(ledger, w) + 0 * Modulus
  BY <1>1
<1> QED
  BY <1>2 DEF Congruent

LEMMA MoneyInvariant == Spec => []MoneyInv
<1>1. IInv => TypeOK
  BY DEF IInv
<1> QED
  BY <1>1, InitMoneyInv, MoneyInvStep, Inductive, PTL DEF Spec

\* A balance is the sum of its wallet's entries, as int64 adds, after any number of
\* requests on any number of instances, whatever fails in the middle of a
\* transaction: a lost update or a torn transaction would break it.
THEOREM BalancesReconcile == Spec => []Reconciled
  BY MoneyInvariant, CongruentReconciles, PTL

-----------------------------------------------------------------------------
(* Funds *)

\* NoOverdraft of wallet w at the n-th entry, in terms of the running sum.
FundedAt(L, w, n) ==
  (\A m \in Len(OpeningLedger)..n : RunningSum(L, w)[m] <= MaxInt) => RunningSum(L, w)[n] >= 0
Funded == \A w \in Wallet : \A n \in Len(OpeningLedger)..Len(ledger) : FundedAt(ledger, w, n)

LEMMA OpeningLength == Len(OpeningLedger) \in Nat
  BY OpeningAssumption

LEMMA FundedCovers == TypeOK /\ Funded => NoOverdraft
<1> SUFFICES ASSUME TypeOK, Funded, NEW w \in Wallet, NEW n \in Len(OpeningLedger)..Len(ledger),
                    \A m \in Len(OpeningLedger)..Len(ledger) :
                      m <= n => LedgerSum(SubSeq(ledger, 1, m), w) <= MaxInt
             PROVE  LedgerSum(SubSeq(ledger, 1, n), w) >= 0
  BY DEF NoOverdraft
<1>1. ledger \in Seq(EntryRecord) /\ Len(ledger) \in Nat
  BY DEF TypeOK, DbTypeOK
<1>2. \A m \in Len(OpeningLedger)..Len(ledger) :
        LedgerSum(SubSeq(ledger, 1, m), w) = RunningSum(ledger, w)[m]
  BY <1>1, SumOfPrefix, OpeningLength
<1>3. \A m \in Len(OpeningLedger)..n : RunningSum(ledger, w)[m] <= MaxInt
  <2> SUFFICES ASSUME NEW m \in Len(OpeningLedger)..n PROVE RunningSum(ledger, w)[m] <= MaxInt
    OBVIOUS
  <2>1. m \in Len(OpeningLedger)..Len(ledger) /\ m <= n
    BY <1>1, OpeningLength
  <2> QED
    BY <1>2, <2>1
<1> QED
  BY <1>2, <1>3 DEF Funded, FundedAt

\* The debit that Postable has checked keeps its wallet at zero or above.
LEMMA DebitIsFunded ==
  ASSUME MoneyInv, NEW c, Posts(c), NEW w \in Wallet, NEW v \in Legs(c),
         LedgerSum(ledger, w) \in 0..MaxInt
  PROVE  /\ LedgerSum(ledger, w) + AmountFor(Entry(c, v), w) >= 0
<1>1. balance[w] = LedgerSum(ledger, w)
  BY CongruentReconciles, AmountAssumption DEF Reconciled, Int64
<1>2. CentsOf(c) \in 0..MaxInt /\ MaxInt \in Nat
  BY CentsType, AmountAssumption DEF Posts
<1>3. CASE v # w \/ v # c.from
  <2>1. v = w => Delta(c, v) = CentsOf(c)
    BY <1>3 DEF Delta, Legs
  <2> QED
    BY <1>2, <2>1, AmountOfEntry
<1>4. CASE v = w /\ v = c.from
  <2>1. Delta(c, w) = CentsOf(c) \/ Delta(c, w) = -CentsOf(c)
    BY DEF Delta
  <2> QED
    BY <1>1, <1>2, <1>4, <2>1, AmountOfEntry DEF Posts, Wrap, Modulus
<1> QED
  BY <1>3, <1>4

LEMMA FundedStep == IInv /\ TypeOK' /\ MoneyInv /\ Funded /\ [Next]_vars => Funded'
<1> SUFFICES ASSUME IInv, TypeOK', MoneyInv, Funded, [Next]_vars PROVE Funded'
  OBVIOUS
<1>1. CASE UNCHANGED <<balance, ledger>>
  BY <1>1 DEF Funded, FundedAt
<1>2. CASE \E c \in Call : Posts(c)
  <2> PICK c \in Call : Posts(c)
    BY <1>2
  <2> DEFINE lo  == Len(OpeningLedger)
             len == Len(ledger)
             a   == Entry(c, c.from)
             b   == Entry(c, c.to)
  <2>1. ledger \in Seq(EntryRecord) /\ ledger' \in Seq(EntryRecord)
    BY DEF MoneyInv, TypeOK, DbTypeOK
  <2>2. lo \in Nat /\ len \in Nat /\ lo <= len /\ Len(ledger') \in Nat
    BY <2>1, OpeningLength DEF IInv, HistoryInv
  <2>3. /\ \A i \in 1..len : ledger'[i] = ledger[i]
        /\ ledger'[len + 1] = a
        /\ Len(ledger') = IF c.op = "transfer" THEN len + 2 ELSE len + 1
        /\ c.op = "transfer" => ledger'[len + 2] = b
    <3>1. a \in EntryRecord
      BY EntriesAppended DEF MoneyInv
    <3>2. CASE c.op # "transfer"
      <4>1. ledger' = Append(ledger, a)
        BY <3>2, EntriesAppended DEF MoneyInv
      <4> HIDE DEF a
      <4> QED
        BY <2>1, <3>1, <3>2, <4>1
    <3>3. CASE c.op = "transfer"
      <4>1. b \in EntryRecord /\ ledger' = Append(Append(ledger, a), b)
        BY <3>3, EntriesAppended DEF MoneyInv
      <4> HIDE DEF a, b
      <4> QED
        BY <2>1, <3>1, <3>3, <4>1
    <3> QED
      BY <3>2, <3>3
  <2> SUFFICES ASSUME NEW w \in Wallet, NEW n \in lo..Len(ledger'),
                      \A m \in lo..n : RunningSum(ledger', w)[m] <= MaxInt
               PROVE  RunningSum(ledger', w)[n] >= 0
    BY DEF Funded, FundedAt
  <2> HIDE DEF lo, len
  <2>4. \A m \in 0..len : RunningSum(ledger', w)[m] = RunningSum(ledger, w)[m]
    BY <2>2, <2>3, RunningSumOfPrefix
  <2>5. ASSUME NEW k \in lo..len, k <= n PROVE RunningSum(ledger, w)[k] >= 0
    <3>1. \A m \in lo..k : m \in lo..n /\ m \in 0..len
      BY <2>2, <2>5
    <3>2. \A m \in lo..k : RunningSum(ledger, w)[m] <= MaxInt
      BY <2>4, <3>1
    <3> QED
      BY <3>2 DEF Funded, FundedAt, lo, len
  <2>6. CASE n <= len
    <3>1. n \in lo..len /\ n \in 0..len
      BY <2>2, <2>6
    <3> QED
      BY <2>4, <2>5, <3>1
  <2>7. CASE n > len
    <3>1. LedgerSum(ledger, w) = RunningSum(ledger, w)[len] /\ LedgerSum(ledger, w) \in Int
      BY <2>1, SumIsRunningSum, SumType DEF len
    <3>2. LedgerSum(ledger, w) \in 0..MaxInt
      <4>1. len \in lo..len /\ len \in 0..len /\ len \in lo..n
        BY <2>2, <2>7
      <4>2. RunningSum(ledger, w)[len] <= MaxInt
        BY <2>4, <4>1
      <4> QED
        BY <2>5, <2>7, <3>1, <4>1, <4>2, AmountAssumption
    <3>3. RunningSum(ledger', w)[len + 1] = LedgerSum(ledger, w) + AmountFor(a, w)
      <4>1. len + 1 \in Nat /\ len + 1 # 0 /\ (len + 1) - 1 = len /\ len \in 0..len
        BY <2>2
      <4>2. RunningSum(ledger', w)[len + 1] = RunningSum(ledger', w)[len] + AmountFor(ledger'[len + 1], w)
        BY <4>1, RunningSumUnfolds
      <4> QED
        BY <2>3, <2>4, <3>1, <4>1, <4>2
    <3>4. c.from \in Legs(c) /\ (c.op = "transfer" => c.to \in Legs(c) /\ c.from # c.to)
      BY DEF Legs, Posts
    <3>5. LedgerSum(ledger, w) + AmountFor(a, w) >= 0
      BY <3>2, <3>4, DebitIsFunded
    <3>6. CASE n = len + 1
      BY <3>3, <3>5, <3>6
    <3>7. CASE n = len + 2 /\ c.op = "transfer"
      <4>1. len + 2 \in Nat /\ len + 2 # 0 /\ (len + 2) - 1 = len + 1
        BY <2>2
      <4>2. RunningSum(ledger', w)[len + 2] = RunningSum(ledger', w)[len + 1] + AmountFor(ledger'[len + 2], w)
        BY <4>1, RunningSumUnfolds
      <4>3. RunningSum(ledger', w)[len + 2] = LedgerSum(ledger, w) + AmountFor(a, w) + AmountFor(b, w)
        BY <2>3, <3>3, <3>7, <4>2
      <4>4. AmountFor(a, w) = 0 \/ AmountFor(b, w) = 0
        BY <3>4, <3>7, AmountOfEntry
      <4>5. LedgerSum(ledger, w) + AmountFor(b, w) >= 0
        BY <3>2, <3>4, <3>7, DebitIsFunded
      <4>6. AmountFor(a, w) \in Int /\ AmountFor(b, w) \in Int
        BY AmountOfEntry, DeltaType, AmountAssumption DEF Posts, Int64
      <4> HIDE DEF a, b
      <4> QED
        BY <3>1, <3>5, <3>7, <4>3, <4>4, <4>5, <4>6
    <3> QED
      BY <2>2, <2>3, <2>7, <3>6, <3>7
  <2> QED
    BY <2>2, <2>6, <2>7
<1> QED
  BY <1>1, <1>2, PostOrNothing

LEMMA InitFunded == Init => Funded
<1> SUFFICES ASSUME Init, NEW w \in Wallet, NEW n \in Len(OpeningLedger)..Len(ledger)
             PROVE  RunningSum(ledger, w)[n] >= 0
  BY DEF Funded, FundedAt
<1>1. ledger = OpeningLedger /\ n = Len(OpeningLedger)
  BY OpeningLength DEF Init, DbInit
<1>2. LedgerSum(OpeningLedger, w) >= 0
  BY OpeningAssumption, AmountAssumption
<1> QED
  BY <1>1, <1>2, SumIsRunningSum

\* However top-ups, payments and transfers race, on however many instances: no debit
\* is posted from money that is not there, unless a credit has overflowed before.
THEOREM NobodyOverdraws == Spec => []NoOverdraft
<1>1. IInv => TypeOK
  BY DEF IInv
<1>2. Spec => []Funded
  BY <1>1, InitFunded, FundedStep, Inductive, MoneyInvariant, PTL DEF Spec
<1> QED
  BY <1>1, <1>2, FundedCovers, Inductive, PTL
=============================================================================
