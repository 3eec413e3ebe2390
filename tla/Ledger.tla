------------------------------- MODULE Ledger -------------------------------
(***************************************************************************)
(* The values the e-wallet computes with: wallets, calls, amounts, 64-bit  *)
(* balances and ledger entries.  Shared by the abstract specification and  *)
(* by the modules of the service and of its database.                      *)
(***************************************************************************)
EXTENDS Integers, Sequences

CONSTANTS
  WalletID,      \* ids a client may name, ordered as the id strings are
  Spelling,      \* ways to write an id that Postgres reads as the same UUID
  Canonical,     \* the one that a transfer's "uuid" validation lets through
  Wallet,        \* the ids that have a row in table wallets
  Owner, OwnerOf,
  Currency, CurrencyOf,
  Amount,        \* amount strings
  Cents,         \* Cents[a][cur]: parseAmountToCents, Rejected when it errs
  KeyBase,       \* idempotency keys, up to their "-credit" suffixes
  KeyRoom,       \* how many of these suffixes VARCHAR(100) leaves room for
  MaxInt,        \* the largest balance: 2^63 - 1 in the program
  Call,          \* the calls clients make
  OpeningLedger  \* the entries committed before the modelled requests arrive

NoWallet == 0
NoKey == << >>
MoneyOp == {"topup", "payment", "transfer"}
Op == MoneyOp \cup {"suspend"}
Key == KeyBase \X Nat
Rejected == -1
Int64 == -(MaxInt + 1)..MaxInt

EntryRecord == [wallet: Wallet, amount: Int64, operation: {"topup", "payment",
                "transfer_out", "transfer_in"}, key: Key,
                related: WalletID \cup {NoWallet}]

(***************************************************************************)
(* Transfer writes its credit entry under idempotencyKey + "-credit".  A   *)
(* key <<b, n>> is the text b followed by n such suffixes.                 *)
(***************************************************************************)
CreditKey(k) == <<k[1], k[2] + 1>>
Storable(k) == k[2] <= KeyRoom[k[1]]

Modulus == 2 * (MaxInt + 1)

WrapNot(x) == x   \* mutant: integers that never overflow

\* Two's complement addition: the sum of two in-range integers wraps at most once.
Wrap(x) == IF x > MaxInt THEN x - Modulus
           ELSE IF x < -(MaxInt + 1) THEN x + Modulus
           ELSE x

CentsOf(c) == Cents[c.amount][CurrencyOf[c.from]]

\* The wallets a call changes, and the signed amount by which it changes each.
Legs(c) == IF c.op = "transfer" THEN {c.from, c.to} ELSE {c.from}
Delta(c, w) == IF c.op = "topup" \/ (c.op = "transfer" /\ w = c.to)
               THEN CentsOf(c) ELSE -CentsOf(c)

EntryKey(c, w) == IF c.op = "transfer" /\ w = c.to THEN CreditKey(c.key) ELSE c.key
Entry(c, w) ==
  [wallet    |-> w,
   amount    |-> Delta(c, w),
   operation |-> IF c.op # "transfer" THEN c.op
                 ELSE IF w = c.to THEN "transfer_in" ELSE "transfer_out",
   key       |-> EntryKey(c, w),
   related   |-> IF c.op # "transfer" THEN NoWallet
                 ELSE IF w = c.to THEN c.from ELSE c.to]

\* The entries of call c, the debit of a transfer before its credit.
Entries(c) == IF c.op = "transfer" THEN <<Entry(c, c.from), Entry(c, c.to)>>
                                   ELSE <<Entry(c, c.from)>>

\* What SumByWallet returns when the table holds the entries of L.
AmountFor(e, w) == IF e.wallet = w THEN e.amount ELSE 0
LedgerSum(L, w) ==
  LET sum[n \in Nat] == IF n = 0 THEN 0 ELSE sum[n - 1] + AmountFor(L[n], w)
  IN  sum[Len(L)]

ASSUME WalletAssumption ==
  /\ WalletID \subseteq Nat \ {NoWallet}
  /\ Wallet \subseteq WalletID
  /\ OwnerOf \in [Wallet -> Owner]
  /\ CurrencyOf \in [Wallet -> Currency]
  \* uq_wallets_owner_currency
  /\ \A v, w \in Wallet :
       OwnerOf[v] = OwnerOf[w] /\ CurrencyOf[v] = CurrencyOf[w] => v = w

ASSUME AmountAssumption ==
  /\ MaxInt \in Nat \ {0}
  /\ Cents \in [Amount -> [Currency -> Rejected..MaxInt]]

ASSUME CallAssumption ==
  /\ KeyRoom \in [KeyBase -> Nat \cup {-1}]   \* -1: longer than the column
  /\ Call # {}
  /\ \A c \in Call : /\ c.op \in Op
                     /\ c.from \in WalletID /\ c.to \in WalletID
                     /\ c.amount \in Amount
                     /\ c.key \in Key \cup {NoKey}
                     /\ c.spelled \in Spelling
                     /\ c.op = "transfer" => c.spelled = Canonical

ASSUME OpeningAssumption ==
  /\ OpeningLedger \in Seq(EntryRecord)
  /\ \A w \in Wallet : LedgerSum(OpeningLedger, w) \in 0..MaxInt
  \* uq_ledger_idempotency
  /\ \A i, j \in 1..Len(OpeningLedger) :
       OpeningLedger[i].key = OpeningLedger[j].key => i = j
=============================================================================
