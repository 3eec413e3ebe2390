-------------------------- MODULE MCWalletService --------------------------
(***************************************************************************)
(* Small instances of WalletService for TLC.  Wallets 1 and 2 belong to    *)
(* Ann and Bob and hold USD, 3 is Bob's EUR wallet, id 9 has no row.       *)
(* MaxInt stands for 2^63 - 1.                                             *)
(***************************************************************************)
EXTENDS WalletInvariant, TLC

TwoRows == {1, 2}
Ids == {1, 2, 3, 9}
Spellings == {"lower", "upper"}
Rows == {1, 2, 3}
Owners == {"Ann", "Bob"}
OwnerOfRow == 1 :> "Ann" @@ 2 :> "Bob" @@ 3 :> "Bob"
OwnerOfTwo == 1 :> "Ann" @@ 2 :> "Bob"
Currencies == {"usd", "eur"}
CurrencyOfRow == 1 :> "usd" @@ 2 :> "usd" @@ 3 :> "eur"
CurrencyOfTwo == 1 :> "usd" @@ 2 :> "usd"
AmountNames == {"bad", "one", "two"}
CentsOfAmount == [a \in AmountNames |-> [cur \in Currencies |->
                    CASE a = "bad" -> Rejected [] a = "one" -> 1 [] a = "two" -> 2]]

\* They are texts that parseAmountToCents reads so: 0.004, 0.01 and 0.015.
Parsing == INSTANCE Amounts
FractionOf == [bad |-> <<0, 0, 4>>, one |-> <<0, 1>>, two |-> <<0, 1, 5>>]
ASSUME AmountsAreParsed ==
  \A a \in AmountNames, cur \in Currencies :
    CentsOfAmount[a][cur] = Parsing!ParseAmountToCents(Parsing!Text("", 0, FractionOf[a]), cur)

\* "long" leaves no room for a "-credit" suffix.
Keys == {"a", "b", "c", "d", "long", "w1", "w2"}
Room == [k \in Keys |-> IF k = "long" THEN 0 ELSE 3]

Topup(w, a, k) == [op |-> "topup", from |-> w, to |-> w, amount |-> a, key |-> k, spelled |-> "lower"]
Pay(w, a, k) == [op |-> "payment", from |-> w, to |-> w, amount |-> a, key |-> k, spelled |-> "lower"]
Transfer(v, w, a, k) == [op |-> "transfer", from |-> v, to |-> w, amount |-> a, key |-> k, spelled |-> "lower"]
Suspend(w) == [op |-> "suspend", from |-> w, to |-> w, amount |-> "one", key |-> NoKey,
               spelled |-> "lower"]
Upper(c) == [c EXCEPT !.spelled = "upper"]

Symmetry == Permutations(Request)

Opening(w, n, k) == [wallet |-> w, amount |-> n, operation |-> "topup", key |-> <<k, 0>>,
                     related |-> NoWallet]

\* One unit in wallet 1 and one in wallet 2: of two debits of a wallet only one fits.
OneEach == <<Opening(1, 1, "w1"), Opening(2, 1, "w2")>>
\* With MaxInt = 3, wallet 2 is one unit short of the largest balance.
AlmostFull == <<Opening(1, 2, "w1"), Opening(2, 2, "w2")>>

\* Two debits compete for one unit of wallet 1, transfers run in opposite
\* directions, a top-up uses the "-credit" key of a transfer, the same key comes
\* with different calls, a wallet is suspended.
ContendingCalls == {Pay(1, "one", <<"a", 0>>), Topup(2, "one", <<"b", 1>>),
                    Transfer(1, 2, "one", <<"b", 0>>), Transfer(2, 1, "one", <<"c", 0>>),
                    Transfer(2, 1, "two", <<"a", 0>>), Suspend(1)}

\* Every early return of the operations, and the calls whose effect is at the
\* limit of a column: the largest balance and the longest key.
LimitCalls == {Pay(1, "two", <<"a", 0>>), Pay(1, "bad", <<"b", 0>>), Pay(9, "one", <<"b", 0>>),
               Topup(2, "two", <<"b", 0>>), Topup(1, "one", NoKey), Topup(1, "one", <<"long", 1>>),
               Transfer(1, 2, "two", <<"c", 0>>), Transfer(2, 1, "one", <<"c", 0>>),
               Transfer(1, 1, "one", <<"d", 0>>), Transfer(1, 3, "one", <<"d", 0>>),
               Transfer(2, 9, "one", <<"d", 0>>), Transfer(1, 2, "one", <<"long", 0>>),
               Upper(Suspend(2)), Suspend(9)}

\* Pairs of calls that a claim of the repository is about.
SuspendAndPay == {Suspend(1), Pay(1, "one", <<"a", 0>>), Upper(Pay(1, "one", <<"a", 0>>))}
TopupAndPay == {Topup(1, "one", <<"a", 0>>), Pay(1, "one", <<"b", 0>>)}
RetriedTopup == {Topup(1, "one", <<"a", 0>>)}
SameKeyPayments == {Pay(1, "one", <<"a", 0>>), Pay(2, "one", <<"a", 0>>)}
LargeTransfer == {Transfer(1, 2, "two", <<"a", 0>>)}
=============================================================================
