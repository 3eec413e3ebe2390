---------------------------- MODULE AtomicWallet ----------------------------
(***************************************************************************)
(* What the wallet service promises about money, as if calls were executed *)
(* one at a time: a call posts all its entries and moves the balances with *)
(* them, under a key nobody used before, from funds that are there; or it  *)
(* changes nothing.                                                        *)
(***************************************************************************)
EXTENDS Ledger

CONSTANT GuardedOps   \* the operations that a suspended wallet never sees

VARIABLES balance, status, ledger

Init ==
  /\ balance = [w \in Wallet |-> LedgerSum(OpeningLedger, w)]
  /\ status = [w \in Wallet |-> "active"]
  /\ ledger = OpeningLedger

UnusedKey(k) == \A n \in 1..Len(ledger) : ledger[n].key # k

Postable(c) ==
  /\ c.op \in MoneyOp
  /\ Legs(c) \subseteq Wallet
  /\ CentsOf(c) # Rejected
  /\ c.op = "transfer" => c.from # c.to /\ CurrencyOf[c.from] = CurrencyOf[c.to]
  /\ \A w \in Legs(c) : UnusedKey(EntryKey(c, w))
  /\ c.op \in GuardedOps => \A w \in Legs(c) : status[w] = "active"
  /\ Wrap(balance[c.from] + Delta(c, c.from)) >= 0

Post(c) ==
  /\ Postable(c)
  /\ balance' = [w \in Wallet |-> IF w \in Legs(c) THEN Wrap(balance[w] + Delta(c, w))
                                                    ELSE balance[w]]
  /\ ledger' = ledger \o Entries(c)
  /\ UNCHANGED status

Suspend(w) ==
  /\ status' = [status EXCEPT ![w] = "suspended"]
  /\ UNCHANGED <<balance, ledger>>

Next == \/ \E c \in Call : Post(c)
        \/ \E w \in Wallet : Suspend(w)

Spec == Init /\ [][Next]_<<balance, status, ledger>>
=============================================================================
