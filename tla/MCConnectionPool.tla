-------------------------- MODULE MCConnectionPool --------------------------
(***************************************************************************)
(* Small pools for TLC: 2 connections stand for 25.                        *)
(***************************************************************************)
EXTENDS ConnectionPool, MCWalletService

FourRows == 1..4
OwnerOfFour == [w \in FourRows |-> IF w \in {1, 3} THEN "Ann" ELSE "Bob"]
CurrencyOfFour == [w \in FourRows |-> IF w \in {1, 2} THEN "usd" ELSE "eur"]
FundedFour == <<Opening(1, 1, "w1"), Opening(3, 1, "w2")>>

\* Two transfers that have no wallet in common.
DisjointTransfers == {Transfer(1, 2, "one", <<"a", 0>>), Transfer(3, 4, "one", <<"b", 0>>)}

\* A transfer and its retry, which exclude each other, and calls that need one
\* connection at a time.  One payment can meet what another one has left when its
\* process died: a share of the row, and a statement that waits for all of it.
PooledCalls == {Transfer(1, 2, "one", <<"a", 0>>), Pay(1, "one", <<"c", 0>>),
                Pay(1, "one", <<"d", 0>>), Suspend(2)}
=============================================================================
