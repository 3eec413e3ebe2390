------------------------------ MODULE PgStore -------------------------------
(***************************************************************************)
(* Tables wallets and ledger_entries, and the transactions PgUnitOfWork    *)
(* opens on them.  Each statement of storage/postgres is an operator that  *)
(* module WalletService conjoins to the step of the request that runs it.  *)
(*                                                                         *)
(* Postgres runs the transactions at READ COMMITTED: a statement sees what *)
(* was committed when it starts, SELECT ... FOR UPDATE waits for the row   *)
(* and then sees its newest version.  A row is locked in two modes:        *)
(* "update" by FOR UPDATE and "keyshare" by the foreign-key check of an    *)
(* insert into ledger_entries; "update" excludes both, "keyshare" only     *)
(* "update".  An insert waits for an open transaction that has inserted    *)
(* the same idempotency key.                                               *)
(***************************************************************************)
EXTENDS Ledger, FiniteSets

CONSTANT Request   \* each request opens at most one transaction

VARIABLES
  balance,     \* wallets.balance, committed
  status,      \* wallets.status, committed
  ledger,      \* committed ledger entries, in the order of their commits
  txOpen,      \* the requests with an open transaction
  inserted,    \* inserted[s]: the entries s's transaction has inserted
  dirty,       \* dirty[s]: the wallets whose balance it has updated
  txBalance,   \* txBalance[s][w]: the balance it has written, if w \in dirty[s]
  rowLock      \* rowLock[s][w]: the lock it holds on w's row

dbVars == <<balance, status, ledger, txOpen, inserted, dirty, txBalance, rowLock>>

Status == {"active", "suspended"}
LockMode == {"none", "keyshare", "update"}
NoLocks == [w \in WalletID |-> "none"]
NoBalances == [w \in Wallet |-> 0]

DbInit ==
  /\ balance = [w \in Wallet |-> LedgerSum(OpeningLedger, w)]
  /\ status = [w \in Wallet |-> "active"]
  /\ ledger = OpeningLedger
  /\ txOpen = {}
  /\ inserted = [s \in Request |-> << >>]
  /\ dirty = [s \in Request |-> {}]
  /\ txBalance = [s \in Request |-> NoBalances]
  /\ rowLock = [s \in Request |-> NoLocks]

KeyCommitted(k) == \E i \in 1..Len(ledger) : ledger[i].key = k

\* Mutants: no unique index, no share lock by the foreign key or by UPDATE.
NoUniqueViolation(k) == FALSE
NoKeyBlockers(s, k) == {}
NoShareBlockers(s, w) == {}

\* An insert finds its key in the unique index, in a committed row.
UniqueViolation(k) == KeyCommitted(k)

\* The requests a statement of request s waits for.
KeyBlockers(s, k) ==
  {t \in Request \ {s} : \E i \in 1..Len(inserted[t]) : inserted[t][i].key = k}
ShareBlockers(s, w) == {t \in Request \ {s} : rowLock[t][w] = "update"}
UpdateBlockers(s, w) == {t \in Request \ {s} : rowLock[t][w] # "none"}

BeginTx(s) ==
  /\ txOpen' = txOpen \cup {s}
  /\ UNCHANGED <<balance, status, ledger, inserted, dirty, txBalance, rowLock>>

LockRowAs(s, w, mode) ==
  /\ rowLock' = [rowLock EXCEPT ![s][w] = mode]
  /\ UNCHANGED <<balance, status, ledger, txOpen, inserted, dirty, txBalance>>

InsertEntry(s, e) ==
  /\ inserted' = [inserted EXCEPT ![s] = Append(@, e)]
  /\ UNCHANGED <<balance, status, ledger, txOpen, dirty, txBalance, rowLock>>

\* UPDATE wallets SET balance, on the row SELECT ... FOR UPDATE has just locked.
WriteBalance(s, w, new) ==
  /\ rowLock' = [rowLock EXCEPT ![s][w] = "update"]
  /\ dirty' = [dirty EXCEPT ![s] = @ \cup {w}]
  /\ txBalance' = [txBalance EXCEPT ![s][w] = new]
  /\ UNCHANGED <<balance, status, ledger, txOpen, inserted>>

WriteStatus(w, st) ==
  /\ status' = [status EXCEPT ![w] = st]
  /\ UNCHANGED <<balance, ledger, txOpen, inserted, dirty, txBalance, rowLock>>

\* Mutant: an end of transaction that leaves the row locks.
EndTxKeepingLocks(s) ==
  /\ txOpen' = txOpen \ {s}
  /\ inserted' = [inserted EXCEPT ![s] = << >>]
  /\ dirty' = [dirty EXCEPT ![s] = {}]
  /\ txBalance' = [txBalance EXCEPT ![s] = NoBalances]
  /\ UNCHANGED rowLock

\* The end of a transaction, committed or not: its locks and its writes are gone.
EndTx(s) ==
  /\ txOpen' = txOpen \ {s}
  /\ inserted' = [inserted EXCEPT ![s] = << >>]
  /\ dirty' = [dirty EXCEPT ![s] = {}]
  /\ txBalance' = [txBalance EXCEPT ![s] = NoBalances]
  /\ rowLock' = [rowLock EXCEPT ![s] = NoLocks]

CommitTx(s) ==
  /\ balance' = [w \in Wallet |-> IF w \in dirty[s] THEN txBalance[s][w] ELSE balance[w]]
  /\ ledger' = ledger \o inserted[s]
  /\ EndTx(s)
  /\ UNCHANGED status

\* Mutant: the entries are inserted outside the transaction.
RollbackTxKeepingEntries(s) ==
  EndTx(s) /\ ledger' = ledger \o inserted[s] /\ UNCHANGED <<balance, status>>

RollbackTx(s) == EndTx(s) /\ UNCHANGED <<balance, status, ledger>>

DbTypeOK ==
  /\ balance \in [Wallet -> Int64]
  /\ status \in [Wallet -> Status]
  /\ ledger \in Seq(EntryRecord)
  /\ txOpen \subseteq Request
  /\ inserted \in [Request -> Seq(EntryRecord)]
  /\ dirty \in [Request -> SUBSET Wallet]
  /\ txBalance \in [Request -> [Wallet -> Int64]]
  /\ rowLock \in [Request -> [WalletID -> LockMode]]
=============================================================================
