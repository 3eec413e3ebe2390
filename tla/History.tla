------------------------------ MODULE History -------------------------------
(***************************************************************************)
(* The queries GetWallet and LedgerHistory beside the requests of          *)
(* WalletService.  LedgerHistory lists a wallet's entries by created_at,   *)
(* which is NOW(), the moment at which the entry's transaction began: not  *)
(* the order in which the entries took effect.                             *)
(***************************************************************************)
EXTENDS WalletService, SequencesExt

VARIABLES
  started,   \* started[r]: the place of r's transaction among all that began; 0: none
  session    \* a client that asks for a wallet, and then for its history

historyVars == <<vars, started, session>>

NoSession == [at |-> "idle", wallet |-> NoWallet, answered |-> {}, balance |-> 0,
              status |-> "active", entries |-> << >>]

HistoryInit ==
  /\ Init
  /\ started = [r \in Request |-> 0]
  /\ session = NoSession

Latest == Cardinality({r \in Request : started[r] > 0})
Stamp == started' = [r \in Request |-> IF r \in txOpen' \ txOpen THEN Latest + 1 ELSE started[r]]

\* created_at of the n-th committed entry; the opening entries are older than all others.
CreatedAt(n) ==
  IF n <= Len(OpeningLedger) THEN 0
  ELSE started[CHOOSE r \in applied : \E w \in Legs(call[r]) : Entry(call[r], w) = ledger[n]]

Newer(m, n) == CreatedAt(m) > CreatedAt(n) \/ (CreatedAt(m) = CreatedAt(n) /\ m > n)   \* mutant: DESC

\* Entries of one transaction belong to different wallets: no wallet's entries tie.
Older(m, n) == CreatedAt(m) < CreatedAt(n) \/ (CreatedAt(m) = CreatedAt(n) /\ m < n)

EntriesOf(w) == {n \in 1..Len(ledger) : ledger[n].wallet = w}
\* ORDER BY created_at: an entry comes after the older ones of its wallet.
Place(n) == 1 + Cardinality({m \in EntriesOf(ledger[n].wallet) : Older(m, n)})
ListByWallet(w) == [k \in 1..Cardinality(EntriesOf(w)) |->
                      ledger[CHOOSE n \in EntriesOf(w) : Place(n) = k]]

CachedBalance(w) == LedgerSum(OpeningLedger, w)   \* mutant: a cache nobody invalidates

CommittedBalance(w) == balance[w]

-----------------------------------------------------------------------------
\* The client has seen the answers to some requests when it sends its own.
Open(w) ==
  /\ session.at = "idle"
  /\ session' = [session EXCEPT !.at = "getWallet", !.wallet = w,
                                !.answered = {r \in Request : reply[r] = "ok"}]

GetWallet ==
  /\ session.at = "getWallet"
  /\ session' = IF session.wallet \in Wallet
                THEN [session EXCEPT !.at = "findWallet", !.balance = CommittedBalance(session.wallet),
                                     !.status = status[session.wallet]]
                ELSE [session EXCEPT !.at = "ErrWalletNotFound"]

\* LedgerHistory is two queries, outside any transaction.
FindWallet ==
  /\ session.at = "findWallet"
  /\ session' = [session EXCEPT !.at = IF session.wallet \in Wallet THEN "listByWallet"
                                                                  ELSE "ErrWalletNotFound"]
List ==
  /\ session.at = "listByWallet"
  /\ session' = [session EXCEPT !.at = "done", !.entries = ListByWallet(session.wallet)]

Query == (\E w \in WalletID : Open(w)) \/ GetWallet \/ FindWallet \/ List

HistoryNext ==
  \/ Next /\ Stamp /\ UNCHANGED session
  \/ Query /\ UNCHANGED <<vars, started>>

HistorySpec == HistoryInit /\ [][HistoryNext]_historyVars

-----------------------------------------------------------------------------
\* LedgerHistory: "every ledger entry recorded for a wallet, in the order they
\* were created": a wallet's entries are listed in the order in which they took
\* effect.  It holds while one mutex serialises the wallet's requests.
HistoryInOrder ==
  \A m, n \in 1..Len(ledger) :
    m < n /\ ledger[m].wallet = ledger[n].wallet => CreatedAt(m) <= CreatedAt(n)

\* LedgerHistory is "the full audit trail backing that wallet's balance": a client
\* that read a balance finds it as a running total of the history it reads later,
\* whatever has been committed in between.
HistoryExplainsBalance ==
  session.at = "done" =>
    \E k \in 0..Len(session.entries) :
      (session.balance - LedgerSum(SubSeq(session.entries, 1, k), session.wallet)) % Modulus = 0

\* GetWallet: "a Get right after an operation always sees the latest committed
\* data": a wallet and its history contain every operation that was answered "ok"
\* before the client asked: the entry with its key, the credit of its transfer.
Answered(n) == \E r \in session.answered :
                 /\ call[r].op # "suspend"
                 /\ ledger[n].key = call[r].key \/ ledger[n] = Entry(call[r], call[r].to)
ReadAfterWrite ==
  LET mine == {n \in EntriesOf(session.wallet) : Answered(n)}
  IN  /\ session.at \in {"findWallet", "listByWallet", "done"} =>
           /\ \E m \in 0..Len(ledger) :
                /\ \A n \in mine : n <= m
                /\ (session.balance - LedgerSum(SubSeq(ledger, 1, m), session.wallet)) % Modulus = 0
           /\ (\E r \in session.answered : call[r].op = "suspend" /\ call[r].from = session.wallet) =>
                session.status = "suspended"
      /\ session.at = "done" => \A n \in mine : Contains(session.entries, ledger[n])
=============================================================================
