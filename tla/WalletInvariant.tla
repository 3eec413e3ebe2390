--------------------------- MODULE WalletInvariant ---------------------------
(***************************************************************************)
(* The inductive invariant of WalletService: what each request may rely on *)
(* at each point of applyDelta, Transfer and SuspendWallet, whatever the   *)
(* other requests do.                                                      *)
(***************************************************************************)
EXTENDS WalletService

\* Labels at which the request's checks have passed.
Posting == {"append", "appendCredit", "foreignKey", "update", "updateCredit", "commit"}
PastValidation(r) == \/ pc[r] \in Posting
                     \/ pc[r] = "begin" /\ ~IsTransfer(r)
                     \/ pc[r] = "inFlight" /\ call[r].op # "suspend"
InTransaction(r) == \/ pc[r] \in Writing \cup {"orphan"} \cup Late
                    \/ pc[r] = "inFlight" /\ call[r].op # "suspend"

\* Which operation can be where.
ControlAt(r) ==
  /\ pc[r] \notin {"idle", "done"} =>
       call[r].op = "suspend" \/ (call[r].key \in Key /\ (IsTransfer(r) => call[r].from # call[r].to))
  /\ pc[r] \in {"lookup", "begin", "lockSecond"} \cup Reading \cup Writing \cup Late =>
       call[r].op # "suspend"
  /\ pc[r] = "status" => call[r].op = "suspend"
  /\ pc[r] \in {"lockSecond", "lockRow", "lockRowSecond", "validate", "appendCredit",
                "updateCredit", "lateRow", "lateRowSecond", "lateCredit"} => IsTransfer(r)
  /\ pc[r] \in Reading \cup {"foreignKey", "lateForeignKey", "lateUpdate"} => ~IsTransfer(r)
ControlInv == \A r \in Request : ControlAt(r)

\* What has been checked, and stays so because it is the call and the tables' keys.
ValidationAt(r) ==
  PastValidation(r) \/ pc[r] \in {"lateInsert", "lateCredit"} =>
  /\ Legs(call[r]) \subseteq Wallet
  /\ CentsOf(call[r]) # Rejected
  /\ IsTransfer(r) => CurrencyOf[call[r].from] = CurrencyOf[call[r].to]
ValidationInv == \A r \in Request : ValidationAt(r)

\* A transaction is open exactly between Begin and its end, and holds the
\* statements executed so far.
TransactionAt(r) ==
  /\ r \in txOpen <=> InTransaction(r)
  /\ r \notin txOpen => inserted[r] = << >> /\ dirty[r] = {} /\ rowLock[r] = NoLocks
  /\ pc[r] \in {"lockRow", "lockRowSecond", "validate", "append", "lateRow", "lateRowSecond",
                "lateInsert"} => inserted[r] = << >>
  /\ pc[r] \in {"appendCredit", "foreignKey", "lateCredit"} =>
       inserted[r] = <<Entry(call[r], call[r].from)>>
  /\ pc[r] \in {"update", "updateCredit", "commit"} \/ (pc[r] = "inFlight" /\ InTransaction(r)) =>
       inserted[r] = Entries(call[r])
  /\ pc[r] \in Late \cup (Writing \ {"updateCredit", "commit"}) => dirty[r] = {}
  /\ pc[r] = "updateCredit" => dirty[r] = {call[r].from}
  /\ pc[r] = "commit" \/ (pc[r] = "inFlight" /\ InTransaction(r)) => dirty[r] = Legs(call[r])
TransactionInv == \A r \in Request : TransactionAt(r)

\* uq_ledger_idempotency: a key is in one row, committed or not.
KeyInv ==
  /\ \A m, n \in 1..Len(ledger) : ledger[m].key = ledger[n].key => m = n
  /\ \A r \in Request : \A n \in 1..Len(inserted[r]) :
       /\ ~KeyCommitted(inserted[r][n].key)
       /\ KeyBlockers(r, inserted[r][n].key) = {}
  /\ \A r \in applied : KeyCommitted(call[r].key)

\* The ledger only grows, and the requests that have been applied are history.
HistoryInv ==
  /\ Len(OpeningLedger) <= Len(ledger)
  /\ \A n \in 1..Len(OpeningLedger) : ledger[n] = OpeningLedger[n]
  /\ \A r \in applied : pc[r] # "idle"
  /\ AtMostOnce

\* A row locked for update is locked by one request.
RowLockInv ==
  \A q, r \in Request, w \in WalletID :
    q # r /\ rowLock[q][w] = "update" => rowLock[r][w] = "none"

\* The rows a request has locked for update, and what it knows of them.
LockedRowAt(r) ==
  /\ pc[r] = "lockRowSecond" => rowLock[r][First(call[r])] = "update"
  /\ pc[r] \in {"validate"} \cup Posting /\ IsTransfer(r) =>
       \A w \in Legs(call[r]) : rowLock[r][w] = "update"
  /\ pc[r] \in Writing /\ IsTransfer(r) =>
       \A w \in Wallet : rowLock[r][w] = "update" => seen[r][w] = balance[w]
  /\ \A w \in dirty[r] : /\ rowLock[r][w] = "update"
                         /\ txBalance[r][w] = Wrap(balance[w] + Delta(call[r], w))
                         /\ w = call[r].from => txBalance[r][w] >= 0
  /\ PastValidation(r) /\ pc[r] # "inFlight" =>
       Wrap(seen[r][call[r].from] + Delta(call[r], call[r].from)) >= 0
LockedRowInv == \A r \in Request : LockedRowAt(r)

\* One instance's mutex on an id is held by one request, from the moment the
\* request locks it to its Unlock or the crash.
MutexAt(r) ==
  /\ \A w \in mutexes[r] : MutexHolders(r, w) = {}
  /\ pc[r] = "lockSecond" => First(call[r]) \in mutexes[r]
  /\ pc[r] \in {"read", "begin", "status"} \cup Writing => Legs(call[r]) \subseteq mutexes[r]
  /\ pc[r] \in {"idle", "lookup", "replay", "lock", "done"} \cup Dead => mutexes[r] = {}
MutexInv == \A r \in Request : MutexAt(r)

\* A wallet read as active is still active when the request posts to it: for a
\* transfer because its row is locked, with one instance because its mutex is,
\* which only a crash takes away.
ActiveAt(r) ==
  /\ pc[r] \in Writing /\ IsTransfer(r) =>
       \A w \in seenActive[r] : rowLock[r][w] = "update" /\ status[w] = "active"
  /\ PastValidation(r) /\ call[r].op \in GuardedOps =>
       \A w \in Legs(call[r]) : status[w] = "active"
  /\ pc[r] \in {"idle", "lookup", "lock", "lockSecond"} \/ (pc[r] = "begin" /\ IsTransfer(r)) =>
       seenActive[r] = {}
  /\ pc[r] \in Dead => faults > 0
ActiveInv == \A r \in Request : ActiveAt(r)

\* Inductive invariant.
IInv == /\ TypeOK /\ ControlInv /\ ValidationInv /\ TransactionInv /\ KeyInv
        /\ HistoryInv /\ RowLockInv /\ LockedRowInv /\ MutexInv /\ ActiveInv

-----------------------------------------------------------------------------
(* Beside IInv: what each request has locked, read and answered.            *)

\* A request locks the wallets of its call and no other, with its mutexes, and
\* then its rows, in order.
ScopeAt(r) ==
  /\ mutexes[r] \subseteq Legs(call[r])
  /\ pc[r] = "lockSecond" => mutexes[r] = {First(call[r])}
  /\ \A w \in WalletID : rowLock[r][w] # "none" => w \in Legs(call[r])
  /\ pc[r] \in {"lockRow", "lateRow"} => rowLock[r] = NoLocks
  /\ pc[r] \in {"lockRowSecond", "lateRowSecond"} => rowLock[r][Second(call[r])] = "none"
ScopeInv == \A r \in Request : ScopeAt(r)

\* The balance that applyDelta has read is the committed one, unless another request
\* has posted to the wallet since: which it cannot where both need the same mutex.
ReadingAt(r) ==
  pc[r] \in {"begin", "append", "foreignKey", "update"} /\ ~IsTransfer(r) =>
    \/ seen[r][call[r].from] = balance[call[r].from]
    \/ ~OneMutexEach /\ \E q \in applied \ {r} : call[r].from \in Legs(call[q])
ReadingInv == \A r \in Request : ReadingAt(r)

\* A request is answered once, when nothing of it is left to do but to unlock - or
\* by the connection's end, whatever the database still does.
ReplyAt(r) ==
  /\ reply[r] # "none" => pc[r] \in {"unlock", "done"} \cup Dead
  /\ pc[r] \in Dead => reply[r] = "ErrConnectionLost"
  /\ reply[r] = "ok" /\ call[r].op = "suspend" => call[r].from \in Wallet
  /\ r \in applied => pc[r] \in {"unlock", "done"} /\ call[r].op # "suspend"
  /\ reply[r] \in {"ErrOptimisticLock", "ErrDeadlock"} => ~OneMutexEach
ReplyInv == \A r \in Request : ReplyAt(r)

\* Inductive relative to IInv.
AnswerInv == /\ ScopeInv /\ ReadingInv /\ ReplyInv
             /\ AllOrNothing /\ AcknowledgedIsDurable /\ ConflictHasAWinner
=============================================================================
