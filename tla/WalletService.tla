---------------------------- MODULE WalletService ----------------------------
(***************************************************************************)
(* The money-moving operations of wallet/service.go - Topup and Pay        *)
(* (applyDelta), Transfer, SuspendWallet - as concurrent requests on one   *)
(* or more instances of the program that share one database (PgStore).     *)
(*                                                                         *)
(* A request is a goroutine.  pc[r] names what it does next; a step is one *)
(* SQL statement, or one Lock or Unlock, with the local code that follows. *)
(* An error return and its deferred Rollback are one step, the deferred    *)
(* Unlocks the next.                                                       *)
(***************************************************************************)
EXTENDS PgStore

CONSTANTS
  Instance,   \* running copies of the program
  MaxFaults   \* bound on storage errors and crashes

ASSUME ServiceAssumption == Instance # {} /\ MaxFaults \in Nat

VARIABLES
  pc,           \* pc[r]: what request r does next
  call,         \* call[r]: what the client asked for
  inst,         \* inst[r]: the instance the request reached
  mutexes,      \* mutexes[r]: the wallet mutexes of inst[r] that r holds
  seen,         \* seen[r][w]: the balance r has read
  seenActive,   \* seenActive[r]: the wallets r has read as active
  reply,        \* reply[r]: the error returned to the client, or "ok"
  shown,        \* shown[r]: the balance in the reply
  applied,      \* history: the requests whose transaction has committed
  faults        \* history: storage errors and crashes so far

reqVars == <<pc, call, inst, mutexes, seen, seenActive, reply, shown, applied, faults>>
vars == <<dbVars, reqVars>>

Reading == {"replay", "read"}
Writing == {"lockRow", "lockRowSecond", "validate", "append", "foreignKey",
            "appendCredit", "update", "updateCredit", "commit"}
\* What the database still has of a request whose process is dead: a statement that
\* waits for its lock, one that makes the effect permanent, or an idle transaction.
Late == {"lateRow", "lateRowSecond", "lateInsert", "lateCredit", "lateForeignKey", "lateUpdate"}
Dead == {"orphan", "inFlight"} \cup Late
Label == {"idle", "lookup", "lock", "lockSecond", "begin", "status", "unlock", "done"}
         \cup Reading \cup Writing \cup Dead

BusinessError == {"ErrWalletNotFound", "ErrWalletSuspended", "ErrInvalidAmount",
                  "ErrInsufficientBalance", "ErrCurrencyMismatch", "ErrSameWallet",
                  "ErrOptimisticLock", "ErrIdempotencyKeyRequired"}
DatabaseError == {"ErrUniqueViolation", "ErrValueTooLong", "ErrDeadlock"}
UnknownOutcome == {"ErrStorage", "ErrConnectionLost"}
Reply == {"none", "ok"} \cup BusinessError \cup DatabaseError \cup UnknownOutcome

Init ==
  /\ DbInit
  /\ pc = [r \in Request |-> "idle"]
  /\ call = [r \in Request |-> CHOOSE c \in Call : TRUE]
  /\ inst = [r \in Request |-> CHOOSE i \in Instance : TRUE]
  /\ mutexes = [r \in Request |-> {}]
  /\ seen = [r \in Request |-> NoBalances]
  /\ seenActive = [r \in Request |-> {}]
  /\ reply = [r \in Request |-> "none"]
  /\ shown = [r \in Request |-> 0]
  /\ applied = {}
  /\ faults = 0

-----------------------------------------------------------------------------
(* Control *)

IsTransfer(r) == call[r].op = "transfer"

FirstUnordered(c) == c.from   \* mutant: Transfer locks its source first

\* Mutexes and rows are locked in ascending WalletID order.
First(c) == IF c.op = "transfer" /\ c.to < c.from THEN c.to ELSE c.from
Second(c) == IF First(c) = c.from THEN c.to ELSE c.from

\* The wallet that the next step of r locks, reads or writes.
Target(r) ==
  IF pc[r] \in {"lock", "lockRow", "lateRow"} THEN First(call[r])
  ELSE IF pc[r] \in {"lockSecond", "lockRowSecond", "lateRowSecond"} THEN Second(call[r])
  ELSE IF pc[r] \in {"appendCredit", "updateCredit", "lateCredit"} THEN call[r].to
  ELSE call[r].from

\* What follows each successful step in applyDelta, Transfer and SuspendWallet.
AfterDelta == [lock |-> "read", read |-> "begin", begin |-> "append", append |-> "foreignKey",
               foreignKey |-> "update", update |-> "commit"]
AfterTransfer == [lock |-> "lockSecond", lockSecond |-> "begin", begin |-> "lockRow",
                  lockRow |-> "lockRowSecond", lockRowSecond |-> "validate",
                  validate |-> "append", append |-> "appendCredit", appendCredit |-> "update",
                  update |-> "updateCredit", updateCredit |-> "commit"]
AfterSuspend == [lock |-> "status"]
NextLabel(r) == IF IsTransfer(r) THEN AfterTransfer[pc[r]]
                ELSE IF call[r].op = "suspend" THEN AfterSuspend[pc[r]]
                ELSE AfterDelta[pc[r]]

Goto(r, label) == pc' = [pc EXCEPT ![r] = label]

\* r goes on, leaving the rest of the request's state as it is.
Continue(r) ==
  /\ Goto(r, NextLabel(r))
  /\ UNCHANGED <<call, inst, mutexes, seen, seenActive, reply, shown, applied, faults>>

\* r returns outcome; label is "unlock" if the function has deferred calls.
Return(r, label, outcome) ==
  /\ Goto(r, label)
  /\ reply' = [reply EXCEPT ![r] = outcome]
  /\ UNCHANGED <<call, inst, mutexes, seen, seenActive, shown, applied>>

\* An early return: the deferred Rollback discards the transaction, if any.
Abandon(r, error) == RollbackTx(r) /\ Return(r, "unlock", error)
Fail(r, error) == Abandon(r, error) /\ UNCHANGED faults

-----------------------------------------------------------------------------
(* Arrival and replay detection *)

ArrivalError(c) ==
  IF c.op # "suspend" /\ c.key = NoKey THEN "ErrIdempotencyKeyRequired"
  ELSE IF c.op = "transfer" /\ c.from = c.to THEN "ErrSameWallet"
  ELSE "none"

Arrive(r, c, i) ==
  /\ pc[r] = "idle"
  /\ call' = [call EXCEPT ![r] = c]
  /\ inst' = [inst EXCEPT ![r] = i]
  /\ reply' = [reply EXCEPT ![r] = ArrivalError(c)]
  /\ Goto(r, IF ArrivalError(c) # "none" THEN "done"
             ELSE IF c.op = "suspend" THEN "lock"
             ELSE "lookup")
  /\ UNCHANGED <<dbVars, mutexes, seen, seenActive, shown, applied, faults>>

\* Mutant: FindByIdempotencyKey reads uncommitted rows.
KeyFoundDirty(k) == KeyCommitted(k) \/ \E s \in Request : \E n \in 1..Len(inserted[s]) : inserted[s][n].key = k

\* What FindByIdempotencyKey sees.
KeyFound(k) == KeyCommitted(k)

Lookup(r) ==
  /\ pc[r] = "lookup"
  /\ \/ /\ ~KeyFound(call[r].key)
        /\ Goto(r, "lock")
        /\ UNCHANGED reply
     \/ /\ KeyFound(call[r].key)
        /\ IsTransfer(r)
        /\ Goto(r, "done")
        /\ reply' = [reply EXCEPT ![r] = "ok"]
     \/ /\ KeyFound(call[r].key)
        /\ ~IsTransfer(r)
        /\ Goto(r, "replay")
        /\ UNCHANGED reply
  /\ UNCHANGED <<dbVars, call, inst, mutexes, seen, seenActive, shown, applied, faults>>

\* The replayed Topup or Pay returns the wallet of the entry that has the key.
Replay(r) ==
  /\ pc[r] = "replay"
  /\ \E n \in 1..Len(ledger) :
       /\ ledger[n].key = call[r].key
       /\ shown' = [shown EXCEPT ![r] = balance[ledger[n].wallet]]
  /\ Goto(r, "done")
  /\ reply' = [reply EXCEPT ![r] = "ok"]
  /\ UNCHANGED <<dbVars, call, inst, mutexes, seen, seenActive, applied, faults>>

-----------------------------------------------------------------------------
(* The per-wallet mutexes of one instance.  lockFor finds them in a map from *)
(* the id as the client spelled it, so that requests that spell an id in     *)
(* different ways do not share its mutex.                                    *)

NoMutexHolders(r, w) == {}   \* mutant: no mutexes

SameMutexes(q, r) == inst[q] = inst[r] /\ call[q].spelled = call[r].spelled

\* mutant: applyDelta takes a read lock
ReadLockHolders(r, w) ==
  {q \in Request \ {r} : SameMutexes(q, r) /\ w \in mutexes[q]
                         /\ {call[q].op, call[r].op} \cap {"transfer", "suspend"} # {}}

MutexHolders(r, w) == {q \in Request \ {r} : SameMutexes(q, r) /\ w \in mutexes[q]}

LockWallet(r) ==
  /\ pc[r] \in {"lock", "lockSecond"}
  /\ MutexHolders(r, Target(r)) = {}
  /\ mutexes' = [mutexes EXCEPT ![r] = @ \cup {Target(r)}]
  /\ Goto(r, NextLabel(r))
  /\ UNCHANGED <<dbVars, call, inst, seen, seenActive, reply, shown, applied, faults>>

ReleasedFirst(r) == {First(call[r])}   \* mutant: Transfer unlocks one of its mutexes

Released(r) == mutexes[r]

\* The function returns: its deferred Unlocks run, its local variables are gone.
Unlock(r) ==
  /\ pc[r] = "unlock"
  /\ mutexes' = [mutexes EXCEPT ![r] = @ \ Released(r)]
  /\ seen' = [seen EXCEPT ![r] = NoBalances]
  /\ seenActive' = [seenActive EXCEPT ![r] = {}]
  /\ Goto(r, "done")
  /\ UNCHANGED <<dbVars, call, inst, reply, shown, applied, faults>>

-----------------------------------------------------------------------------
(* applyDelta reads the wallet outside any transaction, without a row lock *)

\* Mutant: applyDelta does not look at the status.
DeltaErrorUnguarded(c) ==
  IF c.from \notin Wallet THEN "ErrWalletNotFound"
  ELSE IF CentsOf(c) = Rejected THEN "ErrInvalidAmount"
  ELSE IF Wrap(balance[c.from] + Delta(c, c.from)) < 0 THEN "ErrInsufficientBalance"
  ELSE "none"

DeltaError(c) ==
  IF c.from \notin Wallet THEN "ErrWalletNotFound"
  ELSE IF status[c.from] = "suspended" THEN "ErrWalletSuspended"
  ELSE IF CentsOf(c) = Rejected THEN "ErrInvalidAmount"
  ELSE IF Wrap(balance[c.from] + Delta(c, c.from)) < 0 THEN "ErrInsufficientBalance"
  ELSE "none"

ReadWallet(r) ==
  /\ pc[r] = "read"
  /\ \/ /\ DeltaError(call[r]) = "none"
        /\ seen' = [seen EXCEPT ![r][call[r].from] = balance[call[r].from]]
        /\ seenActive' = [seenActive EXCEPT ![r] = {call[r].from}]
        /\ Goto(r, NextLabel(r))
        /\ UNCHANGED <<dbVars, call, inst, mutexes, reply, shown, applied, faults>>
     \/ /\ DeltaError(call[r]) # "none"
        /\ Fail(r, DeltaError(call[r]))

Begin(r) ==
  /\ pc[r] = "begin"
  /\ BeginTx(r)
  /\ Continue(r)

-----------------------------------------------------------------------------
(* The statements of the transaction *)

\* The open transactions that the next statement of r waits for, or the one that the
\* database still executes for it.
Blockers(r) ==
  IF pc[r] \in {"lockRow", "lockRowSecond", "update", "updateCredit",
                "lateRow", "lateRowSecond", "lateUpdate"}
    THEN UpdateBlockers(r, Target(r))
  ELSE IF pc[r] \in {"foreignKey", "status", "inFlight", "lateForeignKey"}
    THEN ShareBlockers(r, Target(r))
  ELSE IF pc[r] \in {"append", "appendCredit", "lateInsert", "lateCredit"}
    THEN KeyBlockers(r, EntryKey(call[r], Target(r)))
  ELSE {}

\* Transfer reads each wallet with SELECT ... FOR UPDATE.
GetAndLock(r) ==
  LET w == Target(r) IN
  /\ pc[r] \in {"lockRow", "lockRowSecond"}
  /\ \/ /\ w \notin Wallet
        /\ Fail(r, "ErrWalletNotFound")
     \/ /\ w \in Wallet
        /\ Blockers(r) = {}
        /\ LockRowAs(r, w, "update")
        /\ seen' = [seen EXCEPT ![r][w] = balance[w]]
        /\ seenActive' = [seenActive EXCEPT ![r] =
                            IF status[w] = "active" THEN @ \cup {w} ELSE @]
        /\ Goto(r, NextLabel(r))
        /\ UNCHANGED <<call, inst, mutexes, reply, shown, applied, faults>>

\* Mutant: Transfer does not look at the funds.
TransferErrorUnfunded(r) ==
  LET c == call[r] IN
  IF CentsOf(c) = Rejected THEN "ErrInvalidAmount"
  ELSE IF ~(Legs(c) \subseteq seenActive[r]) THEN "ErrWalletSuspended"
  ELSE IF CurrencyOf[c.from] # CurrencyOf[c.to] THEN "ErrCurrencyMismatch"
  ELSE "none"

TransferError(r) ==
  LET c == call[r] IN
  IF CentsOf(c) = Rejected THEN "ErrInvalidAmount"
  ELSE IF ~(Legs(c) \subseteq seenActive[r]) THEN "ErrWalletSuspended"
  ELSE IF CurrencyOf[c.from] # CurrencyOf[c.to] THEN "ErrCurrencyMismatch"
  ELSE IF OwnerOf[c.from] = OwnerOf[c.to] THEN "ErrSameWallet"
  ELSE IF Wrap(seen[r][c.from] - CentsOf(c)) < 0 THEN "ErrInsufficientBalance"
  ELSE "none"

Validate(r) ==
  /\ pc[r] = "validate"
  /\ \/ /\ TransferError(r) = "none"
        /\ Continue(r)
        /\ UNCHANGED dbVars
     \/ /\ TransferError(r) # "none"
        /\ Fail(r, TransferError(r))

\* AppendLedger, up to the insert into the unique index.
AppendLedger(r) ==
  LET e == Entry(call[r], Target(r)) IN
  /\ pc[r] \in {"append", "appendCredit"}
  /\ \/ /\ ~Storable(e.key)
        /\ Fail(r, "ErrValueTooLong")
     \/ /\ Storable(e.key)
        /\ UniqueViolation(e.key)
        /\ Fail(r, "ErrUniqueViolation")
     \/ /\ Storable(e.key)
        /\ ~UniqueViolation(e.key)
        /\ Blockers(r) = {}
        /\ InsertEntry(r, e)
        /\ Continue(r)

\* The foreign-key check that ends the insert.  Transfer holds the rows already.
ForeignKey(r) ==
  /\ pc[r] = "foreignKey"
  /\ Blockers(r) = {}
  /\ LockRowAs(r, Target(r), "keyshare")
  /\ Continue(r)

NewBalance(r, w) == Wrap(seen[r][w] + Delta(call[r], w))
NeverStale(r, w) == FALSE                         \* mutant: no expectedBalance
StaleAlways(r, w) == balance[w] # NewBalance(r, w) \* mutant: the new balance is expected

Stale(r, w) == balance[w] # seen[r][w]

UpdateBalance(r) ==
  LET w == Target(r) IN
  /\ pc[r] \in {"update", "updateCredit"}
  /\ Blockers(r) = {}
  /\ \/ /\ Stale(r, w)
        /\ Fail(r, "ErrOptimisticLock")
     \/ /\ ~Stale(r, w)
        /\ WriteBalance(r, w, NewBalance(r, w))
        /\ Continue(r)

Commit(r) ==
  /\ pc[r] = "commit"
  /\ CommitTx(r)
  /\ applied' = applied \cup {r}
  /\ shown' = [shown EXCEPT ![r] = txBalance[r][call[r].from]]
  /\ reply' = [reply EXCEPT ![r] = "ok"]
  /\ Goto(r, "unlock")
  /\ UNCHANGED <<call, inst, mutexes, seen, seenActive, faults>>

UpdateStatus(r) ==
  /\ pc[r] = "status"
  /\ \/ /\ call[r].from \notin Wallet
        /\ Fail(r, "ErrWalletNotFound")
     \/ /\ call[r].from \in Wallet
        /\ Blockers(r) = {}
        /\ WriteStatus(call[r].from, "suspended")
        /\ Return(r, "unlock", "ok")
        /\ UNCHANGED faults

-----------------------------------------------------------------------------
(* Failures *)

\* r is blocked by requests that are blocked in turn, round a cycle back to r.
Deadlocked(r) ==
  \E n \in 2..Cardinality(Request) : \E p \in [0..n -> Request] :
    /\ p[0] = r /\ p[n] = r
    /\ \A k \in 1..n : p[k] \in Blockers(p[k - 1])

\* Postgres's deadlock detector aborts the statement of one of them.
DeadlockVictim(r) ==
  /\ pc[r] \notin Dead
  /\ Blockers(r) # {}
  /\ Deadlocked(r)
  /\ Fail(r, "ErrDeadlock")

CountFault == faults < MaxFaults /\ faults' = faults + 1

\* applyDelta and Transfer go on as if the key were new when the lookup fails.
LookupFault(r) ==
  /\ pc[r] = "lookup"
  /\ CountFault
  /\ Goto(r, "lock")
  /\ UNCHANGED <<dbVars, call, inst, mutexes, seen, seenActive, reply, shown, applied>>

\* A statement fails with a storage error before it takes effect.
StorageFault(r) ==
  /\ pc[r] \in Reading \cup Writing \cup {"begin", "status"}
  /\ CountFault
  /\ Abandon(r, "ErrStorage")

\* The statement that makes the request's effect permanent, without its answer.
TakeEffect(r) ==
  \/ /\ call[r].op # "suspend"
     /\ CommitTx(r)
     /\ applied' = applied \cup {r}
  \/ /\ call[r].op = "suspend"
     /\ call[r].from \in Wallet
     /\ Blockers(r) = {}
     /\ WriteStatus(call[r].from, "suspended")
     /\ UNCHANGED applied

\* The connection is lost after that statement took effect.
AnswerLost(r) ==
  /\ pc[r] \in {"commit", "status"}
  /\ CountFault
  /\ TakeEffect(r)
  /\ reply' = [reply EXCEPT ![r] = "ErrStorage"]
  /\ Goto(r, "unlock")
  /\ UNCHANGED <<call, inst, mutexes, seen, seenActive, shown>>

\* The statement in execution when the process dies.  A transfer's updates lock no
\* row that it has not locked before: only statements that may wait have a label.
LateDelta == [append |-> "lateInsert", foreignKey |-> "lateForeignKey", update |-> "lateUpdate",
              commit |-> "inFlight"]
LateTransfer == [lockRow |-> "lateRow", lockRowSecond |-> "lateRowSecond", append |-> "lateInsert",
                 appendCredit |-> "lateCredit", commit |-> "inFlight"]
LateSuspend == [status |-> "inFlight"]
LateLabels(r) == IF IsTransfer(r) THEN LateTransfer
                 ELSE IF call[r].op = "suspend" THEN LateSuspend
                 ELSE LateDelta

\* What a crash leaves of a request: the statement the database is executing if it
\* has arrived there, an open transaction, or nothing.
Remains(r, arrived) == IF arrived /\ pc[r] \in DOMAIN LateLabels(r) THEN LateLabels(r)[pc[r]]
                       ELSE IF r \in txOpen THEN "orphan"
                       ELSE "done"

\* The instance dies: its goroutines and mutexes are gone, its clients get no
\* answer; the database has yet to notice.
Crash(i) ==
  LET lost == {r \in Request : inst[r] = i /\ pc[r] \notin {"idle", "done"} \cup Dead} IN
  /\ lost # {}
  /\ CountFault
  /\ \E arrived \in SUBSET lost :
       pc' = [r \in Request |-> IF r \in lost THEN Remains(r, r \in arrived) ELSE pc[r]]
  /\ reply' = [r \in Request |-> IF r \in lost THEN "ErrConnectionLost" ELSE reply[r]]
  /\ mutexes' = [r \in Request |-> IF r \in lost THEN {} ELSE mutexes[r]]
  /\ seen' = [r \in Request |-> IF r \in lost THEN NoBalances ELSE seen[r]]
  /\ seenActive' = [r \in Request |-> IF r \in lost THEN {} ELSE seenActive[r]]
  /\ UNCHANGED <<dbVars, call, inst, shown, applied>>

\* The database completes the statement and finds nobody to answer.
LateEffect(r) ==
  /\ pc[r] = "inFlight"
  /\ TakeEffect(r)
  /\ Goto(r, "done")
  /\ UNCHANGED <<call, inst, mutexes, seen, seenActive, reply, shown, faults>>

\* A statement inside the transaction has waited, gets its lock and leaves an idle
\* transaction: the database looks at the connection only between statements.  An
\* insert ends with its foreign-key check; what an UPDATE writes nobody will see.
LateStatement(r) ==
  LET w == Target(r)
      e == Entry(call[r], w)
  IN
  /\ pc[r] \in Late
  /\ Blockers(r) = {}
  /\ \/ /\ pc[r] \in {"lateRow", "lateRowSecond", "lateUpdate"}
        /\ w \in Wallet
        /\ LockRowAs(r, w, "update")
        /\ Goto(r, "orphan")
     \/ /\ pc[r] \in {"lateInsert", "lateCredit"}
        /\ Storable(e.key)
        /\ ~UniqueViolation(e.key)
        /\ InsertEntry(r, e)
        /\ Goto(r, IF IsTransfer(r) THEN "orphan" ELSE "lateForeignKey")
     \/ /\ pc[r] = "lateForeignKey"
        /\ LockRowAs(r, w, "keyshare")
        /\ Goto(r, "orphan")
  /\ UNCHANGED <<call, inst, mutexes, seen, seenActive, reply, shown, applied, faults>>

\* No statement waits, or the one that does has failed or is the deadlock detector's
\* victim: the database notices that the connection is gone and rolls back.
DropConnection(r) ==
  /\ pc[r] \in Dead
  /\ Blockers(r) = {} \/ Deadlocked(r)
  /\ RollbackTx(r)
  /\ Goto(r, "done")
  /\ UNCHANGED <<call, inst, mutexes, seen, seenActive, reply, shown, applied, faults>>

-----------------------------------------------------------------------------
Step(r) ==
  \/ Lookup(r) \/ Replay(r) \/ LockWallet(r) \/ ReadWallet(r) \/ Begin(r)
  \/ GetAndLock(r) \/ Validate(r) \/ AppendLedger(r) \/ ForeignKey(r)
  \/ UpdateBalance(r) \/ Commit(r) \/ UpdateStatus(r) \/ Unlock(r)
  \/ DeadlockVictim(r) \/ LateEffect(r) \/ LateStatement(r) \/ DropConnection(r)

Fault(r) == LookupFault(r) \/ StorageFault(r) \/ AnswerLost(r)

\* Every request has been answered: the program idles.
Quiet == (\A r \in Request : pc[r] = "done") /\ UNCHANGED vars

Next ==
  \/ \E r \in Request, c \in Call, i \in Instance : Arrive(r, c, i)
  \/ \E r \in Request : Step(r) \/ Fault(r)
  \/ \E i \in Instance : Crash(i)
  \/ Quiet

Spec == Init /\ [][Next]_vars

\* Goroutines are scheduled; Postgres executes statements, also those of dead
\* processes, detects deadlocks and notices dead connections.  Nothing makes clients
\* call or storage fail.
FairSpec == Spec /\ \A r \in Request : WF_vars(Step(r))

-----------------------------------------------------------------------------
(* Properties *)

\* Type invariant.
TypeOK ==
  /\ DbTypeOK
  /\ pc \in [Request -> Label]
  /\ call \in [Request -> Call]
  /\ inst \in [Request -> Instance]
  /\ mutexes \in [Request -> SUBSET WalletID]
  /\ seen \in [Request -> [Wallet -> Int64]]
  /\ seenActive \in [Request -> SUBSET Wallet]
  /\ reply \in [Request -> Reply]
  /\ shown \in [Request -> Int64]
  /\ applied \subseteq Request
  /\ faults \in 0..MaxFaults

\* A wallet's stored balance is the sum of its ledger entries, whatever requests
\* interleave, fail or crash (LedgerEntry: "should always be reconstructable").
\* Transfer does not check its credit for overflow: where the sum has left the
\* range of int64, the balance is what addition modulo 2^64 makes of it.
Reconciled ==
  \A w \in Wallet : /\ (balance[w] - LedgerSum(ledger, w)) % Modulus = 0
                    /\ LedgerSum(ledger, w) \in Int64 => balance[w] = LedgerSum(ledger, w)

\* The ledger, read in commit order, does not take a wallet below zero before a
\* credit has taken it beyond the largest balance: no debit is validated against
\* a balance that another commit has since reduced.
NoOverdraft ==
  \A w \in Wallet :
    LET after(n) == LedgerSum(SubSeq(ledger, 1, n), w)
        posted   == Len(OpeningLedger)..Len(ledger)
    IN  \A n \in posted : (\A m \in posted : m <= n => after(m) <= MaxInt) => after(n) >= 0

\* A request's transaction is all or nothing: past the opening entries the ledger
\* consists of the entries of the applied requests, each complete and no other
\* entry, and a request that was applied is answered "ok" or gets no answer.
AllOrNothing ==
  LET postings == {ledger[n] : n \in Len(OpeningLedger) + 1..Len(ledger)}
  IN  /\ postings = UNION {{Entry(call[r], w) : w \in Legs(call[r])} : r \in applied}
      /\ \A r \in applied : reply[r] \in {"ok"} \cup UnknownOutcome

\* However often clients retry, concurrently, after an error, a lost answer or a
\* crash, or on another instance, a key is applied once: not by two requests,
\* and not when a committed entry already carried it.
AtMostOnce ==
  /\ \A q, r \in applied : q # r => call[q].key # call[r].key
  /\ \A r \in applied, n \in 1..Len(OpeningLedger) : OpeningLedger[n].key # call[r].key

\* What a client was told has happened has: a request answered "ok" has its key
\* in the committed ledger, or its wallet suspended.
AcknowledgedIsDurable ==
  \A r \in Request : reply[r] = "ok" =>
    IF call[r].op = "suspend" THEN status[call[r].from] = "suspended"
                              ELSE KeyCommitted(call[r].key)

\* A request that has been answered keeps no mutex, row lock or open transaction,
\* on any of the error paths: it can never block a later one.
NothingLeaks ==
  \A r \in Request : pc[r] \in {"idle", "done"} =>
    mutexes[r] = {} /\ rowLock[r] = NoLocks /\ inserted[r] = << >> /\ r \notin txOpen

\* A client told to retry, ErrOptimisticLock, lost to another request on one of
\* its wallets that did commit: conflicting requests never all lose.
ConflictHasAWinner ==
  \A r \in Request : reply[r] = "ErrOptimisticLock" =>
    \E q \in applied \ {r} : Legs(call[q]) \cap Legs(call[r]) # {}

\* A top-up or payment answered "ok" shows a balance that its wallet has had: the
\* one its own entry led to if the request was executed; if it was a replay, one
\* from then on, which need not be what the first answer showed.
AnswersAreBalances ==
  \A r \in Request : reply[r] = "ok" /\ call[r].op \in {"topup", "payment"} =>
    \E n \in 1..Len(ledger) :
      /\ ledger[n].key = call[r].key
      /\ \E m \in n..Len(ledger) :
           /\ (shown[r] - LedgerSum(SubSeq(ledger, 1, m), ledger[n].wallet)) % Modulus = 0
           /\ r \in applied => m = n

\* With one instance, and one spelling of each id, the mutexes serialise the
\* requests on a wallet: none fails because of another one on the same wallet.
NoSpuriousConflict ==
  \A r \in Request : reply[r] \notin {"ErrOptimisticLock", "ErrDeadlock"}

\* No cycle of requests each blocked by the next, on a mutex, a row lock or an
\* uncommitted idempotency key.
WaitsFor(r) == Blockers(r) \cup
               (IF pc[r] \in {"lock", "lockSecond"} THEN MutexHolders(r, Target(r)) ELSE {})
NoWaitCycle ==
  ~ \E n \in 1..Cardinality(Request) : \E p \in [0..n -> Request] :
      p[0] = p[n] /\ \A k \in 1..n : p[k] \in WaitsFor(p[k - 1])

\* service.go on Transfer: the ascending order of the ids prevents deadlocks.  It does
\* so among any transfers and suspensions, however many processes make them: in
\* every cycle of waiting requests there is a top-up or a payment whose transaction
\* has inserted its entry and waits for the wallet's row, which Transfer locks first.
RowAfterEntry(r) == ~IsTransfer(r) /\ pc[r] \in {"foreignKey", "update", "lateForeignKey", "lateUpdate"}
OnlyDeltasDeadlock ==
  \A n \in 1..Cardinality(Request) : \A p \in [0..n -> Request] :
    p[0] = p[n] /\ (\A k \in 1..n : p[k] \in WaitsFor(p[k - 1])) =>
      \E k \in 1..n : RowAfterEntry(p[k])

\* With one instance, and one spelling of each id, the mutexes leave no cycle among
\* the requests of the running process.  What a dead process has left can be in one,
\* with requests that lock the mutexes anew: then a statement of it is waiting too.
NoLiveCycle ==
  \A n \in 1..Cardinality(Request) : \A p \in [0..n -> Request] :
    p[0] = p[n] /\ (\A k \in 1..n : p[k] \in WaitsFor(p[k - 1])) =>
      \E k \in 1..n : pc[p[k]] \in Late

\* SuspendWallet: no money moves on a wallet once it is suspended.
Posted(w) == balance'[w] # balance[w] \/ \E n \in Len(ledger) + 1..Len(ledger') : ledger'[n].wallet = w
SuspendedIsFrozen == [][\A w \in Wallet : status[w] = "suspended" => ~Posted(w)]_vars

\* The row locks of Transfer hold a suspension off until it has committed, also
\* when the suspension is made by another instance.
TransfersRespectSuspension ==
  [][\A n \in Len(ledger) + 1..Len(ledger') :
       ledger'[n].operation \in {"transfer_out", "transfer_in"} =>
         status[ledger'[n].wallet] = "active"]_vars

\* Under whatever concurrency, crashes and retries, the database goes through
\* states that a wallet executing one call at a time goes through: each commit
\* posts a whole call, whose key is new and whose funds are there at that moment.
\* Only transfers are sure not to post on a suspended wallet; where one instance
\* runs, never fails, and gets each id in one spelling, the mutexes protect
\* top-ups and payments too.
OneMutexEach == /\ \A i, j \in Instance : i = j
                /\ \A c, d \in Call : c.spelled = d.spelled
                /\ MaxFaults = 0
GuardedOps == IF OneMutexEach THEN MoneyOp ELSE {"transfer"}
Atomic == INSTANCE AtomicWallet
AtomicSpec == Atomic!Spec

\* Every request that arrives returns: neither the mutexes, nor the row locks,
\* nor waiting for another transaction's key stop it for ever.
EveryRequestReturns == \A r \in Request : pc[r] # "idle" ~> pc[r] = "done"

-----------------------------------------------------------------------------
(* What the repository says of the operations and they do not do: each of   *)
(* these is refuted by a run.                                               *)

\* wallet.go on the Balance of a Wallet: "Never negative - enforced by Service".
NonNegative == \A w \in Wallet : balance[w] >= 0

\* README, on idempotency keys: "a second request with the same key returns the
\* same result without re-executing the operation".
SameResult ==
  \A q \in applied, r \in Request :
    q # r /\ call[r] = call[q] /\ {pc[q], pc[r]} = {"done"} /\ reply[q] = "ok" =>
      reply[r] = "ok" /\ (~IsTransfer(r) => shown[r] = shown[q])

\* repository.go promises ErrIdempotencyConflict, "idempotency key already used
\* with different parameters": no second call is answered "ok" under the key of
\* another one that was applied.
KeyReuseRejected ==
  \A q \in applied, r \in Request :
    reply[r] = "ok" /\ call[r].op # "suspend" /\ call[r].key = call[q].key => call[r] = call[q]
=============================================================================
