# Verification of the e-wallet system

TLA+ models of the wallet service in `src/`, TLC runs that check them on small
instances, and TLAPS proofs of the properties that matter most for every number
of wallets, requests, program instances and faults.

## The system

| Part | Code | State | Operations |
| --- | --- | --- | --- |
| Money service | `wallet/service.go` 171-394 | `walletLocks`: a mutex per wallet id, in each process | `Topup`, `Pay` (both `applyDelta`), `Transfer`, `SuspendWallet` |
| Registration | `wallet/service.go` 97-156 | none of its own | `CreateOwner`, `CreateWallet` |
| Queries | `wallet/service.go` 111-169, 376-410 | none | `ListOwners`, `ListWallets`, `GetWallet`, `LedgerHistory` |
| Amounts | `wallet/service.go` 438-491, `wallet/wallet.go` 77-95 | none | `parseAmountToCents`, `FormatCents` |
| Store | `storage/postgres/postgres.go`, `migrations/` | tables `owners`, `wallets`, `ledger_entries`; transactions, row locks | repositories, `UnitOfWork`, `Tx` |
| Connection pool | `db/db.go` | at most 25 connections per process | `Begin`, queries outside a transaction |
| HTTP | `handler/`, `response/` | none | binding, validation, error mapping |
| Lifecycle | `cmd/server/main.go` | none | migrate, serve, drain for 10 s |

How they interact. A handler checks the `Idempotency-Key` header and calls the
service in the goroutine of its HTTP request; nothing else runs in the process.
Two goroutines meet in two places: the mutexes of their process, and the
database, which other processes share. A top-up or a payment looks its key up,
locks the wallet's mutex, reads the wallet *outside* any transaction, validates,
and then inserts the ledger entry and updates the balance in one transaction,
which compares the balance with the one that was read. A transfer locks two
mutexes, then two rows, both in the order of the ids, and validates under these
locks. A suspension is one `UPDATE` under the mutex.

What is hard in it:

- *Two layers of locks.* Within a process the mutexes serialise a wallet's
  requests; between processes only row locks, the unique index on keys and the
  expected balance do. The read of `applyDelta` is covered by the first layer only.
- *Retries.* A lookup, made before any lock, and a unique index together make a
  key apply once. A transfer uses two keys, the client's and `key + "-credit"`.
- *Failure in the middle.* Any statement can fail; the answer of a commit can be
  lost; a process can die and leave its transaction, or a statement that the
  database is still executing, behind, while its mutexes are gone at once.
- *Implicit locks.* The foreign key of an inserted ledger entry takes a
  `FOR KEY SHARE` lock on the wallet's row that no Go code mentions.
- *Two clocks.* An entry's `created_at` is the start of its transaction; it takes effect
  at the end. A read and the next one are no transaction.
- *Check, then insert.* Two `CreateWallet` calls both find no wallet.
- *Start and stop.* Processes start together on one database, migrate it, and are
  killed at any point of it; a signal does different things before and after `Notify`.
- *Limits.* Balances are `int64`, so is the product in the parse of an amount, keys are
  `VARCHAR(100)`, the pool has 25 connections.

What makes each part correct:

- Money service: a call posts all its entries and moves the balances with them, or
  changes nothing; under a key never used before; from funds that are there; on
  wallets that are not suspended. Every request returns and leaves no lock behind.
- Store: a balance is the sum of its wallet's entries; a transaction is all or nothing.
- Registration: one wallet per owner and currency, whoever wins the race, and the
  status of an answer tells what the request did.
- Amounts: the cents are the decimal string rounded half up, and positive; what the
  client is shown it can send back.
- Queries: the history shows entries in the order they took effect and explains the
  balance; a read after an answer contains what was answered.
- Pool: a request on one wallet does not stop the requests on the others.
- HTTP: a conflict is never answered as a failure of the server.
- Lifecycle: nothing is served before the schema is there, processes that start together
  do not stop each other, a drained process leaves no request unanswered.

## The modules

| Module | Models | State and actions |
| --- | --- | --- |
| `Ledger` | calls, entries, amounts, 64-bit addition, `SumByWallet` | no state; the parameters of the system and their assumptions |
| `PgStore` | `wallets`, `ledger_entries`, transactions, row locks | one operator per SQL statement of `storage/postgres` |
| `WalletService` | `Topup`, `Pay`, `Transfer`, `SuspendWallet`, failures | composes `PgStore`; one action per statement, `Lock`, `Unlock`, fault |
| `AtomicWallet` | what the service promises | `Post(c)`, `Suspend(w)`: one call at a time |
| `WalletInvariant` | what a request may rely on at each point | the inductive invariants `IInv` and, on top of it, `AnswerInv` |
| `WalletServiceProofs` | | `IInv`, and the theorems that follow from it alone |
| `LedgerProofs` | | `LedgerSum` and 64-bit addition, for ledgers of any length |
| `MoneyProofs` | | `Reconciled`, `NoOverdraft` |
| `AnswerProofs` | | `AnswerInv`; what clients may rely on; conflicts and deadlocks |
| `ConnectionPool` | the connections of a process, `db/db.go` | composes `WalletService`: its steps, when a connection is free; `TakeConnection` |
| `ConnectionPoolProofs` | | the theorems carry over to any pool; which pools deadlock |
| `History` | `GetWallet`, `LedgerHistory` | composes `WalletService`; the queries of one client, `Stamp` for `NOW()` |
| `HistoryProofs` | | what clients read of wallets and histories |
| `Amounts` | `parseAmountToCents`, `FormatCents` | no state; rational arithmetic to compare with |
| `AmountSession` | the amount of a top-up, the balance shown, a payment of it | one action per request |
| `AmountProofs` | | what digits spell; the parse is the exact value rounded; parse and format are inverse |
| `Http` | `response.Success`, `response.Error` | no state; the status of an outcome |
| `Directory` | what the API promises of owners and wallets | one action per request |
| `Registration` | `CreateOwner`, `CreateWallet`, `ListOwners`, `ListWallets`, failures | uses `Http`; one action per statement |
| `Deployment` | `main`, `db.Connect`, `db.Migrate`, golang-migrate | composes `Registration`; one action per step of a process's life |
| `DeploymentInvariant` | what a start, and a request, may rely on at each point | the inductive invariant `DeployInv` |
| `DeploymentProofs` | | `DeployInv`, what follows from it, the refinement of `Directory` |
| `MC...` | | values of the constants for TLC |

Correspondence with the code. A request is a goroutine; `pc[r]` is the point it has
reached. A step is one SQL statement or one mutex operation together with the local
code that follows it: the goroutine's local code is invisible to the others.
`seen` and `seenActive` are the local variables `w`, `from`, `to`. `NextLabel` is
the order of the steps in each function, `Fail` is an error return together with
the deferred `Rollback`, `Unlock` the deferred unlocks. `mutexes[r]` holds the
mutexes of `inst[r]`, so a crash that clears it models a process whose memory is
gone. `Arrive` covers the check of the header and of equal wallet ids.

`AppendLedger` is up to two steps: the insert into the unique index, which waits
for an open transaction with the same key, and, in `applyDelta`, the foreign-key
check, which takes the key-share lock (`ForeignKey`). `Transfer` holds both rows
already. `UpdateBalance` is one step, `SELECT ... FOR UPDATE`, comparison and
`UPDATE` together: once the row is locked nobody can come between.

Postgres is external and modelled as the code uses it: `READ COMMITTED` (what
`BeginTx(ctx, nil)` opens), `FOR UPDATE` against `FOR KEY SHARE`, an insert that waits
for an uncommitted equal key, `UPDATE` of a status that waits for `FOR UPDATE` but not
for `FOR KEY SHARE`, locks held to the end of the transaction, a deadlock detector
that aborts one transaction of a cycle (`DeadlockVictim`, any of them).

Faults, up to `MaxFaults`: `LookupFault` (the error of the lookup is ignored by the
code), `StorageFault` (a statement fails before its effect), `AnswerLost` (the
effect is permanent, the answer is not delivered), `Crash(i)` (all requests of a
process at once). A crashed process is back at once: requests may arrive on `i` after the crash.

What a crash leaves in the database (`Remains`). For each request it is open whether the statement
that it had sent, if that is one that can wait, has arrived (`arrived`). If it has, Postgres goes on with it, for
it looks at the connection only between statements: a `COMMIT` or an `UPDATE` of a status takes effect
(`LateEffect`); an insert, its foreign-key check or a `SELECT ... FOR UPDATE` waits like that of a living request and
takes its lock (`Late`, `LateStatement`), holding what its transaction has locked before. Then the
transaction is idle (`orphan`). `DropConnection` rolls it back: when its statement has ended or failed, or
when the statement waits and the deadlock detector chooses it.

Abstractions. Ids are numbers, ordered as the id strings are; `Spelling` is the way a
client writes an id where the API does not validate it, which decides the mutex and
nothing else. A key is a text and its number of `-credit` suffixes, with the number
the column has room for. An amount is a string with a given result of the parse in
each currency. `MaxInt` stands for 2^63 - 1, and sums wrap as `int64` does. An entry's
currency, id and time are left out: the first is its wallet's, nothing tests the others.
When a connection is lost without a crash, the server side is taken to roll back
before the request returns; the window in which it has not noticed yet is modelled
for crashes only.

`ConnectionPool` adds the pool of `database/sql` to the same steps. A request holds a
connection from `Begin` to `Commit` or `Rollback` (`Held` reads it off `txOpen`), and
while its `UPDATE` of a status executes (`executing`), the only other statement that can
wait for a lock. Every other query outside a transaction needs a free connection at its
step and has returned it at the end of the step. `OwnerIsRead` is `owners.Get` in the middle of
a transfer's validation, which needs one more than the transfer holds.

`History` adds a client that asks for a wallet and then for its history while the
requests of `WalletService` run; `started` numbers the transactions in the order they
begin, which is the order of their `created_at`. `session.answered` are the requests that had been
answered "ok" when the client asked. `Place` is `ORDER BY created_at`: the entry comes after the older ones
of its wallet.

`Amounts` takes a text as its sign, the number before the point and the digits after it,
which is what the handlers' `numeric` tag lets through. `WalletService` has the results
of the parse as the constant `Cents`; the assumption `AmountsAreParsed` of
`MCWalletService` says that they are the ones `Amounts` computes.

`Registration` keeps the outcomes as the service returns them; `HttpStatus` is what the
client sees of them through `Http`, 0 if it sees nothing. Fields are accepted or
`Malformed`. Clients use the id of an owner once it exists, or one that never will.
`Deployment` lets requests arrive at processes that accept them (`Accepts`). `phase[i]` is
the point that `main` has reached; `Lock` to `MarkClean` are the statements of golang-migrate, an
external library: an advisory lock of the session, the row of `schema_migrations` marked
dirty before the migration and clean after it, `ErrDirty` for a version that is dirty.
"open" is the moment in which the serving goroutine accepts requests and `signal.Notify` has not
been called. A migration file is one statement to Postgres, all or nothing.
`Directory` has the same requests in one step each, and sees of `Registration` the rows, the calls and
the statuses: `Listing == INSTANCE Directory WITH answer <- ...`.

## The runs

`tlc -config <run>.cfg <module>.tla`, with `MCHistory` for `single_instance`,
`MCConnectionPool` for `pool` and `pool_deadlock`, `MCAmountSession` for `amounts`,
`MCDeployment` for `registration`, and `MCWalletService` for the others. Runs that pass:

| Run | Instance | Shows |
| --- | --- | --- |
| `single_instance` | 1 process, 3 requests, 2 wallets, `ContendingCalls`, a client that reads a wallet and its history | mutexes alone: `AnswerInv`, `NoSpuriousConflict`, `NoWaitCycle`, `SuspendedIsFrozen`, `AtomicSpec`; what queries see: `HistoryInOrder`, `HistoryExplainsBalance`, `ReadAfterWrite` |
| `two_instances` | 2 processes, 3 requests, 2 wallets, `ContendingCalls` | the database's layer: `Reconciled`, `NoOverdraft`, `AllOrNothing`, `AtMostOnce`, `ConflictHasAWinner`, `AnswersAreBalances`, `OnlyDeltasDeadlock`, `TransfersRespectSuspension`, `AtomicSpec` |
| `faults` | 2 processes, 2 requests, 3 wallets and an unknown id, 2 faults, `LimitCalls`, `MaxInt = 3` | every early return, the limits, failures: `TypeOK`, `IInv`, `Reconciled`, `AllOrNothing`, `AtMostOnce`, `AcknowledgedIsDurable`, `NothingLeaks`, `EveryRequestReturns` |
| `pool` | 1 process that can die and restart, 2 connections, 3 requests, 2 wallets, 1 fault, `PooledCalls` | connections are returned on every path, mutexes keep a process below its limit, and what a dead process left meets the requests of the next one: `NoPoolDeadlock`, `NoLiveCycle`, `EveryRequestReturns` |
| `amounts` | texts with 9 whole parts, up to 4 of 5 decimals, 3 signs, 3 currencies, `MaxInt = 511` | the parse against rational arithmetic: `TypeOK`, `RoundsHalfUp`, `CreditedAmount`, `ShownIsPayable` |
| `registration` | 2 processes, 2 starts, 2 requests, a new or a used database, 1 fault | the life of processes and the requests they serve: `TypeOK`, `DeployInv`, `DirectorySpec`, `ServerErrorsAreFaults`, `ServesOnSchema`, `StartsFailOnlyDirty`, `OnlyCutInstancesDropRequests`, `NothingHangs` |

The bounds. `ContendingCalls` are the calls that can conflict: two debits of which only one
has funds, transfers in opposite directions, a top-up under the credit key of a
transfer, the same key with another call, a suspension; each request chooses
any of them, so that retries of a call are included. Three requests make a cycle
of three and let a third request see what two have left; two wallets are what a
transfer has. `LimitCalls` has a call for each error the operations return. Two faults
allow a failed lookup and then a crash, a crash and a failure of the retry, and
the crash of both processes. With `MaxInt = 3` a top-up and a transfer overflow.
A request is one call; a client that retries is a second request with the same call.
In `pool` transfers share their two wallets, so that at most one of them
is in its transaction: two connections are the fewest with which it can finish. Two payments of
one wallet are enough for a dead one that holds its key-share lock and asks for the row to form a cycle with a
living one: TLC refutes `NoWaitCycle` in this run. Postgres resolves that cycle, so that it is no `Stuck` set.
In `amounts` 10-bit integers put each case of the overflow (refused, positive, carried over
the edge) within reach of three digits; four decimals are one more than the parse looks at.
`CHECK_DEADLOCK FALSE` there: the session ends. In `registration` two starts are two
processes that migrate at once, or one that dies in its migration and starts again; two requests
are a race for a pair, a retry, or a list beside an insert; `DocumentedCalls` has owners that
exist, that are registered on the way and that do not exist; a fault is a failed statement, a lost
answer, a crash or a missed deadline, and signals come on top at any time.

Fairness. `FairSpec` asserts weak fairness of every request's steps: the Go
scheduler runs a runnable goroutine, a `sync.Mutex` is not refused for ever (its
starvation mode hands it to the oldest waiter), Postgres executes a statement whose locks
are free, grants locks in queue order, goes on with the statements of dead processes, detects deadlocks and notices
dead connections.
Nothing forces clients to call or faults to happen. `EveryRequestReturns` needs no
strong fairness here because each request takes a lock once: the others
cannot take it from under it again and again. In `Deployment` the steps of a start and
the end of a drain are weakly fair too, starts, signals and faults are not. The advisory
lock is granted in queue order, and the starts are bounded, so weak fairness is enough.

Runs that refute what the repository says (`findings` of `PROJECT.json` quote it):

| Run | Claim | What happens |
| --- | --- | --- |
| `suspend_race` | after `SuspendWallet` top-ups and payments are rejected | a request that does not share the suspension's mutex has read `ACTIVE` before and posts after it: in another process, or in the same one under another spelling of the id |
| `upgrade_deadlock` | of two processes one waits for the other's commit | both hold the key-share lock of their insert, then ask for the row: deadlock. `OnlyDeltasDeadlock` says that this order, entry first and row afterwards, is in every deadlock |
| `retry_race` | a second request with the key gets the same result | if it overlaps the first it gets the unique violation, a 500 |
| `key_reuse` | a key with other parameters is a conflict | it is answered ok, and not executed |
| `credit_overflow` | a balance is never negative | the credit of a transfer is added without a check |
| `pool_deadlock` | operations on different wallets never block each other | as many transfers as connections, each waiting for a second one, for ever |

None of these makes or loses money: `AtomicSpec` holds, by proof, in all of them. But
`AtomicWallet` adds as `int64` does, so that it allows the negative balance of `credit_overflow`.

What else the repository says and the passing runs bear out the limits of:

- `LedgerHistory` is in order with one process. Add a second one to `Instance` of
  `single_instance.cfg` and TLC refutes `HistoryInOrder` and `HistoryExplainsBalance`: a transfer
  begins before it locks its rows, so that of two transfers the first to begin can be the last to
  post. `ReadAfterWrite` still holds, by proof.
- Amounts beyond 2^63 cents are not always refused (`CreditedAmount` says what is credited);
  IDR is truncated where the README says it is rounded; an IDR amount of 0 is accepted.
- `ErrOwnerAlreadyExists` cannot occur: a repeated `CreateOwner` registers a second owner.
- `Http` answers `ErrIdempotencyKeyRequired`, which `response.Error` does not map, with 500,
  like a unique violation or a deadlock of the database; the handlers' comments list 400.
- A process killed during the migration needs a repair by hand before any process starts again.

## The proofs

`tlapm <module>.tla` checks a module's proofs: `LedgerProofs`, `WalletServiceProofs`, `MoneyProofs`,
`AnswerProofs`, `ConnectionPoolProofs`, `HistoryProofs`, `DeploymentProofs` and `AmountProofs`. No theorem bounds the number of wallets, ids, calls,
requests, instances, starts, ledger entries or faults, or the length of a text. Assumed are the properties of
the constants, which TLC evaluates in every run: in `Ledger` (among them
the unique wallet per owner and currency, and an opening ledger with
distinct keys and sums within the range), `ServiceAssumption`, `PoolAssumption`, `RegistrationAssumption`,
`DeploymentAssumption` and `WrittenAssumption`.

| Theorem | States |
| --- | --- |
| `TypeCorrect` | `TypeOK`; the numeric part is that no balance leaves 64 bits |
| `Inductive` | `IInv` |
| `KeysApplyOnce` | `AtMostOnce` |
| `NothingIsLeaked` | `NothingLeaks` |
| `ImplementsAtomicWallet` | `AtomicSpec`, the refinement |
| `SuspensionStopsTransfers` | `TransfersRespectSuspension` |
| `SuspensionFreezes` | `SuspendedIsFrozen`, if `OneMutexEach`: one instance, no faults, one spelling |
| `BalancesReconcile` | `Reconciled` |
| `NobodyOverdraws` | `NoOverdraft` |
| `AnswersInductive` | `AnswerInv` |
| `TransactionsAreWhole` | `AllOrNothing` |
| `AcknowledgementsHold` | `AcknowledgedIsDurable` |
| `SomebodyWins` | `ConflictHasAWinner` |
| `AnswersAreTrue` | `AnswersAreBalances` |
| `OrderPreventsDeadlock` | `OnlyDeltasDeadlock`, for any number of processes |
| `MutexesPreventConflicts` | `NoSpuriousConflict`, if `OneMutexEach` |
| `NoDeadlockWithoutFaults` | `NoWaitCycle`, if `OneMutexEach` |
| `MutexesPreventDeadlock` | `NoLiveCycle`, if `OneProcess`: one instance, one spelling, any faults |
| `PoolImplementsAtomicWallet` | `AtomicSpec` of `ConnectionPool`, for every `PoolSize` |
| `PoolLeaksNothing` | `NothingLeaks` of `ConnectionPool` |
| `OnlyOwnerReadsDeadlock` | if `OneProcess`, a deadlock of the pool without a waiting statement of a dead process is a pool full of transfers at `owners.Get` |
| `PoolsOfHalfTheWalletsSuffice` | `StuckOnTheDead`, if `OneProcess` and twice the connections exceed the wallets: every deadlock of the pool has a waiting statement of a dead process in it |
| `NothingSticksWithoutFaults` | `NoPoolDeadlock`, if `OneMutexEach` and twice the connections exceed the wallets |
| `ClientsReadTheirWrites` | `ReadAfterWrite` |
| `HistoriesAreInOrder` | `HistoryInOrder`, if `OneProcess` |
| `HistoriesExplainBalances` | `HistoryExplainsBalance`, if `OneProcess` |
| `DeploymentInductive` | `DeployInv` |
| `DeploymentTypes` | `TypeOK` of `Deployment` |
| `SchemaBeforeTraffic` | `ServesOnSchema` |
| `StartsDoNotCollide` | `StartsFailOnlyDirty` |
| `ShutdownDropsNothing` | `OnlyCutInstancesDropRequests` |
| `OnlyFaultsAnswer500` | `ServerErrorsAreFaults` |
| `ImplementsDirectory` | `DirectorySpec`, the refinement, if `Documented` |
| `CreditsAreNotNegative` | `TypeOK` of `AmountSession`: no balance below zero or beyond 64 bits |
| `AmountsRoundHalfUp` | `RoundsHalfUp`, for amounts of any length |
| `OtherAmountsWrapOrTruncate` | `CreditedAmount` |
| `ShownBalanceCanBePaid` | `ShownIsPayable` |
| `ParsedAmountsAreCents` | `AmountAssumption` of `Ledger` on `Cents` is what the parse returns |

*Steps and refinement of the money service.* None of the properties is inductive. What makes a commit safe is decided
several steps earlier, by checks on values that others can change, so `IInv` says at
each point of the code what is still true of them: `ValidationInv` for what cannot
change (the call, the rows' keys), `TransactionInv` for what the open
transaction holds at each point (at the commit, exactly the call's entries and wallets),
`KeyInv` for the unique index over committed and uncommitted rows, `RowLockInv` and
`LockedRowInv` for what a row lock freezes (a written balance is the committed one plus
the call's amount, and not negative for a debit), `MutexInv` for the mutexes, `ActiveInv`
for the status. A commit then is a `Post` of `AtomicWallet`, because the keys are
unused, the rows are locked and the written balance is computed from the committed one.
`ActiveInv` has the two halves of the suspension story: for transfers the row lock keeps the
status, for the others only the mutex does, hence the condition of `SuspensionFreezes`.
`ImplementsAtomicWallet` is stated with the `GuardedOps` of the instance at hand: all the
operations if `OneMutexEach`, transfers only otherwise, which is as much as the
code ensures.

*Sums.* `LedgerSum` folds over the ledger, and a fold is a recursive function of which the prover knows
nothing. `LedgerProofs` therefore builds the running sum itself: partial sums exist and agree, by
the least number principle, a consequence of the well-founded order of the naturals; and
the fold is the last running sum. What `SumOfAppend` and `SumOfPrefix` say of sums is then enough for the
rest. The invariant behind `Reconciled` is that balance and sum are congruent modulo 2^64, because a
commit adds to both, to one of them with wrapping; being in the range makes them equal as `int64`.
`NoOverdraft` looks at each entry: when a debit was posted the sum up to it was not negative,
unless an earlier credit of its wallet had wrapped. It holds of an entry at its commit
by `LockedRowInv`, and afterwards because what lies before an entry never changes.

*Answers.* `AnswerInv` is inductive together with `IInv`: `ScopeInv` says which mutexes and rows a request has locked, in
which order, `ReadingInv` that the balance `applyDelta` has read is the committed one or that another
request has been applied since, `ReplyInv` at which points a request may have which answer. Its last three
parts are the properties themselves.

*Waiting.* `OrderPreventsDeadlock` follows a path of requests that wait for each other and of which none is a top-up or
a payment that has inserted its entry. `NextInOrder`: who is waited for waits for something later. Waits for a mutex lead
to requests that wait for the mutex of a larger id, for a row or to insert; waits for a row to requests that
wait for the row of a larger id or to insert; waits to insert to transfers that insert their credit, whose key has one more
`-credit` suffix each time. No path comes back. What a dead process has left takes part in it: its
statements that wait do so as the living ones do, and its top-ups and payments with an entry are among those that break
the order. An open transaction with nothing to do is waited for and waits for nothing, and a `SuspendWallet` in flight
holds no lock. A top-up or a payment with its entry breaks the order, for it holds
a key and a share of the row when it asks for the row. Under `OneProcess` that does no harm among
the living, which is `MutexesPreventDeadlock`: a living request in its transaction holds the mutex of each row it locks, so
no other living one waits for its rows, and without a crash there is no one else (`NoDeadlockWithoutFaults`). The dead
hold no mutex: a dead top-up with its entry that asks for the row, and a new one of the same wallet that has inserted its
own, wait for each other until Postgres aborts one. `NoLiveCycle` therefore says that a waiting statement of a
dead process is in every cycle, and it cannot say more.

*The pool.* `PoolRefines`: each step of `ConnectionPool` is a step of
`WalletService` or takes a connection, so that every theorem on `WalletService` holds with any pool.
A deadlock of the pool is a set of requests that wait for each other or for connections (`Stuck`). Let no
waiting statement of a dead process be in it (`WithoutLate`). By the
argument above it is then not for mutexes, rows and keys alone: somebody in it waits for a connection,
hence all holders of one are in the set; and a member that holds one
can wait neither for a mutex nor, for ever, for a row or key. What is left is
`owners.Get`. A transfer that is there owns the mutexes of two wallets with rows (`OwnersNeedWallets`), so
there are at most half as many as wallets. `pool_deadlock` has four wallets and two connections: the bound is
the best possible. The program's 25 connections are safe for 49 wallets,
as long as nothing crashes. After a crash there is one more way to wait for ever, which is why
`StuckOnTheDead` has its exception: a dead transfer holds the row of A and waits for that of B; a living transfer
from B to a third wallet holds its rows and reads the owner, for which it needs a connection; the others are
with living requests that wait for A. Postgres sees no cycle of locks, for part of it runs through the pool.

*Queries.* `ReadAfterWrite`: when a client reads the balance, it reads the sum of the whole ledger, and
`ReaderInv` remembers how long the ledger was. What is committed later belongs to none of the
calls answered before (`NothingComesLate`), because of the unique index: their keys are taken, and
the credit of a transfer goes with the key of its debit. That `LedgerHistory`
lists each of the wallet's entries once is a fact about ranks in a strict order (`Listing`). `HistoryInOrder` compares the
order in which transactions begin with the order in which they commit. `BegunInv`: while one process
runs, who may still commit on a wallet has begun after all that have committed on it, because the mutex is taken
before `Begin`; and after those whose process died before, whose
commits may come late. `AllSumsAgree` then walks the ledger and the list together.

*Starts and registration.* `DeployInv`: who is in the migration holds the advisory lock, so that the version it read is still the
version when it writes it; where nobody migrates, a dirty version is what a process that was
cut short has left. For requests it says what each label has established: the owner it has
seen exists, because owners are never removed. `ImplementsDirectory` maps the insert that takes effect or is refused to the
step of `Directory`, every other statement to a stutter. Its hypothesis `Documented` says that
`ArrivalError`, what the handlers check, rejects exactly the calls that the API documents as invalid.

*Amounts.* The exact value of a text is a fraction that a recursive function spells (`Spelled`), and the prover knows no
recursion: `SpelledIsRead` shows, by the least number principle again, that it is what reading digit by digit gives, one
digit multiplying by ten and adding. `LeadingDigits` follows: the value lies between the number of its first
three decimals and the next thousandth, whatever comes after them. So the nearest cent depends on those three
alone, and `NearestIsRounded` makes it what `parseAmountToCents` computes, with the carry of a fraction that
rounds up to 100. The code computes it in `int64`: `CentsAreRounded` says that the result is congruent to the nearest
cent modulo 2^64, and equal to it where that fits. `ParsedAmountsAreCents` bounds the parse, wrapped products
included, and so justifies what `Ledger` assumes of `Cents`. `ShownIsRead` computes the parse of a
formatted balance, for each currency, back to the balance.

Only model-checked: `EveryRequestReturns` and `NothingHangs`. Liveness under fairness is beyond the prover; every other
property of a passing run is proved, some of them under the condition that the table names.

## Not modelled

- `docs/docs.go`: generated by `swag init`, no behaviour.
- Of `handler.go` and `response.go`: JSON decoding, the wording of validation errors
  (`parseValidationErrors`), envelopes, and the field `status` inside them. Middleware.
- Of `main.go`: `loadEnv`, `getEnv`, wiring.
- The trigger that forbids `UPDATE` and `DELETE` on the ledger: no code tries either, and
  the model's ledger only grows. `RETURNING` values. The growth of `walletLocks`. The order of
  `ListOwners` and `ListWallets`.
- An id in a path that is no UUID: Postgres fails the statement, as in `StorageFault`, and the answer is 500.
- `Deployment` composes the life of processes with registration; the money operations have
  the sudden end of a process as `Crash` of `WalletService`. Both together are out of TLC's
  reach, and they share nothing but the process and the rows of `wallets`, which
  `WalletService` has as a constant.

## Plan

1. (done) `Ledger`, `PgStore`, `WalletService`, `AtomicWallet`, `WalletInvariant`, `ConnectionPool`,
   their runs and theorems.
2. (done) `Amounts`, `History`, `Http`, `Directory`, `Registration`, `Deployment` and their runs.
3. (done) Theorems on the money, the answers, registration, deployment and amounts.
4. (done) The pools that are large enough; what clients read of histories.
5. (done) `RoundsHalfUp` and `CreditedAmount` for every text.
