--------------------------- MODULE ConnectionPool ---------------------------
(***************************************************************************)
(* WalletService with the connections of database/sql: an instance has     *)
(* PoolSize of them (25, set by Connect).  A query outside a transaction   *)
(* takes one for its own time, Begin takes one and keeps it until Commit   *)
(* or Rollback.  Who finds none waits, without a timeout: all operations   *)
(* use context.Background().                                               *)
(***************************************************************************)
EXTENDS WalletService

CONSTANT PoolSize

ASSUME PoolAssumption == PoolSize \in Nat \ {0}

\* The requests whose UPDATE of a status has a connection: it may wait for a row
\* lock while it holds it.  No other query outside a transaction waits.
VARIABLE executing

pooledVars == <<vars, executing>>

PoolInit == Init /\ executing = {}

\* Mutant: a transfer that fails on its funds keeps its connection.
HeldAfterFailure(i) ==
  {r \in Request : /\ inst[r] = i
                   /\ pc[r] \notin Dead
                   /\ r \in txOpen \cup executing \/ (IsTransfer(r) /\ reply[r] = "ErrInsufficientBalance")}

\* The requests that hold a connection of instance i; a dead process has none.
Held(i) == {r \in txOpen \cup executing : inst[r] = i /\ pc[r] \notin Dead}
Free(i) == PoolSize - Cardinality(Held(i))

\* Transfer's owners.Get does not go through its transaction: it takes a second
\* connection, if the validation gets that far.
OwnerIsRead(r) == /\ pc[r] = "validate"
                  /\ TransferError(r) \in {"none", "ErrSameWallet", "ErrInsufficientBalance"}

AsksForConnection(r) == \/ pc[r] \in {"lookup", "begin"} \cup Reading
                        \/ pc[r] = "status" /\ r \notin executing
                        \/ OwnerIsRead(r)

TakeConnection(r) ==
  /\ pc[r] = "status" /\ r \notin executing
  /\ Free(inst[r]) > 0
  /\ executing' = executing \cup {r}
  /\ UNCHANGED vars

\* r has the connection that its next step needs.
Served(r) == /\ AsksForConnection(r) => Free(inst[r]) > 0
             /\ pc[r] = "status" => r \in executing
StopExecuting == executing' = {q \in executing : pc'[q] = "status"}

PooledStep(r) == TakeConnection(r) \/ (Served(r) /\ Step(r) /\ StopExecuting)

PoolNext ==
  \/ \E r \in Request, c \in Call, i \in Instance : Arrive(r, c, i) /\ UNCHANGED executing
  \/ \E r \in Request : PooledStep(r) \/ (Served(r) /\ Fault(r) /\ StopExecuting)
  \/ \E i \in Instance : Crash(i) /\ StopExecuting
  \/ Quiet /\ UNCHANGED executing

PoolSpec == PoolInit /\ [][PoolNext]_pooledVars

\* database/sql hands a returned connection to a request that waits for one.
FairPoolSpec == PoolSpec /\ \A r \in Request : WF_pooledVars(PooledStep(r))

-----------------------------------------------------------------------------
\* Every member of S waits, for a member of S or, all connections of its instance
\* being held by members of S, for a connection; and there is no cycle of locks in
\* the database, which its deadlock detector would break.
Stuck(S) ==
  /\ S # {}
  /\ \A r \in S : /\ ~Deadlocked(r)
                  /\ \/ WaitsFor(r) \cap S # {}
                     \/ AsksForConnection(r) /\ Free(inst[r]) = 0 /\ Held(inst[r]) \subseteq S

\* service.go on walletLocks: "Operations on different wallets get different
\* mutexes and never block each other".  In particular requests never wait for
\* each other's connections for ever, which Postgres could not detect.
NoPoolDeadlock == \A S \in SUBSET Request : ~Stuck(S)
=============================================================================
