----------------------------- MODULE AnswerProofs -----------------------------
(***************************************************************************)
(* What clients are told, for every number of wallets, requests, instances *)
(* and faults: a transaction is all or nothing, an acknowledged one is     *)
(* durable, a conflict has a winner; and with one mutex for each wallet    *)
(* there are no conflicts, and no cycles of waiting requests unless what a *)
(* dead process has left waits in them.                                    *)
(***************************************************************************)
EXTENDS MoneyProofs

USE DEF Late, Dead

-----------------------------------------------------------------------------
(* How a step or a fault of a request answers it *)

\* The request goes on, or the rest of it is cleaned up.
SilentKind(r) ==
  /\ UNCHANGED <<reply, shown>>
  /\ \/ pc[r] = "unlock" /\ pc'[r] = "done"
     \/ pc[r] \in Dead /\ pc'[r] \in {"done"} \cup Dead /\ (~CommitKind(r) \/ pc'[r] = "done")
     \/ pc[r] \notin {"unlock"} \cup Dead /\ pc'[r] \notin Dead /\ ~CommitKind(r)
ReplayKind(r) ==
  /\ pc[r] \in {"lookup", "replay"} /\ pc'[r] = "done"
  /\ call[r].op # "suspend" /\ KeyCommitted(call[r].key)
  /\ reply' = [reply EXCEPT ![r] = "ok"]
  /\ UNCHANGED <<dbVars, applied>>
  /\ ~IsTransfer(r) => \E n \in 1..Len(ledger) :
                         /\ ledger[n].key = call[r].key
                         /\ shown' = [shown EXCEPT ![r] = balance[ledger[n].wallet]]
  /\ IsTransfer(r) => shown' = shown
AcknowledgeKind(r) ==
  /\ pc'[r] = "unlock"
  /\ reply' = [reply EXCEPT ![r] = "ok"]
  /\ \/ /\ CommitKind(r) /\ pc[r] = "commit"
        /\ shown' = [shown EXCEPT ![r] = txBalance[r][call[r].from]]
     \/ StatusKind(r) /\ shown' = shown
LostKind(r) ==
  /\ pc[r] \in {"commit", "status"} /\ pc'[r] = "unlock"
  /\ reply' = [reply EXCEPT ![r] = "ErrStorage"]
  /\ CommitKind(r) \/ StatusKind(r)
  /\ UNCHANGED shown
FailKind(r) ==
  /\ pc[r] \notin {"unlock"} \cup Dead /\ pc'[r] = "unlock"
  /\ RollbackKind(r)
  /\ UNCHANGED shown
  /\ \E e \in Reply \ {"none", "ok"} :
       /\ reply' = [reply EXCEPT ![r] = e]
       /\ e = "ErrOptimisticLock" => pc[r] \in {"update", "updateCredit"} /\ Stale(r, Target(r))
       /\ e = "ErrDeadlock" => Deadlocked(r)

LEMMA FailAnswers ==
  ASSUME TypeInv, NEW r \in Request, NEW e \in Reply \ {"none", "ok"}, Abandon(r, e),
         pc[r] \notin {"unlock"} \cup Dead,
         e = "ErrOptimisticLock" => pc[r] \in {"update", "updateCredit"} /\ Stale(r, Target(r)),
         e = "ErrDeadlock" => Deadlocked(r)
  PROVE  FailKind(r)
BY DEF TypeInv, TypeOK, Abandon, Return, Goto, FailKind, RollbackKind

LEMMA AnswerKinds ==
  ASSUME TypeInv, NEW r \in Request, Step(r) \/ Fault(r)
  PROVE  SilentKind(r) \/ ReplayKind(r) \/ AcknowledgeKind(r) \/ LostKind(r) \/ FailKind(r)
<1> USE DEF TypeInv
<1>0. /\ pc \in [Request -> Label]
      /\ ControlAt(r)
  BY DEF TypeOK, ControlInv
<1>1. CASE Lookup(r)
  BY <1>0, <1>1 DEF Lookup, Goto, SilentKind, CommitKind, KeyFound, ReplayKind, ControlAt
<1>2. CASE Replay(r)
  BY <1>0, <1>2 DEF Replay, Goto, ReplayKind, KeyCommitted, ControlAt, Reading
<1>3. CASE LockWallet(r)
  BY <1>0, <1>3, Path DEF LockWallet, Goto, SilentKind, CommitKind
<1>4. CASE ReadWallet(r)
  <2>1. DeltaError(call[r]) \in (Reply \ {"ok", "ErrOptimisticLock", "ErrDeadlock"})
    BY DEF DeltaError, Reply, BusinessError
  <2>2. CASE DeltaError(call[r]) # "none"
    BY <1>0, <1>4, <2>1, <2>2, FailAnswers DEF ReadWallet, Fail
  <2>3. CASE DeltaError(call[r]) = "none"
    BY <1>0, <1>4, <2>3, Path DEF ReadWallet, Goto, SilentKind, CommitKind
  <2> QED
    BY <2>2, <2>3
<1>5. CASE Begin(r)
  BY <1>0, <1>5, Path DEF Begin, Continue, Goto, SilentKind, CommitKind
<1>6. CASE GetAndLock(r)
  <2>1. "ErrWalletNotFound" \in Reply
    BY DEF Reply, BusinessError
  <2>2. CASE Fail(r, "ErrWalletNotFound")
    BY <1>0, <1>6, <2>1, <2>2, FailAnswers DEF GetAndLock, Fail
  <2>3. CASE ~Fail(r, "ErrWalletNotFound")
    BY <1>0, <1>6, <2>3, Path DEF GetAndLock, Goto, SilentKind, CommitKind
  <2> QED
    BY <2>2, <2>3
<1>7. CASE Validate(r)
  <2>1. TransferError(r) \in (Reply \ {"ok", "ErrOptimisticLock", "ErrDeadlock"})
    BY DEF TransferError, Reply, BusinessError
  <2>2. CASE TransferError(r) # "none"
    BY <1>0, <1>7, <2>1, <2>2, FailAnswers DEF Validate, Fail
  <2>3. CASE TransferError(r) = "none"
    BY <1>0, <1>7, <2>3, Path DEF Validate, Continue, Goto, SilentKind, CommitKind
  <2> QED
    BY <2>2, <2>3
<1>8. CASE AppendLedger(r)
  <2>1. "ErrValueTooLong" \in Reply /\ "ErrUniqueViolation" \in Reply
    BY DEF Reply, DatabaseError
  <2>2. CASE Fail(r, "ErrValueTooLong")
    BY <1>0, <1>8, <2>1, <2>2, FailAnswers DEF AppendLedger, Fail
  <2>3. CASE Fail(r, "ErrUniqueViolation")
    BY <1>0, <1>8, <2>1, <2>3, FailAnswers DEF AppendLedger, Fail
  <2>4. CASE ~Fail(r, "ErrValueTooLong") /\ ~Fail(r, "ErrUniqueViolation")
    BY <1>0, <1>8, <2>4, Path DEF AppendLedger, Continue, Goto, SilentKind, CommitKind
  <2> QED
    BY <2>2, <2>3, <2>4
<1>9. CASE ForeignKey(r)
  BY <1>0, <1>9, Path DEF ForeignKey, Continue, Goto, SilentKind, CommitKind
<1>10. CASE UpdateBalance(r)
  <2>1. "ErrOptimisticLock" \in Reply
    BY DEF Reply, BusinessError
  <2>2. CASE Stale(r, Target(r))
    BY <1>0, <1>10, <2>1, <2>2, FailAnswers DEF UpdateBalance, Fail
  <2>3. CASE ~Stale(r, Target(r))
    BY <1>0, <1>10, <2>3, Path DEF UpdateBalance, Continue, Goto, SilentKind, CommitKind
  <2> QED
    BY <2>2, <2>3
<1>11. CASE Commit(r)
  BY <1>0, <1>11 DEF Commit, Goto, AcknowledgeKind, CommitKind
<1>12. CASE UpdateStatus(r)
  <2>1. "ErrWalletNotFound" \in Reply
    BY DEF Reply, BusinessError
  <2>2. CASE Fail(r, "ErrWalletNotFound")
    BY <1>0, <1>12, <2>1, <2>2, FailAnswers DEF UpdateStatus, Fail
  <2>3. CASE ~Fail(r, "ErrWalletNotFound")
    BY <1>0, <1>12, <2>3 DEF UpdateStatus, Return, Goto, AcknowledgeKind, StatusKind, Blockers, Target, ControlAt
  <2> QED
    BY <2>2, <2>3
<1>13. CASE Unlock(r)
  BY <1>0, <1>13 DEF Unlock, Goto, SilentKind
<1>14. CASE DeadlockVictim(r)
  <2>1. "ErrDeadlock" \in Reply
    BY DEF Reply, DatabaseError
  <2>2. pc[r] \notin {"unlock"} \cup Dead
    BY <1>14 DEF DeadlockVictim, Blockers
  <2> QED
    BY <1>14, <2>1, <2>2, FailAnswers DEF DeadlockVictim, Fail
<1>15. CASE LateEffect(r)
  BY <1>0, <1>15 DEF LateEffect, Goto, SilentKind
<1>16. CASE DropConnection(r)
  BY <1>0, <1>16 DEF DropConnection, Goto, SilentKind
<1>17. CASE LookupFault(r)
  BY <1>0, <1>17 DEF LookupFault, Goto, SilentKind, CommitKind
<1>18. CASE StorageFault(r)
  <2>1. "ErrStorage" \in Reply
    BY DEF Reply, UnknownOutcome
  <2> QED
    BY <1>0, <1>18, <2>1, FailAnswers DEF StorageFault, Reading, Writing
<1>19. CASE AnswerLost(r)
  BY <1>0, <1>19 DEF AnswerLost, TakeEffect, Goto, LostKind, CommitKind, StatusKind, Blockers, Target, ControlAt,
     Writing
<1>20. CASE LateStatement(r)
  <2>1. /\ pc[r] \in Late
        /\ Goto(r, "orphan") \/ Goto(r, "lateForeignKey") \/ Goto(r, IF IsTransfer(r) THEN "orphan" ELSE "lateForeignKey")
        /\ UNCHANGED <<reply, shown>>
    BY <1>20 DEF LateStatement
  <2>2. pc'[r] \in {"orphan", "lateForeignKey"}
    BY <1>0, <2>1 DEF Goto
  <2> QED
    BY <2>1, <2>2 DEF SilentKind, CommitKind
<1> QED
  BY <1>1, <1>2, <1>3, <1>4, <1>5, <1>6, <1>7, <1>8, <1>9, <1>10, <1>11, <1>12, <1>13, <1>14, <1>15, <1>16,
     <1>17, <1>18, <1>19, <1>20 DEF Step, Fault

-----------------------------------------------------------------------------
(* What a request has locked and read *)

LEMMA ScopeStep ==
  ASSUME IInv, ScopeInv, NEW r \in Request, Step(r) \/ Fault(r)
  PROVE  ScopeInv'
<1> SUFFICES ASSUME NEW q \in Request
             PROVE  ScopeAt(q)'
  BY DEF ScopeInv
<1>0. TypeInv
  BY DEF IInv, TypeInv
<1>1. ScopeAt(q) /\ MutexAt(q) /\ ControlAt(q)
  BY DEF ScopeInv, IInv, MutexInv, ControlInv
<1>2. call' = call /\ pc' = [pc EXCEPT ![r] = pc'[r]]
  BY <1>0, Kinds
<1>3. /\ pc \in [Request -> Label] /\ mutexes \in [Request -> SUBSET WalletID]
      /\ rowLock \in [Request -> [WalletID -> LockMode]] /\ call[q] \in Call
  BY DEF IInv, TypeOK, DbTypeOK
<1>4. mutexes'[q] \subseteq Legs(call[q]) /\ (pc'[q] = "lockSecond" => mutexes'[q] = {First(call[q])})
  <2>1. CASE LockWallet(r)
    <3>1. /\ mutexes' = [mutexes EXCEPT ![r] = @ \cup {Target(r)}]
          /\ pc[r] \in {"lock", "lockSecond"} /\ pc'[r] = NextLabel(r)
      BY <1>3, <2>1 DEF LockWallet, Goto
    <3>2. CASE q = r /\ pc[r] = "lock"
      <4>1. Target(r) = First(call[r]) /\ mutexes'[r] = {First(call[r])} /\ First(call[r]) \in Legs(call[r])
        BY <1>1, <1>3, <3>1, <3>2 DEF Target, MutexAt, First, Legs
      <4> QED
        BY <3>2, <4>1
    <3>3. CASE q = r /\ pc[r] = "lockSecond"
      <4>1. Target(r) \in Legs(call[r])
        BY <1>1, <3>3 DEF Target, ControlAt, IsTransfer, Second, Legs
      <4>2. pc'[r] = "begin"
        BY <1>0, <3>1, <3>3, Path DEF TypeInv
      <4> QED
        BY <1>1, <1>3, <3>1, <3>3, <4>1, <4>2 DEF ScopeAt
    <3>4. CASE q # r
      BY <1>1, <1>2, <1>3, <3>1, <3>4 DEF ScopeAt
    <3> QED
      BY <3>1, <3>2, <3>3, <3>4
  <2>2. CASE Unlock(r)
    <3>1. mutexes' = [mutexes EXCEPT ![r] = {}] /\ pc'[r] = "done"
      BY <1>3, <2>2 DEF Unlock, Released, Goto
    <3> QED
      BY <1>1, <1>2, <1>3, <3>1 DEF ScopeAt
  <2>3. CASE ~LockWallet(r) /\ ~Unlock(r)
    BY <1>0, <1>1, <1>2, <1>3, <2>3, MutexMoves DEF ScopeAt, Writing
  <2> QED
    BY <2>1, <2>2, <2>3
<1>5. ASSUME NEW w \in WalletID, rowLock'[q][w] # "none" PROVE w \in Legs(call[q])
  <2>1. CASE rowLock'[q] = rowLock[q] \/ rowLock'[q] = NoLocks
    BY <1>1, <1>5, <2>1 DEF ScopeAt, NoLocks
  <2> DEFINE Updates == LockKind(r) \/ UpdateKind(r)
                        \/ (LateKind(r) /\ pc[r] \in {"lateRow", "lateRowSecond", "lateUpdate"})
             Shares == ForeignKeyKind(r) \/ (LateKind(r) /\ pc[r] = "lateForeignKey")
  <2>2. CASE q = r /\ Updates
    <3>1. Target(r) \in Legs(call[r])
      BY <1>1, <2>2 DEF LockKind, UpdateKind, Target, ControlAt, IsTransfer, First, Second, Legs
    <3>2. rowLock' = [rowLock EXCEPT ![r][Target(r)] = "update"]
      BY <2>2 DEF LockKind, UpdateKind, LateKind, LockRowAs, WriteBalance
    <3> QED
      BY <1>1, <1>3, <1>5, <2>2, <3>1, <3>2 DEF ScopeAt
  <2>3. CASE q = r /\ Shares
    <3>1. call[r].from \in Legs(call[r])
      BY DEF Legs
    <3>2. rowLock' = [rowLock EXCEPT ![r][call[r].from] = "keyshare"]
      BY <2>3 DEF ForeignKeyKind, LateKind, LockRowAs
    <3> QED
      BY <1>1, <1>3, <1>5, <2>3, <3>1, <3>2 DEF ScopeAt
  <2>4. CASE q = r /\ ~Updates /\ ~Shares
    BY <1>0, <1>3, <2>1, <2>4, Kinds DEF LocalKind, LateKind, ReadKind, ValidateKind, RollbackKind, BeginKind, AppendKind, CommitKind,
       StatusKind, dbVars, RollbackTx, BeginTx, InsertEntry, CommitTx, EndTx, WriteStatus
  <2>5. CASE q # r
    BY <1>0, <2>1, <2>5, Others
  <2> QED
    BY <2>2, <2>3, <2>4, <2>5
<1>6. /\ pc'[q] \in {"lockRow", "lateRow"} => rowLock'[q] = NoLocks
      /\ pc'[q] \in {"lockRowSecond", "lateRowSecond"} => rowLock'[q][Second(call[q])] = "none"
  <2>1. CASE q = r /\ BeginKind(r)
    <3>1. r \notin txOpen /\ TransactionAt(r)
      BY <2>1 DEF BeginKind, IInv, TransactionInv, TransactionAt, InTransaction, Writing
    <3> QED
      BY <2>1, <3>1 DEF BeginKind, BeginTx, TransactionAt
  <2>2. CASE q = r /\ LockKind(r) /\ pc[r] = "lockRow"
    <3>1. /\ rowLock[r] = NoLocks /\ Target(r) = First(call[r])
          /\ rowLock' = [rowLock EXCEPT ![r][Target(r)] = "update"] /\ pc'[r] = "lockRowSecond"
      BY <1>1, <2>2 DEF ScopeAt, Target, LockKind, LockRowAs
    <3>2. First(call[r]) # Second(call[r]) /\ Second(call[r]) \in WalletID
      BY <1>1, <1>3, <2>2, CallParts DEF ControlAt, First, Second, IsTransfer
    <3> QED
      BY <1>3, <2>2, <3>1, <3>2 DEF NoLocks
  <2>3. CASE q = r /\ ~BeginKind(r) /\ ~(LockKind(r) /\ pc[r] = "lockRow")
    BY <1>0, <2>3, Kinds DEF LocalKind, LateKind, ReadKind, ValidateKind, RollbackKind, LockKind, AppendKind,
       ForeignKeyKind, UpdateKind, CommitKind, StatusKind
  <2>4. CASE q # r
    BY <1>0, <1>1, <2>4, Others DEF ScopeAt
  <2> QED
    BY <2>1, <2>2, <2>3, <2>4
<1> QED
  BY <1>2, <1>4, <1>5, <1>6 DEF ScopeAt

\* With one mutex for each wallet, two requests between lock and unlock share none.
LEMMA OneAtATime ==
  ASSUME IInv, OneMutexEach, NEW q \in Request, NEW r \in Request, q # r
  PROVE  /\ pc[r] \notin Dead
         /\ SameMutexes(q, r)
         /\ mutexes[q] \cap mutexes[r] = {}
<1>1. faults = 0 /\ inst[q] = inst[r] /\ call[q].spelled = call[r].spelled
  BY DEF IInv, TypeOK, OneMutexEach
<1>2. pc[r] \notin Dead
  BY <1>1 DEF IInv, ActiveInv, ActiveAt
<1>3. \A w \in mutexes[q] : MutexHolders(q, w) = {}
  BY DEF IInv, MutexInv, MutexAt
<1> QED
  BY <1>1, <1>2, <1>3 DEF MutexHolders, SameMutexes

LEMMA ReadingStep ==
  ASSUME IInv, ReadingInv, NEW r \in Request, Step(r) \/ Fault(r)
  PROVE  ReadingInv'
<1> DEFINE Reads == {"begin", "append", "foreignKey", "update"}
<1> SUFFICES ASSUME NEW q \in Request, pc'[q] \in Reads, ~IsTransfer(q)'
             PROVE  \/ seen'[q][call'[q].from] = balance'[call'[q].from]
                    \/ ~OneMutexEach' /\ \E t \in applied' \ {q} : call'[q].from \in Legs(call'[t])
  BY DEF ReadingInv, ReadingAt
<1>0. TypeInv
  BY DEF IInv, TypeInv
<1>1. ReadingAt(q) /\ ControlAt(q) /\ ValidationAt(q)
  BY DEF ReadingInv, IInv, ControlInv, ValidationInv
<1>2. call' = call /\ pc' = [pc EXCEPT ![r] = pc'[r]] /\ ~IsTransfer(q) /\ (OneMutexEach' <=> OneMutexEach)
  BY <1>0, Kinds DEF IsTransfer, OneMutexEach
<1>3. /\ pc \in [Request -> Label] /\ balance \in [Wallet -> Int64]
      /\ seen \in [Request -> [Wallet -> Int64]] /\ applied \subseteq Request
  BY DEF IInv, TypeOK, DbTypeOK
<1>4. applied \subseteq applied'
  BY <1>0, Kinds DEF LocalKind, LateKind, ReadKind, ValidateKind, RollbackKind, BeginKind, LockKind, AppendKind,
     ForeignKeyKind, UpdateKind, CommitKind, StatusKind
<1>5. CASE q = r
  <2>1. CASE ReadKind(r)
    <3>1. call[r].from \in Wallet
      BY <2>1 DEF ReadKind, DeltaError
    <3> QED
      BY <1>2, <1>3, <1>5, <2>1, <3>1 DEF ReadKind, dbVars
  <2>2. CASE BeginKind(r) \/ AppendKind(r) \/ ForeignKeyKind(r)
    <3>1. pc[q] \in Reads /\ seen' = seen /\ balance' = balance
      BY <1>1, <1>2, <1>5, <2>2 DEF BeginKind, AppendKind, ForeignKeyKind, BeginTx, InsertEntry, LockRowAs,
         ControlAt, IsTransfer
    <3> QED
      BY <1>1, <1>2, <1>4, <3>1 DEF ReadingAt
  <2>3. CASE LocalKind(r) \/ ValidateKind(r) \/ RollbackKind(r) \/ LockKind(r) \/ UpdateKind(r)
             \/ CommitKind(r) \/ StatusKind(r) \/ LateKind(r)
    BY <1>1, <1>2, <1>5, <2>3 DEF ControlAt, LocalKind, LateKind, ValidateKind, RollbackKind, LockKind, UpdateKind, CommitKind,
       StatusKind, IsTransfer
  <2> QED
    BY <1>0, <2>1, <2>2, <2>3, Kinds
<1>6. CASE q # r
  <2>1. pc'[q] = pc[q] /\ seen'[q] = seen[q]
    BY <1>0, <1>6, Others
  <2>2. CASE balance'[call[q].from] = balance[call[q].from]
    BY <1>1, <1>2, <1>4, <2>1, <2>2 DEF ReadingAt
  <2>3. CASE balance'[call[q].from] # balance[call[q].from]
    <3>1. CommitKind(r)
      BY <1>0, <2>3, Kinds DEF LocalKind, LateKind, ReadKind, ValidateKind, RollbackKind, BeginKind, LockKind, AppendKind,
         ForeignKeyKind, UpdateKind, StatusKind, dbVars, RollbackTx, BeginTx, LockRowAs, InsertEntry, WriteBalance,
         EndTx, WriteStatus
    <3>2. call[q].from \in Wallet
      BY <1>1, <1>2, <2>1 DEF ValidationAt, PastValidation, Posting, Legs, IsTransfer
    <3>3. call[q].from \in dirty[r] /\ r \in applied'
      BY <1>3, <2>3, <3>1, <3>2 DEF CommitKind, CommitTx
    <3>4. call[q].from \in Legs(call[r])
      BY <3>1, <3>3 DEF CommitKind, IInv, TransactionInv, TransactionAt, InTransaction
    <3>5. ASSUME OneMutexEach PROVE FALSE
      <4>1. pc[r] = "commit" /\ mutexes[q] \cap mutexes[r] = {}
        BY <1>6, <3>1, <3>5, OneAtATime DEF CommitKind
      <4>2. call[q].from \in mutexes[q] /\ call[q].from \in mutexes[r]
        BY <2>1, <3>4, <4>1 DEF IInv, MutexInv, MutexAt, Writing, Legs
      <4> QED
        BY <4>1, <4>2
    <3> QED
      BY <1>2, <1>6, <3>3, <3>4, <3>5
  <2> QED
    BY <2>2, <2>3
<1> QED
  BY <1>5, <1>6

-----------------------------------------------------------------------------
(* Waiting *)

\* A path that is once in Z, and from there goes on in Z, stays in Z.
LEMMA StaysIn ==
  ASSUME NEW n \in Nat, NEW j \in 0..n, NEW p, NEW Z, p[j] \in Z,
         \A k \in j + 1..n : p[k - 1] \in Z => p[k] \in Z
  PROVE  \A k \in j..n : p[k] \in Z
<1> DEFINE Out == {k \in j..n : p[k] \notin Z}
<1> SUFFICES ASSUME Out # {} PROVE FALSE
  OBVIOUS
<1>1. Out \subseteq Nat
  OBVIOUS
<1>2. PICK k \in Out : \A m \in Out : k <= m
  BY <1>1, LeastNatural
<1>3. k # j /\ k \in j + 1..n /\ k - 1 \in j..n
  BY <1>2
<1>4. k - 1 \in Out
  BY <1>2, <1>3
<1> QED
  BY <1>1, <1>2, <1>4

\* A path that goes up with every step does not come back to where it started.
LEMMA NeverBack ==
  ASSUME NEW n \in Nat, n >= 1, NEW f, \A k \in 0..n : f[k] \in Int,
         \A k \in 1..n : f[k - 1] < f[k]
  PROVE  f[0] < f[n]
<1> DEFINE Below == {k \in 1..n : ~(f[0] < f[k])}
<1> SUFFICES ASSUME Below # {} PROVE FALSE
  OBVIOUS
<1>1. Below \subseteq Nat
  OBVIOUS
<1>2. PICK k \in Below : \A m \in Below : k <= m
  BY <1>1, LeastNatural
<1>3. k \in 1..n /\ k - 1 \in 0..n /\ f[k - 1] < f[k] /\ 0 \in 0..n
  BY <1>2
<1>4. CASE k = 1
  BY <1>2, <1>3, <1>4
<1>5. CASE k # 1
  <2>1. k - 1 \in 1..n
    BY <1>3, <1>5
  <2>2. ~(k - 1 \in Below)
    BY <1>1, <1>2, <1>3
  <2>3. f[0] < f[k - 1]
    BY <2>1, <2>2
  <2>4. f[0] \in Int /\ f[k - 1] \in Int /\ f[k] \in Int
    BY <1>3
  <2> QED
    BY <1>2, <1>3, <2>3, <2>4
<1> QED
  BY <1>4, <1>5

\* What holds of one point of a cycle and is handed on holds of all of them.
LEMMA AllAround ==
  ASSUME NEW n \in Nat, n >= 1, NEW p, p[0] = p[n], NEW Z, NEW j \in 0..n, p[j] \in Z,
         \A k \in 1..n : p[k - 1] \in Z => p[k] \in Z
  PROVE  \A k \in 0..n : p[k] \in Z
<1>1. \A k \in j + 1..n : p[k - 1] \in Z => p[k] \in Z
  OBVIOUS
<1>2. \A k \in j..n : p[k] \in Z
  BY <1>1, StaysIn
<1>3. p[0] \in Z /\ 0 \in 0..n
  BY <1>2
<1>4. \A k \in 0 + 1..n : p[k - 1] \in Z => p[k] \in Z
  OBVIOUS
<1> QED
  BY <1>3, <1>4, StaysIn

\* One process at a time serves all requests, under one mutex for each wallet; it
\* may die and start again.
OneProcess == (\A i, j \in Instance : i = j) /\ (\A c, d \in Call : c.spelled = d.spelled)

LEMMA SameProcess == OneMutexEach => OneProcess
  BY DEF OneMutexEach, OneProcess

\* What a dead process has left that is idle or becomes permanent, and the others:
\* those whose process is alive, and the statements of a dead one that wait.
Left == {r \in Request : pc[r] \in {"orphan", "inFlight"}}
Going == Request \ Left
Living == {r \in Request : pc[r] \notin Dead}

\* Mutexes die with the process, so that requests exclude each other by them also
\* where processes have died before.
LEMMA OwnMutexes ==
  ASSUME IInv, OneProcess, NEW q \in Request, NEW r \in Request, q # r
  PROVE  SameMutexes(q, r) /\ mutexes[q] \cap mutexes[r] = {}
<1>1. inst[q] = inst[r] /\ call[q].spelled = call[r].spelled
  BY DEF IInv, TypeOK, OneProcess
<1>2. \A w \in mutexes[q] : MutexHolders(q, w) = {}
  BY DEF IInv, MutexInv, MutexAt
<1> QED
  BY <1>1, <1>2 DEF MutexHolders, SameMutexes

\* An idle transaction waits for nothing, and a statement with a permanent effect
\* holds nothing that another request waits for, or waits for nothing itself.
LEMMA LeftWaitsInVain ==
  ASSUME IInv, NEW r \in Left
  PROVE  Blockers(r) = {} \/ \A q \in Request : r \notin WaitsFor(q)
<1>0. r \in Request
  BY DEF Left
<1>1. /\ ControlAt(r) /\ TransactionAt(r) /\ LockedRowAt(r) /\ MutexAt(r) /\ call[r] \in Call
      /\ \A q \in Request : call[q] \in Call
      /\ rowLock \in [Request -> [WalletID -> LockMode]]
  BY <1>0 DEF IInv, ControlInv, TransactionInv, LockedRowInv, MutexInv, TypeOK, DbTypeOK
<1>2. CASE pc[r] = "orphan"
  BY <1>2 DEF Blockers
<1>3. CASE pc[r] = "inFlight" /\ call[r].op = "suspend"
  <2> SUFFICES ASSUME NEW q \in Request, r \in WaitsFor(q) PROVE FALSE
    OBVIOUS
  <2>1. mutexes[r] = {}
    BY <1>1, <1>3 DEF MutexAt
  <2>2. r \in Blockers(q)
    BY <2>1 DEF WaitsFor, MutexHolders
  <2>3. inserted[r] = << >> /\ rowLock[r] = NoLocks
    BY <1>1, <1>3 DEF TransactionAt, InTransaction, Writing
  <2>4. Target(q) \in WalletID
    BY <1>1, CallParts DEF Target
  <2>5. rowLock[r][Target(q)] = "none"
    BY <2>3, <2>4 DEF NoLocks
  <2> QED
    BY <2>2, <2>3, <2>5 DEF Blockers, UpdateBlockers, ShareBlockers, KeyBlockers
<1>4. CASE pc[r] = "inFlight" /\ call[r].op # "suspend"
  <2>1. Target(r) = call[r].from /\ call[r].from \in Legs(call[r]) /\ call[r].from \in WalletID
    BY <1>1, <1>4, CallParts DEF Target
  <2>2. rowLock[r][call[r].from] = "update"
    BY <1>1, <1>4, <2>1 DEF TransactionAt, InTransaction, LockedRowAt
  <2>3. \A q \in Request : q # r => rowLock[q][call[r].from] = "none"
    BY <1>0, <2>1, <2>2 DEF IInv, RowLockInv
  <2> QED
    BY <1>4, <2>1, <2>3 DEF Blockers, ShareBlockers
<1> QED
  BY <1>2, <1>3, <1>4 DEF Left

\* What a request that waits is waiting for, unless it is a top-up or a payment that
\* has its entry: a transfer that updates a balance has locked the row before.
MutexWaiters == {r \in Request : pc[r] \in {"lock", "lockSecond"}}
RowWaiters == {r \in Request : pc[r] \in {"lockRow", "lockRowSecond", "status", "lateRow", "lateRowSecond"}}
InsertWaiters == {r \in Request : pc[r] \in {"append", "appendCredit", "lateInsert", "lateCredit"}}
CreditWaiters == {r \in Request : pc[r] \in {"appendCredit", "lateCredit"}}

LEMMA WhereItWaits ==
  ASSUME IInv, NEW r \in Going, NEW q \in WaitsFor(r), ~RowAfterEntry(r)
  PROVE  r \in MutexWaiters \cup RowWaiters \cup InsertWaiters
<1>1. r \in Request /\ pc[r] \notin {"orphan", "inFlight"}
  BY DEF Going, Left
<1>2. ControlAt(r) /\ LockedRowAt(r) /\ call[r] \in Call
  BY <1>1 DEF IInv, TypeOK, ControlInv, LockedRowInv
<1>3. ASSUME pc[r] \in {"update", "updateCredit"}, IsTransfer(r) PROVE FALSE
  <2>1. Target(r) \in Legs(call[r]) /\ Target(r) \in WalletID
    BY <1>2, <1>3, CallParts DEF Target, Legs, IsTransfer
  <2>2. rowLock[r][Target(r)] = "update"
    BY <1>2, <1>3, <2>1 DEF LockedRowAt, Posting
  <2>3. UpdateBlockers(r, Target(r)) = {}
    BY <1>1, <2>1, <2>2 DEF UpdateBlockers, IInv, RowLockInv
  <2> QED
    BY <1>3, <2>3 DEF WaitsFor, Blockers
<1>4. pc[r] \notin {"foreignKey", "update", "updateCredit", "lateForeignKey", "lateUpdate"}
  BY <1>2, <1>3 DEF RowAfterEntry, ControlAt, Reading
<1>5. pc[r] \in {"lock", "lockSecond"} \/ Blockers(r) # {}
  BY DEF WaitsFor
<1> QED
  BY <1>1, <1>4, <1>5 DEF Blockers, MutexWaiters, RowWaiters, InsertWaiters

\* The order in which requests wait.  Who is waited for waits for something later:
\* mutexes come first and rows next, both in the order of the ids, and keys last,
\* that of a credit, which is one "-credit" longer, after that of its debit.
LEMMA NextInOrder ==
  ASSUME IInv, ScopeInv, NEW r \in Going, NEW q \in WaitsFor(r), NEW t \in WaitsFor(q),
         ~RowAfterEntry(r), ~RowAfterEntry(q)
  PROVE  /\ q \in Going
         /\ r \in InsertWaiters => q \in CreditWaiters
         /\ r \in CreditWaiters => call[q].key[2] = call[r].key[2] + 1
         /\ r \in RowWaiters => q \in RowWaiters \cup InsertWaiters
         /\ r \in RowWaiters /\ q \in RowWaiters => Target(r) < Target(q)
         /\ r \in MutexWaiters /\ q \in MutexWaiters => Target(r) < Target(q)
<1>1. q \in Request /\ q # r /\ r \in Request
  BY DEF Going, WaitsFor, Blockers, UpdateBlockers, ShareBlockers, KeyBlockers, MutexHolders
<1>2. /\ ControlAt(q) /\ MutexAt(q) /\ ScopeAt(q) /\ TransactionAt(q) /\ ControlAt(r)
      /\ call[q] \in Call /\ call[r] \in Call
  BY <1>1 DEF IInv, ControlInv, MutexInv, ScopeInv, TransactionInv, TypeOK
<1>3. q \in Going
  <2> SUFFICES ASSUME q \in Left PROVE FALSE
    BY <1>1 DEF Going
  <2>1. Blockers(q) # {}
    BY DEF WaitsFor, Left
  <2> QED
    BY <1>1, <2>1, LeftWaitsInVain
<1>4. q \in MutexWaiters \cup RowWaiters \cup InsertWaiters
  BY <1>3, WhereItWaits
<1>5. /\ q \in MutexWaiters \/ pc[q] = "status" => inserted[q] = << >> /\ rowLock[q] = NoLocks
      /\ q \in RowWaiters \/ pc[q] \in {"append", "lateInsert"} => inserted[q] = << >>
  BY <1>2 DEF MutexWaiters, RowWaiters, TransactionAt, InTransaction, Writing
<1>6. pc[q] \in {"lockSecond", "lockRowSecond", "lateRowSecond"} => First(call[q]) < Second(call[q])
  <2> SUFFICES ASSUME pc[q] \in {"lockSecond", "lockRowSecond", "lateRowSecond"} PROVE First(call[q]) < Second(call[q])
    OBVIOUS
  <2>1. IsTransfer(q) /\ call[q].from # call[q].to /\ call[q].from \in Nat /\ call[q].to \in Nat
    BY <1>2, CallParts, WalletAssumption DEF ControlAt, Writing
  <2> QED
    BY <2>1 DEF First, Second, IsTransfer
<1>7. CASE r \in InsertWaiters
  <2> DEFINE k == EntryKey(call[r], Target(r))
  <2>1. q \in KeyBlockers(r, k)
    BY <1>7 DEF WaitsFor, Blockers, InsertWaiters
  <2>2. PICK i \in 1..Len(inserted[q]) : inserted[q][i].key = k
    BY <2>1 DEF KeyBlockers
  <2>3. inserted[q] # << >> /\ pc[q] \in {"appendCredit", "lateCredit"}
    BY <1>4, <1>5, <2>2 DEF InsertWaiters
  <2>4. inserted[q] = <<Entry(call[q], call[q].from)>> /\ i = 1
    BY <1>2, <2>2, <2>3 DEF TransactionAt
  <2>5. k = call[q].key
    BY <1>2, <2>2, <2>3, <2>4 DEF Entry, EntryKey, ControlAt, IsTransfer
  <2>6. r \in CreditWaiters => k = CreditKey(call[r].key)
    BY <1>2 DEF CreditWaiters, EntryKey, Target, ControlAt, IsTransfer
  <2> QED
    BY <1>1, <1>3, <1>7, <2>3, <2>5, <2>6 DEF MutexWaiters, RowWaiters, InsertWaiters, CreditWaiters, CreditKey
<1>8. CASE r \in RowWaiters
  <2>1. q \in UpdateBlockers(r, Target(r)) \cup ShareBlockers(r, Target(r))
    BY <1>8 DEF WaitsFor, Blockers, RowWaiters
  <2>2. Target(r) \in WalletID /\ rowLock[q][Target(r)] # "none"
    BY <1>2, <2>1, CallParts DEF Target, UpdateBlockers, ShareBlockers
  <2>3. q \in RowWaiters \cup InsertWaiters /\ (q \in RowWaiters => pc[q] \in {"lockRowSecond", "lateRowSecond"})
    BY <1>2, <1>4, <1>5, <2>2 DEF ScopeAt, NoLocks, RowWaiters
  <2>4. q \in RowWaiters => Target(r) = First(call[q]) /\ Target(q) = Second(call[q])
    BY <1>2, <2>2, <2>3 DEF ScopeAt, Target, ControlAt, IsTransfer, Legs, First, Second
  <2> QED
    BY <1>3, <1>6, <1>8, <2>3, <2>4 DEF MutexWaiters, RowWaiters, InsertWaiters, CreditWaiters
<1>9. CASE r \in MutexWaiters
  <2>1. Target(r) \in mutexes[q]
    BY <1>9 DEF WaitsFor, Blockers, MutexWaiters, MutexHolders
  <2>2. q \in MutexWaiters => pc[q] = "lockSecond"
    BY <1>2, <2>1 DEF MutexWaiters, MutexAt
  <2>3. q \in MutexWaiters => Target(r) = First(call[q]) /\ Target(q) = Second(call[q])
    BY <1>2, <2>1, <2>2 DEF ScopeAt, Target
  <2> QED
    BY <1>3, <1>6, <1>9, <2>2, <2>3 DEF MutexWaiters, RowWaiters, InsertWaiters, CreditWaiters
<1> QED
  BY <1>7, <1>8, <1>9, WhereItWaits

\* Where one mutex guards each wallet, no request waits for a row, but for one that
\* a dead process has left locked.
LEMMA RowsAreFree ==
  ASSUME IInv, ScopeInv, OneProcess, NEW q \in Living, NEW r \in Living, q \in Blockers(r)
  PROVE  /\ pc[r] \in {"append", "appendCredit"}
         /\ q \in KeyBlockers(r, EntryKey(call[r], Target(r)))
<1>0. q \in Request /\ r \in Request
  BY DEF Living
<1>1. /\ ControlAt(r) /\ MutexAt(r) /\ ScopeAt(q) /\ TransactionAt(q) /\ MutexAt(q)
      /\ call[r] \in Call /\ pc[q] \in Label
  BY <1>0 DEF IInv, ControlInv, MutexInv, ScopeInv, TransactionInv, TypeOK
<1>2. q # r
  BY <1>0 DEF Blockers, UpdateBlockers, ShareBlockers, KeyBlockers
<1>3. pc[r] \notin Dead /\ pc[q] \notin Dead /\ mutexes[q] \cap mutexes[r] = {}
  BY <1>0, <1>2, OwnMutexes DEF Living
<1>4. ASSUME pc[r] \in {"lockRow", "lockRowSecond", "update", "updateCredit", "foreignKey", "status"},
             rowLock[q][Target(r)] # "none"
      PROVE  FALSE
  <2>1. Target(r) \in WalletID /\ Target(r) \in Legs(call[r])
    BY <1>1, <1>4, CallParts DEF Target, ControlAt, IsTransfer, First, Second, Legs
  <2>2. Target(r) \in mutexes[r]
    BY <1>1, <1>4, <2>1 DEF MutexAt, Writing
  <2>3. q \in txOpen
    BY <1>1, <1>4, <2>1 DEF TransactionAt, NoLocks
  <2>4. Target(r) \in mutexes[q]
    BY <1>1, <1>3, <1>4, <2>1, <2>3 DEF TransactionAt, InTransaction, MutexAt, ScopeAt
  <2> QED
    BY <1>3, <2>2, <2>4
<1>5. pc[r] \in {"append", "appendCredit"}
  BY <1>3, <1>4 DEF Blockers, UpdateBlockers, ShareBlockers
<1> QED
  BY <1>5 DEF Blockers

\* With one process the order is of mutexes and keys alone.
LEMMA NextInLine ==
  ASSUME IInv, ScopeInv, OneProcess, NEW r \in Living, NEW q \in Living, q \in WaitsFor(r),
         NEW t \in Living, t \in WaitsFor(q)
  PROVE  /\ r \in InsertWaiters => q \in CreditWaiters
         /\ r \in CreditWaiters => call[q].key[2] = call[r].key[2] + 1
         /\ r \notin InsertWaiters /\ q \notin InsertWaiters => Target(r) < Target(q)
<1>1. r \in MutexWaiters \cup InsertWaiters /\ q \in MutexWaiters \cup InsertWaiters
  <2>1. pc[r] \in {"lock", "lockSecond", "append", "appendCredit"}
    BY RowsAreFree DEF WaitsFor
  <2>2. pc[q] \in {"lock", "lockSecond", "append", "appendCredit"}
    BY RowsAreFree DEF WaitsFor
  <2> QED
    BY <2>1, <2>2 DEF Living, MutexWaiters, InsertWaiters
<1>2. ~RowAfterEntry(r) /\ ~RowAfterEntry(q)
  BY <1>1 DEF RowAfterEntry, MutexWaiters, InsertWaiters
<1>3. r \in Going
  BY DEF Living, Going, Left
<1> QED
  BY <1>1, <1>2, <1>3, NextInOrder

\* Who waits and is waited for has a living process, or a statement of a dead one.
LEMMA OnCycle ==
  ASSUME IInv, NEW n \in Nat, n >= 1, NEW p \in [0..n -> Request],
         p[0] = p[n], \A k \in 1..n : p[k] \in WaitsFor(p[k - 1]), NEW k \in 0..n
  PROVE  p[k] \in Going /\ \E j \in 1..n : p[j] \in WaitsFor(p[k])
<1>1. PICK m \in 0..n - 1 : p[m] = p[k]
  <2>1. CASE k = n
    BY <2>1
  <2>2. CASE k # n
    BY <2>2
  <2> QED
    BY <2>1, <2>2
<1>2. m + 1 \in 1..n /\ (m + 1) - 1 = m
  BY <1>1
<1>3. p[m + 1] \in WaitsFor(p[k])
  BY <1>1, <1>2
<1>4. PICK l \in 1..n : p[l] = p[k]
  <2>1. CASE k = 0
    BY <2>1
  <2>2. CASE k # 0
    BY <2>2
  <2> QED
    BY <2>1, <2>2
<1>5. p[k] \in WaitsFor(p[l - 1]) /\ p[l - 1] \in Request /\ p[k] \in Request
  BY <1>4
<1>6. p[k] \notin Left
  <2> SUFFICES ASSUME p[k] \in Left PROVE FALSE
    OBVIOUS
  <2>1. Blockers(p[k]) = {}
    BY <1>5, LeftWaitsInVain
  <2>2. pc[p[k]] \notin {"lock", "lockSecond"}
    BY DEF Left
  <2> QED
    BY <1>3, <2>1, <2>2 DEF WaitsFor
<1> QED
  BY <1>2, <1>3, <1>5, <1>6 DEF Going

\* A cycle would go up all the way round: among keys, among rows or among mutexes.
LEMMA NoCycle ==
  ASSUME IInv, ScopeInv, NEW n \in Nat, n >= 1, NEW p \in [0..n -> Request],
         p[0] = p[n], \A k \in 1..n : p[k] \in WaitsFor(p[k - 1]),
         \A k \in 1..n : ~RowAfterEntry(p[k])
  PROVE  FALSE
<1>1. ASSUME NEW k \in 0..n
      PROVE  /\ p[k] \in Going /\ p[k] \in Request /\ ~RowAfterEntry(p[k])
             /\ \E j \in 1..n : p[j] \in WaitsFor(p[k])
  <2>1. ~RowAfterEntry(p[k])
    <3>1. CASE k = 0
      BY <3>1
    <3>2. CASE k # 0
      BY <3>2
    <3> QED
      BY <3>1, <3>2
  <2> QED
    BY <2>1, OnCycle
<1>2. ASSUME NEW k \in 1..n
      PROVE  /\ p[k - 1] \in InsertWaiters => p[k] \in CreditWaiters
             /\ p[k - 1] \in CreditWaiters => call[p[k]].key[2] = call[p[k - 1]].key[2] + 1
             /\ p[k - 1] \in RowWaiters => p[k] \in RowWaiters \cup InsertWaiters
             /\ p[k - 1] \in RowWaiters /\ p[k] \in RowWaiters => Target(p[k - 1]) < Target(p[k])
             /\ p[k - 1] \in MutexWaiters /\ p[k] \in MutexWaiters => Target(p[k - 1]) < Target(p[k])
  <2> DEFINE r == p[k - 1]
             q == p[k]
  <2>1. k - 1 \in 0..n /\ k \in 0..n
    OBVIOUS
  <2>2. PICK j \in 1..n : p[j] \in WaitsFor(q)
    BY <1>1, <2>1
  <2> DEFINE t == p[j]
  <2>3. r \in Going /\ q \in WaitsFor(r) /\ t \in WaitsFor(q) /\ ~RowAfterEntry(r) /\ ~RowAfterEntry(q)
    BY <1>1, <2>1, <2>2
  <2> HIDE DEF r, q, t
  <2>4. /\ r \in InsertWaiters => q \in CreditWaiters
        /\ r \in CreditWaiters => call[q].key[2] = call[r].key[2] + 1
        /\ r \in RowWaiters => q \in RowWaiters \cup InsertWaiters
        /\ r \in RowWaiters /\ q \in RowWaiters => Target(r) < Target(q)
        /\ r \in MutexWaiters /\ q \in MutexWaiters => Target(r) < Target(q)
    BY <2>3, NextInOrder
  <2> QED
    BY <2>4 DEF r, q
<1>3. ASSUME NEW f, \A k \in 0..n : f[k] \in Int, \A k \in 1..n : f[k - 1] < f[k], f[0] = f[n] PROVE FALSE
  <2>1. f[0] < f[n] /\ f[0] \in Int
    BY <1>3, NeverBack
  <2> QED
    BY <1>3, <2>1
<1>4. ASSUME \A k \in 1..n : Target(p[k - 1]) < Target(p[k]) PROVE FALSE
  <2> DEFINE f == [k \in 0..n |-> Target(p[k])]
  <2>1. ASSUME NEW k \in 0..n PROVE f[k] \in Int
    <3>1. call[p[k]] \in Call
      BY <1>1 DEF IInv, TypeOK
    <3>2. Target(p[k]) \in WalletID
      BY <3>1, CallParts DEF Target
    <3>3. \A w \in WalletID : w \in Int
      BY WalletAssumption
    <3> QED
      BY <3>2, <3>3
  <2>2. \A k \in 1..n : f[k - 1] < f[k]
    BY <1>4
  <2>3. f[0] = f[n]
    BY DEF Target
  <2> HIDE DEF f
  <2> QED
    BY <1>3, <2>1, <2>2, <2>3
<1>5. CASE \E j \in 0..n : p[j] \in InsertWaiters
  <2>1. PICK j \in 0..n : p[j] \in InsertWaiters
    BY <1>5
  <2>2. CreditWaiters \subseteq InsertWaiters
    BY DEF CreditWaiters, InsertWaiters
  <2>3. \A k \in 0..n : p[k] \in InsertWaiters
    BY <1>2, <2>1, <2>2, AllAround
  <2>4. \A k \in 1..n : p[k] \in CreditWaiters
    BY <1>2, <2>3
  <2>5. \A k \in 0..n : p[k] \in CreditWaiters
    BY <2>4
  <2> DEFINE f == [k \in 0..n |-> call[p[k]].key[2]]
  <2>6. ASSUME NEW k \in 0..n PROVE f[k] \in Int
    <3>1. ControlAt(p[k]) /\ pc[p[k]] \in {"appendCredit", "lateCredit"}
      BY <1>1, <2>5 DEF IInv, ControlInv, CreditWaiters
    <3>2. call[p[k]].key \in Key
      BY <3>1 DEF ControlAt, Writing
    <3> QED
      BY <3>2 DEF Key
  <2>7. ASSUME NEW k \in 1..n PROVE f[k - 1] < f[k]
    <3>1. k - 1 \in 0..n /\ k \in 0..n
      OBVIOUS
    <3>2. f[k] = f[k - 1] + 1
      BY <1>2, <2>5, <3>1
    <3> HIDE DEF f
    <3> QED
      BY <2>6, <3>1, <3>2
  <2>8. f[0] = f[n]
    OBVIOUS
  <2> HIDE DEF f
  <2> QED
    BY <1>3, <2>6, <2>7, <2>8
<1>6. CASE (\A j \in 0..n : p[j] \notin InsertWaiters) /\ \E j \in 0..n : p[j] \in RowWaiters
  <2>1. PICK j \in 0..n : p[j] \in RowWaiters
    BY <1>6
  <2>2. \A k \in 1..n : p[k - 1] \in RowWaiters => p[k] \in RowWaiters
    BY <1>2, <1>6
  <2>3. \A k \in 0..n : p[k] \in RowWaiters
    BY <2>1, <2>2, AllAround
  <2>4. ASSUME NEW k \in 1..n PROVE Target(p[k - 1]) < Target(p[k])
    <3>1. k - 1 \in 0..n /\ k \in 0..n
      OBVIOUS
    <3> QED
      BY <1>2, <2>3, <3>1
  <2> QED
    BY <1>4, <2>4
<1>7. CASE (\A j \in 0..n : p[j] \notin InsertWaiters) /\ \A j \in 0..n : p[j] \notin RowWaiters
  <2>1. \A k \in 0..n : p[k] \in MutexWaiters
    BY <1>1, <1>7, WhereItWaits
  <2> QED
    BY <1>2, <1>4, <2>1
<1> QED
  BY <1>5, <1>6, <1>7

\* With one process there is no such cycle either, unless a dead process is in it:
\* among the living nobody waits for a row.
LEMMA NoCycleOfOne ==
  ASSUME IInv, ScopeInv, OneProcess, NEW n \in Nat, n >= 1, NEW p \in [0..n -> Request],
         p[0] = p[n], \A k \in 1..n : p[k] \in WaitsFor(p[k - 1]),
         \A k \in 1..n : pc[p[k]] \notin Late
  PROVE  FALSE
<1>1. PICK k \in 1..n : RowAfterEntry(p[k])
  BY NoCycle
<1>2. p[k] \in Going /\ \E j \in 1..n : p[j] \in WaitsFor(p[k])
  <2>1. k \in 0..n
    OBVIOUS
  <2> QED
    BY <2>1, OnCycle
<1>3. PICK j \in 1..n : p[j] \in WaitsFor(p[k])
  BY <1>2
<1>4. p[j] \in Going /\ p[j] \in Blockers(p[k])
  BY <1>1, <1>3, OnCycle DEF WaitsFor, RowAfterEntry
<1> DEFINE r == p[k]
           q == p[j]
<1>5. r \in Going /\ q \in Going /\ q \in Blockers(r) /\ RowAfterEntry(r) /\ pc[r] \notin Late /\ pc[q] \notin Late
  BY <1>1, <1>2, <1>4
<1> HIDE DEF r, q
<1>6. r \in Living /\ q \in Living
  BY <1>5 DEF Living, Going, Left
<1> QED
  BY <1>5, <1>6, RowsAreFree DEF RowAfterEntry

LEMMA LiveCycles ==
  ASSUME IInv, ScopeInv, OneProcess
  PROVE  NoLiveCycle
<1> SUFFICES ASSUME NEW n \in 1..Cardinality(Request), NEW p \in [0..n -> Request],
                    p[0] = p[n], \A k \in 1..n : p[k] \in WaitsFor(p[k - 1]),
                    \A k \in 1..n : pc[p[k]] \notin Late
             PROVE  FALSE
  BY DEF NoLiveCycle
<1>1. n \in Nat /\ n >= 1
  OBVIOUS
<1> QED
  BY <1>1, NoCycleOfOne

\* Where nothing fails there are no dead processes, and no cycles at all.
LEMMA NoWaiting ==
  ASSUME IInv, ScopeInv, OneMutexEach
  PROVE  NoWaitCycle /\ \A r \in Request : ~Deadlocked(r)
<1>1. \A r \in Request : pc[r] \notin Late
  BY DEF IInv, TypeOK, OneMutexEach, ActiveInv, ActiveAt
<1>2. ASSUME NEW n \in Nat, n >= 1, NEW p \in [0..n -> Request],
             p[0] = p[n], \A k \in 1..n : p[k] \in WaitsFor(p[k - 1])
      PROVE  FALSE
  <2>1. \A k \in 1..n : pc[p[k]] \notin Late
    BY <1>1
  <2> QED
    BY <1>2, <2>1, SameProcess, NoCycleOfOne
<1>3. NoWaitCycle
  <2> SUFFICES ASSUME NEW n \in 1..Cardinality(Request), NEW p \in [0..n -> Request],
                      p[0] = p[n], \A k \in 1..n : p[k] \in WaitsFor(p[k - 1])
               PROVE  FALSE
    BY DEF NoWaitCycle
  <2>1. n \in Nat /\ n >= 1
    OBVIOUS
  <2> QED
    BY <1>2, <2>1
<1>4. ASSUME NEW r \in Request, Deadlocked(r) PROVE FALSE
  <2> PICK n \in 2..Cardinality(Request) : \E p \in [0..n -> Request] :
          p[0] = r /\ p[n] = r /\ \A k \in 1..n : p[k] \in Blockers(p[k - 1])
    BY <1>4 DEF Deadlocked
  <2>1. PICK p \in [0..n -> Request] : p[0] = r /\ p[n] = r /\ \A k \in 1..n : p[k] \in Blockers(p[k - 1])
    OBVIOUS
  <2>2. n \in Nat /\ n >= 1
    OBVIOUS
  <2>3. \A k \in 1..n : p[k] \in WaitsFor(p[k - 1])
    BY <2>1 DEF WaitsFor
  <2> QED
    BY <1>2, <2>1, <2>2, <2>3
<1> QED
  BY <1>3, <1>4

-----------------------------------------------------------------------------
(* Answers *)

\* The expected balance that does not match is one that applyDelta read.
LEMMA StaleReading ==
  ASSUME IInv, ReadingInv, NEW r \in Request, pc[r] \in {"update", "updateCredit"}, Stale(r, Target(r))
  PROVE  ~OneMutexEach /\ \E q \in applied \ {r} : call[r].from \in Legs(call[q])
<1>1. ControlAt(r) /\ ValidationAt(r) /\ LockedRowAt(r) /\ ReadingAt(r)
  BY DEF IInv, ControlInv, ValidationInv, LockedRowInv, ReadingInv
<1>2. CASE IsTransfer(r)
  <2>1. Target(r) \in Legs(call[r])
    BY <1>2 DEF Target, Legs, IsTransfer
  <2>2. rowLock[r][Target(r)] = "update" /\ Target(r) \in Wallet
    BY <1>1, <1>2, <2>1 DEF LockedRowAt, ValidationAt, PastValidation, Posting
  <2> QED
    BY <1>1, <1>2, <2>2 DEF LockedRowAt, Writing, Stale
<1>3. CASE ~IsTransfer(r)
  BY <1>1, <1>3 DEF ControlAt, Target, Stale, ReadingAt
<1> QED
  BY <1>2, <1>3

LEMMA ReplyStep ==
  ASSUME IInv, ScopeInv, ReadingInv, ReplyInv, NEW r \in Request, Step(r) \/ Fault(r)
  PROVE  ReplyInv'
<1> SUFFICES ASSUME NEW q \in Request
             PROVE  ReplyAt(q)'
  BY DEF ReplyInv
<1>0. TypeInv
  BY DEF IInv, TypeInv
<1>1. ReplyAt(q) /\ ControlAt(q)
  BY DEF ReplyInv, IInv, ControlInv
<1>2. /\ call' = call /\ pc' = [pc EXCEPT ![r] = pc'[r]] /\ (OneMutexEach' <=> OneMutexEach)
      /\ pc[r] \notin {"idle", "done"}
      /\ applied' = applied \/ (CommitKind(r) /\ applied' = applied \cup {r})
  BY <1>0, Kinds DEF OneMutexEach, LocalKind, LateKind, ReadKind, ValidateKind, RollbackKind, BeginKind, LockKind, AppendKind,
     ForeignKeyKind, UpdateKind, CommitKind, StatusKind
<1>3. pc \in [Request -> Label] /\ reply \in [Request -> Reply] /\ applied \subseteq Request
  BY DEF IInv, TypeOK
<1>4. CASE q # r
  <2>1. reply'[q] = reply[q]
    BY <1>0, <1>3, <1>4, AnswerKinds DEF SilentKind, ReplayKind, AcknowledgeKind, LostKind, FailKind
  <2> QED
    BY <1>1, <1>2, <1>3, <1>4, <2>1 DEF ReplyAt
<1>5. CASE q = r
  <2>1. CASE SilentKind(r)
    BY <1>1, <1>2, <1>3, <1>5, <2>1 DEF SilentKind, ReplyAt, CommitKind
  <2>2. CASE ReplayKind(r)
    BY <1>1, <1>2, <1>3, <1>5, <2>2 DEF ReplayKind, ReplyAt, CommitKind
  <2>3. CASE AcknowledgeKind(r)
    BY <1>1, <1>2, <1>3, <1>5, <2>3 DEF AcknowledgeKind, ReplyAt, CommitKind, StatusKind, ControlAt, Writing
  <2>4. CASE LostKind(r)
    BY <1>1, <1>2, <1>3, <1>5, <2>4 DEF LostKind, ReplyAt, CommitKind, StatusKind, ControlAt, Writing
  <2>5. CASE FailKind(r)
    <3>1. PICK e \in Reply \ {"none", "ok"} :
            /\ reply' = [reply EXCEPT ![r] = e]
            /\ e = "ErrOptimisticLock" => pc[r] \in {"update", "updateCredit"} /\ Stale(r, Target(r))
            /\ e = "ErrDeadlock" => Deadlocked(r)
      BY <2>5 DEF FailKind
    <3>2. pc[r] \notin {"unlock", "idle", "done"} \cup Dead /\ pc'[r] = "unlock" /\ applied' = applied
      BY <1>2, <2>5 DEF FailKind, RollbackKind
    <3>3. e \in {"ErrOptimisticLock", "ErrDeadlock"} => ~OneMutexEach
      BY <3>1, StaleReading, NoWaiting
    <3> QED
      BY <1>1, <1>2, <1>3, <1>5, <3>1, <3>2, <3>3 DEF ReplyAt
  <2> QED
    BY <1>0, <2>1, <2>2, <2>3, <2>4, <2>5, AnswerKinds
<1> QED
  BY <1>4, <1>5

\* AllOrNothing, entry by entry.
PostedEntry(x) == \E n \in Len(OpeningLedger) + 1..Len(ledger) : x = ledger[n]
EntryOfApplied(x) == \E r \in applied : \E w \in Legs(call[r]) : x = Entry(call[r], w)

Bookkeeping == /\ \A x : PostedEntry(x) <=> EntryOfApplied(x)
               /\ \A r \in applied : reply[r] \in {"ok"} \cup UnknownOutcome

LEMMA EntryByEntry == AllOrNothing <=> Bookkeeping
<1> DEFINE P == {ledger[n] : n \in Len(OpeningLedger) + 1..Len(ledger)}
           U == UNION {{Entry(call[r], w) : w \in Legs(call[r])} : r \in applied}
<1>1. \A x : x \in P <=> PostedEntry(x)
  BY Zenon DEF PostedEntry
<1>2. \A x : x \in U <=> EntryOfApplied(x)
  <2>1. \A x : (\E r \in applied : x \in {Entry(call[r], w) : w \in Legs(call[r])}) <=> EntryOfApplied(x)
    BY Zenon DEF EntryOfApplied
  <2>2. \A x : x \in U <=> \E r \in applied : x \in {Entry(call[r], w) : w \in Legs(call[r])}
    BY SMT
  <2> QED
    BY <2>1, <2>2, Zenon
<1>3. AllOrNothing <=> P = U /\ \A r \in applied : reply[r] \in {"ok"} \cup UnknownOutcome
  BY Zenon DEF AllOrNothing
<1> HIDE DEF P, U
<1>4. P = U <=> \A x : PostedEntry(x) <=> EntryOfApplied(x)
  BY <1>1, <1>2, SMT
<1> QED
  BY <1>3, <1>4, Zenon DEF Bookkeeping

LEMMA BooksStand ==
  ASSUME AllOrNothing, UNCHANGED <<ledger, applied>>,
         \A r \in applied : call'[r] = call[r] /\ reply'[r] \in {"ok"} \cup UnknownOutcome
  PROVE  AllOrNothing'
<1>1. Bookkeeping
  BY EntryByEntry
<1>2. ASSUME NEW x
      PROVE  PostedEntry(x)' <=> EntryOfApplied(x)'
  <2>1. PostedEntry(x)' <=> PostedEntry(x)
    BY Zenon DEF PostedEntry
  <2>2. EntryOfApplied(x)' <=> EntryOfApplied(x)
    BY Zenon DEF EntryOfApplied
  <2> QED
    BY <1>1, <2>1, <2>2 DEF Bookkeeping
<1>3. Bookkeeping'
  BY <1>1, <1>2 DEF Bookkeeping
<1> QED
  BY <1>3, EntryByEntry, PTL

\* The ledger, after a commit, holds its entries and what it held before.
LEMMA PostingsOfCommit ==
  ASSUME IInv, NEW r \in Request, CommitKind(r)
  PROVE  \A x : PostedEntry(x)' <=> PostedEntry(x) \/ \E w \in Legs(call[r]) : x = Entry(call[r], w)
<1> DEFINE lo == Len(OpeningLedger)
           E  == Entries(call[r])
<1>1. ledger \in Seq(EntryRecord) /\ lo \in Nat /\ lo <= Len(ledger)
  BY OpeningLength DEF IInv, HistoryInv, TypeOK, DbTypeOK
<1>2. /\ TransactionAt(r) /\ ControlAt(r) /\ TypeInv
      /\ pc[r] = "commit" => call[r].op # "suspend"
  BY DEF IInv, TransactionInv, ControlInv, TypeInv, ControlAt, Writing
<1>3. ledger' = ledger \o E /\ PastValidation(r) /\ call[r].op # "suspend"
  BY <1>2 DEF CommitKind, CommitTx, TransactionAt, InTransaction, PastValidation, Posting
<1>4. E \in Seq(EntryRecord)
  BY <1>2, <1>3, EntriesKeys
<1>5. \A x : (\E n \in 1..Len(E) : x = E[n]) <=> \E w \in Legs(call[r]) : x = Entry(call[r], w)
  BY DEF Entries, Legs
<1> HIDE DEF E, lo
<1>6. \A x : (\E n \in lo + 1..Len(ledger') : x = ledger'[n])
              <=> (\E n \in lo + 1..Len(ledger) : x = ledger[n]) \/ (\E n \in 1..Len(E) : x = E[n])
  <2>1. /\ Len(ledger') = Len(ledger) + Len(E) /\ Len(ledger) \in Nat /\ Len(E) \in Nat
        /\ \A n \in 1..Len(ledger) : ledger'[n] = ledger[n]
        /\ \A n \in 1..Len(E) : ledger'[Len(ledger) + n] = E[n]
    BY <1>1, <1>3, <1>4
  <2>2. ASSUME NEW n \in lo + 1..Len(ledger')
        PROVE  \/ n \in lo + 1..Len(ledger) /\ ledger'[n] = ledger[n]
               \/ n - Len(ledger) \in 1..Len(E) /\ ledger'[n] = E[n - Len(ledger)]
    <3>1. CASE n <= Len(ledger)
      BY <1>1, <2>1, <3>1
    <3>2. CASE n > Len(ledger)
      <4>1. n - Len(ledger) \in 1..Len(E) /\ Len(ledger) + (n - Len(ledger)) = n
        BY <1>1, <2>1, <3>2
      <4> QED
        BY <2>1, <4>1
    <3> QED
      BY <1>1, <2>1, <3>1, <3>2
  <2>3. ASSUME NEW n \in lo + 1..Len(ledger) PROVE n \in lo + 1..Len(ledger') /\ ledger'[n] = ledger[n]
    BY <1>1, <2>1
  <2>4. ASSUME NEW n \in 1..Len(E)
        PROVE  Len(ledger) + n \in lo + 1..Len(ledger') /\ ledger'[Len(ledger) + n] = E[n]
    BY <1>1, <2>1
  <2> QED
    BY <2>2, <2>3, <2>4
<1> QED
  BY <1>5, <1>6 DEF PostedEntry, lo

LEMMA AppliedGrows ==
  ASSUME TypeInv, NEW r \in Request, Step(r) \/ Fault(r)
  PROVE  \/ UNCHANGED <<ledger, applied, balance>>
         \/ CommitKind(r)
  BY Kinds DEF LocalKind, LateKind, ReadKind, ValidateKind, RollbackKind, BeginKind, LockKind, AppendKind,
     ForeignKeyKind, UpdateKind, StatusKind, dbVars, RollbackTx, BeginTx, LockRowAs, InsertEntry, WriteBalance,
     EndTx, WriteStatus

LEMMA PostingsStep ==
  ASSUME IInv, ReplyInv, AllOrNothing, NEW r \in Request, Step(r) \/ Fault(r)
  PROVE  AllOrNothing'
<1>0. TypeInv
  BY DEF IInv, TypeInv
<1>1. call' = call /\ pc[r] \notin {"idle", "done"}
  BY <1>0, Kinds
<1>2. ASSUME NEW x PROVE PostedEntry(x)' <=> EntryOfApplied(x)'
  <2>1. PostedEntry(x) <=> EntryOfApplied(x)
    BY EntryByEntry DEF Bookkeeping
  <2>2. CASE UNCHANGED <<ledger, applied, balance>>
    BY <1>1, <2>1, <2>2 DEF PostedEntry, EntryOfApplied
  <2>3. CASE CommitKind(r)
    <3>1. PostedEntry(x)' <=> PostedEntry(x) \/ \E w \in Legs(call[r]) : x = Entry(call[r], w)
      BY <2>3, PostingsOfCommit
    <3> QED
      BY <1>1, <2>1, <2>3, <3>1 DEF CommitKind, EntryOfApplied
  <2> QED
    BY <1>0, <2>2, <2>3, AppliedGrows
<1>3. ASSUME NEW q \in applied' PROVE reply'[q] \in {"ok"} \cup UnknownOutcome
  <2>0. q \in Request /\ reply \in [Request -> Reply]
    BY <1>3, TypeInvStep, <1>0 DEF TypeInv, TypeOK, Next
  <2>1. q \in applied => reply[q] \in {"ok"} \cup UnknownOutcome
    BY EntryByEntry DEF Bookkeeping
  <2>2. CASE q # r
    <3>1. reply'[q] = reply[q] /\ q \in applied
      BY <1>0, <1>3, <2>0, <2>2, AnswerKinds, AppliedGrows
         DEF SilentKind, ReplayKind, AcknowledgeKind, LostKind, FailKind, CommitKind
    <3> QED
      BY <2>1, <3>1
  <2>3. CASE q = r
    <3>1. ReplyAt(r)
      BY DEF ReplyInv
    <3>2. CASE r \in applied
      <4>1. pc[r] = "unlock"
        BY <1>1, <3>1, <3>2 DEF ReplyAt
      <4> QED
        BY <1>0, <2>0, <2>1, <2>3, <3>2, <4>1, AnswerKinds
           DEF SilentKind, ReplayKind, AcknowledgeKind, LostKind, FailKind, CommitKind, StatusKind
    <3>3. CASE r \notin applied
      <4>1. CommitKind(r)
        BY <1>0, <1>3, <2>3, <3>3, AppliedGrows
      <4>2. CASE SilentKind(r)
        BY <2>3, <3>1, <4>1, <4>2 DEF SilentKind, CommitKind, ReplyAt, UnknownOutcome
      <4>3. CASE AcknowledgeKind(r) \/ LostKind(r) \/ ReplayKind(r)
        BY <2>0, <2>3, <4>3 DEF AcknowledgeKind, LostKind, ReplayKind, UnknownOutcome
      <4>4. CASE FailKind(r)
        BY <3>3, <1>3, <2>3, <4>4 DEF FailKind, RollbackKind
      <4> QED
        BY <1>0, <4>2, <4>3, <4>4, AnswerKinds
    <3> QED
      BY <3>2, <3>3
  <2> QED
    BY <2>2, <2>3
<1>4. Bookkeeping'
  BY <1>2, <1>3 DEF Bookkeeping
<1> QED
  BY <1>4, EntryByEntry, PTL

\* Committed entries stay where they are.
LEMMA LedgerGrows ==
  ASSUME TypeInv, NEW r \in Request, Step(r) \/ Fault(r)
  PROVE  /\ Len(ledger) <= Len(ledger')
         /\ \A n \in 1..Len(ledger) : n \in 1..Len(ledger') /\ ledger'[n] = ledger[n]
         /\ \A k : KeyCommitted(k) => KeyCommitted(k)'
<1>1. ledger \in Seq(EntryRecord) /\ inserted[r] \in Seq(EntryRecord)
  BY DEF TypeInv, TypeOK, DbTypeOK
<1>2. ledger' = ledger \/ ledger' = ledger \o inserted[r]
  BY AppliedGrows DEF CommitKind, CommitTx
<1>3. /\ Len(ledger) <= Len(ledger')
      /\ \A n \in 1..Len(ledger) : n \in 1..Len(ledger') /\ ledger'[n] = ledger[n]
  BY <1>1, <1>2
<1> QED
  BY <1>3 DEF KeyCommitted

LEMMA DurableStep ==
  ASSUME IInv, ReplyInv, AcknowledgedIsDurable, NEW r \in Request, Step(r) \/ Fault(r)
  PROVE  AcknowledgedIsDurable'
<1> SUFFICES ASSUME NEW q \in Request, reply'[q] = "ok"
             PROVE  IF call'[q].op = "suspend" THEN status'[call'[q].from] = "suspended"
                                               ELSE KeyCommitted(call[q].key)'
  BY DEF AcknowledgedIsDurable
<1>0. TypeInv
  BY DEF IInv, TypeInv
<1>1. call' = call
  BY <1>0, Kinds
<1>2. CASE reply[q] = "ok"
  <2>1. CASE call[q].op = "suspend"
    <3>1. call[q].from \in Wallet /\ status[call[q].from] = "suspended"
      BY <1>2, <2>1 DEF ReplyInv, ReplyAt, AcknowledgedIsDurable
    <3>2. status'[call[q].from] # status[call[q].from] => status' = [status EXCEPT ![call[q].from] = "suspended"]
      BY <1>0, <3>1, StatusChange DEF StatusKind, WriteStatus
    <3> QED
      BY <1>0, <1>1, <2>1, <3>1, <3>2 DEF TypeInv, TypeOK, DbTypeOK
  <2>2. CASE call[q].op # "suspend"
    BY <1>0, <1>1, <1>2, <2>2, LedgerGrows DEF AcknowledgedIsDurable
  <2> QED
    BY <2>1, <2>2
<1>3. CASE reply[q] # "ok"
  <2>1. q = r /\ (ReplayKind(r) \/ AcknowledgeKind(r))
    BY <1>0, <1>3, AnswerKinds DEF SilentKind, ReplayKind, AcknowledgeKind, LostKind, FailKind, TypeInv, TypeOK
  <2>2. CASE ReplayKind(r)
    BY <1>0, <1>1, <2>1, <2>2, LedgerGrows DEF ReplayKind
  <2>3. CASE StatusKind(r)
    BY <1>0, <1>1, <2>1, <2>3 DEF StatusKind, WriteStatus, TypeInv, TypeOK, DbTypeOK
  <2>4. CASE CommitKind(r) /\ pc[r] = "commit"
    <3>1. r \in applied' /\ KeyInv'
      BY <2>4, StepIInv DEF CommitKind, IInv
    <3>2. KeyCommitted(call[r].key)'
      BY <3>1 DEF KeyInv
    <3>3. call[r].op # "suspend"
      BY <2>4 DEF IInv, ControlInv, ControlAt, Writing
    <3> QED
      BY <1>1, <2>1, <3>2, <3>3
  <2> QED
    BY <2>1, <2>2, <2>3, <2>4 DEF AcknowledgeKind
<1> QED
  BY <1>2, <1>3

LEMMA WinnerStep ==
  ASSUME IInv, ReadingInv, ConflictHasAWinner, NEW r \in Request, Step(r) \/ Fault(r)
  PROVE  ConflictHasAWinner'
<1> SUFFICES ASSUME NEW q \in Request, reply'[q] = "ErrOptimisticLock"
             PROVE  \E t \in applied' \ {q} : Legs(call'[t]) \cap Legs(call'[q]) # {}
  BY DEF ConflictHasAWinner
<1>0. TypeInv
  BY DEF IInv, TypeInv
<1>1. call' = call /\ applied \subseteq applied'
  BY <1>0, Kinds, AppliedGrows DEF CommitKind
<1>2. CASE reply[q] = "ErrOptimisticLock"
  BY <1>1, <1>2 DEF ConflictHasAWinner
<1>3. CASE reply[q] # "ErrOptimisticLock"
  <2>1. q = r /\ FailKind(r)
    BY <1>0, <1>3, AnswerKinds DEF SilentKind, ReplayKind, AcknowledgeKind, LostKind, FailKind, TypeInv, TypeOK
  <2>2. pc[r] \in {"update", "updateCredit"} /\ Stale(r, Target(r))
    BY <1>0, <2>1 DEF FailKind, TypeInv, TypeOK
  <2>3. PICK t \in applied \ {r} : call[r].from \in Legs(call[t])
    BY <2>2, StaleReading
  <2>4. call[r].from \in Legs(call[r])
    BY DEF Legs
  <2> QED
    BY <1>1, <2>1, <2>3, <2>4
<1> QED
  BY <1>2, <1>3

-----------------------------------------------------------------------------
(* AnswerInv is an invariant *)

LEMMA StepAnswerInv ==
  ASSUME IInv, AnswerInv, NEW r \in Request, Step(r) \/ Fault(r)
  PROVE  AnswerInv'
<1>1. ScopeInv' /\ ReadingInv' /\ ReplyInv'
  BY ScopeStep, ReadingStep, ReplyStep DEF AnswerInv
<1>2. AllOrNothing' /\ AcknowledgedIsDurable' /\ ConflictHasAWinner'
  BY PostingsStep, DurableStep, WinnerStep DEF AnswerInv
<1> QED
  BY <1>1, <1>2 DEF AnswerInv

LEMMA ArriveAnswerInv ==
  ASSUME IInv, AnswerInv, NEW r \in Request, NEW c \in Call, NEW i \in Instance, Arrive(r, c, i)
  PROVE  AnswerInv'
<1>1. /\ pc[r] = "idle" /\ pc'[r] \in {"done", "lock", "lookup"}
      /\ reply'[r] \in {"none", "ErrIdempotencyKeyRequired", "ErrSameWallet"}
      /\ reply'[r] # "none" => pc'[r] = "done"
      /\ \A q \in Request \ {r} : pc'[q] = pc[q] /\ call'[q] = call[q] /\ reply'[q] = reply[q]
      /\ UNCHANGED <<mutexes, seen, seenActive, applied>>
  BY DEF IInv, TypeOK, Arrive, Goto, ArrivalError
<1>2. UNCHANGED <<balance, status, ledger, rowLock>>
  BY DEF Arrive, dbVars
<1>3. r \notin applied /\ mutexes[r] = {} /\ rowLock[r] = NoLocks
  BY <1>1 DEF IInv, HistoryInv, TransactionInv, TransactionAt, InTransaction, Writing, MutexInv, MutexAt
<1>4. applied \subseteq Request /\ \A q \in applied : call'[q] = call[q] /\ pc'[q] = pc[q] /\ reply'[q] = reply[q]
  BY <1>1, <1>3 DEF IInv, TypeOK
<1>5. ASSUME NEW q \in Request PROVE ScopeAt(q)'
  <2>1. ScopeAt(q)
    BY DEF AnswerInv, ScopeInv
  <2> QED
    BY <1>1, <1>2, <1>3, <2>1 DEF ScopeAt, NoLocks
<1>6. ASSUME NEW q \in Request PROVE ReadingAt(q)' /\ ReplyAt(q)'
  <2>1. ReadingAt(q) /\ ReplyAt(q)
    BY DEF AnswerInv, ReadingInv, ReplyInv
  <2>2. CASE q = r
    BY <1>1, <1>3, <2>2 DEF ReadingAt, ReplyAt
  <2>3. CASE q # r
    BY <1>1, <1>2, <1>4, <2>1, <2>3 DEF ReadingAt, ReplyAt, IsTransfer, OneMutexEach
  <2> QED
    BY <2>2, <2>3
<1>7. AllOrNothing'
  <2>1. \A q \in applied : reply'[q] \in {"ok"} \cup UnknownOutcome
    BY <1>4 DEF AnswerInv, AllOrNothing
  <2> QED
    BY <1>1, <1>2, <1>4, <2>1, BooksStand DEF AnswerInv
<1>8. AcknowledgedIsDurable'
  BY <1>1, <1>2 DEF AnswerInv, AcknowledgedIsDurable, KeyCommitted
<1>9. ConflictHasAWinner'
  BY <1>1, <1>4 DEF AnswerInv, ConflictHasAWinner
<1> QED
  BY <1>5, <1>6, <1>7, <1>8, <1>9 DEF AnswerInv, ScopeInv, ReadingInv, ReplyInv

LEMMA CrashAnswerInv ==
  ASSUME IInv, AnswerInv, NEW i \in Instance, Crash(i)
  PROVE  AnswerInv'
<1> DEFINE lost == {r \in Request : inst[r] = i /\ pc[r] \notin {"idle", "done"} \cup Dead}
<1>0. ASSUME NEW q \in Request
      PROVE  /\ q \in lost => Leaves(q, pc'[q]) /\ pc'[q] \in {"done"} \cup Dead
             /\ q \notin lost => pc'[q] = pc[q]
  <2>1. Leaves(q, pc'[q]) => pc'[q] \in {"done"} \cup Dead
    BY DEF Leaves
  <2> QED
    BY <2>1, CrashMoves
<1>1. /\ \A q \in lost : /\ pc'[q] \in {"done"} \cup Dead /\ mutexes'[q] = {}
                         /\ reply'[q] = "ErrConnectionLost"
      /\ \A q \in Request \ lost : /\ pc'[q] = pc[q] /\ mutexes'[q] = mutexes[q] /\ seen'[q] = seen[q]
                                   /\ reply'[q] = reply[q]
      /\ UNCHANGED <<call, applied>>
  BY <1>0 DEF Crash, IInv, TypeOK
<1>2. UNCHANGED <<balance, status, ledger, rowLock>>
  BY DEF Crash, dbVars
<1>3. ASSUME NEW q \in Request PROVE ScopeAt(q)' /\ ReadingAt(q)'
  <2>1. ScopeAt(q) /\ ReadingAt(q)
    BY DEF AnswerInv, ScopeInv, ReadingInv
  <2>2. CASE q \in lost
    <3>1. Leaves(q, pc'[q])
      BY <1>0, <2>2
    <3> QED
      BY <1>1, <1>2, <2>1, <2>2, <3>1 DEF Leaves, ScopeAt, ReadingAt
  <2>3. CASE q \notin lost
    BY <1>1, <1>2, <2>1, <2>3 DEF ScopeAt, ReadingAt, IsTransfer, OneMutexEach
  <2> QED
    BY <2>2, <2>3
<1>4. ASSUME NEW q \in Request PROVE ReplyAt(q)'
  <2>1. ReplyAt(q)
    BY DEF AnswerInv, ReplyInv
  <2>2. CASE q \notin lost
    BY <1>1, <2>1, <2>2 DEF ReplyAt, OneMutexEach
  <2>3. CASE q \in lost
    <3>1. q \in applied => pc[q] = "unlock" /\ call[q].op # "suspend"
      BY <2>1, <2>3 DEF ReplyAt
    <3>2. pc[q] = "unlock" => pc'[q] = "done"
      BY <1>0, <2>3 DEF Leaves, IInv, TransactionInv, TransactionAt, InTransaction, Writing
    <3> QED
      BY <1>1, <2>3, <3>1, <3>2 DEF ReplyAt
  <2> QED
    BY <2>2, <2>3
<1>5. AllOrNothing'
  <2>1. \A q \in applied : reply'[q] \in {"ok"} \cup UnknownOutcome
    BY <1>1 DEF AnswerInv, AllOrNothing, UnknownOutcome, IInv, TypeOK
  <2> QED
    BY <1>1, <1>2, <2>1, BooksStand DEF AnswerInv
<1>6. AcknowledgedIsDurable'
  BY <1>1, <1>2 DEF AnswerInv, AcknowledgedIsDurable, KeyCommitted
<1>7. ConflictHasAWinner'
  BY <1>1 DEF AnswerInv, ConflictHasAWinner
<1> QED
  BY <1>3, <1>4, <1>5, <1>6, <1>7 DEF AnswerInv, ScopeInv, ReadingInv, ReplyInv

LEMMA InitAnswerInv == Init => AnswerInv
<1> SUFFICES ASSUME Init PROVE AnswerInv
  OBVIOUS
<1>1. ledger = OpeningLedger /\ applied = {}
      /\ \A r \in Request : /\ pc[r] = "idle" /\ mutexes[r] = {} /\ rowLock[r] = NoLocks /\ reply[r] = "none"
  BY DEF Init, DbInit
<1>2. ScopeInv /\ ReadingInv /\ ReplyInv
  BY <1>1 DEF ScopeInv, ScopeAt, ReadingInv, ReadingAt, ReplyInv, ReplyAt, NoLocks
<1>3. AllOrNothing
  <2>1. \A n \in Len(OpeningLedger) + 1..Len(ledger) : FALSE
    BY <1>1, OpeningLength
  <2> QED
    BY <1>1, <2>1, EntryByEntry DEF Bookkeeping, PostedEntry, EntryOfApplied
<1>4. AcknowledgedIsDurable /\ ConflictHasAWinner
  BY <1>1 DEF AcknowledgedIsDurable, ConflictHasAWinner
<1> QED
  BY <1>2, <1>3, <1>4 DEF AnswerInv

LEMMA AnswerInvStep == IInv /\ AnswerInv /\ [Next]_vars => AnswerInv'
<1> SUFFICES ASSUME IInv, AnswerInv, [Next]_vars PROVE AnswerInv'
  OBVIOUS
<1>1. ASSUME NEW r \in Request, NEW c \in Call, NEW i \in Instance, Arrive(r, c, i) PROVE AnswerInv'
  BY <1>1, ArriveAnswerInv
<1>2. ASSUME NEW r \in Request, Step(r) \/ Fault(r) PROVE AnswerInv'
  BY <1>2, StepAnswerInv
<1>3. ASSUME NEW i \in Instance, Crash(i) PROVE AnswerInv'
  BY <1>3, CrashAnswerInv
<1>4. CASE UNCHANGED vars
  <2>1. ScopeInv' /\ ReadingInv' /\ ReplyInv'
    BY <1>4 DEF AnswerInv, ScopeInv, ScopeAt, ReadingInv, ReadingAt, ReplyInv, ReplyAt, IsTransfer, OneMutexEach,
       vars, dbVars, reqVars
  <2>2. AllOrNothing'
    BY <1>4, BooksStand DEF AnswerInv, AllOrNothing, vars, dbVars, reqVars
  <2>3. AcknowledgedIsDurable' /\ ConflictHasAWinner'
    BY <1>4 DEF AnswerInv, AcknowledgedIsDurable, KeyCommitted, ConflictHasAWinner, vars, dbVars, reqVars
  <2> QED
    BY <2>1, <2>2, <2>3 DEF AnswerInv
<1> QED
  BY <1>1, <1>2, <1>3, <1>4 DEF Next, Quiet

\* What requests have locked, read and answered fits together in every state.
THEOREM AnswersInductive == Spec => []AnswerInv
  BY InitAnswerInv, AnswerInvStep, Inductive, PTL DEF Spec

-----------------------------------------------------------------------------
(* The balances that clients are shown *)

\* AnswersAreBalances of the answer s to request r with key k, in ledger L, when the
\* requests in a have been applied.
Explained(L, k, s, r, a) ==
  \E n \in 1..Len(L) :
    /\ L[n].key = k
    /\ \E m \in n..Len(L) : /\ (s - LedgerSum(SubSeq(L, 1, m), L[n].wallet)) % Modulus = 0
                            /\ r \in a => m = n
ExplainedAt(r) == reply[r] = "ok" /\ call[r].op \in {"topup", "payment"} =>
                    Explained(ledger, call[r].key, shown[r], r, applied)

AnswersExplained == \A r \in Request : ExplainedAt(r)

LEMMA AnswerByAnswer == AnswersAreBalances <=> AnswersExplained
  BY DEF AnswersAreBalances, AnswersExplained, ExplainedAt, Explained

LEMMA SamePrefixSameSums ==
  ASSUME NEW L \in Seq(EntryRecord), NEW M \in Seq(EntryRecord), Len(L) <= Len(M),
         \A n \in 1..Len(L) : M[n] = L[n], NEW m \in 0..Len(L), NEW w
  PROVE  LedgerSum(SubSeq(M, 1, m), w) = LedgerSum(SubSeq(L, 1, m), w)
<1> DEFINE P == SubSeq(L, 1, m)
           Q == SubSeq(M, 1, m)
<1>1. m \in Nat /\ m \in 0..m /\ Len(P) = m /\ Len(Q) = m /\ \A i \in 1..m : Q[i] = P[i]
  OBVIOUS
<1> HIDE DEF P, Q
<1>2. RunningSum(Q, w)[m] = RunningSum(P, w)[m]
  BY <1>1, RunningSumOfPrefix
<1>3. LedgerSum(Q, w) = LedgerSum(P, w)
  BY <1>1, <1>2, SumIsRunningSum
<1> QED
  BY <1>3 DEF P, Q

\* An explanation stays one when entries follow.
LEMMA ExplanationStands ==
  ASSUME NEW L \in Seq(EntryRecord), NEW M \in Seq(EntryRecord), Len(L) <= Len(M),
         \A n \in 1..Len(L) : M[n] = L[n],
         NEW k, NEW s, NEW r, NEW a, NEW b, r \in b => r \in a, Explained(L, k, s, r, a)
  PROVE  Explained(M, k, s, r, b)
<1>1. Len(L) \in Nat /\ Len(M) \in Nat
  OBVIOUS
<1>2. PICK n \in 1..Len(L) :
        /\ L[n].key = k
        /\ \E m \in n..Len(L) : /\ (s - LedgerSum(SubSeq(L, 1, m), L[n].wallet)) % Modulus = 0
                                /\ r \in a => m = n
  BY DEF Explained
<1>3. PICK m \in n..Len(L) : /\ (s - LedgerSum(SubSeq(L, 1, m), L[n].wallet)) % Modulus = 0
                             /\ r \in a => m = n
  BY <1>2
<1>4. n \in 1..Len(M) /\ m \in n..Len(M) /\ m \in 0..Len(L) /\ m \in 0..Len(M) /\ M[n] = L[n]
  BY <1>1
<1>5. LedgerSum(SubSeq(M, 1, m), L[n].wallet) = LedgerSum(SubSeq(L, 1, m), L[n].wallet)
  BY <1>4, SamePrefixSameSums
<1>6. (s - LedgerSum(SubSeq(M, 1, m), M[n].wallet)) % Modulus = 0
  BY <1>3, <1>4, <1>5
<1> QED
  BY <1>2, <1>3, <1>4, <1>6 DEF Explained

\* What all entries sum up to explains the balance of this moment.
LEMMA LatestExplains ==
  ASSUME NEW L \in Seq(EntryRecord), NEW n \in 1..Len(L), NEW s, NEW r, NEW a,
         (s - LedgerSum(L, L[n].wallet)) % Modulus = 0, r \in a => n = Len(L)
  PROVE  Explained(L, L[n].key, s, r, a)
<1>1. Len(L) \in Nat /\ Len(L) \in n..Len(L) /\ Len(L) \in 0..Len(L)
  OBVIOUS
<1>2. LedgerSum(SubSeq(L, 1, Len(L)), L[n].wallet) = LedgerSum(L, L[n].wallet)
  BY <1>1, SumOfPrefix, SumIsRunningSum
<1>3. (s - LedgerSum(SubSeq(L, 1, Len(L)), L[n].wallet)) % Modulus = 0
  BY <1>2
<1> QED
  BY <1>1, <1>3 DEF Explained

\* A step of the request that is answered, or of another.
LEMMA ExplainedStep ==
  ASSUME IInv, TypeOK', ReplyInv, Reconciled', NEW r \in Request, Step(r) \/ Fault(r),
         NEW q \in Request, ExplainedAt(q)
  PROVE  ExplainedAt(q)'
<1> SUFFICES ASSUME reply'[q] = "ok", call'[q].op \in {"topup", "payment"}
             PROVE  Explained(ledger', call'[q].key, shown'[q], q, applied')
  BY DEF ExplainedAt
<1>0. /\ TypeInv /\ ReplyAt(q) /\ call[q] \in Call /\ reply \in [Request -> Reply] /\ shown \in [Request -> Int64]
      /\ ledger \in Seq(EntryRecord) /\ ledger' \in Seq(EntryRecord) /\ balance' \in [Wallet -> Int64]
      /\ txBalance \in [Request -> [Wallet -> Int64]]
  BY DEF IInv, TypeInv, TypeOK, DbTypeOK, ReplyInv
<1>1. call' = call /\ pc[r] \notin {"idle", "done"} /\ ~IsTransfer(q) /\ call[q].op # "suspend"
  BY <1>0, Kinds DEF IsTransfer
<1>2. Len(ledger) <= Len(ledger') /\ \A n \in 1..Len(ledger) : ledger'[n] = ledger[n]
  BY <1>0, LedgerGrows
<1>3. ASSUME reply[q] = "ok", shown'[q] = shown[q], q \in applied' <=> q \in applied
      PROVE  Explained(ledger', call'[q].key, shown'[q], q, applied')
  <2>1. Explained(ledger, call[q].key, shown[q], q, applied)
    BY <1>1, <1>3 DEF ExplainedAt
  <2>2. Explained(ledger', call[q].key, shown[q], q, applied')
    BY <1>0, <1>2, <1>3, <2>1, ExplanationStands
  <2> QED
    BY <1>1, <1>3, <2>2
<1>4. CASE q # r
  <2>1. reply'[q] = reply[q] /\ shown'[q] = shown[q]
    <3>1. CASE SilentKind(r) \/ LostKind(r)
      BY <1>0, <1>4, <3>1 DEF SilentKind, LostKind
    <3>2. CASE ReplayKind(r) \/ AcknowledgeKind(r)
      <4>1. reply' = [reply EXCEPT ![r] = "ok"] /\ (shown' = shown \/ \E s : shown' = [shown EXCEPT ![r] = s])
        BY <3>2 DEF ReplayKind, AcknowledgeKind
      <4> QED
        BY <1>0, <1>4, <4>1
    <3>3. CASE FailKind(r)
      BY <1>0, <1>4, <3>3 DEF FailKind
    <3> QED
      BY <1>0, <3>1, <3>2, <3>3, AnswerKinds
  <2>2. q \in applied' <=> q \in applied
    BY <1>0, <1>4, AppliedGrows DEF CommitKind
  <2> QED
    BY <1>3, <2>1, <2>2
<1>5. CASE q = r
  <2>1. CASE SilentKind(r)
    <3>1. reply[q] = "ok" /\ shown'[q] = shown[q] /\ pc[r] = "unlock"
      BY <1>0, <1>1, <1>5, <2>1 DEF SilentKind, ReplyAt
    <3>2. q \in applied' <=> q \in applied
      BY <1>0, <3>1, AppliedGrows DEF CommitKind
    <3> QED
      BY <1>3, <3>1, <3>2
  <2>2. CASE ReplayKind(r)
    <3>1. PICK n \in 1..Len(ledger) : ledger[n].key = call[r].key
                                      /\ shown' = [shown EXCEPT ![r] = balance[ledger[n].wallet]]
      BY <1>1, <1>5, <2>2 DEF ReplayKind, IsTransfer
    <3>2. ledger' = ledger /\ balance' = balance /\ r \notin applied'
      BY <1>0, <1>5, <2>2 DEF ReplayKind, ReplyAt, dbVars
    <3>3. ledger[n].wallet \in Wallet
      <4>1. ledger[n] \in EntryRecord
        BY <1>0
      <4> QED
        BY <4>1, SMT DEF EntryRecord
    <3>4. (shown'[r] - LedgerSum(ledger', ledger'[n].wallet)) % Modulus = 0
      BY <1>0, <3>1, <3>2, <3>3 DEF Reconciled
    <3>5. Explained(ledger', ledger'[n].key, shown'[r], r, applied')
      BY <1>0, <3>2, <3>4, LatestExplains
    <3> QED
      BY <1>1, <1>5, <3>1, <3>2, <3>5
  <2>3. CASE AcknowledgeKind(r)
    <3>0. TransactionAt(r) /\ ValidationAt(r)
      BY DEF IInv, TransactionInv, ValidationInv
    <3>1. CommitKind(r) /\ pc[r] = "commit" /\ shown' = [shown EXCEPT ![r] = txBalance[r][call[r].from]]
      BY <1>1, <1>5, <2>3 DEF AcknowledgeKind, StatusKind
    <3>2. inserted[r] = <<Entry(call[r], call[r].from)>> /\ dirty[r] = {call[r].from} /\ call[r].from \in Wallet
      BY <1>1, <1>5, <3>0, <3>1
         DEF TransactionAt, ValidationAt, PastValidation, Posting, Entries, Legs, IsTransfer
    <3>3. /\ ledger' = ledger \o <<Entry(call[r], call[r].from)>>
          /\ balance'[call[r].from] = txBalance[r][call[r].from]
      BY <1>0, <3>1, <3>2 DEF CommitKind, CommitTx
    <3>4. /\ Len(ledger') \in 1..Len(ledger')
          /\ ledger'[Len(ledger')] = Entry(call[r], call[r].from)
      BY <1>0, <3>3
    <3>5. ledger'[Len(ledger')].key = call[r].key /\ ledger'[Len(ledger')].wallet = call[r].from
      BY <1>1, <1>5, <3>4 DEF Entry, EntryKey, IsTransfer
    <3>6. (shown'[r] - LedgerSum(ledger', ledger'[Len(ledger')].wallet)) % Modulus = 0
      BY <1>0, <3>1, <3>2, <3>3, <3>5 DEF Reconciled
    <3>7. Explained(ledger', ledger'[Len(ledger')].key, shown'[r], r, applied')
      BY <1>0, <3>4, <3>6, LatestExplains
    <3> QED
      BY <1>1, <1>5, <3>5, <3>7
  <2>4. CASE LostKind(r) \/ FailKind(r)
    BY <1>0, <1>5, <2>4 DEF LostKind, FailKind
  <2> QED
    BY <1>0, <2>1, <2>2, <2>3, <2>4, AnswerKinds
<1> QED
  BY <1>4, <1>5

LEMMA AnswersStep ==
  IInv /\ TypeOK' /\ AnswerInv /\ Reconciled' /\ AnswersAreBalances /\ [Next]_vars => AnswersAreBalances'
<1> SUFFICES ASSUME IInv, TypeOK', AnswerInv, Reconciled', AnswersAreBalances, [Next]_vars
             PROVE  AnswersAreBalances'
  OBVIOUS
<1> USE DEF AnswerInv
<1>0. \A q \in Request : ExplainedAt(q)
  BY AnswerByAnswer DEF AnswersExplained
<1>1. ASSUME NEW r \in Request, Step(r) \/ Fault(r), NEW q \in Request PROVE ExplainedAt(q)'
  BY <1>0, <1>1, ExplainedStep
<1>2. ASSUME NEW r \in Request, NEW c \in Call, NEW i \in Instance, Arrive(r, c, i), NEW q \in Request
      PROVE  ExplainedAt(q)'
  <2>1. /\ reply'[r] \in {"none", "ErrIdempotencyKeyRequired", "ErrSameWallet"}
        /\ q # r => reply'[q] = reply[q] /\ call'[q] = call[q]
        /\ UNCHANGED <<ledger, applied, shown>>
    BY <1>2 DEF IInv, TypeOK, Arrive, Goto, ArrivalError, dbVars
  <2> QED
    BY <1>0, <2>1 DEF ExplainedAt
<1>3. ASSUME NEW i \in Instance, Crash(i), NEW q \in Request PROVE ExplainedAt(q)'
  <2>1. /\ reply'[q] \in {reply[q], "ErrConnectionLost"}
        /\ UNCHANGED <<ledger, applied, shown, call>>
    BY <1>3 DEF IInv, TypeOK, Crash, dbVars
  <2> QED
    BY <1>0, <2>1 DEF ExplainedAt
<1>4. ASSUME UNCHANGED vars, NEW q \in Request PROVE ExplainedAt(q)'
  BY <1>0, <1>4 DEF ExplainedAt, vars, dbVars, reqVars
<1>5. AnswersExplained'
  BY <1>1, <1>2, <1>3, <1>4 DEF AnswersExplained, Next, Quiet
<1> QED
  BY <1>5, AnswerByAnswer, PTL

-----------------------------------------------------------------------------
(* What follows for clients *)

\* A transfer, top-up or payment leaves both its entries and balances or nothing,
\* at whichever statement it fails or its instance dies.
THEOREM TransactionsAreWhole == Spec => []AllOrNothing
  BY AnswersInductive, PTL DEF AnswerInv

\* An "ok" is never taken back: not by a crash right after Commit, nor by another
\* instance.
THEOREM AcknowledgementsHold == Spec => []AcknowledgedIsDurable
  BY AnswersInductive, PTL DEF AnswerInv

\* Requests that conflict never all fail: who is told ErrOptimisticLock lost to
\* another request on one of its wallets, which was applied.
THEOREM SomebodyWins == Spec => []ConflictHasAWinner
  BY AnswersInductive, PTL DEF AnswerInv

\* The balance in an answer to Topup or Pay is one that the wallet has had, the
\* one that the request's own entry led to unless it was a replay.
THEOREM AnswersAreTrue == Spec => []AnswersAreBalances
<1>1. Init => AnswersAreBalances
  BY DEF Init, AnswersAreBalances
<1> QED
  BY <1>1, AnswersStep, Inductive, AnswersInductive, MoneyInvariant, BalancesReconcile, PTL DEF Spec, MoneyInv

\* One instance that serves each wallet under one mutex answers no request that it
\* lost against another, neither to Postgres' deadlock detection nor to the
\* optimistic lock.
THEOREM MutexesPreventConflicts ==
  ASSUME OneMutexEach
  PROVE  Spec => []NoSpuriousConflict
<1>1. AnswerInv => NoSpuriousConflict
  BY DEF AnswerInv, ReplyInv, ReplyAt, NoSpuriousConflict
<1> QED
  BY <1>1, AnswersInductive, PTL

\* Transfers and suspensions never wait for each other in a cycle, for any number of
\* processes, wallets and requests: a deadlock of the service has a top-up or a payment
\* in it that has inserted its entry before it asks for the wallet's row.
THEOREM OrderPreventsDeadlock == Spec => []OnlyDeltasDeadlock
<1>1. IInv /\ AnswerInv => OnlyDeltasDeadlock
  <2> SUFFICES ASSUME IInv, ScopeInv, NEW n \in 1..Cardinality(Request), NEW p \in [0..n -> Request],
                      p[0] = p[n], \A k \in 1..n : p[k] \in WaitsFor(p[k - 1]),
                      \A k \in 1..n : ~RowAfterEntry(p[k])
               PROVE  FALSE
    BY DEF OnlyDeltasDeadlock, AnswerInv
  <2>1. n \in Nat /\ n >= 1
    OBVIOUS
  <2> QED
    BY <2>1, NoCycle
<1> QED
  BY <1>1, Inductive, AnswersInductive, PTL

\* Where nothing fails, one process, under one spelling of each id, never makes its
\* requests wait in a cycle: neither the two mutexes of a transfer, taken in the order
\* of the ids, nor row locks, nor uncommitted keys form one, on whichever wallets and
\* keys, a client's "-credit" keys included.
THEOREM NoDeadlockWithoutFaults ==
  ASSUME OneMutexEach
  PROVE  Spec => []NoWaitCycle
<1>1. IInv /\ AnswerInv => NoWaitCycle
  BY NoWaiting DEF AnswerInv
<1> QED
  BY <1>1, Inductive, AnswersInductive, PTL

\* Statements may fail and processes may die, one after the other: the requests of the
\* one that runs still form no cycle.  Every cycle has in it a statement that a dead
\* process had sent and that itself waits for a lock, since the requests of the next
\* process take the mutexes of its wallets anew.
THEOREM MutexesPreventDeadlock ==
  ASSUME OneProcess
  PROVE  Spec => []NoLiveCycle
<1>1. IInv /\ AnswerInv => NoLiveCycle
  BY LiveCycles DEF AnswerInv
<1> QED
  BY <1>1, Inductive, AnswersInductive, PTL
=============================================================================
