------------------------- MODULE WalletServiceProofs -------------------------
(***************************************************************************)
(* Theorems about WalletService for every set of wallets, calls, requests  *)
(* and instances, every largest balance and every number of faults.        *)
(***************************************************************************)
EXTENDS WalletInvariant, TLAPS

USE DEF Late, Dead

-----------------------------------------------------------------------------
(* Arithmetic and the values of calls *)

\* Wrap brings the sum of two 64-bit integers back to 64 bits.
LEMMA WrapType ==
  ASSUME NEW a \in Int64, NEW b \in Int64
  PROVE  Wrap(a + b) \in Int64
  BY AmountAssumption DEF Wrap, Int64, Modulus

\* A call has the parts Arrive reads.
LEMMA CallParts ==
  ASSUME NEW c \in Call
  PROVE  /\ c.op \in Op /\ c.from \in WalletID /\ c.to \in WalletID
         /\ c.amount \in Amount /\ c.key \in Key \cup {NoKey}
         /\ First(c) \in WalletID /\ Second(c) \in WalletID
         /\ c.from \in Legs(c) /\ Legs(c) \subseteq WalletID
  BY CallAssumption DEF First, Second, Legs

\* What ValidationInv says of a call.
ValidCall(c) == /\ Legs(c) \subseteq Wallet
                /\ CentsOf(c) # Rejected
                /\ c.op = "transfer" => CurrencyOf[c.from] = CurrencyOf[c.to]

\* A validated call has an amount that parseAmountToCents accepts.
LEMMA CentsType ==
  ASSUME NEW c \in Call, ValidCall(c)
  PROVE  CentsOf(c) \in 0..MaxInt
<1>1. c.from \in Wallet /\ c.amount \in Amount
  BY CallParts DEF ValidCall
<1>2. CurrencyOf[c.from] \in Currency
  BY <1>1, WalletAssumption
<1>3. Cents[c.amount][CurrencyOf[c.from]] \in Rejected..MaxInt
  BY <1>1, <1>2, AmountAssumption
<1> QED
  BY <1>3, AmountAssumption DEF ValidCall, CentsOf, Rejected

\* A validated call moves a 64-bit amount.
LEMMA DeltaType ==
  ASSUME NEW c \in Call, ValidCall(c), NEW w
  PROVE  Delta(c, w) \in Int64
  BY CentsType, AmountAssumption DEF Delta, Int64

\* Its entries are rows of table ledger_entries.
LEMMA EntryType ==
  ASSUME NEW c \in Call, ValidCall(c), c.op # "suspend", c.key \in Key, NEW w \in Legs(c)
  PROVE  Entry(c, w) \in EntryRecord
<1>1. w \in Wallet /\ Delta(c, w) \in Int64
  BY DeltaType DEF ValidCall
<1>2. EntryKey(c, w) \in Key
  BY DEF EntryKey, CreditKey, Key
<1>3. c.op \in Op /\ c.from \in WalletID /\ c.to \in WalletID
  BY CallParts
<1>4. Entry(c, w).operation \in {"topup", "payment", "transfer_out", "transfer_in"}
  BY <1>3 DEF Entry, Op, MoneyOp
<1>5. Entry(c, w).related \in WalletID \cup {NoWallet}
  BY <1>3 DEF Entry
<1> QED
  BY <1>1, <1>2, <1>4, <1>5 DEF Entry, EntryRecord

-----------------------------------------------------------------------------
(* Type correctness *)

TypeInv == TypeOK /\ ControlInv /\ ValidationInv

LEMMA InitTypeOK == Init => TypeOK
<1> SUFFICES ASSUME Init PROVE TypeOK
  OBVIOUS
<1>1. balance \in [Wallet -> Int64]
  BY OpeningAssumption, AmountAssumption DEF Init, DbInit, Int64
<1>2. 0 \in Int64
  BY AmountAssumption DEF Int64
<1>3. DbTypeOK
  BY <1>1, <1>2, OpeningAssumption DEF Init, DbInit, DbTypeOK, Status, LockMode, NoLocks, NoBalances
<1>4. (CHOOSE c \in Call : TRUE) \in Call /\ (CHOOSE i \in Instance : TRUE) \in Instance
  BY CallAssumption, ServiceAssumption
<1> QED
  BY <1>2, <1>3, <1>4, ServiceAssumption DEF Init, TypeOK, Label, Reply, NoBalances

\* The paths of AfterDelta, AfterTransfer and AfterSuspend, label by label.
LEMMA Path ==
  ASSUME TypeOK, ControlInv, NEW r \in Request
  PROVE  /\ pc[r] = "lock" /\ IsTransfer(r) => NextLabel(r) = "lockSecond"
         /\ pc[r] = "lock" /\ call[r].op = "suspend" => NextLabel(r) = "status"
         /\ pc[r] = "lock" /\ ~IsTransfer(r) /\ call[r].op # "suspend" => NextLabel(r) = "read"
         /\ pc[r] = "lockSecond" => NextLabel(r) = "begin"
         /\ pc[r] = "read" => NextLabel(r) = "begin"
         /\ pc[r] = "begin" => NextLabel(r) = IF IsTransfer(r) THEN "lockRow" ELSE "append"
         /\ pc[r] = "lockRow" => NextLabel(r) = "lockRowSecond"
         /\ pc[r] = "lockRowSecond" => NextLabel(r) = "validate"
         /\ pc[r] = "validate" => NextLabel(r) = "append"
         /\ pc[r] = "append" => NextLabel(r) = IF IsTransfer(r) THEN "appendCredit" ELSE "foreignKey"
         /\ pc[r] = "appendCredit" => NextLabel(r) = "update"
         /\ pc[r] = "foreignKey" => NextLabel(r) = "update"
         /\ pc[r] = "update" => NextLabel(r) = IF IsTransfer(r) THEN "updateCredit" ELSE "commit"
         /\ pc[r] = "updateCredit" => NextLabel(r) = "commit"
  BY DEF ControlInv, ControlAt, Reading, Writing, NextLabel, IsTransfer, AfterDelta, AfterTransfer, AfterSuspend

LEMMA RollbackType ==
  ASSUME DbTypeOK, NEW r \in Request, RollbackTx(r)
  PROVE  DbTypeOK'
<1>1. 0 \in Int64
  BY AmountAssumption DEF Int64
<1> QED
  BY <1>1 DEF DbTypeOK, RollbackTx, EndTx, NoBalances, NoLocks, LockMode

LEMMA CommitType ==
  ASSUME DbTypeOK, NEW r \in Request, CommitTx(r)
  PROVE  DbTypeOK'
<1>1. 0 \in Int64
  BY AmountAssumption DEF Int64
<1>2. ledger' \in Seq(EntryRecord)
  BY DEF DbTypeOK, CommitTx
<1>3. balance' \in [Wallet -> Int64]
  BY DEF DbTypeOK, CommitTx
<1> QED
  BY <1>1, <1>2, <1>3 DEF DbTypeOK, CommitTx, EndTx, NoBalances, NoLocks, LockMode

\* An early return.
LEMMA FailType ==
  ASSUME TypeOK, NEW r \in Request, NEW e \in Reply, Abandon(r, e), faults' \in 0..MaxFaults
  PROVE  TypeOK'
<1>1. DbTypeOK'
  BY RollbackType DEF Abandon, TypeOK
<1> QED
  BY <1>1 DEF TypeOK, Abandon, Return, Goto, Label

LEMMA TypeStep ==
  ASSUME TypeInv, NEW r \in Request, Step(r)
  PROVE  TypeOK'
<1> USE DEF TypeInv
<1>1. CASE Lookup(r)
  BY <1>1 DEF TypeOK, Lookup, dbVars, DbTypeOK, Goto, Label, Reading, Reply
<1>2. CASE Replay(r)
  <2>1. PICK n \in 1..Len(ledger) : shown' = [shown EXCEPT ![r] = balance[ledger[n].wallet]]
    BY <1>2 DEF Replay
  <2>2. ledger[n] \in EntryRecord
    BY DEF TypeOK, DbTypeOK
  <2>3. balance[ledger[n].wallet] \in Int64
    BY <2>2 DEF TypeOK, DbTypeOK, EntryRecord
  <2> QED
    BY <1>2, <2>1, <2>3 DEF TypeOK, Replay, dbVars, DbTypeOK, Goto, Label, Reply
<1>3. CASE LockWallet(r)
  <2>1. Target(r) \in WalletID
    BY <1>3, CallParts DEF TypeOK, LockWallet, Target
  <2>2. NextLabel(r) \in Label
    BY <1>3, Path DEF LockWallet, Label, Reading, Writing
  <2> QED
    BY <1>3, <2>1, <2>2 DEF TypeOK, LockWallet, dbVars, DbTypeOK, Goto
<1>4. CASE ReadWallet(r)
  <2>1. CASE DeltaError(call[r]) = "none" /\ ~Fail(r, DeltaError(call[r]))
    <3>1. call[r].from \in Wallet
      BY <2>1 DEF DeltaError
    <3>2. NextLabel(r) \in Label
      BY <1>4, Path DEF ReadWallet, Label, Reading, Writing
    <3>3. /\ seen' = [seen EXCEPT ![r][call[r].from] = balance[call[r].from]]
          /\ seenActive' = [seenActive EXCEPT ![r] = {call[r].from}]
          /\ pc' = [pc EXCEPT ![r] = NextLabel(r)]
          /\ UNCHANGED <<dbVars, call, inst, mutexes, reply, shown, applied, faults>>
      BY <1>4, <2>1 DEF ReadWallet, Goto
    <3>4. seen' \in [Request -> [Wallet -> Int64]] /\ seenActive' \in [Request -> SUBSET Wallet]
      BY <3>1, <3>3 DEF TypeOK, DbTypeOK
    <3> QED
      BY <3>2, <3>3, <3>4 DEF TypeOK, dbVars, DbTypeOK
  <2>2. CASE Fail(r, DeltaError(call[r]))
    <3>1. DeltaError(call[r]) \in Reply
      BY DEF DeltaError, Reply, BusinessError
    <3> QED
      BY <2>2, <3>1, FailType DEF Fail, TypeOK
  <2> QED
    BY <1>4, <2>1, <2>2 DEF ReadWallet
<1>5. CASE Begin(r)
  <2>1. NextLabel(r) \in Label
    BY <1>5, Path DEF Begin, Label, Reading, Writing
  <2> QED
    BY <1>5, <2>1 DEF TypeOK, Begin, BeginTx, Continue, DbTypeOK, Goto
<1>6. CASE GetAndLock(r)
  <2>1. CASE Fail(r, "ErrWalletNotFound")
    BY <2>1, FailType DEF Fail, TypeOK, Reply, BusinessError
  <2>2. CASE ~Fail(r, "ErrWalletNotFound")
    <3>1. Target(r) \in Wallet /\ Target(r) \in WalletID
      BY <1>6, <2>2, WalletAssumption DEF GetAndLock
    <3>2. NextLabel(r) \in Label
      BY <1>6, Path DEF GetAndLock, Label, Reading, Writing
    <3>3. /\ LockRowAs(r, Target(r), "update")
          /\ seen' = [seen EXCEPT ![r][Target(r)] = balance[Target(r)]]
          /\ seenActive' = [seenActive EXCEPT ![r] =
                              IF status[Target(r)] = "active" THEN @ \cup {Target(r)} ELSE @]
          /\ pc' = [pc EXCEPT ![r] = NextLabel(r)]
          /\ UNCHANGED <<call, inst, mutexes, reply, shown, applied, faults>>
      BY <1>6, <2>2 DEF GetAndLock, Goto
    <3>4. seen' \in [Request -> [Wallet -> Int64]] /\ seenActive' \in [Request -> SUBSET Wallet]
      BY <3>1, <3>3 DEF TypeOK, DbTypeOK
    <3>5. DbTypeOK'
      BY <3>1, <3>3 DEF TypeOK, DbTypeOK, LockRowAs, LockMode
    <3> QED
      BY <3>2, <3>3, <3>4, <3>5 DEF TypeOK
  <2> QED
    BY <2>1, <2>2
<1>7. CASE Validate(r)
  <2>1. CASE Fail(r, TransferError(r))
    <3>1. TransferError(r) \in Reply
      BY DEF TransferError, Reply, BusinessError
    <3> QED
      BY <2>1, <3>1, FailType DEF Fail, TypeOK
  <2>2. CASE ~Fail(r, TransferError(r))
    <3>1. NextLabel(r) \in Label
      BY <1>7, Path DEF Validate, Label, Reading, Writing
    <3> QED
      BY <1>7, <2>2, <3>1 DEF TypeOK, Validate, Continue, dbVars, DbTypeOK, Goto
  <2> QED
    BY <2>1, <2>2
<1>8. CASE AppendLedger(r)
  <2>1. CASE Fail(r, "ErrValueTooLong") \/ Fail(r, "ErrUniqueViolation")
    BY <2>1, FailType DEF Fail, TypeOK, Reply, DatabaseError
  <2>2. CASE ~(Fail(r, "ErrValueTooLong") \/ Fail(r, "ErrUniqueViolation"))
    <3>1. NextLabel(r) \in Label
      BY <1>8, Path DEF AppendLedger, Label, Reading, Writing
    <3>2. ValidCall(call[r])
      BY <1>8 DEF AppendLedger, ValidationInv, ValidationAt, PastValidation, Posting, ValidCall, IsTransfer
    <3>3. call[r].op # "suspend" /\ call[r].key \in Key
      BY <1>8 DEF AppendLedger, ControlInv, ControlAt, Writing
    <3>4. Target(r) \in Legs(call[r])
      BY <1>8 DEF AppendLedger, Target, Legs, ControlInv, ControlAt, IsTransfer
    <3>5. Entry(call[r], Target(r)) \in EntryRecord
      BY <3>2, <3>3, <3>4, EntryType DEF TypeOK
    <3>6. InsertEntry(r, Entry(call[r], Target(r))) /\ Continue(r)
      BY <1>8, <2>2 DEF AppendLedger
    <3> QED
      BY <3>1, <3>5, <3>6 DEF TypeOK, InsertEntry, Continue, DbTypeOK, Goto
  <2> QED
    BY <2>1, <2>2
<1>9. CASE ForeignKey(r)
  <2>1. Target(r) \in WalletID
    BY <1>9, CallParts DEF TypeOK, ForeignKey, Target
  <2>2. NextLabel(r) \in Label
    BY <1>9, Path DEF ForeignKey, Label, Reading, Writing
  <2> QED
    BY <1>9, <2>1, <2>2 DEF TypeOK, ForeignKey, LockRowAs, LockMode, Continue, DbTypeOK, Goto
<1>10. CASE UpdateBalance(r)
  <2>1. CASE Fail(r, "ErrOptimisticLock")
    BY <2>1, FailType DEF Fail, TypeOK, Reply, BusinessError
  <2>2. CASE ~Fail(r, "ErrOptimisticLock")
    <3>1. NextLabel(r) \in Label
      BY <1>10, Path DEF UpdateBalance, Label, Reading, Writing
    <3>2. ValidCall(call[r])
      BY <1>10 DEF UpdateBalance, ValidationInv, ValidationAt, PastValidation, Posting, ValidCall, IsTransfer
    <3>3. Target(r) \in Legs(call[r])
      BY <1>10 DEF UpdateBalance, Target, Legs, ControlInv, ControlAt, IsTransfer
    <3>4. Target(r) \in Wallet /\ Target(r) \in WalletID
      BY <3>2, <3>3, WalletAssumption DEF ValidCall
    <3>5. NewBalance(r, Target(r)) \in Int64
      BY <3>2, <3>4, DeltaType, WrapType DEF NewBalance, TypeOK
    <3>6. WriteBalance(r, Target(r), NewBalance(r, Target(r))) /\ Continue(r)
      BY <1>10, <2>2 DEF UpdateBalance
    <3> QED
      BY <3>1, <3>4, <3>5, <3>6 DEF TypeOK, WriteBalance, LockMode, Continue, DbTypeOK, Goto
  <2> QED
    BY <2>1, <2>2
<1>11. CASE Commit(r)
  <2>1. DbTypeOK'
    BY <1>11, CommitType DEF Commit, TypeOK
  <2>2. call[r].from \in Wallet
    BY <1>11, CallParts DEF Commit, TypeOK, ValidationInv, ValidationAt, PastValidation, Posting
  <2>3. txBalance[r][call[r].from] \in Int64
    BY <2>2 DEF TypeOK, DbTypeOK
  <2> QED
    BY <1>11, <2>1, <2>3 DEF TypeOK, Commit, Goto, Label, Reply
<1>12. CASE UpdateStatus(r)
  <2>1. CASE Fail(r, "ErrWalletNotFound")
    BY <2>1, FailType DEF Fail, TypeOK, Reply, BusinessError
  <2>2. CASE ~Fail(r, "ErrWalletNotFound")
    BY <1>12, <2>2 DEF TypeOK, UpdateStatus, WriteStatus, DbTypeOK, Status, Return, Goto, Label, Reply
  <2> QED
    BY <2>1, <2>2
<1>13. CASE Unlock(r)
  <2>1. 0 \in Int64
    BY AmountAssumption DEF Int64
  <2> QED
    BY <1>13, <2>1 DEF TypeOK, Unlock, NoBalances, dbVars, DbTypeOK, Goto, Label
<1>14. CASE DeadlockVictim(r)
  BY <1>14, FailType DEF DeadlockVictim, Fail, TypeOK, Reply, DatabaseError
<1>15. CASE LateEffect(r)
  <2>1. DbTypeOK' /\ applied' \subseteq Request
    BY <1>15, CommitType DEF LateEffect, TakeEffect, TypeOK, WriteStatus, DbTypeOK, Status
  <2> QED
    BY <1>15, <2>1 DEF TypeOK, LateEffect, Goto, Label
<1>16. CASE DropConnection(r)
  <2>1. DbTypeOK'
    BY <1>16, RollbackType DEF DropConnection, TypeOK
  <2> QED
    BY <1>16, <2>1 DEF TypeOK, DropConnection, Goto, Label
<1>17. CASE LateStatement(r)
  <2>1. Target(r) \in WalletID
    BY CallParts DEF TypeOK, Target
  <2>2. DbTypeOK'
    <3>1. CASE LockRowAs(r, Target(r), "update") \/ LockRowAs(r, Target(r), "keyshare")
      <4>1. PICK mode \in LockMode : LockRowAs(r, Target(r), mode)
        BY <3>1 DEF LockMode
      <4> QED
        BY <2>1, <4>1 DEF TypeOK, DbTypeOK, LockRowAs
    <3>2. CASE InsertEntry(r, Entry(call[r], Target(r))) /\ pc[r] \in {"lateInsert", "lateCredit"}
      <4>1. ValidCall(call[r]) /\ Target(r) \in Legs(call[r])
        BY <3>2 DEF ValidationInv, ValidationAt, PastValidation, ValidCall, IsTransfer, Target, Legs,
                    ControlInv, ControlAt
      <4>2. call[r].op # "suspend" /\ call[r].key \in Key
        BY <3>2 DEF ControlInv, ControlAt
      <4>3. Entry(call[r], Target(r)) \in EntryRecord
        BY <4>1, <4>2, EntryType DEF TypeOK
      <4> QED
        BY <3>2, <4>3 DEF TypeOK, DbTypeOK, InsertEntry
    <3> QED
      BY <1>17, <3>1, <3>2 DEF LateStatement
  <2>3. pc' \in [Request -> Label]
    BY <1>17 DEF TypeOK, LateStatement, Goto, Label
  <2> QED
    BY <1>17, <2>2, <2>3 DEF TypeOK, LateStatement
<1> QED
  BY <1>1, <1>2, <1>3, <1>4, <1>5, <1>6, <1>7, <1>8, <1>9, <1>10, <1>11, <1>12, <1>13, <1>14, <1>15, <1>16,
     <1>17 DEF Step

\* A step of r moves only r, to its next label or out of the function.
LEMMA StepMoves ==
  ASSUME TypeOK, NEW r \in Request, Step(r)
  PROVE  /\ UNCHANGED <<call, inst>>
         /\ pc' = [pc EXCEPT ![r] = pc'[r]]
         /\ \/ pc'[r] \in {"unlock", "done"}
            \/ pc[r] \in Late /\ pc'[r] = "orphan"
            \/ pc[r] \in {"lateInsert", "lateCredit"} /\ ~IsTransfer(r) /\ pc'[r] = "lateForeignKey"
            \/ pc[r] = "lookup" /\ (pc'[r] = "lock" \/ (pc'[r] = "replay" /\ ~IsTransfer(r)))
            \/ /\ pc'[r] = NextLabel(r)
               /\ pc[r] \in {"lock", "lockSecond", "read", "begin", "lockRow", "lockRowSecond",
                             "validate", "append", "appendCredit", "foreignKey", "update",
                             "updateCredit"}
               /\ pc[r] = "read" => DeltaError(call[r]) = "none"
               /\ pc[r] = "validate" => TransferError(r) = "none"
<1> USE DEF TypeOK, Goto
<1>1. CASE Lookup(r)
  BY <1>1 DEF Lookup
<1>2. CASE Replay(r)
  BY <1>2 DEF Replay
<1>3. CASE LockWallet(r)
  BY <1>3 DEF LockWallet
<1>4. CASE ReadWallet(r)
  BY <1>4 DEF ReadWallet, Fail, Abandon, Return
<1>5. CASE Begin(r)
  BY <1>5 DEF Begin, Continue
<1>6. CASE GetAndLock(r)
  BY <1>6 DEF GetAndLock, Fail, Abandon, Return
<1>7. CASE Validate(r)
  BY <1>7 DEF Validate, Continue, Fail, Abandon, Return
<1>8. CASE AppendLedger(r)
  BY <1>8 DEF AppendLedger, Continue, Fail, Abandon, Return
<1>9. CASE ForeignKey(r)
  BY <1>9 DEF ForeignKey, Continue
<1>10. CASE UpdateBalance(r)
  BY <1>10 DEF UpdateBalance, Continue, Fail, Abandon, Return
<1>11. CASE Commit(r)
  BY <1>11 DEF Commit
<1>12. CASE UpdateStatus(r)
  BY <1>12 DEF UpdateStatus, Fail, Abandon, Return
<1>13. CASE Unlock(r)
  BY <1>13 DEF Unlock
<1>14. CASE DeadlockVictim(r)
  BY <1>14 DEF DeadlockVictim, Fail, Abandon, Return
<1>15. CASE LateEffect(r)
  BY <1>15 DEF LateEffect
<1>16. CASE DropConnection(r)
  BY <1>16 DEF DropConnection
<1>17. CASE LateStatement(r)
  <2>1. pc[r] \in Late /\ UNCHANGED <<call, inst>>
    BY <1>17 DEF LateStatement
  <2>2. \/ Goto(r, "orphan")
        \/ pc[r] \in {"lateInsert", "lateCredit"} /\ ~IsTransfer(r) /\ Goto(r, "lateForeignKey")
    BY <1>17, Zenon DEF LateStatement
  <2> QED
    BY <2>1, <2>2
<1> QED
  BY <1>1, <1>2, <1>3, <1>4, <1>5, <1>6, <1>7, <1>8, <1>9, <1>10, <1>11, <1>12, <1>13, <1>14, <1>15, <1>16,
     <1>17 DEF Step

LEMMA ControlStep ==
  ASSUME TypeInv, NEW r \in Request, Step(r)
  PROVE  ControlInv'
<1> SUFFICES ASSUME NEW q \in Request
             PROVE  ControlAt(q)'
  BY DEF ControlInv
<1>1. ControlAt(q)
  BY DEF TypeInv, ControlInv
<1>2. CASE q # r
  BY <1>1, <1>2, StepMoves DEF TypeInv, TypeOK, ControlAt, IsTransfer
<1>3. CASE q = r
  <2>1. call' = call
    BY StepMoves DEF TypeInv
  <2>2. pc[r] \notin {"idle", "done"}
    BY DEF Step, Lookup, Replay, LockWallet, ReadWallet, Begin, GetAndLock, Validate, AppendLedger,
           ForeignKey, UpdateBalance, Commit, UpdateStatus, Unlock, DeadlockVictim,
           Blockers, LateEffect, LateStatement, DropConnection
  <2>3. CASE pc'[r] \in {"unlock", "done"}
    BY <1>1, <1>3, <2>1, <2>2, <2>3 DEF ControlAt, IsTransfer, Reading, Writing
  <2>4. CASE pc[r] = "lookup" /\ (pc'[r] = "lock" \/ (pc'[r] = "replay" /\ ~IsTransfer(r)))
    BY <1>1, <1>3, <2>1, <2>4 DEF ControlAt, IsTransfer, Reading, Writing
  <2>5. CASE pc'[r] = NextLabel(r) /\ pc[r] \in {"lock", "lockSecond", "read", "begin", "lockRow",
               "lockRowSecond", "validate", "append", "appendCredit", "foreignKey", "update",
               "updateCredit"}
    BY <1>1, <1>3, <2>1, <2>5, Path DEF TypeInv, ControlAt, IsTransfer, Reading, Writing
  <2>6. CASE \/ pc[r] \in Late /\ pc'[r] = "orphan"
             \/ pc[r] \in {"lateInsert", "lateCredit"} /\ ~IsTransfer(r) /\ pc'[r] = "lateForeignKey"
    BY <1>1, <1>3, <2>1, <2>6 DEF ControlAt, IsTransfer, Reading, Writing
  <2> QED
    BY <2>3, <2>4, <2>5, <2>6, StepMoves DEF TypeInv
<1> QED
  BY <1>2, <1>3

LEMMA ValidationStep ==
  ASSUME TypeInv, NEW r \in Request, Step(r)
  PROVE  ValidationInv'
<1> SUFFICES ASSUME NEW q \in Request
             PROVE  ValidationAt(q)'
  BY DEF ValidationInv
<1>1. ValidationAt(q) /\ ControlAt(q)
  BY DEF TypeInv, ValidationInv, ControlInv
<1>2. CASE q # r
  BY <1>1, <1>2, StepMoves DEF TypeInv, TypeOK, ValidationAt, PastValidation, IsTransfer
<1>3. CASE q = r
  <2>1. call' = call
    BY StepMoves DEF TypeInv
  <2>2. CASE pc'[r] \in {"unlock", "done", "lock", "replay", "orphan", "lateForeignKey"}
    BY <1>3, <2>2 DEF ValidationAt, PastValidation, Posting
  <2>3. CASE pc[r] = "read" /\ pc'[r] = NextLabel(r) /\ DeltaError(call[r]) = "none"
    BY <1>1, <1>3, <2>1, <2>3 DEF ControlAt, ValidationAt, IsTransfer, Legs, DeltaError, Reading
  <2>4. CASE pc[r] = "validate" /\ pc'[r] = NextLabel(r) /\ TransferError(r) = "none"
    <3>1. /\ Legs(call[r]) \subseteq seenActive[r]
          /\ CentsOf(call[r]) # Rejected
          /\ CurrencyOf[call[r].from] = CurrencyOf[call[r].to]
      BY <2>4 DEF TransferError
    <3>2. seenActive[r] \subseteq Wallet
      BY DEF TypeInv, TypeOK
    <3> QED
      BY <1>3, <2>1, <3>1, <3>2 DEF ValidationAt
  <2>5. CASE pc'[r] = NextLabel(r) /\ pc[r] \in {"lock", "lockSecond", "begin", "lockRow",
               "lockRowSecond", "append", "appendCredit", "foreignKey", "update", "updateCredit"}
    BY <1>1, <1>3, <2>1, <2>5, Path DEF TypeInv, ControlAt, ValidationAt, PastValidation, Posting, IsTransfer
  <2> QED
    BY <2>2, <2>3, <2>4, <2>5, StepMoves DEF TypeInv
<1> QED
  BY <1>2, <1>3

LEMMA ArriveTypeInv ==
  ASSUME TypeInv, NEW r \in Request, NEW c \in Call, NEW i \in Instance, Arrive(r, c, i)
  PROVE  TypeInv'
<1> USE DEF TypeInv
<1>1. ArrivalError(c) \in Reply
  BY DEF ArrivalError, Reply, BusinessError
<1>2. TypeOK'
  BY <1>1 DEF TypeOK, Arrive, Goto, Label, dbVars, DbTypeOK
<1>3. pc'[r] \in {"done", "lock", "lookup"} /\ call'[r] = c
  BY DEF Arrive, TypeOK, Goto
<1>4. ArrivalError(c) = "none" => c.op = "suspend" \/ (c.key \in Key /\ (c.op = "transfer" => c.from # c.to))
  BY CallParts DEF ArrivalError
<1>5. ASSUME NEW q \in Request PROVE ControlAt(q)' /\ ValidationAt(q)'
  <2>1. ControlAt(q) /\ ValidationAt(q)
    BY DEF ControlInv, ValidationInv
  <2>2. CASE q # r
    BY <2>1, <2>2 DEF TypeOK, Arrive, Goto, ControlAt, ValidationAt, PastValidation, IsTransfer
  <2>3. CASE q = r
    BY <1>3, <1>4, <2>3 DEF TypeOK, Arrive, Goto, ControlAt, ValidationAt, PastValidation, Posting,
                             IsTransfer, Reading, Writing
  <2> QED
    BY <2>2, <2>3
<1> QED
  BY <1>2, <1>5 DEF ControlInv, ValidationInv

LEMMA FaultTypeInv ==
  ASSUME TypeInv, NEW r \in Request, Fault(r)
  PROVE  TypeInv'
<1> USE DEF TypeInv
<1>1. faults' \in 0..MaxFaults
  BY ServiceAssumption DEF Fault, LookupFault, StorageFault, AnswerLost, CountFault, TypeOK
<1>2. TypeOK'
  <2>1. CASE LookupFault(r)
    BY <1>1, <2>1 DEF TypeOK, LookupFault, Goto, Label, dbVars, DbTypeOK
  <2>2. CASE StorageFault(r)
    BY <1>1, <2>2, FailType DEF StorageFault, Reply, UnknownOutcome
  <2>3. CASE AnswerLost(r)
    <3>1. DbTypeOK' /\ applied' \subseteq Request
      BY <2>3, CommitType DEF AnswerLost, TakeEffect, TypeOK, WriteStatus, DbTypeOK, Status
    <3> QED
      BY <1>1, <2>3, <3>1 DEF TypeOK, AnswerLost, Goto, Label, Reply, UnknownOutcome
  <2> QED
    BY <2>1, <2>2, <2>3 DEF Fault
<1>3. /\ call' = call /\ pc' = [pc EXCEPT ![r] = pc'[r]]
      /\ pc'[r] = "unlock" \/ (pc[r] = "lookup" /\ pc'[r] = "lock")
      /\ pc[r] \notin {"idle", "done"}
  BY DEF Fault, LookupFault, StorageFault, AnswerLost, Abandon, Return, Goto, TypeOK, Reading, Writing
<1>4. ASSUME NEW q \in Request PROVE ControlAt(q)' /\ ValidationAt(q)'
  <2>1. ControlAt(q) /\ ValidationAt(q)
    BY DEF ControlInv, ValidationInv
  <2> QED
    BY <1>3, <2>1 DEF TypeOK, ControlAt, ValidationAt, PastValidation, Posting, IsTransfer, Reading, Writing
<1> QED
  BY <1>2, <1>4 DEF ControlInv, ValidationInv

\* What a crash makes of a request that the dead process served.
Leaves(r, label) ==
  \/ label = "orphan" /\ r \in txOpen
  \/ label = "done" /\ r \notin txOpen
  \/ label = "lateRow" /\ pc[r] = "lockRow" /\ IsTransfer(r)
  \/ label = "lateRowSecond" /\ pc[r] = "lockRowSecond" /\ IsTransfer(r)
  \/ label = "lateInsert" /\ pc[r] = "append" /\ call[r].op # "suspend"
  \/ label = "lateCredit" /\ pc[r] = "appendCredit" /\ IsTransfer(r)
  \/ label = "lateForeignKey" /\ pc[r] = "foreignKey" /\ ~IsTransfer(r) /\ call[r].op # "suspend"
  \/ label = "lateUpdate" /\ pc[r] = "update" /\ ~IsTransfer(r) /\ call[r].op # "suspend"
  \/ label = "inFlight" /\ pc[r] = "commit" /\ call[r].op # "suspend"
  \/ label = "inFlight" /\ pc[r] = "status" /\ call[r].op = "suspend"

LEMMA WhatRemains ==
  ASSUME NEW r, NEW arrived \in BOOLEAN
  PROVE  Leaves(r, Remains(r, arrived))
<1>1. CASE Remains(r, arrived) = IF r \in txOpen THEN "orphan" ELSE "done"
  BY <1>1 DEF Leaves
<1>2. CASE pc[r] \in DOMAIN LateLabels(r) /\ Remains(r, arrived) = LateLabels(r)[pc[r]]
  <2>1. CASE IsTransfer(r)
    <3>1. LateLabels(r) = LateTransfer
      BY <2>1 DEF LateLabels
    <3>2. pc[r] \in {"lockRow", "lockRowSecond", "append", "appendCredit", "commit"}
      BY <1>2, <3>1 DEF LateTransfer
    <3> QED
      BY <1>2, <2>1, <3>1, <3>2 DEF Leaves, LateTransfer, IsTransfer
  <2>2. CASE ~IsTransfer(r) /\ call[r].op = "suspend"
    <3>1. LateLabels(r) = LateSuspend
      BY <2>2 DEF LateLabels
    <3>2. pc[r] = "status"
      BY <1>2, <3>1 DEF LateSuspend
    <3> QED
      BY <1>2, <2>2, <3>1, <3>2 DEF Leaves, LateSuspend
  <2>3. CASE ~IsTransfer(r) /\ call[r].op # "suspend"
    <3>1. LateLabels(r) = LateDelta
      BY <2>3 DEF LateLabels
    <3>2. pc[r] \in {"append", "foreignKey", "update", "commit"}
      BY <1>2, <3>1 DEF LateDelta
    <3> QED
      BY <1>2, <2>3, <3>1, <3>2 DEF Leaves, LateDelta
  <2> QED
    BY <2>1, <2>2, <2>3
<1> QED
  BY <1>1, <1>2 DEF Remains

\* A crash of instance i, request by request.
LEMMA CrashMoves ==
  ASSUME NEW i \in Instance, Crash(i), NEW q \in Request
  PROVE  /\ inst[q] = i /\ pc[q] \notin {"idle", "done"} \cup Dead => Leaves(q, pc'[q])
         /\ ~(inst[q] = i /\ pc[q] \notin {"idle", "done"} \cup Dead) => pc'[q] = pc[q]
         /\ UNCHANGED <<dbVars, call, inst, shown, applied>>
<1> DEFINE lost == {r \in Request : inst[r] = i /\ pc[r] \notin {"idle", "done"} \cup Dead}
<1>1. PICK arrived \in SUBSET lost :
        pc' = [r \in Request |-> IF r \in lost THEN Remains(r, r \in arrived) ELSE pc[r]]
  BY Zenon DEF Crash
<1>2. (q \in arrived) \in BOOLEAN
  OBVIOUS
<1>3. Leaves(q, Remains(q, q \in arrived))
  BY <1>2, WhatRemains
<1>4. UNCHANGED <<dbVars, call, inst, shown, applied>>
  BY DEF Crash
<1>5. pc'[q] = IF q \in lost THEN Remains(q, q \in arrived) ELSE pc[q]
  BY <1>1, Zenon
<1> HIDE DEF Leaves
<1> QED
  BY <1>3, <1>4, <1>5

LEMMA CrashTypeInv ==
  ASSUME TypeInv, NEW i \in Instance, Crash(i)
  PROVE  TypeInv'
<1> USE DEF TypeInv
<1> DEFINE lost == {r \in Request : inst[r] = i /\ pc[r] \notin {"idle", "done"} \cup Dead}
<1>1. 0 \in Int64
  BY AmountAssumption DEF Int64
<1>2. \A r \in Request : pc'[r] \in Label
  BY CrashMoves DEF Leaves, TypeOK, Label
<1>3. TypeOK'
  <2>1. pc' \in [Request -> Label]
    BY <1>2 DEF Crash
  <2> QED
    BY <1>1, <2>1, ServiceAssumption DEF TypeOK, Crash, CountFault, Reply, UnknownOutcome, NoBalances,
       dbVars, DbTypeOK
<1>4. ASSUME NEW q \in Request PROVE ControlAt(q)' /\ ValidationAt(q)'
  <2>1. ControlAt(q) /\ ValidationAt(q)
    BY DEF ControlInv, ValidationInv
  <2>2. call' = call
    BY DEF Crash
  <2>3. CASE q \notin lost
    BY <2>1, <2>2, <2>3, CrashMoves DEF ControlAt, ValidationAt, PastValidation, IsTransfer
  <2>4. CASE q \in lost
    <3>1. Leaves(q, pc'[q]) /\ pc[q] \notin {"idle", "done"}
      BY <2>4, CrashMoves
    <3> QED
      BY <2>1, <2>2, <3>1 DEF Leaves, ControlAt, ValidationAt, PastValidation, Posting, IsTransfer,
                              Reading, Writing
  <2> QED
    BY <2>3, <2>4
<1> QED
  BY <1>3, <1>4 DEF ControlInv, ValidationInv

LEMMA TypeInvStep == TypeInv /\ [Next]_vars => TypeInv'
<1> SUFFICES ASSUME TypeInv, [Next]_vars PROVE TypeInv'
  OBVIOUS
<1>1. ASSUME NEW r \in Request, NEW c \in Call, NEW i \in Instance, Arrive(r, c, i) PROVE TypeInv'
  BY <1>1, ArriveTypeInv
<1>2. ASSUME NEW r \in Request, Step(r) PROVE TypeInv'
  BY <1>2, TypeStep, ControlStep, ValidationStep DEF TypeInv
<1>3. ASSUME NEW r \in Request, Fault(r) PROVE TypeInv'
  BY <1>3, FaultTypeInv
<1>4. ASSUME NEW i \in Instance, Crash(i) PROVE TypeInv'
  BY <1>4, CrashTypeInv
<1>5. CASE UNCHANGED vars
  BY <1>5 DEF TypeInv, TypeOK, DbTypeOK, ControlInv, ControlAt, ValidationInv, ValidationAt, PastValidation,
              IsTransfer, vars, dbVars, reqVars
<1> QED
  BY <1>1, <1>2, <1>3, <1>4, <1>5 DEF Next, Quiet

\* Whatever is called, in whatever order, on however many instances, and whatever
\* fails: balances stay 64-bit integers of existing wallets, every row inserted is
\* a well-formed ledger entry, and no operation gets to a statement it does not
\* execute.
THEOREM TypeCorrect == Spec => []TypeOK
<1>1. Init => TypeInv
  BY InitTypeOK DEF TypeInv, Init, ControlInv, ControlAt, ValidationInv, ValidationAt, PastValidation,
     Posting, Reading, Writing
<1>2. TypeInv => TypeOK
  BY DEF TypeInv
<1> QED
  BY <1>1, <1>2, TypeInvStep, PTL DEF Spec

-----------------------------------------------------------------------------
(* What a step or a fault of a request does to the database *)

LocalKind(r) ==
  /\ pc[r] \in {"lookup", "replay", "lock", "lockSecond", "unlock"}
  /\ pc'[r] \in {"lock", "lockSecond", "read", "replay", "status", "begin", "done"}
  /\ pc'[r] = "begin" => IsTransfer(r)
  /\ pc[r] \in {"replay", "unlock"} => pc'[r] = "done"
  /\ UNCHANGED <<dbVars, applied>>
  /\ (seen' = seen /\ seenActive' = seenActive) \/ pc'[r] = "done"
  /\ \A q \in Request \ {r} : seen'[q] = seen[q] /\ seenActive'[q] = seenActive[q]
ReadKind(r) ==
  /\ pc[r] = "read" /\ pc'[r] = "begin"
  /\ DeltaError(call[r]) = "none"
  /\ seen' = [seen EXCEPT ![r][call[r].from] = balance[call[r].from]]
  /\ seenActive' = [seenActive EXCEPT ![r] = {call[r].from}]
  /\ UNCHANGED <<dbVars, applied>>
ValidateKind(r) ==
  /\ pc[r] = "validate" /\ pc'[r] = "append"
  /\ TransferError(r) = "none"
  /\ UNCHANGED <<dbVars, seen, seenActive, applied>>
RollbackKind(r) ==
  /\ pc'[r] \in {"unlock", "done"}
  /\ RollbackTx(r)
  /\ UNCHANGED <<seen, seenActive, applied>>
BeginKind(r) ==
  /\ pc[r] = "begin" /\ pc'[r] = IF IsTransfer(r) THEN "lockRow" ELSE "append"
  /\ BeginTx(r)
  /\ UNCHANGED <<seen, seenActive, applied>>
LockKind(r) ==
  /\ \/ pc[r] = "lockRow" /\ pc'[r] = "lockRowSecond"
     \/ pc[r] = "lockRowSecond" /\ pc'[r] = "validate"
  /\ Target(r) \in Wallet
  /\ UpdateBlockers(r, Target(r)) = {}
  /\ LockRowAs(r, Target(r), "update")
  /\ seen' = [seen EXCEPT ![r][Target(r)] = balance[Target(r)]]
  /\ seenActive' = [seenActive EXCEPT ![r] =
                      IF status[Target(r)] = "active" THEN @ \cup {Target(r)} ELSE @]
  /\ UNCHANGED applied
AppendKind(r) ==
  /\ \/ pc[r] = "append" /\ pc'[r] = IF IsTransfer(r) THEN "appendCredit" ELSE "foreignKey"
     \/ pc[r] = "appendCredit" /\ pc'[r] = "update"
  /\ LET e == Entry(call[r], Target(r))
     IN  ~KeyCommitted(e.key) /\ KeyBlockers(r, e.key) = {} /\ InsertEntry(r, e)
  /\ UNCHANGED <<seen, seenActive, applied>>
ForeignKeyKind(r) ==
  /\ pc[r] = "foreignKey" /\ pc'[r] = "update"
  /\ ShareBlockers(r, call[r].from) = {}
  /\ LockRowAs(r, call[r].from, "keyshare")
  /\ UNCHANGED <<seen, seenActive, applied>>
UpdateKind(r) ==
  /\ \/ pc[r] = "update" /\ pc'[r] = IF IsTransfer(r) THEN "updateCredit" ELSE "commit"
     \/ pc[r] = "updateCredit" /\ pc'[r] = "commit"
  /\ UpdateBlockers(r, Target(r)) = {}
  /\ ~Stale(r, Target(r))
  /\ WriteBalance(r, Target(r), NewBalance(r, Target(r)))
  /\ UNCHANGED <<seen, seenActive, applied>>
CommitKind(r) ==
  /\ pc[r] = "commit" \/ (pc[r] = "inFlight" /\ call[r].op # "suspend")
  /\ pc'[r] \in {"unlock", "done"}
  /\ CommitTx(r)
  /\ applied' = applied \cup {r}
  /\ UNCHANGED <<seen, seenActive>>
StatusKind(r) ==
  /\ pc[r] \in {"status", "inFlight"} /\ call[r].op = "suspend"
  /\ pc'[r] \in {"unlock", "done"}
  /\ call[r].from \in Wallet
  /\ ShareBlockers(r, call[r].from) = {}
  /\ WriteStatus(call[r].from, "suspended")
  /\ UNCHANGED <<seen, seenActive, applied>>
LateKind(r) ==
  /\ pc[r] \in Late
  /\ \/ pc'[r] = "orphan"
     \/ pc[r] = "lateInsert" /\ ~IsTransfer(r) /\ pc'[r] = "lateForeignKey"
  /\ \/ /\ pc[r] \in {"lateRow", "lateRowSecond", "lateUpdate"}
        /\ Target(r) \in Wallet
        /\ UpdateBlockers(r, Target(r)) = {}
        /\ LockRowAs(r, Target(r), "update")
     \/ /\ pc[r] \in {"lateInsert", "lateCredit"}
        /\ LET e == Entry(call[r], Target(r))
           IN  ~KeyCommitted(e.key) /\ KeyBlockers(r, e.key) = {} /\ InsertEntry(r, e)
     \/ /\ pc[r] = "lateForeignKey"
        /\ ShareBlockers(r, call[r].from) = {}
        /\ LockRowAs(r, call[r].from, "keyshare")
  /\ UNCHANGED <<seen, seenActive, applied>>

LEMMA Kinds ==
  ASSUME TypeInv, NEW r \in Request, Step(r) \/ Fault(r)
  PROVE  /\ UNCHANGED <<call, inst>>
         /\ pc' = [pc EXCEPT ![r] = pc'[r]]
         /\ pc[r] \notin {"idle", "done"}
         /\ \/ LocalKind(r) \/ ReadKind(r) \/ ValidateKind(r) \/ RollbackKind(r) \/ BeginKind(r)
            \/ LockKind(r) \/ AppendKind(r) \/ ForeignKeyKind(r) \/ UpdateKind(r) \/ CommitKind(r)
            \/ StatusKind(r) \/ LateKind(r)
<1> USE DEF TypeInv
<1>0. /\ pc \in [Request -> Label]
      /\ ControlAt(r)
      /\ seen \in [Request -> [Wallet -> Int64]]
  BY DEF TypeOK, ControlInv
<1>1. CASE Lookup(r)
  BY <1>0, <1>1 DEF Lookup, Goto, LocalKind
<1>2. CASE Replay(r)
  BY <1>0, <1>2 DEF Replay, Goto, LocalKind
<1>3. CASE LockWallet(r)
  BY <1>0, <1>3, Path DEF LockWallet, Goto, LocalKind, ControlAt
<1>4. CASE ReadWallet(r)
  BY <1>0, <1>4, Path DEF ReadWallet, Goto, ReadKind, RollbackKind, Fail, Abandon, Return
<1>5. CASE Begin(r)
  BY <1>0, <1>5, Path DEF Begin, Continue, Goto, BeginKind
<1>6. CASE GetAndLock(r)
  BY <1>0, <1>6, Path DEF GetAndLock, Goto, LockKind, RollbackKind, Fail, Abandon, Return, Blockers
<1>7. CASE Validate(r)
  BY <1>0, <1>7, Path DEF Validate, Continue, Goto, ValidateKind, RollbackKind, Fail, Abandon, Return
<1>8. CASE AppendLedger(r)
  <2>1. Entry(call[r], Target(r)).key = EntryKey(call[r], Target(r))
    BY DEF Entry
  <2> QED
    BY <1>0, <1>8, <2>1, Path DEF AppendLedger, UniqueViolation, Continue, Goto, AppendKind, RollbackKind, Fail, Abandon,
       Return, Blockers
<1>9. CASE ForeignKey(r)
  BY <1>0, <1>9, Path DEF ForeignKey, Continue, Goto, ForeignKeyKind, Blockers, Target
<1>10. CASE UpdateBalance(r)
  BY <1>0, <1>10, Path DEF UpdateBalance, Continue, Goto, UpdateKind, RollbackKind, Fail, Abandon, Return,
     Blockers
<1>11. CASE Commit(r)
  BY <1>0, <1>11 DEF Commit, Goto, CommitKind
<1>12. CASE UpdateStatus(r)
  BY <1>0, <1>12 DEF UpdateStatus, Goto, StatusKind, RollbackKind, Fail, Abandon, Return, Blockers, Target,
     ControlAt
<1>13. CASE Unlock(r)
  BY <1>0, <1>13 DEF Unlock, Goto, LocalKind, TypeOK
<1>14. CASE DeadlockVictim(r)
  <2>1. pc[r] \notin {"idle", "done"}
    BY <1>14 DEF DeadlockVictim, Blockers
  <2> QED
    BY <1>0, <1>14, <2>1 DEF DeadlockVictim, Fail, Abandon, Return, Goto, RollbackKind
<1>15. CASE LateEffect(r)
  BY <1>0, <1>15 DEF LateEffect, TakeEffect, Goto, CommitKind, StatusKind, Blockers, Target
<1>16. CASE DropConnection(r)
  BY <1>0, <1>16 DEF DropConnection, Goto, RollbackKind
<1>17. CASE LookupFault(r)
  BY <1>0, <1>17 DEF LookupFault, Goto, LocalKind
<1>18. CASE StorageFault(r)
  BY <1>0, <1>18 DEF StorageFault, Abandon, Return, Goto, RollbackKind, Reading, Writing
<1>19. CASE AnswerLost(r)
  BY <1>0, <1>19 DEF AnswerLost, TakeEffect, Goto, CommitKind, StatusKind, Blockers, Target, ControlAt,
     Writing
<1>20. CASE LateStatement(r)
  <2>1. Entry(call[r], Target(r)).key = EntryKey(call[r], Target(r))
    BY DEF Entry
  <2>2. pc[r] = "lateForeignKey" => Target(r) = call[r].from
    BY DEF Target
  <2>3. /\ pc[r] \in Late /\ UNCHANGED <<call, inst, seen, seenActive, applied>>
        /\ Blockers(r) = {}
        /\ \/ /\ pc[r] \in {"lateRow", "lateRowSecond", "lateUpdate"}
              /\ Target(r) \in Wallet
              /\ LockRowAs(r, Target(r), "update")
              /\ Goto(r, "orphan")
           \/ /\ pc[r] \in {"lateInsert", "lateCredit"}
              /\ ~UniqueViolation(Entry(call[r], Target(r)).key)
              /\ InsertEntry(r, Entry(call[r], Target(r)))
              /\ Goto(r, IF IsTransfer(r) THEN "orphan" ELSE "lateForeignKey")
           \/ /\ pc[r] = "lateForeignKey"
              /\ LockRowAs(r, Target(r), "keyshare")
              /\ Goto(r, "orphan")
    BY <1>20 DEF LateStatement
  <2>4. pc[r] = "lateCredit" => IsTransfer(r)
    BY <1>0 DEF ControlAt
  <2>5. pc'[r] = "orphan" \/ (pc[r] = "lateInsert" /\ ~IsTransfer(r) /\ pc'[r] = "lateForeignKey")
    BY <1>0, <2>3, <2>4 DEF Goto
  <2>6. LateKind(r)
    BY <2>1, <2>2, <2>3, <2>5 DEF LateKind, UniqueViolation, Blockers
  <2> QED
    BY <1>0, <2>3, <2>6 DEF Goto
<1> QED
  BY <1>1, <1>2, <1>3, <1>4, <1>5, <1>6, <1>7, <1>8, <1>9, <1>10, <1>11, <1>12, <1>13, <1>14, <1>15, <1>16,
     <1>17, <1>18, <1>19, <1>20 DEF Step, Fault

\* It leaves the transactions and the readings of the other requests alone.
LEMMA Others ==
  ASSUME TypeInv, NEW r \in Request, Step(r) \/ Fault(r), NEW q \in Request, q # r
  PROVE  /\ pc'[q] = pc[q]
         /\ q \in txOpen' <=> q \in txOpen
         /\ inserted'[q] = inserted[q] /\ dirty'[q] = dirty[q] /\ txBalance'[q] = txBalance[q]
         /\ rowLock'[q] = rowLock[q]
         /\ seen'[q] = seen[q] /\ seenActive'[q] = seenActive[q]
<1> USE DEF TypeInv, TypeOK, DbTypeOK
<1>1. pc'[q] = pc[q]
  BY Kinds
<1>2. CASE LocalKind(r) \/ ReadKind(r) \/ ValidateKind(r)
  BY <1>1, <1>2 DEF LocalKind, ReadKind, ValidateKind, dbVars
<1>3. CASE RollbackKind(r) \/ CommitKind(r)
  BY <1>1, <1>3 DEF RollbackKind, CommitKind, RollbackTx, CommitTx, EndTx
<1>4. CASE BeginKind(r) \/ StatusKind(r) \/ AppendKind(r)
  BY <1>1, <1>4 DEF BeginKind, StatusKind, AppendKind, BeginTx, WriteStatus, InsertEntry
<1>5. CASE LockKind(r) \/ ForeignKeyKind(r)
  BY <1>1, <1>5 DEF LockKind, ForeignKeyKind, LockRowAs
<1>6. CASE UpdateKind(r)
  BY <1>1, <1>6 DEF UpdateKind, WriteBalance
<1>7. CASE LateKind(r)
  BY <1>1, <1>7 DEF LateKind, LockRowAs, InsertEntry
<1> QED
  BY <1>2, <1>3, <1>4, <1>5, <1>6, <1>7, Kinds

LEMMA AppendPair ==
  ASSUME NEW a, NEW b
  PROVE  Append(<<a>>, b) = <<a, b>>
<1> DEFINE s == Append(<<a>>, b)
<1>1. <<a>> \in Seq({a, b}) /\ b \in {a, b}
  OBVIOUS
<1>2. s \in Seq({a, b}) /\ Len(s) = 2 /\ s[1] = a /\ s[2] = b
  BY <1>1
<1> HIDE DEF s
<1>3. s = <<a, b>>
  BY <1>2
<1> QED
  BY <1>3 DEF s

LEMMA TransactionStep ==
  ASSUME TypeInv, TransactionInv, NEW r \in Request, Step(r) \/ Fault(r)
  PROVE  TransactionInv'
<1> USE DEF TypeInv
<1> SUFFICES ASSUME NEW q \in Request
             PROVE  TransactionAt(q)'
  BY DEF TransactionInv
<1>1. TransactionAt(q) /\ ControlAt(q)
  BY DEF TransactionInv, ControlInv
<1>2. call' = call
  BY Kinds
<1>3. CASE q # r
  BY <1>1, <1>2, <1>3, Others DEF TransactionAt, InTransaction, IsTransfer, Entries
<1>4. CASE q = r
  <2> USE <1>1, <1>2, <1>4 DEF TypeOK, DbTypeOK, TransactionAt, InTransaction, IsTransfer
  <2>1. CASE LocalKind(r) \/ ReadKind(r) \/ ValidateKind(r)
    BY <2>1 DEF LocalKind, ReadKind, ValidateKind, dbVars, Reading, Writing, ControlAt
  <2>2. CASE RollbackKind(r)
    BY <2>2 DEF RollbackKind, RollbackTx, EndTx, Writing
  <2>3. CASE BeginKind(r)
    BY <2>3 DEF BeginKind, BeginTx, Writing
  <2>4. CASE LockKind(r)
    BY <2>4 DEF LockKind, LockRowAs, Writing
  <2>5. CASE AppendKind(r)
    <3>1. inserted'[r] = Append(inserted[r], Entry(call[r], Target(r)))
      BY <2>5 DEF AppendKind, InsertEntry
    <3>2. CASE pc[r] = "append"
      <4>1. Target(r) = call[r].from /\ inserted'[r] = <<Entry(call[r], call[r].from)>>
        BY <2>5, <3>1, <3>2 DEF AppendKind, Target, Writing
      <4> QED
        BY <2>5, <3>2, <4>1 DEF AppendKind, InsertEntry, Writing
    <3>3. CASE pc[r] = "appendCredit"
      <4>0. Target(r) = call[r].to /\ inserted[r] = <<Entry(call[r], call[r].from)>>
        BY <3>3 DEF Target
      <4>1. inserted'[r] = <<Entry(call[r], call[r].from), Entry(call[r], call[r].to)>>
        <5>1. Append(<<Entry(call[r], call[r].from)>>, Entry(call[r], call[r].to))
                = <<Entry(call[r], call[r].from), Entry(call[r], call[r].to)>>
          BY AppendPair
        <5> QED
          BY <3>1, <4>0, <5>1
      <4>2. inserted'[r] = Entries(call[r])
        BY <3>3, <4>1 DEF ControlAt, Entries
      <4> QED
        BY <2>5, <3>3, <4>2 DEF AppendKind, InsertEntry, Writing
    <3> QED
      BY <2>5, <3>2, <3>3 DEF AppendKind
  <2>6. CASE ForeignKeyKind(r)
    <3>1. Entries(call[r]) = <<Entry(call[r], call[r].from)>>
      BY <2>6 DEF ForeignKeyKind, ControlAt, Entries
    <3> QED
      BY <2>6, <3>1 DEF ForeignKeyKind, LockRowAs, Writing
  <2>7. CASE UpdateKind(r)
    <3>1. dirty'[r] = dirty[r] \cup {Target(r)}
      BY <2>7 DEF UpdateKind, WriteBalance
    <3>2. pc[r] = "update" => Target(r) = call[r].from
      BY DEF Target
    <3>3. pc[r] = "updateCredit" => Target(r) = call[r].to
      BY DEF Target
    <3> QED
      BY <2>7, <3>1, <3>2, <3>3 DEF UpdateKind, WriteBalance, Writing, Legs, ControlAt
  <2>8. CASE CommitKind(r)
    BY <2>8 DEF CommitKind, CommitTx, EndTx, Writing
  <2>9. CASE StatusKind(r)
    BY <2>9 DEF StatusKind, WriteStatus, Writing
  <2>10. CASE LateKind(r)
    <3>1. /\ txOpen' = txOpen /\ dirty' = dirty
          /\ pc'[r] = "lateForeignKey" => inserted'[r] = Append(inserted[r], Entry(call[r], Target(r)))
      BY <2>10 DEF LateKind, LockRowAs, InsertEntry
    <3>2. pc'[r] = "lateForeignKey" => Target(r) = call[r].from /\ inserted[r] = << >>
      BY <2>10 DEF LateKind, Target
    <3>3. pc'[r] = "lateForeignKey" => inserted'[r] = <<Entry(call[r], call[r].from)>>
      BY <3>1, <3>2
    <3> QED
      BY <2>10, <3>1, <3>3 DEF LateKind, Writing
  <2> QED
    BY <2>1, <2>2, <2>3, <2>4, <2>5, <2>6, <2>7, <2>8, <2>9, <2>10, Kinds
<1> QED
  BY <1>3, <1>4

-----------------------------------------------------------------------------
(* Idempotency keys *)

\* A call that passed the checks has a key, and its entries have different keys.
LEMMA EntriesKeys ==
  ASSUME TypeInv, NEW r \in Request, PastValidation(r), call[r].op # "suspend"
  PROVE  /\ Entries(call[r]) \in Seq(EntryRecord)
         /\ Len(Entries(call[r])) \in 1..2
         /\ Entries(call[r])[1].key = call[r].key
         /\ Len(Entries(call[r])) = 2 => Entries(call[r])[2].key # call[r].key
<1> DEFINE c == call[r]
<1>1. c \in Call /\ c.key \in Key /\ ValidCall(c)
  BY DEF TypeInv, TypeOK, ControlInv, ControlAt, PastValidation, Posting, ValidationInv, ValidationAt,
         ValidCall, IsTransfer
<1>2. c.op = "transfer" => c.from # c.to
  BY DEF TypeInv, ControlInv, ControlAt, PastValidation, Posting, IsTransfer
<1>3. Entry(c, c.from) \in EntryRecord /\ Entry(c, c.from).key = c.key
  BY <1>1, <1>2, CallParts, EntryType DEF Entry, EntryKey
<1>4. c.op = "transfer" => Entry(c, c.to) \in EntryRecord /\ Entry(c, c.to).key = CreditKey(c.key)
  <2> SUFFICES ASSUME c.op = "transfer" PROVE Entry(c, c.to) \in EntryRecord /\ Entry(c, c.to).key = CreditKey(c.key)
    OBVIOUS
  <2>1. c.to \in Legs(c)
    BY DEF Legs
  <2> QED
    BY <1>1, <2>1, EntryType DEF Entry, EntryKey
<1>5. CreditKey(c.key) # c.key
  BY <1>1 DEF CreditKey, Key
<1> QED
  BY <1>3, <1>4, <1>5 DEF Entries

\* Appending entries with fresh, different keys keeps the keys of a ledger unique.
LEMMA UniqueAppend ==
  ASSUME NEW L \in Seq(EntryRecord), NEW E \in Seq(EntryRecord),
         \A m, n \in 1..Len(L) : L[m].key = L[n].key => m = n,
         \A m, n \in 1..Len(E) : E[m].key = E[n].key => m = n,
         \A m \in 1..Len(L), n \in 1..Len(E) : L[m].key # E[n].key
  PROVE  \A m, n \in 1..Len(L \o E) : (L \o E)[m].key = (L \o E)[n].key => m = n
<1>1. /\ Len(L \o E) = Len(L) + Len(E)
      /\ \A m \in 1..Len(L \o E) : (L \o E)[m] = IF m <= Len(L) THEN L[m] ELSE E[m - Len(L)]
  OBVIOUS
<1>2. \A m \in 1..Len(L \o E) : ~(m <= Len(L)) => m - Len(L) \in 1..Len(E)
  BY <1>1
<1> QED
  BY <1>1, <1>2

LEMMA KeyStep ==
  ASSUME TypeInv, TransactionInv, KeyInv, NEW r \in Request, Step(r) \/ Fault(r)
  PROVE  KeyInv'
<1>1. /\ ledger \in Seq(EntryRecord)
      /\ \A q \in Request : inserted[q] \in Seq(EntryRecord)
      /\ inserted \in [Request -> Seq(EntryRecord)]
  BY DEF TypeInv, TypeOK, DbTypeOK
<1>2. call' = call
  BY Kinds
<1>3. CASE UNCHANGED <<ledger, inserted, applied>>
  BY <1>2, <1>3 DEF KeyInv, KeyCommitted, KeyBlockers
<1>4. CASE RollbackKind(r)
  <2>1. ledger' = ledger /\ applied' = applied /\ inserted' = [inserted EXCEPT ![r] = << >>]
    BY <1>4 DEF RollbackKind, RollbackTx, EndTx
  <2>2. \A q \in Request : \A n \in 1..Len(inserted'[q]) : q # r /\ inserted'[q] = inserted[q]
    BY <1>1, <2>1
  <2>3. ASSUME NEW q \in Request, NEW n \in 1..Len(inserted'[q])
        PROVE  ~KeyCommitted(inserted[q][n].key)' /\ KeyBlockers(q, inserted[q][n].key)' = {}
    <3>1. inserted'[q] = inserted[q] /\ n \in 1..Len(inserted[q])
      BY <2>2
    <3>2. ~KeyCommitted(inserted[q][n].key) /\ KeyBlockers(q, inserted[q][n].key) = {}
      BY <3>1 DEF KeyInv
    <3>3. \A t \in Request \ {q} : \A i \in 1..Len(inserted'[t]) : inserted'[t][i].key # inserted'[q][n].key
      BY <2>2, <3>1, <3>2 DEF KeyBlockers
    <3> QED
      BY <2>1, <3>1, <3>2, <3>3 DEF KeyCommitted, KeyBlockers
  <2> QED
    BY <1>2, <2>1, <2>3 DEF KeyInv, KeyCommitted
<1>5. CASE AppendKind(r) \/ (LateKind(r) /\ pc[r] \in {"lateInsert", "lateCredit"})
  <2> DEFINE e == Entry(call[r], Target(r))
  <2>1. ledger' = ledger /\ applied' = applied /\ inserted' = [inserted EXCEPT ![r] = Append(@, e)]
    BY <1>5 DEF AppendKind, LateKind, InsertEntry
  <2>2. ~KeyCommitted(e.key) /\ KeyBlockers(r, e.key) = {}
    BY <1>5 DEF AppendKind, LateKind
  <2>3. ASSUME NEW q \in Request, NEW n \in 1..Len(inserted'[q])
        PROVE  \/ n \in 1..Len(inserted[q]) /\ inserted'[q][n] = inserted[q][n]
               \/ q = r /\ inserted'[q][n] = e
    BY <1>1, <2>1
  <2>4. ASSUME NEW q \in Request, NEW n \in 1..Len(inserted'[q])
        PROVE  ~KeyCommitted(inserted[q][n].key)'
    <3>1. ~KeyCommitted(inserted'[q][n].key)
      BY <2>2, <2>3 DEF KeyInv
    <3> QED
      BY <2>1, <3>1 DEF KeyCommitted
  <2>5. ASSUME NEW q \in Request, NEW n \in 1..Len(inserted'[q]),
               NEW t \in Request \ {q}, NEW i \in 1..Len(inserted'[t])
        PROVE  inserted'[t][i].key # inserted'[q][n].key
    <3>1. CASE q = r /\ inserted'[q][n] = e
      <4>1. i \in 1..Len(inserted[t]) /\ inserted'[t][i] = inserted[t][i]
        BY <2>3, <3>1
      <4> QED
        BY <2>2, <3>1, <4>1 DEF KeyBlockers
    <3>2. CASE t = r /\ inserted'[t][i] = e
      <4>1. n \in 1..Len(inserted[q]) /\ inserted'[q][n] = inserted[q][n]
        BY <2>3, <3>2
      <4> QED
        BY <2>2, <3>2, <4>1 DEF KeyBlockers
    <3>3. CASE /\ n \in 1..Len(inserted[q]) /\ inserted'[q][n] = inserted[q][n]
               /\ i \in 1..Len(inserted[t]) /\ inserted'[t][i] = inserted[t][i]
      BY <3>3 DEF KeyInv, KeyBlockers
    <3> QED
      BY <2>3, <3>1, <3>2, <3>3
  <2>6. ASSUME NEW q \in Request, NEW n \in 1..Len(inserted'[q])
        PROVE  KeyBlockers(q, inserted[q][n].key)' = {}
    BY <2>5 DEF KeyBlockers
  <2>7. \A m, n \in 1..Len(ledger') : ledger'[m].key = ledger'[n].key => m = n
    BY <2>1 DEF KeyInv
  <2>8. ASSUME NEW q \in applied' PROVE KeyCommitted(call[q].key)'
    BY <1>2, <2>1 DEF KeyInv, KeyCommitted
  <2> QED
    BY <2>4, <2>6, <2>7, <2>8 DEF KeyInv
<1>6. CASE CommitKind(r)
  <2> DEFINE E == inserted[r]
  <2>1. /\ ledger' = ledger \o E
        /\ inserted' = [inserted EXCEPT ![r] = << >>]
        /\ applied' = applied \cup {r}
    BY <1>6 DEF CommitKind, CommitTx, EndTx
  <2>2. E = Entries(call[r]) /\ PastValidation(r) /\ call[r].op # "suspend"
    BY <1>6 DEF CommitKind, TransactionInv, TransactionAt, InTransaction, PastValidation, Posting, Writing,
                TypeInv, ControlInv, ControlAt
  <2>3. /\ Len(E) \in 1..2 /\ E[1].key = call[r].key
        /\ \A m, n \in 1..Len(E) : E[m].key = E[n].key => m = n
    BY <2>2, EntriesKeys
  <2>4. \A m \in 1..Len(ledger), n \in 1..Len(E) : ledger[m].key # E[n].key
    BY DEF KeyInv, KeyCommitted
  <2>5. \A m, n \in 1..Len(ledger') : ledger'[m].key = ledger'[n].key => m = n
    BY <1>1, <2>1, <2>3, <2>4, UniqueAppend DEF KeyInv
  <2>6. /\ \A n \in 1..Len(ledger) : n \in 1..Len(ledger') /\ ledger'[n] = ledger[n]
        /\ \A n \in 1..Len(E) : Len(ledger) + n \in 1..Len(ledger') /\ ledger'[Len(ledger) + n] = E[n]
        /\ \A n \in 1..Len(ledger') : \/ n \in 1..Len(ledger) /\ ledger'[n] = ledger[n]
                                      \/ n - Len(ledger) \in 1..Len(E) /\ ledger'[n] = E[n - Len(ledger)]
    BY <1>1, <2>1
  <2>7. ASSUME NEW q \in applied' PROVE KeyCommitted(call[q].key)'
    <3>1. \A k : KeyCommitted(k) => \E n \in 1..Len(ledger') : ledger'[n].key = k
      BY <2>6 DEF KeyCommitted
    <3>2. \E n \in 1..Len(ledger') : ledger'[n].key = call[r].key
      BY <2>3, <2>6
    <3> QED
      BY <1>2, <2>1, <3>1, <3>2 DEF KeyInv, KeyCommitted
  <2>8. ASSUME NEW q \in Request, NEW n \in 1..Len(inserted'[q])
        PROVE  ~KeyCommitted(inserted[q][n].key)' /\ KeyBlockers(q, inserted[q][n].key)' = {} /\ q # r
                 /\ inserted'[q] = inserted[q]
    <3>1. q # r /\ inserted'[q] = inserted[q] /\ n \in 1..Len(inserted[q])
      BY <1>1, <2>1
    <3>2. ~KeyCommitted(inserted[q][n].key) /\ KeyBlockers(q, inserted[q][n].key) = {}
      BY <3>1 DEF KeyInv
    <3>3. \A m \in 1..Len(E) : E[m].key # inserted[q][n].key
      BY <3>1, <3>2 DEF KeyBlockers
    <3>4. ASSUME NEW m \in 1..Len(ledger') PROVE ledger'[m].key # inserted'[q][n].key
      <4>1. CASE m \in 1..Len(ledger) /\ ledger'[m] = ledger[m]
        BY <3>1, <3>2, <4>1 DEF KeyCommitted
      <4>2. CASE m - Len(ledger) \in 1..Len(E) /\ ledger'[m] = E[m - Len(ledger)]
        BY <3>1, <3>3, <4>2
      <4> QED
        BY <2>6, <4>1, <4>2
    <3>5. \A t \in Request \ {q} : \A m \in 1..Len(inserted'[t]) : inserted'[t][m].key # inserted'[q][n].key
      BY <1>1, <2>1, <3>1, <3>2 DEF KeyBlockers
    <3> QED
      BY <3>1, <3>4, <3>5 DEF KeyCommitted, KeyBlockers
  <2> QED
    BY <2>5, <2>7, <2>8 DEF KeyInv
<1> QED
  BY <1>3, <1>4, <1>5, <1>6, Kinds DEF LocalKind, LateKind, ReadKind, ValidateKind, BeginKind, LockKind, ForeignKeyKind,
     UpdateKind, StatusKind, dbVars, BeginTx, LockRowAs, WriteBalance, WriteStatus

-----------------------------------------------------------------------------
(* Row locks *)

LEMMA RowLockStep ==
  ASSUME TypeInv, RowLockInv, NEW r \in Request, Step(r) \/ Fault(r)
  PROVE  RowLockInv'
<1>1. rowLock \in [Request -> [WalletID -> LockMode]]
  BY DEF TypeInv, TypeOK, DbTypeOK
<1>2. CASE rowLock' = rowLock
  BY <1>2 DEF RowLockInv
<1>3. CASE rowLock' = [rowLock EXCEPT ![r] = NoLocks]
  BY <1>1, <1>3 DEF RowLockInv, NoLocks
<1>4. CASE /\ rowLock' = [rowLock EXCEPT ![r][Target(r)] = "update"]
           /\ UpdateBlockers(r, Target(r)) = {}
  <2>1. \A t \in Request \ {r} : rowLock[t][Target(r)] = "none"
    BY <1>4 DEF UpdateBlockers
  <2> QED
    BY <1>1, <1>4, <2>1 DEF RowLockInv
<1>5. CASE /\ rowLock' = [rowLock EXCEPT ![r][call[r].from] = "keyshare"]
           /\ ShareBlockers(r, call[r].from) = {}
  <2>1. \A t \in Request \ {r} : rowLock[t][call[r].from] # "update"
    BY <1>5 DEF ShareBlockers
  <2> QED
    BY <1>1, <1>5, <2>1 DEF RowLockInv
<1> QED
  BY <1>2, <1>3, <1>4, <1>5, Kinds DEF LocalKind, LateKind, ReadKind, ValidateKind, RollbackKind, BeginKind, LockKind,
     AppendKind, ForeignKeyKind, UpdateKind, CommitKind, StatusKind, dbVars, RollbackTx, BeginTx, LockRowAs,
     InsertEntry, WriteBalance, CommitTx, EndTx, WriteStatus

\* A row that a request has locked for update keeps its balance while others step.
LEMMA LockedBalance ==
  ASSUME TypeInv, TransactionInv, RowLockInv, LockedRowInv, NEW r \in Request, Step(r) \/ Fault(r),
         NEW q \in Request, q # r, NEW w \in Wallet, rowLock[q][w] = "update"
  PROVE  balance'[w] = balance[w]
<1>1. balance \in [Wallet -> Int64] /\ w \in WalletID
  BY WalletAssumption DEF TypeInv, TypeOK, DbTypeOK
<1>2. CASE balance' = balance
  BY <1>2
<1>3. CASE CommitKind(r)
  <2>1. w \notin dirty[r]
    BY <1>1 DEF LockedRowInv, LockedRowAt, RowLockInv
  <2> QED
    BY <1>1, <1>3, <2>1 DEF CommitKind, CommitTx
<1> QED
  BY <1>2, <1>3, Kinds DEF LocalKind, LateKind, ReadKind, ValidateKind, RollbackKind, BeginKind, LockKind,
     AppendKind, ForeignKeyKind, UpdateKind, StatusKind, dbVars, RollbackTx, BeginTx, LockRowAs,
     InsertEntry, WriteBalance, EndTx, WriteStatus

\* The checks for sufficient funds, in applyDelta and in Transfer.
LEMMA ReadFunds ==
  ASSUME TypeInv, NEW r \in Request, ~IsTransfer(r), DeltaError(call[r]) = "none"
  PROVE  call[r].from \in Wallet /\ Wrap(balance[call[r].from] + Delta(call[r], call[r].from)) >= 0
<1> DEFINE c == call[r]
<1>1. c.from \in Wallet /\ CentsOf(c) # Rejected /\ ~(Wrap(balance[c.from] + Delta(c, c.from)) < 0)
  BY DEF DeltaError
<1>2. c \in Call /\ ValidCall(c) /\ balance[c.from] \in Int64
  BY <1>1 DEF ValidCall, Legs, IsTransfer, TypeInv, TypeOK, DbTypeOK
<1>3. Wrap(balance[c.from] + Delta(c, c.from)) \in Int64
  BY <1>2, DeltaType, WrapType
<1> QED
  BY <1>1, <1>3, AmountAssumption DEF Int64

LEMMA TransferFunds ==
  ASSUME TypeInv, NEW r \in Request, IsTransfer(r), call[r].from # call[r].to, TransferError(r) = "none"
  PROVE  Wrap(seen[r][call[r].from] + Delta(call[r], call[r].from)) >= 0
<1> DEFINE c == call[r]
<1>1. /\ CentsOf(c) # Rejected /\ Legs(c) \subseteq seenActive[r]
      /\ CurrencyOf[c.from] = CurrencyOf[c.to]
      /\ ~(Wrap(seen[r][c.from] - CentsOf(c)) < 0)
  BY DEF TransferError
<1>2. c \in Call /\ ValidCall(c) /\ c.from \in Wallet /\ seen[r][c.from] \in Int64
  BY <1>1, CallParts DEF ValidCall, TypeInv, TypeOK
<1>3. Delta(c, c.from) = -CentsOf(c)
  BY DEF Delta, IsTransfer
<1>4. CentsOf(c) \in 0..MaxInt
  BY <1>2, CentsType
<1>5. seen[r][c.from] - CentsOf(c) = seen[r][c.from] + Delta(c, c.from)
  BY <1>2, <1>3, <1>4, AmountAssumption DEF Int64
<1>6. Wrap(seen[r][c.from] + Delta(c, c.from)) \in Int64
  BY <1>2, DeltaType, WrapType
<1> QED
  BY <1>1, <1>5, <1>6, AmountAssumption DEF Int64

LEMMA LockedRowStep ==
  ASSUME TypeInv, TransactionInv, RowLockInv, LockedRowInv, NEW r \in Request, Step(r) \/ Fault(r)
  PROVE  LockedRowInv'
<1> SUFFICES ASSUME NEW q \in Request
             PROVE  LockedRowAt(q)'
  BY DEF LockedRowInv
<1>1. LockedRowAt(q) /\ TransactionAt(q) /\ ControlAt(q)
  BY DEF LockedRowInv, TransactionInv, TypeInv, ControlInv
<1>2. call' = call
  BY Kinds
<1>3. /\ rowLock \in [Request -> [WalletID -> LockMode]] /\ seen \in [Request -> [Wallet -> Int64]]
      /\ dirty \in [Request -> SUBSET Wallet] /\ txBalance \in [Request -> [Wallet -> Int64]]
      /\ Wallet \subseteq WalletID
  BY WalletAssumption DEF TypeInv, TypeOK, DbTypeOK
<1>4. CASE q # r
  <2>1. \A w \in Wallet : rowLock[q][w] = "update" => balance'[w] = balance[w]
    BY <1>4, LockedBalance
  <2> QED
    BY <1>1, <1>2, <1>3, <1>4, <2>1, Others DEF LockedRowAt, PastValidation, IsTransfer
<1>5. CASE q = r
  <2>1. CASE LocalKind(r)
    BY <1>1, <1>2, <1>5, <2>1 DEF LocalKind, LockedRowAt, TransactionAt, InTransaction, PastValidation, Posting,
       IsTransfer, Reading, Writing, dbVars
  <2>2. CASE ReadKind(r)
    <3>1. call[r].from \in Wallet /\ Wrap(balance[call[r].from] + Delta(call[r], call[r].from)) >= 0
      BY <1>1, <1>5, <2>2, ReadFunds DEF ReadKind, ControlAt, Reading
    <3>2. seen'[r][call[r].from] = balance[call[r].from]
      BY <1>3, <2>2, <3>1 DEF ReadKind
    <3>3. dirty'[r] = {}
      BY <1>1, <1>5, <2>2 DEF ReadKind, TransactionAt, InTransaction, Writing, dbVars
    <3>4. Wrap(seen'[r][call'[r].from] + Delta(call'[r], call'[r].from)) >= 0
      BY <1>2, <3>1, <3>2
    <3>5. pc'[r] = "begin"
      BY <2>2 DEF ReadKind
    <3> QED
      BY <1>5, <3>3, <3>4, <3>5 DEF LockedRowAt, Posting, Writing
  <2>3. CASE ValidateKind(r)
    <3>1. Wrap(seen[r][call[r].from] + Delta(call[r], call[r].from)) >= 0
      BY <1>1, <1>5, <2>3, TransferFunds DEF ValidateKind, ControlAt, Writing
    <3> QED
      BY <1>1, <1>2, <1>5, <2>3, <3>1 DEF ValidateKind, LockedRowAt, PastValidation, Posting, IsTransfer,
         Writing, dbVars
  <2>4. CASE RollbackKind(r)
    BY <1>3, <1>5, <2>4 DEF RollbackKind, RollbackTx, EndTx, LockedRowAt, PastValidation, Posting, Writing,
       TypeInv, TypeOK, DbTypeOK
  <2>5. CASE BeginKind(r)
    <3>1. \A w \in WalletID : rowLock[r][w] = "none"
      BY <1>1, <1>5, <2>5 DEF BeginKind, TransactionAt, InTransaction, Writing, NoLocks
    <3> QED
      BY <1>1, <1>2, <1>3, <1>5, <2>5, <3>1 DEF BeginKind, BeginTx, LockedRowAt, TransactionAt, InTransaction,
         PastValidation, Posting, IsTransfer, Writing
  <2>6. CASE LockKind(r)
    <3>1. /\ Legs(call[r]) = {First(call[r]), Second(call[r])}
          /\ pc[r] = "lockRow" => Target(r) = First(call[r])
          /\ pc[r] = "lockRowSecond" => Target(r) = Second(call[r])
      BY <1>1, <1>5, <2>6 DEF LockKind, ControlAt, Legs, First, Second, Target, IsTransfer
    <3>2. /\ rowLock'[r] = [rowLock[r] EXCEPT ![Target(r)] = "update"]
          /\ seen'[r] = [seen[r] EXCEPT ![Target(r)] = balance[Target(r)]]
          /\ balance' = balance /\ dirty' = dirty /\ Target(r) \in Wallet
      BY <1>3, <2>6 DEF LockKind, LockRowAs
    <3>3. dirty[r] = {}
      BY <1>1, <1>5, <2>6 DEF LockKind, TransactionAt, Writing
    <3>4. \A w \in Wallet : rowLock'[r][w] = "update" => seen'[r][w] = balance[w]
      BY <1>1, <1>3, <1>5, <2>6, <3>2 DEF LockKind, LockedRowAt, ControlAt, Writing
    <3>5. /\ pc[r] = "lockRow" => rowLock'[r][First(call[r])] = "update"
          /\ pc[r] = "lockRowSecond" => \A w \in Legs(call[r]) : rowLock'[r][w] = "update"
      BY <1>1, <1>3, <1>5, <3>1, <3>2 DEF LockedRowAt
    <3> QED
      BY <1>1, <1>2, <1>5, <2>6, <3>2, <3>3, <3>4, <3>5 DEF LockKind, LockedRowAt, ControlAt,
         PastValidation, Posting, IsTransfer
  <2>7. CASE AppendKind(r)
    BY <1>1, <1>2, <1>5, <2>7 DEF AppendKind, InsertEntry, LockedRowAt, PastValidation, Posting, IsTransfer,
       Writing
  <2>8. CASE ForeignKeyKind(r)
    <3>1. dirty[r] = {} /\ dirty'[r] = {} /\ ~IsTransfer(r)
      BY <1>1, <1>5, <2>8 DEF ForeignKeyKind, LockRowAs, TransactionAt, ControlAt, Writing
    <3> QED
      BY <1>1, <1>2, <1>5, <2>8, <3>1 DEF ForeignKeyKind, LockRowAs, LockedRowAt, PastValidation, Posting,
         IsTransfer
  <2>9. CASE UpdateKind(r)
    <3> DEFINE row == Target(r)
    <3>1. row \in Legs(call[r]) /\ Legs(call[r]) \subseteq Wallet
      BY <2>9 DEF UpdateKind, Target, Legs, TypeInv, ControlInv, ControlAt, ValidationInv, ValidationAt,
                  PastValidation, Posting, IsTransfer
    <3>2. /\ rowLock'[r] = [rowLock[r] EXCEPT ![row] = "update"]
          /\ dirty'[r] = dirty[r] \cup {row}
          /\ txBalance'[r] = [txBalance[r] EXCEPT ![row] = NewBalance(r, row)]
          /\ balance' = balance /\ seen' = seen
      BY <1>3, <2>9 DEF UpdateKind, WriteBalance
    <3>3. seen[r][row] = balance[row] /\ NewBalance(r, row) = Wrap(balance[row] + Delta(call[r], row))
      BY <2>9 DEF UpdateKind, Stale, NewBalance
    <3>4. row = call[r].from => NewBalance(r, row) >= 0
      BY <1>1, <1>5, <2>9 DEF UpdateKind, LockedRowAt, PastValidation, Posting, NewBalance
    <3>5. \A v \in dirty'[r] : /\ rowLock'[r][v] = "update"
                               /\ txBalance'[r][v] = Wrap(balance[v] + Delta(call[r], v))
                               /\ v = call[r].from => txBalance'[r][v] >= 0
      BY <1>1, <1>3, <1>5, <3>1, <3>2, <3>3, <3>4 DEF LockedRowAt
    <3>6. IsTransfer(r) => /\ \A v \in Legs(call[r]) : rowLock'[r][v] = "update"
                           /\ \A v \in Wallet : rowLock'[r][v] = "update" => seen[r][v] = balance[v]
      BY <1>1, <1>3, <1>5, <2>9, <3>1, <3>2, <3>3 DEF UpdateKind, LockedRowAt, Posting, Writing
    <3>7. Wrap(seen[r][call[r].from] + Delta(call[r], call[r].from)) >= 0
      BY <1>1, <1>5, <2>9 DEF UpdateKind, LockedRowAt, PastValidation, Posting
    <3>8. pc'[r] \in {"updateCredit", "commit"}
      BY <2>9 DEF UpdateKind
    <3> QED
      <4>1. Wrap(seen'[r][call'[r].from] + Delta(call'[r], call'[r].from)) >= 0
        BY <1>2, <3>2, <3>7
      <4>2. \A v \in dirty'[r] : /\ rowLock'[r][v] = "update"
                                 /\ txBalance'[r][v] = Wrap(balance'[v] + Delta(call'[r], v))
                                 /\ v = call'[r].from => txBalance'[r][v] >= 0
        BY <1>2, <3>2, <3>5
      <4> QED
        BY <1>2, <1>5, <3>2, <3>6, <3>8, <4>1, <4>2 DEF LockedRowAt, IsTransfer, Posting, Writing
  <2>10. CASE CommitKind(r)
    BY <1>3, <1>5, <2>10 DEF CommitKind, CommitTx, EndTx, LockedRowAt, PastValidation, Posting, Writing,
       TypeInv, TypeOK, DbTypeOK
  <2>11. CASE StatusKind(r)
    BY <1>1, <1>2, <1>5, <2>11 DEF StatusKind, WriteStatus, LockedRowAt, TransactionAt, InTransaction,
       PastValidation, Posting, IsTransfer, Writing
  <2>12. CASE LateKind(r)
    <3>1. dirty[r] = {} /\ dirty'[r] = {}
      BY <1>1, <1>5, <2>12 DEF LateKind, LockRowAs, InsertEntry, TransactionAt
    <3> QED
      BY <1>5, <2>12, <3>1 DEF LateKind, LockedRowAt, PastValidation, Posting, Writing
  <2> QED
    BY <2>1, <2>2, <2>3, <2>4, <2>5, <2>6, <2>7, <2>8, <2>9, <2>10, <2>11, <2>12, Kinds
<1> QED
  BY <1>4, <1>5

-----------------------------------------------------------------------------
(* Mutexes *)

LEMMA MutexMoves ==
  ASSUME TypeInv, NEW r \in Request, Step(r) \/ Fault(r)
  PROVE  \/ LockWallet(r)
         \/ Unlock(r)
         \/ /\ mutexes' = mutexes
            /\ \/ pc[r] \in {"lookup", "replay"} /\ pc'[r] \in {"lock", "replay", "done"}
               \/ pc[r] \in Dead /\ pc'[r] \in {"done"} \cup Dead
               \/ pc'[r] = "unlock"
               \/ pc[r] \in {"read", "begin"} \cup Writing /\ pc'[r] \in {"begin"} \cup Writing
<1> USE DEF TypeInv, TypeOK, Goto
<1>1. CASE Lookup(r) \/ Replay(r) \/ LookupFault(r)
  BY <1>1 DEF Lookup, Replay, LookupFault
<1>2. CASE LockWallet(r) \/ Unlock(r)
  BY <1>2
<1>3. CASE ReadWallet(r) \/ Begin(r)
  BY <1>3, Path DEF ReadWallet, Begin, Continue, Fail, Abandon, Return, Writing
<1>4. CASE GetAndLock(r) \/ Validate(r)
  BY <1>4, Path DEF GetAndLock, Validate, Continue, Fail, Abandon, Return, Writing
<1>5. CASE AppendLedger(r) \/ ForeignKey(r) \/ UpdateBalance(r)
  BY <1>5, Path DEF AppendLedger, ForeignKey, UpdateBalance, Continue, Fail, Abandon, Return, Writing
<1>6. CASE Commit(r) \/ UpdateStatus(r) \/ DeadlockVictim(r) \/ StorageFault(r) \/ AnswerLost(r)
  BY <1>6 DEF Commit, UpdateStatus, DeadlockVictim, StorageFault, AnswerLost, Fail, Abandon, Return
<1>7. CASE LateEffect(r) \/ LateStatement(r) \/ DropConnection(r)
  BY <1>7 DEF LateEffect, LateStatement, DropConnection
<1> QED
  BY <1>1, <1>2, <1>3, <1>4, <1>5, <1>6, <1>7 DEF Step, Fault

LEMMA MutexStep ==
  ASSUME TypeInv, MutexInv, NEW r \in Request, Step(r) \/ Fault(r)
  PROVE  MutexInv'
<1> SUFFICES ASSUME NEW q \in Request
             PROVE  MutexAt(q)'
  BY DEF MutexInv
<1>1. MutexAt(q) /\ MutexAt(r) /\ ControlAt(q)
  BY DEF MutexInv, TypeInv, ControlInv
<1>2. call' = call /\ inst' = inst /\ pc' = [pc EXCEPT ![r] = pc'[r]]
  BY Kinds
<1>3. /\ pc \in [Request -> Label] /\ mutexes \in [Request -> SUBSET WalletID]
      /\ call[q] \in Call
  BY DEF TypeInv, TypeOK
<1>4. CASE LockWallet(r)
  <2>1. /\ mutexes' = [mutexes EXCEPT ![r] = @ \cup {Target(r)}]
        /\ MutexHolders(r, Target(r)) = {}
        /\ pc[r] \in {"lock", "lockSecond"} /\ pc'[r] = NextLabel(r)
    BY <1>3, <1>4 DEF LockWallet, Goto
  <2>2. ASSUME NEW t \in Request, NEW w \in mutexes'[t]
        PROVE  \A u \in Request \ {t} : SameMutexes(u, t) => w \notin mutexes'[u]
    <3>1. \A u \in Request \ {r} : SameMutexes(u, r) => Target(r) \notin mutexes[u]
      BY <2>1 DEF MutexHolders, SameMutexes
    <3>2. \A u, v \in Request : u # v /\ SameMutexes(u, v) => mutexes[u] \cap mutexes[v] = {}
      BY DEF MutexInv, MutexAt, MutexHolders, SameMutexes
    <3> QED
      BY <1>3, <2>1, <3>1, <3>2 DEF SameMutexes
  <2>3. \A w \in mutexes'[q] : MutexHolders(q, w)' = {}
    BY <1>2, <2>2 DEF MutexHolders, SameMutexes
  <2>4. CASE q # r
    BY <1>1, <1>2, <1>3, <2>1, <2>3, <2>4 DEF MutexAt
  <2>5. CASE q = r /\ pc[r] = "lock"
    <3>1. Target(r) = First(call[r]) /\ First(call[r]) \in mutexes'[r]
      BY <1>3, <2>1, <2>5 DEF Target
    <3>2. ~IsTransfer(r) => Legs(call[r]) = {First(call[r])}
      BY DEF IsTransfer, Legs, First
    <3>3. pc'[r] \in IF IsTransfer(r) THEN {"lockSecond"} ELSE {"read", "status"}
      BY <2>1, <2>5, Path DEF TypeInv, IsTransfer
    <3> QED
      BY <1>2, <2>3, <2>5, <3>1, <3>2, <3>3 DEF MutexAt, Writing
  <2>6. CASE q = r /\ pc[r] = "lockSecond"
    <3>1. Target(r) = Second(call[r]) /\ Legs(call[r]) = {First(call[r]), Second(call[r])}
      BY <1>1, <2>6 DEF Target, ControlAt, IsTransfer, Legs, First, Second
    <3>2. Legs(call[r]) \subseteq mutexes'[r]
      BY <1>1, <1>3, <2>1, <2>6, <3>1 DEF MutexAt
    <3>3. pc'[r] = "begin"
      BY <2>1, <2>6, Path DEF TypeInv
    <3> QED
      BY <1>2, <2>3, <2>6, <3>2, <3>3 DEF MutexAt
  <2> QED
    BY <2>1, <2>4, <2>5, <2>6
<1>5. CASE Unlock(r)
  <2>1. mutexes' = [mutexes EXCEPT ![r] = {}] /\ pc'[r] = "done"
    BY <1>3, <1>5 DEF Unlock, Released, Goto
  <2>2. \A w \in mutexes'[q] : MutexHolders(q, w)' = {}
    BY <1>1, <1>2, <1>3, <2>1 DEF MutexAt, MutexHolders, SameMutexes
  <2> QED
    BY <1>1, <1>2, <1>3, <2>1, <2>2 DEF MutexAt, Writing
<1>6. CASE mutexes' = mutexes /\ ~LockWallet(r) /\ ~Unlock(r)
  <2>1. \A w \in mutexes'[q] : MutexHolders(q, w)' = {}
    BY <1>1, <1>2, <1>6 DEF MutexAt, MutexHolders, SameMutexes
  <2>2. CASE q # r
    BY <1>1, <1>2, <1>3, <1>6, <2>1, <2>2 DEF MutexAt
  <2>3. CASE q = r
    BY <1>1, <1>2, <1>3, <1>6, <2>1, <2>3, MutexMoves DEF MutexAt, Writing
  <2> QED
    BY <2>2, <2>3
<1> QED
  BY <1>4, <1>5, <1>6, MutexMoves

-----------------------------------------------------------------------------
(* Suspension *)

\* What the statement that suspends a wallet has to wait for.
LEMMA SuspensionWaits ==
  ASSUME TypeInv, TransactionInv, LockedRowInv, MutexInv, ActiveInv,
         NEW r \in Request, StatusKind(r), NEW q \in Request, q # r, NEW w \in Wallet, w = call[r].from
  PROVE  /\ rowLock[q][w] # "update"
         /\ ~(PastValidation(q) /\ call[q].op \in GuardedOps /\ w \in Legs(call[q]))
<1>1. rowLock[q][w] # "update"
  BY DEF StatusKind, ShareBlockers
<1>2. ASSUME PastValidation(q), call[q].op \in GuardedOps, w \in Legs(call[q]) PROVE FALSE
  <2>1. /\ ControlAt(q) /\ TransactionAt(q) /\ LockedRowAt(q) /\ MutexAt(q) /\ MutexAt(r)
        /\ ActiveAt(q) /\ ActiveAt(r)
    BY DEF TypeInv, ControlInv, TransactionInv, LockedRowInv, MutexInv, ActiveInv
  <2>2. CASE IsTransfer(q)
    <3>1. CASE pc[q] = "inFlight"
      <4>1. dirty[q] = Legs(call[q])
        BY <2>1, <2>2, <3>1 DEF TransactionAt, InTransaction, IsTransfer
      <4> QED
        BY <1>1, <1>2, <2>1, <4>1 DEF LockedRowAt
    <3>2. CASE pc[q] # "inFlight"
      BY <1>1, <1>2, <2>1, <2>2, <3>2 DEF PastValidation, LockedRowAt
    <3> QED
      BY <3>1, <3>2
  <2>3. CASE ~IsTransfer(q)
    <3>1. /\ MaxFaults = 0 /\ SameMutexes(q, r)
      BY <1>2, <2>3 DEF GuardedOps, OneMutexEach, SameMutexes, IsTransfer, TypeInv, TypeOK
    <3>2. faults = 0
      BY <3>1 DEF TypeInv, TypeOK
    <3>3. pc[q] # "inFlight" /\ pc[r] # "inFlight"
      BY <2>1, <3>2 DEF ActiveAt
    <3>4. w \in mutexes[q]
      BY <1>2, <2>1, <3>3 DEF PastValidation, Posting, Writing, MutexAt
    <3>5. w \in mutexes[r]
      BY <2>1, <3>3 DEF StatusKind, MutexAt, Legs
    <3> QED
      BY <2>1, <3>1, <3>4, <3>5 DEF MutexAt, MutexHolders, SameMutexes
  <2> QED
    BY <2>2, <2>3
<1> QED
  BY <1>1, <1>2

\* Only the statement of SuspendWallet changes the status of a wallet.
LEMMA StatusChange ==
  ASSUME TypeInv, NEW r \in Request, Step(r) \/ Fault(r), NEW w \in Wallet, status'[w] # status[w]
  PROVE  StatusKind(r) /\ w = call[r].from
<1>1. ~StatusKind(r) => status' = status
  BY Kinds DEF LocalKind, LateKind, ReadKind, ValidateKind, RollbackKind, BeginKind, LockKind, AppendKind,
     ForeignKeyKind, UpdateKind, CommitKind, dbVars, RollbackTx, BeginTx, LockRowAs, InsertEntry,
     WriteBalance, CommitTx
<1>2. StatusKind(r) => status' = [status EXCEPT ![call[r].from] = "suspended"]
  BY DEF StatusKind, WriteStatus
<1> QED
  BY <1>1, <1>2 DEF TypeInv, TypeOK, DbTypeOK

LEMMA ActiveStep ==
  ASSUME TypeInv, TransactionInv, LockedRowInv, MutexInv, ActiveInv, NEW r \in Request, Step(r) \/ Fault(r)
  PROVE  ActiveInv'
<1> SUFFICES ASSUME NEW q \in Request
             PROVE  ActiveAt(q)'
  BY DEF ActiveInv
<1>1. ActiveAt(q) /\ ControlAt(q) /\ ValidationAt(q) /\ TransactionAt(q)
  BY DEF ActiveInv, TypeInv, ControlInv, ValidationInv, TransactionInv
<1>2. call' = call /\ pc' = [pc EXCEPT ![r] = pc'[r]]
  BY Kinds
<1>3. /\ pc \in [Request -> Label] /\ status \in [Wallet -> Status]
      /\ rowLock \in [Request -> [WalletID -> LockMode]] /\ seenActive \in [Request -> SUBSET Wallet]
      /\ faults \in Nat /\ Wallet \subseteq WalletID
  BY WalletAssumption, ServiceAssumption DEF TypeInv, TypeOK, DbTypeOK
<1>4. faults > 0 => faults' > 0
  BY <1>3 DEF Step, Fault, Lookup, Replay, LockWallet, ReadWallet, Begin, GetAndLock, Validate,
     AppendLedger, ForeignKey, UpdateBalance, Commit, UpdateStatus, Unlock, DeadlockVictim, LateEffect,
     LateStatement, DropConnection, LookupFault, StorageFault, AnswerLost, CountFault, Fail, Continue
<1>5. CASE q # r
  <2>1. \A w \in Wallet : rowLock[q][w] = "update" => status'[w] = status[w]
    BY <1>5, StatusChange, SuspensionWaits
  <2>2. PastValidation(q) /\ call[q].op \in GuardedOps => \A w \in Legs(call[q]) : status'[w] = status[w]
    BY <1>1, <1>5, StatusChange, SuspensionWaits DEF ValidationAt
  <2>3. pc'[q] = pc[q] /\ rowLock'[q] = rowLock[q] /\ seenActive'[q] = seenActive[q]
    BY <1>5, Others
  <2>4. seenActive[q] \subseteq Wallet
    BY <1>3
  <2> QED
    BY <1>1, <1>2, <1>4, <2>1, <2>2, <2>3, <2>4 DEF ActiveAt, PastValidation, IsTransfer
<1>6. CASE q = r
  <2>1. CASE LocalKind(r)
    BY <1>1, <1>2, <1>6, <2>1 DEF LocalKind, ActiveAt, PastValidation, Posting, IsTransfer, Writing
  <2>2. CASE ReadKind(r)
    <3>1. ~IsTransfer(r) /\ Legs(call[r]) = {call[r].from}
      BY <1>1, <1>6, <2>2 DEF ReadKind, ControlAt, Reading, Legs, IsTransfer
    <3>2. call[r].from \in Wallet /\ status[call[r].from] = "active"
      BY <1>3, <2>2 DEF ReadKind, DeltaError, Status
    <3> QED
      BY <1>2, <1>6, <2>2, <3>1, <3>2 DEF ReadKind, dbVars, ActiveAt, Posting, IsTransfer, Writing
  <2>3. CASE ValidateKind(r)
    <3>1. IsTransfer(r) /\ Legs(call[r]) \subseteq seenActive[r]
      BY <1>1, <1>6, <2>3 DEF ValidateKind, ControlAt, TransferError
    <3> QED
      BY <1>1, <1>2, <1>6, <2>3, <3>1 DEF ValidateKind, dbVars, ActiveAt, IsTransfer, Writing
  <2>4. CASE RollbackKind(r) \/ CommitKind(r) \/ StatusKind(r)
    BY <1>6, <2>4 DEF RollbackKind, CommitKind, StatusKind, ActiveAt, PastValidation, Posting, Writing
  <2>5. CASE BeginKind(r)
    BY <1>1, <1>2, <1>6, <2>5 DEF BeginKind, BeginTx, ActiveAt, PastValidation, Posting, IsTransfer, Writing
  <2>6. CASE LockKind(r)
    <3>1. /\ rowLock'[r] = [rowLock[r] EXCEPT ![Target(r)] = "update"]
          /\ seenActive'[r] = IF status[Target(r)] = "active" THEN seenActive[r] \cup {Target(r)}
                              ELSE seenActive[r]
          /\ status' = status /\ Target(r) \in WalletID
      BY <1>3, <2>6 DEF LockKind, LockRowAs
    <3>2. IsTransfer(r) /\ pc[r] \in Writing
      BY <1>1, <1>6, <2>6 DEF LockKind, ControlAt, Writing
    <3>3. \A w \in seenActive'[r] : rowLock'[r][w] = "update" /\ status[w] = "active"
      BY <1>1, <1>3, <1>6, <3>1, <3>2 DEF ActiveAt
    <3> QED
      BY <1>2, <1>6, <2>6, <3>1, <3>2, <3>3 DEF LockKind, ActiveAt, PastValidation, Posting, IsTransfer
  <2>7. CASE AppendKind(r)
    BY <1>1, <1>2, <1>6, <2>7 DEF AppendKind, InsertEntry, ActiveAt, PastValidation, Posting, IsTransfer, Writing
  <2>8. CASE ForeignKeyKind(r)
    BY <1>1, <1>2, <1>6, <2>8 DEF ForeignKeyKind, LockRowAs, ActiveAt, ControlAt, PastValidation, Posting,
       IsTransfer, Reading
  <2>9. CASE UpdateKind(r)
    <3>1. rowLock'[r] = [rowLock[r] EXCEPT ![Target(r)] = "update"] /\ status' = status
      BY <1>3, <2>9 DEF UpdateKind, WriteBalance
    <3>2. \A w \in WalletID : rowLock[r][w] = "update" => rowLock'[r][w] = "update"
      BY <1>3, <3>1
    <3>3. seenActive'[r] = seenActive[r] /\ seenActive[r] \subseteq WalletID
      BY <1>3, <2>9 DEF UpdateKind
    <3> QED
      BY <1>1, <1>2, <1>6, <2>9, <3>1, <3>2, <3>3 DEF UpdateKind, ActiveAt, PastValidation, Posting,
         IsTransfer, Writing
  <2>10. CASE LateKind(r)
    BY <1>1, <1>4, <1>6, <2>10 DEF LateKind, ActiveAt, PastValidation, Posting, IsTransfer, Writing
  <2> QED
    BY <2>1, <2>2, <2>3, <2>4, <2>5, <2>6, <2>7, <2>8, <2>9, <2>10, Kinds
<1> QED
  BY <1>5, <1>6

-----------------------------------------------------------------------------
(* History *)

LEMMA HistoryStep ==
  ASSUME TypeInv, TransactionInv, KeyInv, HistoryInv, NEW r \in Request, Step(r) \/ Fault(r)
  PROVE  HistoryInv'
<1>1. /\ OpeningLedger \in Seq(EntryRecord) /\ ledger \in Seq(EntryRecord)
      /\ pc \in [Request -> Label] /\ inserted[r] \in Seq(EntryRecord)
      /\ applied \subseteq Request
  BY OpeningAssumption DEF TypeInv, TypeOK, DbTypeOK
<1>2. call' = call /\ pc' = [pc EXCEPT ![r] = pc'[r]] /\ pc[r] # "idle"
  BY Kinds
<1>3. CASE UNCHANGED <<ledger, applied>>
  <2>1. pc'[r] # "idle"
    BY Kinds DEF LocalKind, LateKind, ReadKind, ValidateKind, RollbackKind, BeginKind, LockKind, AppendKind,
       ForeignKeyKind, UpdateKind, CommitKind, StatusKind
  <2> QED
    BY <1>1, <1>2, <1>3, <2>1 DEF HistoryInv, AtMostOnce
<1>4. CASE CommitKind(r)
  <2>1. /\ ledger' = ledger \o inserted[r] /\ applied' = applied \cup {r}
        /\ pc'[r] # "idle"
    BY <1>4 DEF CommitKind, CommitTx
  <2>2. /\ Len(ledger) <= Len(ledger')
        /\ \A n \in 1..Len(ledger) : ledger'[n] = ledger[n]
    BY <1>1, <2>1
  <2>3. /\ Len(inserted[r]) \in 1..2 /\ inserted[r][1].key = call[r].key
    BY <1>4, EntriesKeys DEF CommitKind, TransactionInv, TransactionAt, InTransaction, PastValidation, Posting,
       Writing, TypeInv, ControlInv, ControlAt
  <2>4. ~KeyCommitted(call[r].key)
    BY <2>3 DEF KeyInv
  <2>5. \A q \in applied : KeyCommitted(call[q].key)
    BY DEF KeyInv
  <2>6. \A n \in 1..Len(OpeningLedger) : n \in 1..Len(ledger) /\ ledger[n] = OpeningLedger[n]
    BY <1>1 DEF HistoryInv
  <2>7. \A n \in 1..Len(OpeningLedger) : OpeningLedger[n].key # call[r].key
    BY <2>4, <2>6 DEF KeyCommitted
  <2>8. \A q \in applied : call[q].key # call[r].key
    BY <2>4, <2>5
  <2>9. AtMostOnce'
    BY <1>2, <2>1, <2>7, <2>8 DEF HistoryInv, AtMostOnce
  <2>10. \A q \in applied' : pc'[q] # "idle"
    BY <1>1, <1>2, <2>1 DEF HistoryInv
  <2>11. Len(OpeningLedger) <= Len(ledger') /\ \A n \in 1..Len(OpeningLedger) : ledger'[n] = OpeningLedger[n]
    BY <1>1, <2>2, <2>6 DEF HistoryInv
  <2> QED
    BY <2>9, <2>10, <2>11 DEF HistoryInv
<1> QED
  BY <1>3, <1>4, Kinds DEF LocalKind, LateKind, ReadKind, ValidateKind, RollbackKind, BeginKind, LockKind, AppendKind,
     ForeignKeyKind, UpdateKind, StatusKind, dbVars, RollbackTx, BeginTx, LockRowAs, InsertEntry, WriteBalance,
     WriteStatus

-----------------------------------------------------------------------------
(* The inductive invariant *)

LEMMA InitIInv == Init => IInv
<1> SUFFICES ASSUME Init PROVE IInv
  OBVIOUS
<1>1. TypeOK
  BY InitTypeOK
<1>2. /\ \A r \in Request : /\ pc[r] = "idle" /\ inserted[r] = << >> /\ dirty[r] = {} /\ rowLock[r] = NoLocks
                            /\ mutexes[r] = {} /\ seenActive[r] = {}
      /\ ledger = OpeningLedger /\ txOpen = {} /\ applied = {}
  BY DEF Init, DbInit
<1>3. ControlInv /\ ValidationInv
  BY <1>2 DEF ControlInv, ControlAt, ValidationInv, ValidationAt, PastValidation, Posting, Reading, Writing
<1>4. TransactionInv
  BY <1>2 DEF TransactionInv, TransactionAt, InTransaction, Writing
<1>5. KeyInv /\ HistoryInv
  BY <1>2, OpeningAssumption DEF KeyInv, HistoryInv, AtMostOnce
<1>6. RowLockInv
  BY <1>2 DEF RowLockInv, NoLocks
<1>7. LockedRowInv /\ ActiveInv /\ MutexInv
  BY <1>2 DEF LockedRowInv, LockedRowAt, ActiveInv, ActiveAt, MutexInv, MutexAt, MutexHolders, SameMutexes, PastValidation,
     Posting, Writing
<1> QED
  BY <1>1, <1>3, <1>4, <1>5, <1>6, <1>7 DEF IInv

LEMMA StepIInv ==
  ASSUME IInv, NEW r \in Request, Step(r) \/ Fault(r)
  PROVE  IInv'
<1>1. TypeInv
  BY DEF IInv, TypeInv
<1>2. TypeInv'
  BY <1>1, TypeInvStep DEF Next
<1>3. TransactionInv' /\ KeyInv' /\ HistoryInv' /\ RowLockInv'
  BY <1>1, TransactionStep, KeyStep, HistoryStep, RowLockStep DEF IInv
<1>4. LockedRowInv' /\ MutexInv' /\ ActiveInv'
  BY <1>1, LockedRowStep, MutexStep, ActiveStep DEF IInv
<1> QED
  BY <1>2, <1>3, <1>4 DEF IInv, TypeInv

LEMMA ArriveIInv ==
  ASSUME IInv, NEW r \in Request, NEW c \in Call, NEW i \in Instance, Arrive(r, c, i)
  PROVE  IInv'
<1> USE DEF IInv
<1>1. TypeOK' /\ ControlInv' /\ ValidationInv'
  BY ArriveTypeInv DEF TypeInv
<1>2. /\ pc[r] = "idle" /\ pc'[r] \in {"done", "lock", "lookup"}
      /\ \A q \in Request \ {r} : pc'[q] = pc[q] /\ call'[q] = call[q] /\ inst'[q] = inst[q]
      /\ UNCHANGED <<dbVars, mutexes, seen, seenActive, applied, faults>>
  BY DEF Arrive, TypeOK, Goto
<1>3. UNCHANGED <<balance, status, ledger, txOpen, inserted, dirty, txBalance, rowLock>>
  BY <1>2 DEF dbVars
<1>4. /\ inserted[r] = << >> /\ dirty[r] = {} /\ r \notin txOpen /\ rowLock[r] = NoLocks
      /\ mutexes[r] = {} /\ seenActive[r] = {}
  BY <1>2 DEF TransactionInv, TransactionAt, InTransaction, Writing, MutexInv, MutexAt, ActiveInv, ActiveAt
<1>5. TransactionInv'
  <2> SUFFICES ASSUME NEW q \in Request PROVE TransactionAt(q)'
    BY DEF TransactionInv
  <2>1. TransactionAt(q)
    BY DEF TransactionInv
  <2> QED
    BY <1>2, <1>3, <1>4, <2>1 DEF TransactionAt, InTransaction, Writing, Entries
<1>6. KeyInv' /\ HistoryInv'
  <2>1. r \notin applied
    BY <1>2 DEF HistoryInv
  <2>2. applied \subseteq Request
    BY DEF TypeOK
  <2>3. \A q \in applied : call'[q] = call[q] /\ pc'[q] = pc[q]
    BY <1>2, <2>1, <2>2
  <2> QED
    BY <1>2, <1>3, <2>3 DEF KeyInv, KeyCommitted, KeyBlockers, HistoryInv, AtMostOnce
<1>7. RowLockInv'
  BY <1>3 DEF RowLockInv
<1>8. LockedRowInv'
  <2> SUFFICES ASSUME NEW q \in Request PROVE LockedRowAt(q)'
    BY DEF LockedRowInv
  <2>1. LockedRowAt(q)
    BY DEF LockedRowInv
  <2> QED
    BY <1>2, <1>3, <1>4, <2>1 DEF LockedRowAt, PastValidation, Posting, IsTransfer, Writing
<1>9. MutexInv'
  <2> SUFFICES ASSUME NEW q \in Request PROVE MutexAt(q)'
    BY DEF MutexInv
  <2>1. MutexAt(q)
    BY DEF MutexInv
  <2>2. \A w \in mutexes[q] : MutexHolders(q, w)' = {}
    BY <1>2, <1>4, <2>1 DEF MutexAt, MutexHolders, SameMutexes
  <2> QED
    BY <1>2, <1>4, <2>1, <2>2 DEF MutexAt, Writing
<1>10. ActiveInv'
  <2> SUFFICES ASSUME NEW q \in Request PROVE ActiveAt(q)'
    BY DEF ActiveInv
  <2>1. ActiveAt(q)
    BY DEF ActiveInv
  <2> QED
    BY <1>2, <1>3, <1>4, <2>1 DEF ActiveAt, PastValidation, Posting, IsTransfer, Writing
<1> QED
  BY <1>1, <1>5, <1>6, <1>7, <1>8, <1>9, <1>10

LEMMA CrashIInv ==
  ASSUME IInv, NEW i \in Instance, Crash(i)
  PROVE  IInv'
<1> USE DEF IInv
<1> DEFINE lost == {r \in Request : inst[r] = i /\ pc[r] \notin {"idle", "done"} \cup Dead}
<1>1. TypeOK' /\ ControlInv' /\ ValidationInv'
  BY CrashTypeInv DEF TypeInv
<1>2. /\ \A q \in lost : /\ pc[q] \notin {"idle", "done"} \cup Dead
                         /\ mutexes'[q] = {} /\ seenActive'[q] = {}
      /\ \A q \in Request \ lost : /\ mutexes'[q] = mutexes[q] /\ seen'[q] = seen[q]
                                   /\ seenActive'[q] = seenActive[q]
      /\ UNCHANGED <<call, inst, applied>>
      /\ faults' > 0
  BY ServiceAssumption DEF Crash, CountFault, TypeOK
<1>2a. \A q \in Request \ lost : pc'[q] = pc[q]
  BY CrashMoves
<1>3. UNCHANGED <<balance, status, ledger, txOpen, inserted, dirty, txBalance, rowLock>>
  BY DEF Crash, dbVars
<1>4. ASSUME NEW q \in Request
      PROVE  /\ ControlAt(q) /\ ValidationAt(q) /\ TransactionAt(q) /\ LockedRowAt(q) /\ MutexAt(q) /\ ActiveAt(q)
             /\ ControlAt(q)' /\ ValidationAt(q)'
  BY <1>1 DEF ControlInv, ValidationInv, TransactionInv, LockedRowInv, MutexInv, ActiveInv
<1>5. ASSUME NEW q \in lost
      PROVE  Leaves(q, pc'[q]) /\ pc'[q] \in {"done"} \cup Dead
  <2>1. Leaves(q, pc'[q])
    BY CrashMoves
  <2> QED
    BY <2>1 DEF Leaves
<1>6. TransactionInv'
  <2> SUFFICES ASSUME NEW q \in Request PROVE TransactionAt(q)'
    BY DEF TransactionInv
  <2>1. CASE q \notin lost
    BY <1>2, <1>2a, <1>3, <1>4, <2>1 DEF TransactionAt, InTransaction, Entries
  <2>2. CASE q \in lost
    BY <1>2, <1>3, <1>4, <1>5, <2>2 DEF Leaves, TransactionAt, InTransaction, Writing, ControlAt, IsTransfer
  <2> QED
    BY <2>1, <2>2
<1>7. KeyInv' /\ HistoryInv'
  <2>1. \A q \in Request : pc[q] # "idle" => pc'[q] # "idle"
    BY <1>2a, <1>5
  <2>2. applied \subseteq Request
    BY DEF TypeOK
  <2> QED
    BY <1>2, <1>3, <2>1, <2>2 DEF KeyInv, KeyCommitted, KeyBlockers, HistoryInv, AtMostOnce
<1>8. RowLockInv'
  BY <1>3 DEF RowLockInv
<1>9. LockedRowInv'
  <2> SUFFICES ASSUME NEW q \in Request PROVE LockedRowAt(q)'
    BY DEF LockedRowInv
  <2>1. CASE q \notin lost
    BY <1>2, <1>2a, <1>3, <1>4, <2>1 DEF LockedRowAt, PastValidation, IsTransfer
  <2>2. CASE q \in lost
    BY <1>2, <1>3, <1>4, <1>5, <2>2 DEF LockedRowAt, PastValidation, Posting, Writing
  <2> QED
    BY <2>1, <2>2
<1>10. MutexInv'
  <2> SUFFICES ASSUME NEW q \in Request PROVE MutexAt(q)'
    BY DEF MutexInv
  <2>1. \A w \in mutexes'[q] : MutexHolders(q, w)' = {}
    BY <1>2, <1>4 DEF MutexAt, MutexHolders, SameMutexes
  <2>2. CASE q \notin lost
    BY <1>2, <1>2a, <1>4, <2>1, <2>2 DEF MutexAt
  <2>3. CASE q \in lost
    BY <1>2, <1>5, <2>1, <2>3 DEF MutexAt, Writing
  <2> QED
    BY <2>2, <2>3
<1>11. ActiveInv'
  <2> SUFFICES ASSUME NEW q \in Request PROVE ActiveAt(q)'
    BY DEF ActiveInv
  <2>1. CASE q \notin lost
    BY <1>2, <1>2a, <1>3, <1>4, <2>1 DEF ActiveAt, PastValidation, IsTransfer
  <2>2. CASE q \in lost
    <3>1. PastValidation(q)' => PastValidation(q)
      BY <1>2, <1>5, <2>2 DEF Leaves, PastValidation, Posting
    <3> QED
      BY <1>2, <1>3, <1>4, <1>5, <2>2, <3>1 DEF ActiveAt, Writing
  <2> QED
    BY <2>1, <2>2
<1> QED
  BY <1>1, <1>6, <1>7, <1>8, <1>9, <1>10, <1>11

LEMMA IInvStep == IInv /\ [Next]_vars => IInv'
<1> SUFFICES ASSUME IInv, [Next]_vars PROVE IInv'
  OBVIOUS
<1>1. ASSUME NEW r \in Request, NEW c \in Call, NEW i \in Instance, Arrive(r, c, i) PROVE IInv'
  BY <1>1, ArriveIInv
<1>2. ASSUME NEW r \in Request, Step(r) \/ Fault(r) PROVE IInv'
  BY <1>2, StepIInv
<1>3. ASSUME NEW i \in Instance, Crash(i) PROVE IInv'
  BY <1>3, CrashIInv
<1>4. CASE UNCHANGED vars
  BY <1>4 DEF IInv, TypeOK, DbTypeOK, ControlInv, ControlAt, ValidationInv, ValidationAt, TransactionInv,
     TransactionAt, KeyInv, KeyCommitted, KeyBlockers, HistoryInv, AtMostOnce, RowLockInv, LockedRowInv,
     LockedRowAt, MutexInv, MutexAt, MutexHolders, SameMutexes, ActiveInv, ActiveAt, PastValidation, InTransaction,
     IsTransfer, Entries, vars, dbVars, reqVars
<1> QED
  BY <1>1, <1>2, <1>3, <1>4 DEF Next, Quiet

\* What requests rely on at each point of the operations holds in every state.
THEOREM Inductive == Spec => []IInv
  BY InitIInv, IInvStep, PTL DEF Spec

-----------------------------------------------------------------------------
(* The properties *)

\* However often, wherever and after whatever failure a client retries, no two
\* requests with the same idempotency key are applied, nor one with the key of an
\* earlier entry: the unique index on ledger_entries suffices, the look-up before
\* it, whose errors applyDelta and Transfer ignore, is not needed for it.
THEOREM KeysApplyOnce == Spec => []AtMostOnce
<1>1. IInv => AtMostOnce
  BY DEF IInv, HistoryInv
<1> QED
  BY <1>1, Inductive, PTL

\* A request that has returned, on whatever path, or whose instance died and whose
\* connection the database has dropped, keeps no mutex, row lock or transaction.
THEOREM NothingIsLeaked == Spec => []NothingLeaks
<1>1. ASSUME IInv PROVE NothingLeaks
  BY <1>1 DEF IInv, TransactionInv, TransactionAt, InTransaction, Writing, MutexInv, MutexAt, NothingLeaks
<1> QED
  BY <1>1, Inductive, PTL

-----------------------------------------------------------------------------
(* WalletService implements AtomicWallet *)

\* The values of calls are the same on both sides.
LEMMA SameValues ==
  /\ \A c : /\ Atomic!Legs(c) = Legs(c) /\ Atomic!CentsOf(c) = CentsOf(c) /\ Atomic!Entries(c) = Entries(c)
            /\ \A w : Atomic!Delta(c, w) = Delta(c, w) /\ Atomic!EntryKey(c, w) = EntryKey(c, w)
  /\ \A x : Atomic!Wrap(x) = Wrap(x)
  /\ Atomic!MoneyOp = MoneyOp /\ Atomic!Rejected = Rejected
BY DEF Atomic!Legs, Legs, Atomic!CentsOf, CentsOf, Atomic!Entries, Entries, Atomic!Entry, Entry,
   Atomic!Delta, Delta, Atomic!EntryKey, EntryKey, Atomic!CreditKey, CreditKey, Atomic!Wrap, Wrap,
   Atomic!Modulus, Modulus, Atomic!MoneyOp, MoneyOp, Atomic!Rejected, Rejected, Atomic!NoWallet, NoWallet

LEMMA InitRefines == Init => Atomic!Init
  BY DEF Init, DbInit, Atomic!Init, Atomic!LedgerSum, LedgerSum, Atomic!AmountFor, AmountFor

\* The commit of a request's transaction is the atomic execution of its call.
LEMMA CommitPosts ==
  ASSUME IInv, NEW r \in Request, CommitKind(r)
  PROVE  call[r] \in Call /\ Atomic!Post(call[r])
<1> DEFINE c == call[r]
<1>1. /\ TypeInv /\ ControlAt(r) /\ ValidationAt(r) /\ TransactionAt(r) /\ LockedRowAt(r) /\ ActiveAt(r)
      /\ PastValidation(r) /\ InTransaction(r)
      /\ c \in Call /\ c.op # "suspend" /\ c.key \in Key
  BY DEF IInv, TypeInv, TypeOK, ControlInv, ValidationInv, TransactionInv, LockedRowInv, ActiveInv, CommitKind,
         PastValidation, Posting, InTransaction, Writing, ControlAt
<1>2. inserted[r] = Entries(c) /\ dirty[r] = Legs(c) /\ Legs(c) \subseteq Wallet
  BY <1>1 DEF CommitKind, TransactionAt, ValidationAt
<1>3. \A w \in Legs(c) : txBalance[r][w] = Wrap(balance[w] + Delta(c, w))
  BY <1>1, <1>2 DEF LockedRowAt
<1>4. balance' = [w \in Wallet |-> IF w \in Legs(c) THEN Wrap(balance[w] + Delta(c, w)) ELSE balance[w]]
  BY <1>2, <1>3 DEF CommitKind, CommitTx
<1>5. ledger' = ledger \o Entries(c) /\ status' = status
  BY <1>2 DEF CommitKind, CommitTx
<1>6. Wrap(balance[c.from] + Delta(c, c.from)) >= 0
  BY <1>1, <1>2, <1>3 DEF LockedRowAt, Legs
<1>7. c.op = "transfer" => c.from # c.to /\ CurrencyOf[c.from] = CurrencyOf[c.to]
  BY <1>1 DEF CommitKind, ControlAt, ValidationAt, IsTransfer
<1>8. \A w \in Legs(c) : \A n \in 1..Len(ledger) : ledger[n].key # EntryKey(c, w)
  <2> SUFFICES ASSUME NEW w \in Legs(c) PROVE ~KeyCommitted(EntryKey(c, w))
    BY DEF KeyCommitted
  <2>1. \E n \in 1..Len(Entries(c)) : Entries(c)[n] = Entry(c, w)
    <3>1. CASE c.op = "transfer" /\ w = c.to
      <4>1. Entries(c)[2] = Entry(c, w) /\ 2 \in 1..Len(Entries(c))
        BY <3>1 DEF Entries
      <4> QED
        BY <4>1
    <3>2. CASE w = c.from
      <4>1. Entries(c)[1] = Entry(c, w) /\ 1 \in 1..Len(Entries(c))
        BY <3>2 DEF Entries
      <4> QED
        BY <4>1
    <3> QED
      BY <3>1, <3>2 DEF Legs
  <2>2. Entry(c, w).key = EntryKey(c, w)
    BY DEF Entry
  <2> QED
    BY <1>2, <2>1, <2>2 DEF IInv, KeyInv
<1>9. c.op \in GuardedOps => \A w \in Legs(c) : status[w] = "active"
  BY <1>1 DEF ActiveAt
<1>10. c.op \in MoneyOp
  BY <1>1, CallParts DEF Op
<1>11. Atomic!Postable(c)
  BY <1>1, <1>2, <1>6, <1>7, <1>8, <1>9, <1>10, SameValues
     DEF Atomic!Postable, Atomic!UnusedKey, ValidationAt
<1> QED
  BY <1>1, <1>4, <1>5, <1>11, SameValues DEF Atomic!Post

LEMMA NextRefines ==
  ASSUME IInv, [Next]_vars
  PROVE  [Atomic!Next]_<<balance, status, ledger>>
<1>1. ASSUME NEW r \in Request, Step(r) \/ Fault(r) PROVE Atomic!Next \/ UNCHANGED <<balance, status, ledger>>
  <2>0. TypeInv
    BY DEF IInv, TypeInv
  <2>1. CASE CommitKind(r)
    BY <2>1, CommitPosts DEF Atomic!Next
  <2>2. CASE StatusKind(r)
    BY <2>2 DEF StatusKind, WriteStatus, Atomic!Next, Atomic!Suspend
  <2>3. CASE ~CommitKind(r) /\ ~StatusKind(r)
    BY <1>1, <2>0, <2>3, Kinds DEF LocalKind, LateKind, ReadKind, ValidateKind, RollbackKind, BeginKind, LockKind,
       AppendKind, ForeignKeyKind, UpdateKind, dbVars, RollbackTx, BeginTx, LockRowAs, InsertEntry, WriteBalance
  <2> QED
    BY <2>1, <2>2, <2>3
<1>2. ASSUME NEW r \in Request, NEW c \in Call, NEW i \in Instance, Arrive(r, c, i)
      PROVE  UNCHANGED <<balance, status, ledger>>
  BY <1>2 DEF Arrive, dbVars
<1>3. ASSUME NEW i \in Instance, Crash(i) PROVE UNCHANGED <<balance, status, ledger>>
  BY <1>3 DEF Crash, dbVars
<1>4. CASE UNCHANGED vars
  BY <1>4 DEF vars, dbVars
<1> QED
  BY <1>1, <1>2, <1>3, <1>4 DEF Next, Quiet

\* Whatever interleaves, fails, crashes or is retried, on however many instances:
\* what the database commits is what a wallet commits that executes calls one at
\* a time, each whole, under a new key and from funds that are there.
THEOREM ImplementsAtomicWallet == Spec => AtomicSpec
<1>1. Init => Atomic!Init
  BY InitRefines
<1>2. IInv /\ [Next]_vars => [Atomic!Next]_<<balance, status, ledger>>
  BY NextRefines
<1> QED
  BY <1>1, <1>2, Inductive, PTL DEF Spec, AtomicSpec, Atomic!Spec

-----------------------------------------------------------------------------
(* Suspension, as promised *)

\* What a step adds to the ledger or changes in a balance, it posts for one call
\* whose wallets are active if its operation is one that suspension stops.
LEMMA PostingStep ==
  ASSUME IInv, [Next]_vars, ~UNCHANGED <<balance, ledger>>
  PROVE  \E c \in Call :
           /\ c.op \in GuardedOps => \A w \in Legs(c) : status[w] = "active"
           /\ c.op \in MoneyOp
           /\ \A w \in Wallet : balance'[w] # balance[w] => w \in Legs(c)
           /\ \A n \in Len(ledger) + 1..Len(ledger') : \E w \in Legs(c) : ledger'[n] = Entry(c, w)
<1>1. PICK c \in Call : Atomic!Post(c)
  BY NextRefines DEF Atomic!Next, Atomic!Suspend
<1>2. /\ c.op \in GuardedOps => \A w \in Legs(c) : status[w] = "active"
      /\ c.op \in MoneyOp
      /\ balance' = [w \in Wallet |-> IF w \in Legs(c) THEN Wrap(balance[w] + Delta(c, w)) ELSE balance[w]]
      /\ ledger' = ledger \o Entries(c)
  BY <1>1, SameValues DEF Atomic!Post, Atomic!Postable
<1>3. \A w \in Wallet : balance'[w] # balance[w] => w \in Legs(c)
  BY <1>2 DEF IInv, TypeOK, DbTypeOK
<1>4. \A i \in 1..Len(Entries(c)) : \E w \in Legs(c) : Entries(c)[i] = Entry(c, w)
  <2>1. CASE c.op = "transfer"
    <3>1. Entries(c) = <<Entry(c, c.from), Entry(c, c.to)>> /\ Legs(c) = {c.from, c.to}
      BY <2>1 DEF Entries, Legs
    <3>2. Len(Entries(c)) = 2 /\ Entries(c)[1] = Entry(c, c.from) /\ Entries(c)[2] = Entry(c, c.to)
      BY <3>1
    <3> QED
      BY <3>1, <3>2
  <2>2. CASE c.op # "transfer"
    BY <2>2 DEF Entries, Legs
  <2> QED
    BY <2>1, <2>2
<1>5. \A n \in Len(ledger) + 1..Len(ledger') : n - Len(ledger) \in 1..Len(Entries(c))
                                               /\ ledger'[n] = Entries(c)[n - Len(ledger)]
  <2>1. ledger \in Seq(EntryRecord)
    BY DEF IInv, TypeOK, DbTypeOK
  <2>2. Entries(c) \in Seq({Entry(c, c.from), Entry(c, c.to)})
    <3>1. \A a, b : <<a, b>> \in Seq({a, b}) /\ <<a>> \in Seq({a, b})
      OBVIOUS
    <3> QED
      BY <3>1 DEF Entries
  <2>3. \A L, E : L \in Seq(EntryRecord) /\ E \in Seq({Entry(c, c.from), Entry(c, c.to)}) =>
          \A n \in Len(L) + 1..Len(L \o E) : n - Len(L) \in 1..Len(E) /\ (L \o E)[n] = E[n - Len(L)]
    OBVIOUS
  <2> QED
    BY <1>2, <2>1, <2>2, <2>3
<1> QED
  BY <1>2, <1>3, <1>4, <1>5

\* No transfer posts on a suspended wallet, on however many instances.
THEOREM SuspensionStopsTransfers == Spec => TransfersRespectSuspension
<1> DEFINE Respects ==
      \A n \in Len(ledger) + 1..Len(ledger') :
        ledger'[n].operation \in {"transfer_out", "transfer_in"} => status[ledger'[n].wallet] = "active"
<1>1. ASSUME IInv, [Next]_vars PROVE Respects
  <2> SUFFICES ASSUME NEW n \in Len(ledger) + 1..Len(ledger'),
                      ledger'[n].operation \in {"transfer_out", "transfer_in"}
               PROVE  status[ledger'[n].wallet] = "active"
    OBVIOUS
  <2>1. ~UNCHANGED <<balance, ledger>>
    BY DEF IInv, TypeOK, DbTypeOK
  <2>2. PICK c \in Call : /\ c.op \in GuardedOps => \A w \in Legs(c) : status[w] = "active"
                          /\ c.op \in MoneyOp
                          /\ \E w \in Legs(c) : ledger'[n] = Entry(c, w)
    BY <1>1, <2>1, PostingStep
  <2>3. PICK w \in Legs(c) : ledger'[n] = Entry(c, w)
    BY <2>2
  <2>4. c.op = "transfer" /\ ledger'[n].wallet = w
    BY <2>2, <2>3 DEF Entry, MoneyOp
  <2>5. "transfer" \in GuardedOps
    BY DEF GuardedOps, MoneyOp
  <2> QED
    BY <2>2, <2>4, <2>5
<1>2. IInv /\ [Next]_vars => [Respects]_vars
  BY <1>1
<1> QED
  BY <1>2, Inductive, PTL DEF Spec, TransfersRespectSuspension

\* With one instance that does not fail, nothing at all does.
THEOREM SuspensionFreezes ==
  ASSUME OneMutexEach
  PROVE  Spec => SuspendedIsFrozen
<1> DEFINE Frozen == \A w \in Wallet : status[w] = "suspended" => ~Posted(w)
<1>1. ASSUME IInv, [Next]_vars PROVE Frozen
  <2> SUFFICES ASSUME NEW w \in Wallet, Posted(w), status[w] = "suspended" PROVE FALSE
    OBVIOUS
  <2>1. ~UNCHANGED <<balance, ledger>>
    BY <1>1 DEF Posted, IInv, TypeOK, DbTypeOK
  <2>2. PICK c \in Call :
          /\ c.op \in GuardedOps => \A v \in Legs(c) : status[v] = "active"
          /\ c.op \in MoneyOp
          /\ \A v \in Wallet : balance'[v] # balance[v] => v \in Legs(c)
          /\ \A n \in Len(ledger) + 1..Len(ledger') : \E v \in Legs(c) : ledger'[n] = Entry(c, v)
    BY <1>1, <2>1, PostingStep
  <2>3. \A v : Entry(c, v).wallet = v
    BY DEF Entry
  <2>4. w \in Legs(c)
    BY <2>2, <2>3 DEF Posted
  <2>5. c.op \in GuardedOps
    BY <2>2 DEF GuardedOps
  <2> QED
    BY <2>2, <2>4, <2>5
<1>2. IInv /\ [Next]_vars => [Frozen]_vars
  BY <1>1
<1> QED
  BY <1>2, Inductive, PTL DEF Spec, SuspendedIsFrozen
=============================================================================
