---------------------------- MODULE HistoryProofs ----------------------------
(***************************************************************************)
(* What clients read of wallets and their histories, for every number of   *)
(* wallets, requests and faults: a client finds what it was told has       *)
(* happened, on any number of instances; and while one process serves the  *)
(* wallets their histories are in the order in which entries took effect.  *)
(***************************************************************************)
EXTENDS History, AnswerProofs, FiniteSetTheorems

USE DEF Late, Dead

-----------------------------------------------------------------------------
(* Beside the queries, the requests do what they do without them *)

LEMMA QueriesChangeNothing == HistorySpec => Spec
<1>1. HistoryInit => Init
  BY DEF HistoryInit
<1>2. [HistoryNext]_historyVars => [Next]_vars
  BY DEF HistoryNext, historyVars, vars
<1> QED
  BY <1>1, <1>2, PTL DEF HistorySpec, Spec

Known == IInv /\ AnswerInv /\ MoneyInv

LEMMA HistoryInvariant == HistorySpec => []Known
<1>1. Spec => []Known
  BY Inductive, AnswersInductive, MoneyInvariant, PTL DEF Known
<1> QED
  BY <1>1, QueriesChangeNothing, PTL

-----------------------------------------------------------------------------
(* The order in which transactions begin *)

\* Labels before Begin.
Early == {"idle", "lookup", "replay", "lock", "lockSecond", "read", "begin", "status"}

\* A transaction that begins is later than those that have begun.
StartInv ==
  /\ started \in [Request -> Nat]
  /\ \A r \in Request : started[r] <= Latest
  /\ \A r \in Request : pc[r] \in Early => started[r] = 0

\* What dead processes have left, and the labels of a transaction that will not commit.
Gone == {r \in Request : pc[r] \in Dead}
CommitsNoMore == {"orphan"} \cup Late

\* How a step of r moves the transactions and the requests that died.
LEMMA Movement ==
  ASSUME Known, NEW r \in Request, Step(r) \/ Fault(r)
  PROVE  /\ \A q \in Request \ {r} : pc'[q] = pc[q] /\ (q \in txOpen' <=> q \in txOpen)
         /\ \/ UNCHANGED txOpen
            \/ txOpen' = txOpen \ {r}
            \/ txOpen' = txOpen \cup {r} /\ pc[r] = "begin" /\ r \notin txOpen
         /\ pc'[r] \in Early => pc[r] \in Early /\ UNCHANGED txOpen
         /\ Gone' \subseteq Gone
         /\ r \in Gone /\ r \in txOpen' => /\ pc[r] \in CommitsNoMore /\ pc'[r] \in CommitsNoMore
         /\ UNCHANGED call
<1>0. TypeInv
  BY DEF Known, IInv, TypeInv
<1>1. pc \in [Request -> Label] /\ TransactionAt(r)
  BY DEF Known, IInv, TypeOK, TransactionInv
<1>2. \A q \in Request \ {r} : pc'[q] = pc[q] /\ (q \in txOpen' <=> q \in txOpen)
  BY <1>0, Others
<1>3. pc'[r] \in Dead => pc[r] \in Dead
  BY <1>0, <1>1, AnswerKinds DEF SilentKind, ReplayKind, AcknowledgeKind, LostKind, FailKind, CommitKind
<1>4. UNCHANGED call
  BY <1>0, Kinds
<1>5. /\ \/ UNCHANGED txOpen
         \/ txOpen' = txOpen \ {r}
         \/ txOpen' = txOpen \cup {r} /\ pc[r] = "begin" /\ r \notin txOpen
      /\ pc'[r] \in Early => pc[r] \in Early /\ UNCHANGED txOpen
  <2>1. CASE LocalKind(r) \/ ReadKind(r) \/ ValidateKind(r) \/ StatusKind(r)
    BY <1>1, <2>1 DEF LocalKind, ReadKind, ValidateKind, StatusKind, dbVars, WriteStatus, Early
  <2>2. CASE LockKind(r) \/ AppendKind(r) \/ ForeignKeyKind(r) \/ UpdateKind(r) \/ LateKind(r)
    BY <1>1, <2>2 DEF LockKind, AppendKind, ForeignKeyKind, UpdateKind, LateKind, LockRowAs, InsertEntry, WriteBalance,
       Early
  <2>3. CASE RollbackKind(r) \/ CommitKind(r)
    BY <1>1, <2>3 DEF RollbackKind, CommitKind, RollbackTx, CommitTx, EndTx, Early
  <2>4. CASE BeginKind(r)
    BY <1>1, <2>4 DEF BeginKind, BeginTx, Early, TransactionAt, InTransaction, Writing
  <2> QED
    BY <1>0, <2>1, <2>2, <2>3, <2>4, Kinds
<1>6. Gone' \subseteq Gone
  BY <1>2, <1>3 DEF Gone
<1>7. r \in Gone /\ r \in txOpen' => pc[r] \in CommitsNoMore /\ pc'[r] \in CommitsNoMore
  BY <1>0, <1>1, Kinds
     DEF Gone, CommitsNoMore, LateKind, LocalKind, ReadKind, ValidateKind, RollbackKind, BeginKind, LockKind, AppendKind, ForeignKeyKind,
         UpdateKind, CommitKind, StatusKind, RollbackTx, CommitTx, EndTx, WriteStatus, TransactionAt, InTransaction,
         Writing
<1> QED
  BY <1>2, <1>4, <1>5, <1>6, <1>7

\* The stamp of a step that begins no transaction, and of one that begins r's.
LEMMA NoStamp ==
  ASSUME started \in [Request -> Nat], Stamp, txOpen' \subseteq txOpen
  PROVE  started' = started
BY DEF Stamp

LEMMA LatestType ==
  ASSUME IsFiniteSet(Request)
  PROVE  Latest \in Nat
<1>1. IsFiniteSet({r \in Request : started[r] > 0})
  BY FS_Subset
<1> QED
  BY <1>1, FS_CardinalityType DEF Latest

LEMMA NewStamp ==
  ASSUME IsFiniteSet(Request), StartInv, Stamp, NEW r \in Request,
         txOpen' = txOpen \cup {r}, r \notin txOpen, started[r] = 0
  PROVE  /\ started' = [started EXCEPT ![r] = Latest + 1]
         /\ Latest \in Nat /\ Latest' = Latest + 1
<1> DEFINE S == {q \in Request : started[q] > 0}
<1>1. IsFiniteSet(S)
  BY FS_Subset
<1>2. Latest \in Nat
  BY LatestType
<1>3. txOpen' \ txOpen = {r}
  OBVIOUS
<1>4. started' = [started EXCEPT ![r] = Latest + 1]
  BY <1>3 DEF Stamp, StartInv
<1>5. {q \in Request : started'[q] > 0} = S \cup {r} /\ r \notin S
  BY <1>2, <1>4 DEF StartInv
<1>6. Cardinality(S \cup {r}) = Cardinality(S) + 1
  BY <1>1, <1>5, FS_AddElement
<1> QED
  BY <1>2, <1>4, <1>5, <1>6 DEF Latest

LEMMA StampedStep ==
  ASSUME IsFiniteSet(Request), Known, StartInv, Stamp, NEW r \in Request, Step(r) \/ Fault(r)
  PROVE  /\ StartInv'
         /\ \/ started' = started /\ txOpen' \subseteq txOpen
            \/ /\ txOpen' = txOpen \cup {r}
               /\ started' = [started EXCEPT ![r] = Latest + 1]
               /\ pc[r] = "begin"
               /\ r \notin txOpen
<1>1. CASE txOpen' \subseteq txOpen
  <2>1. started' = started
    BY <1>1, NoStamp DEF StartInv
  <2>2. Latest' = Latest
    BY <2>1 DEF Latest
  <2> QED
    BY <1>1, <2>1, <2>2, Movement DEF StartInv
<1>2. CASE txOpen' = txOpen \cup {r} /\ pc[r] = "begin" /\ r \notin txOpen
  <2>1. /\ started' = [started EXCEPT ![r] = Latest + 1]
        /\ Latest \in Nat /\ Latest' = Latest + 1
    BY <1>2, NewStamp DEF StartInv, Early
  <2>2. started' \in [Request -> Nat] /\ \A q \in Request : started'[q] <= Latest'
    BY <2>1 DEF StartInv
  <2>3. \A q \in Request : pc'[q] \in Early => started'[q] = 0
    BY <1>2, <2>1, Movement DEF StartInv
  <2> QED
    BY <1>2, <2>1, <2>2, <2>3 DEF StartInv
<1> QED
  BY <1>1, <1>2, Movement

-----------------------------------------------------------------------------
(* With one process, transactions on a wallet begin in the order of their commits *)

Sharing(p, q) == Legs(call[p]) \cap Legs(call[q]) # {}

\* Who may still commit on a wallet has begun after those that have, and after those
\* whose process died when theirs were open.
BegunInv ==
  /\ \A p \in applied, q \in txOpen : pc[q] \notin CommitsNoMore /\ Sharing(p, q) => started[p] < started[q]
  /\ \A q \in Gone \cap txOpen, p \in Living \cap txOpen : started[q] < started[p]

IsEntryOf(e, p) == \E w \in Legs(call[p]) : e = Entry(call[p], w)

OrderInv ==
  \A p, q \in applied : \A m, n \in 1..Len(ledger) :
    m < n /\ ledger[m].wallet = ledger[n].wallet /\ IsEntryOf(ledger[m], p) /\ IsEntryOf(ledger[n], q) =>
      started[p] <= started[q]

\* Another open transaction on a wallet of one that commits has begun later: they
\* cannot both be alive, because of the mutex, nor both in flight, because of the row.
LEMMA CommitsInOrder ==
  ASSUME OneProcess, Known, BegunInv, NEW r \in Request, CommitKind(r),
         NEW q \in txOpen \ {r}, pc[q] \notin CommitsNoMore, Sharing(r, q)
  PROVE  started[r] < started[q]
<1>0. /\ q \in Request /\ TransactionAt(r) /\ TransactionAt(q) /\ MutexAt(r) /\ MutexAt(q)
      /\ LockedRowAt(r) /\ LockedRowAt(q) /\ dirty \in [Request -> SUBSET Wallet]
  BY DEF Known, IInv, TypeOK, DbTypeOK, TransactionInv, MutexInv, LockedRowInv
<1>1. InTransaction(r) /\ InTransaction(q) /\ r \in txOpen
  BY <1>0 DEF TransactionAt, CommitKind, InTransaction, Writing
<1>2. PICK w \in Legs(call[r]) : w \in Legs(call[q])
  BY DEF Sharing
<1>3. CASE pc[q] # "inFlight"
  <2>1. q \in Living /\ pc[q] \in Writing
    BY <1>0, <1>1, <1>3 DEF CommitsNoMore, Living, InTransaction
  <2>2. CASE pc[r] = "inFlight"
    BY <1>0, <1>1, <2>1, <2>2 DEF BegunInv, Gone
  <2>3. CASE pc[r] = "commit"
    <3>1. w \in mutexes[r] /\ w \in mutexes[q]
      BY <1>0, <1>2, <2>1, <2>3 DEF MutexAt, Writing
    <3> QED
      BY <1>0, <3>1, OwnMutexes DEF Known
  <2> QED
    BY <2>2, <2>3 DEF CommitKind
<1>4. CASE pc[q] = "inFlight"
  <2>1. w \in dirty[r] /\ w \in dirty[q] /\ w \in WalletID
    BY <1>0, <1>1, <1>2, <1>4, WalletAssumption DEF TransactionAt, CommitKind
  <2>2. rowLock[r][w] = "update" /\ rowLock[q][w] = "update"
    BY <1>0, <2>1 DEF LockedRowAt
  <2> QED
    BY <1>0, <2>1, <2>2 DEF Known, IInv, RowLockInv
<1> QED
  BY <1>3, <1>4

\* A commit appends the entries of its request, whose keys are new.
LEMMA NewEntries ==
  ASSUME Known, NEW r \in Request, CommitKind(r)
  PROVE  /\ \A w \in Legs(call[r]) : ~KeyCommitted(EntryKey(call[r], w))
         /\ \A n \in 1..Len(ledger') : \/ n \in 1..Len(ledger) /\ ledger'[n] = ledger[n]
                                       \/ n > Len(ledger) /\ IsEntryOf(ledger'[n], r)
         /\ r \notin applied /\ applied' = applied \cup {r}
<1>0. /\ TransactionAt(r) /\ ReplyAt(r) /\ ledger \in Seq(EntryRecord) /\ inserted \in [Request -> Seq(EntryRecord)]
  BY DEF Known, IInv, AnswerInv, TypeOK, DbTypeOK, TransactionInv, ReplyInv
<1>1. inserted[r] = Entries(call[r])
  BY <1>0 DEF TransactionAt, CommitKind, InTransaction
<1>2. r \notin applied /\ applied' = applied \cup {r} /\ ledger' = ledger \o inserted[r]
  BY <1>0 DEF ReplyAt, CommitKind, CommitTx
<1>3. \A w \in Legs(call[r]) : \E i \in 1..Len(inserted[r]) : inserted[r][i] = Entry(call[r], w)
  BY <1>1 DEF Entries, Legs
<1>4. \A i \in 1..Len(inserted[r]) : IsEntryOf(inserted[r][i], r)
  BY <1>1 DEF Entries, Legs, IsEntryOf
<1>5. \A w : Entry(call[r], w).key = EntryKey(call[r], w)
  BY DEF Entry
<1>6. \A w \in Legs(call[r]) : ~KeyCommitted(EntryKey(call[r], w))
  BY <1>3, <1>5 DEF Known, IInv, KeyInv
<1>7. ASSUME NEW n \in 1..Len(ledger')
      PROVE  \/ n \in 1..Len(ledger) /\ ledger'[n] = ledger[n]
             \/ n > Len(ledger) /\ IsEntryOf(ledger'[n], r)
  <2>1. CASE n \in 1..Len(ledger)
    BY <1>0, <1>2, <2>1
  <2>2. CASE n \notin 1..Len(ledger)
    <3>1. n > Len(ledger) /\ n - Len(ledger) \in 1..Len(inserted[r]) /\ ledger'[n] = inserted[r][n - Len(ledger)]
      BY <1>0, <1>2, <2>2
    <3> QED
      BY <1>4, <3>1
  <2> QED
    BY <2>1, <2>2
<1> QED
  BY <1>2, <1>6, <1>7

LEMMA BegunStep ==
  ASSUME OneProcess, IsFiniteSet(Request), Known, Known', StartInv, BegunInv, Stamp,
         NEW r \in Request, Step(r) \/ Fault(r)
  PROVE  BegunInv'
<1>0. /\ call' = call /\ Gone' \subseteq Gone
      /\ r \in Gone /\ r \in txOpen' => pc[r] \in CommitsNoMore /\ pc'[r] \in CommitsNoMore
      /\ \A q \in Request \ {r} : pc'[q] = pc[q]
      /\ txOpen \subseteq Request /\ applied \subseteq Request /\ ReplyAt(r)
      /\ started \in [Request -> Nat] /\ Latest \in Nat /\ \A q \in Request : started[q] <= Latest
  BY Movement, LatestType DEF Known, IInv, AnswerInv, TypeOK, DbTypeOK, ReplyInv, StartInv
<1>1. CASE started' = started /\ txOpen' \subseteq txOpen
  <2>1. ASSUME NEW p \in applied', NEW q \in txOpen', pc'[q] \notin CommitsNoMore, Sharing(p, q)' PROVE started'[p] < started'[q]
    <3>1. Sharing(p, q) /\ pc[q] \notin CommitsNoMore /\ q \in txOpen
      BY <1>0, <1>1, <2>1 DEF Sharing, Gone, CommitsNoMore
    <3>2. CASE p \in applied
      BY <1>1, <3>1, <3>2 DEF BegunInv
    <3>3. CASE p \notin applied
      <4>1. p = r /\ CommitKind(r) /\ r \notin txOpen'
        BY <3>3, AppliedGrows DEF Known, IInv, TypeInv, CommitKind, CommitTx, EndTx
      <4> QED
        BY <1>1, <2>1, <3>1, <4>1, CommitsInOrder
    <3> QED
      BY <3>2, <3>3
  <2>2. ASSUME NEW q \in Gone' \cap txOpen', NEW p \in Living' \cap txOpen' PROVE started'[q] < started'[p]
    <3>1. q \in Gone \cap txOpen /\ p \in Living \cap txOpen
      BY <1>0, <1>1, <2>2 DEF Living, Gone, CommitsNoMore
    <3> QED
      BY <1>1, <3>1 DEF BegunInv
  <2> QED
    BY <2>1, <2>2 DEF BegunInv
<1>2. CASE txOpen' = txOpen \cup {r} /\ started' = [started EXCEPT ![r] = Latest + 1] /\ pc[r] = "begin"
           /\ r \notin txOpen
  <2>0. r \notin applied /\ applied' = applied /\ r \notin Gone
    BY <1>0, <1>2, AppliedGrows DEF Known, IInv, TypeInv, CommitKind, ReplyAt, Gone
  <2>1. ASSUME NEW p \in applied', NEW q \in txOpen', pc'[q] \notin CommitsNoMore, Sharing(p, q)' PROVE started'[p] < started'[q]
    <3>1. Sharing(p, q) /\ p # r /\ p \in Request /\ started'[p] = started[p] /\ p \in applied
      BY <1>0, <1>2, <2>0, <2>1 DEF Sharing
    <3>2. CASE q = r
      BY <1>0, <1>2, <3>1, <3>2
    <3>3. CASE q # r
      <4>1. q \in txOpen /\ pc[q] \notin CommitsNoMore /\ started'[q] = started[q]
        BY <1>0, <1>2, <2>1, <3>3
      <4> QED
        BY <3>1, <4>1 DEF BegunInv
    <3> QED
      BY <3>2, <3>3
  <2>2. ASSUME NEW q \in Gone' \cap txOpen', NEW p \in Living' \cap txOpen' PROVE started'[q] < started'[p]
    <3>1. q \in Gone \cap txOpen /\ q # r /\ started'[q] = started[q]
      BY <1>0, <1>2, <2>0, <2>2
    <3>2. CASE p = r
      BY <1>0, <1>2, <3>1, <3>2
    <3>3. CASE p # r
      <4>1. p \in Living \cap txOpen /\ started'[p] = started[p]
        BY <1>0, <1>2, <2>2, <3>3 DEF Living
      <4> QED
        BY <3>1, <4>1 DEF BegunInv
    <3> QED
      BY <3>2, <3>3
  <2> QED
    BY <2>1, <2>2 DEF BegunInv
<1> QED
  BY <1>1, <1>2, StampedStep

LEMMA OrderStep ==
  ASSUME OneProcess, IsFiniteSet(Request), Known, StartInv, BegunInv, OrderInv, Stamp,
         NEW r \in Request, Step(r) \/ Fault(r)
  PROVE  OrderInv'
<1>0. call' = call /\ applied \subseteq Request /\ ledger \in Seq(EntryRecord) /\ ReplyAt(r) /\ TransactionAt(r)
      /\ started \in [Request -> Nat]
  BY Movement DEF Known, IInv, AnswerInv, TypeOK, DbTypeOK, ReplyInv, TransactionInv, StartInv
<1> SUFFICES ASSUME NEW p \in applied', NEW q \in applied', NEW m \in 1..Len(ledger'), NEW n \in 1..Len(ledger'),
                    m < n, ledger'[m].wallet = ledger'[n].wallet,
                    IsEntryOf(ledger'[m], p), IsEntryOf(ledger'[n], q)
             PROVE  started'[p] <= started'[q]
  BY <1>0 DEF OrderInv, IsEntryOf
<1>1. CASE CommitKind(r)
  <2>0. /\ pc[r] \notin {"begin"} \cup CommitsNoMore /\ r \in txOpen
    BY <1>0, <1>1 DEF CommitsNoMore, CommitKind, TransactionAt, InTransaction, Writing
  <2>1. started' = started
    BY <2>0, StampedStep
  <2>2. p \in Request /\ q \in Request
    BY <1>0, <1>1, NewEntries
  <2>3. ASSUME NEW s \in applied, NEW x, IsEntryOf(x, s) PROVE KeyCommitted(x.key)
    <3>1. PostedEntry(x)
      BY <2>3, EntryByEntry DEF Known, AnswerInv, Bookkeeping, EntryOfApplied, IsEntryOf
    <3>2. PICK k \in Len(OpeningLedger) + 1..Len(ledger) : x = ledger[k]
      BY <3>1 DEF PostedEntry
    <3>3. k \in 1..Len(ledger)
      BY <1>0, OpeningLength
    <3> QED
      BY <3>2, <3>3 DEF KeyCommitted
  <2>4. ASSUME NEW x, IsEntryOf(x, r) PROVE ~KeyCommitted(x.key)
    <3>1. PICK w \in Legs(call[r]) : x = Entry(call[r], w)
      BY <2>4 DEF IsEntryOf
    <3>2. x.key = EntryKey(call[r], w)
      BY <3>1 DEF Entry
    <3> QED
      BY <1>1, <3>2, NewEntries
  <2>5. CASE n \in 1..Len(ledger)
    <3>1. ledger'[n] = ledger[n] /\ m \in 1..Len(ledger) /\ ledger'[m] = ledger[m]
      BY <1>0, <1>1, <2>5, NewEntries
    <3>2. KeyCommitted(ledger[n].key) /\ KeyCommitted(ledger[m].key)
      BY <2>5, <3>1 DEF KeyCommitted
    <3>3. p \in applied /\ q \in applied
      BY <1>1, <2>4, <3>1, <3>2, NewEntries
    <3> QED
      BY <2>1, <2>5, <3>1, <3>3 DEF OrderInv
  <2>6. CASE n \notin 1..Len(ledger)
    <3>1. IsEntryOf(ledger'[n], r)
      BY <1>1, <2>6, NewEntries
    <3>2. q = r
      BY <1>1, <2>3, <2>4, <3>1, NewEntries
    <3>3. CASE p = r
      BY <1>0, <2>1, <2>2, <3>2, <3>3
    <3>4. CASE p # r
      <4>1. p \in applied
        BY <1>1, <3>4, NewEntries
      <4>2. ledger'[m].wallet \in Legs(call[p]) /\ ledger'[n].wallet \in Legs(call[r])
        BY <3>1 DEF IsEntryOf, Entry
      <4>3. Sharing(p, r)
        BY <4>2 DEF Sharing
      <4>4. started[p] < started[r]
        BY <2>0, <4>1, <4>3 DEF BegunInv
      <4> QED
        BY <1>0, <2>1, <2>2, <3>2, <4>4
    <3> QED
      BY <3>3, <3>4
  <2> QED
    BY <2>5, <2>6
<1>2. CASE ~CommitKind(r)
  <2>1. ledger' = ledger /\ applied' = applied
    BY <1>2, AppliedGrows DEF Known, IInv, TypeInv
  <2>2. \A t \in applied : started'[t] = started[t]
    BY <1>0, StampedStep DEF ReplyAt
  <2> QED
    BY <2>1, <2>2 DEF OrderInv
<1> QED
  BY <1>1, <1>2

-----------------------------------------------------------------------------
(* A wallet's history is in the order of its entries *)

OrderlyInv == StartInv /\ BegunInv /\ OrderInv

LEMMA OrderStands ==
  ASSUME OrderInv, UNCHANGED <<ledger, applied>>,
         \A p \in applied : call'[p] = call[p] /\ started'[p] = started[p]
  PROVE  OrderInv'
<1>1. \A p \in applied : \A e : IsEntryOf(e, p)' <=> IsEntryOf(e, p)
  BY DEF IsEntryOf
<1> QED
  BY <1>1 DEF OrderInv

LEMMA OrderlyStep ==
  ASSUME OneProcess, IsFiniteSet(Request), Known, Known', OrderlyInv, [HistoryNext]_historyVars
  PROVE  OrderlyInv'
<1> USE DEF OrderlyInv
<1>0. /\ pc \in [Request -> Label] /\ call \in [Request -> Call] /\ inst \in [Request -> Instance]
      /\ txOpen \subseteq Request /\ applied \subseteq Request
      /\ \A r \in Request : TransactionAt(r) /\ ReplyAt(r)
  BY DEF Known, IInv, AnswerInv, TypeOK, DbTypeOK, TransactionInv, ReplyInv
<1>1. ASSUME NEW r \in Request, Step(r) \/ Fault(r), Stamp PROVE OrderlyInv'
  BY <1>1, StampedStep, BegunStep, OrderStep
<1>2. ASSUME NEW r \in Request, NEW c \in Call, NEW i \in Instance, Arrive(r, c, i), Stamp PROVE OrderlyInv'
  <2>1. /\ pc[r] = "idle" /\ pc'[r] \in {"done", "lock", "lookup"}
        /\ \A q \in Request \ {r} : pc'[q] = pc[q] /\ call'[q] = call[q]
        /\ UNCHANGED <<txOpen, ledger, applied>>
    BY <1>0, <1>2 DEF Arrive, Goto, dbVars
  <2>2. started' = started
    BY <1>2, <2>1, NoStamp DEF StartInv
  <2>3. r \notin applied /\ r \notin txOpen /\ r \notin Gone /\ r \notin Gone'
    BY <1>0, <2>1 DEF ReplyAt, TransactionAt, InTransaction, Writing, Gone
  <2>4. StartInv'
    BY <2>1, <2>2 DEF StartInv, Latest, Early
  <2>5. \A p, q \in Request \ {r} : Sharing(p, q)' <=> Sharing(p, q)
    BY <2>1 DEF Sharing
  <2>6. \A q \in Request \ {r} : (q \in Gone' <=> q \in Gone) /\ (q \in Living' <=> q \in Living)
    BY <2>1 DEF Gone, Living
  <2>7. BegunInv'
    BY <1>0, <2>1, <2>2, <2>3, <2>5, <2>6 DEF BegunInv
  <2>8. OrderInv'
    BY <1>0, <2>1, <2>2, <2>3, OrderStands
  <2> QED
    BY <2>4, <2>7, <2>8
<1>3. ASSUME NEW i \in Instance, Crash(i), Stamp PROVE OrderlyInv'
  <2> DEFINE lost == {r \in Request : inst[r] = i /\ pc[r] \notin {"idle", "done"} \cup Dead}
  <2>1. /\ \A r \in lost : pc'[r] \in Dead \/ (pc'[r] = "done" /\ r \notin txOpen)
        /\ \A r \in Request \ lost : pc'[r] = pc[r]
        /\ UNCHANGED <<txOpen, ledger, applied, call>>
    <3>1. Crash(i) => UNCHANGED <<dbVars, call, applied>>
      BY DEF Crash
    <3>2. ASSUME NEW q \in Request PROVE /\ q \in lost => Leaves(q, pc'[q])
                                         /\ q \notin lost => pc'[q] = pc[q]
      BY <1>3, CrashMoves
    <3>3. ASSUME NEW q \in lost PROVE pc'[q] \in Dead \/ (pc'[q] = "done" /\ q \notin txOpen)
      BY <3>2, <3>3 DEF Leaves
    <3> QED
      BY <1>3, <3>1, <3>2, <3>3 DEF dbVars
  <2>2. started' = started
    BY <1>3, <2>1, NoStamp DEF StartInv
  <2>3. StartInv'
    BY <2>1, <2>2 DEF StartInv, Latest, Early
  <2>4. ASSUME NEW q \in txOpen, pc'[q] \notin CommitsNoMore PROVE pc[q] \notin CommitsNoMore
    BY <1>0, <2>1, <2>4 DEF CommitsNoMore
  <2>5. ASSUME NEW q \in txOpen, q \in Living' PROVE FALSE
    <3>1. CASE q \in lost
      BY <1>0, <2>1, <2>5, <3>1 DEF Living
    <3>2. CASE q \notin lost
      <4>1. inst[q] = i
        BY <1>0 DEF OneProcess
      <4>2. pc[q] \in {"idle", "done"}
        BY <1>0, <2>1, <2>5, <3>2, <4>1 DEF Living
      <4> QED
        BY <1>0, <4>2 DEF TransactionAt, InTransaction, Writing
    <3> QED
      BY <3>1, <3>2
  <2>6. BegunInv'
    BY <2>1, <2>2, <2>4, <2>5 DEF BegunInv, Sharing
  <2>7. OrderInv'
    BY <2>1, <2>2, OrderStands
  <2> QED
    BY <2>3, <2>6, <2>7
<1>4. CASE UNCHANGED <<vars, started>>
  <2>1. UNCHANGED <<pc, call, applied, ledger, txOpen, started>>
    BY <1>4 DEF vars, dbVars, reqVars
  <2>2. StartInv' /\ BegunInv'
    BY <2>1 DEF StartInv, Latest, BegunInv, Sharing, Gone, Living
  <2>3. OrderInv'
    BY <2>1, OrderStands
  <2> QED
    BY <2>2, <2>3
<1>5. CASE Quiet /\ Stamp
  <2>1. UNCHANGED vars /\ txOpen' = txOpen
    BY <1>5 DEF Quiet, vars, dbVars
  <2>2. started' = started
    BY <1>5, <2>1, NoStamp DEF StartInv
  <2> QED
    BY <1>4, <2>1, <2>2
<1> QED
  BY <1>1, <1>2, <1>3, <1>4, <1>5 DEF HistoryNext, Next, historyVars

LEMMA OrderlyInit ==
  ASSUME IsFiniteSet(Request), HistoryInit
  PROVE  OrderlyInv
<1>1. Latest \in Nat
  BY LatestType
<1>2. applied = {} /\ txOpen = {} /\ started = [r \in Request |-> 0]
  BY DEF HistoryInit, Init, DbInit
<1> QED
  BY <1>1, <1>2 DEF OrderlyInv, StartInv, BegunInv, OrderInv

\* created_at of an entry that was posted is the start of the transaction that did.
LEMMA CreatedByPoster ==
  ASSUME Known, NEW n \in 1..Len(ledger), n > Len(OpeningLedger)
  PROVE  \E r \in applied : IsEntryOf(ledger[n], r) /\ CreatedAt(n) = started[r]
<1> DEFINE Poster(r) == r \in applied /\ \E w \in Legs(call[r]) : Entry(call[r], w) = ledger[n]
<1>1. PostedEntry(ledger[n])
  BY OpeningLength DEF PostedEntry, Known, IInv, TypeOK, DbTypeOK
<1>2. \E r : Poster(r)
  BY <1>1, EntryByEntry DEF Known, AnswerInv, Bookkeeping, EntryOfApplied
<1>3. Poster(CHOOSE r : Poster(r))
  BY <1>2
<1>4. CreatedAt(n) = started[CHOOSE r : Poster(r)]
  BY OpeningLength DEF CreatedAt
<1> QED
  BY <1>3, <1>4 DEF IsEntryOf

LEMMA CreatedAtType ==
  ASSUME Known, started \in [Request -> Nat], NEW n \in 1..Len(ledger)
  PROVE  CreatedAt(n) \in Nat
<1>1. CASE n <= Len(OpeningLedger)
  BY <1>1 DEF CreatedAt
<1>2. CASE n > Len(OpeningLedger)
  BY <1>2, CreatedByPoster DEF Known, IInv, TypeOK
<1> QED
  BY <1>1, <1>2, OpeningLength

LEMMA Orderly ==
  ASSUME Known, OrderlyInv
  PROVE  HistoryInOrder
<1> SUFFICES ASSUME NEW m \in 1..Len(ledger), NEW n \in 1..Len(ledger), m < n, ledger[m].wallet = ledger[n].wallet
             PROVE  CreatedAt(m) <= CreatedAt(n)
  BY DEF HistoryInOrder
<1>0. CreatedAt(m) \in Nat /\ CreatedAt(n) \in Nat
  BY CreatedAtType DEF OrderlyInv, StartInv
<1>1. CASE m <= Len(OpeningLedger)
  <2>1. CreatedAt(m) = 0
    BY <1>1 DEF CreatedAt
  <2> QED
    BY <1>0, <2>1
<1>2. CASE m > Len(OpeningLedger)
  <2>1. n > Len(OpeningLedger)
    BY <1>2, OpeningLength
  <2>2. PICK p \in applied : IsEntryOf(ledger[m], p) /\ CreatedAt(m) = started[p]
    BY <1>2, CreatedByPoster
  <2>3. PICK q \in applied : IsEntryOf(ledger[n], q) /\ CreatedAt(n) = started[q]
    BY <2>1, CreatedByPoster
  <2> QED
    BY <2>2, <2>3 DEF OrderlyInv, OrderInv
<1> QED
  BY <1>1, <1>2, OpeningLength

\* While one process at a time serves the wallets, under one spelling of their ids,
\* LedgerHistory lists a wallet's entries in the order in which they took effect, also
\* when statements fail, processes die and their last commit arrives late.
THEOREM HistoriesAreInOrder ==
  ASSUME OneProcess, IsFiniteSet(Request)
  PROVE  HistorySpec => []HistoryInOrder
<1>1. HistoryInit => OrderlyInv
  BY OrderlyInit
<1>2. Known /\ Known' /\ OrderlyInv /\ [HistoryNext]_historyVars => OrderlyInv'
  BY OrderlyStep
<1>3. Known /\ OrderlyInv => HistoryInOrder
  BY Orderly
<1> QED
  BY <1>1, <1>2, <1>3, HistoryInvariant, PTL DEF HistorySpec

-----------------------------------------------------------------------------
(* LedgerHistory lists each entry of the wallet in one place *)

Timed == Known /\ started \in [Request -> Nat]

\* created_at, and for a tie the position, orders all entries.
LEMMA OlderIsStrict ==
  ASSUME Timed, NEW l \in 1..Len(ledger), NEW m \in 1..Len(ledger), NEW n \in 1..Len(ledger)
  PROVE  /\ ~Older(n, n)
         /\ m # n => Older(m, n) \/ Older(n, m)
         /\ Older(l, m) /\ Older(m, n) => Older(l, n)
<1>1. CreatedAt(l) \in Nat /\ CreatedAt(m) \in Nat /\ CreatedAt(n) \in Nat
  BY CreatedAtType DEF Timed
<1> QED
  BY <1>1 DEF Older

LEMMA EntriesAreFinite ==
  ASSUME Known, NEW w
  PROVE  /\ EntriesOf(w) \subseteq 1..Len(ledger)
         /\ IsFiniteSet(EntriesOf(w))
         /\ Cardinality(EntriesOf(w)) \in Nat
<1>1. Len(ledger) \in Nat
  BY DEF Known, IInv, TypeOK, DbTypeOK
<1>2. IsFiniteSet(1..Len(ledger))
  BY <1>1, FS_Interval
<1>3. EntriesOf(w) \subseteq 1..Len(ledger)
  BY DEF EntriesOf
<1> QED
  BY <1>2, <1>3, FS_Subset, FS_CardinalityType

OlderThan(n) == {m \in EntriesOf(ledger[n].wallet) : Older(m, n)}

LEMMA OlderAreFinite ==
  ASSUME Known, NEW n
  PROVE  IsFiniteSet(OlderThan(n)) /\ Cardinality(OlderThan(n)) \in Nat /\ Place(n) = 1 + Cardinality(OlderThan(n))
<1>1. OlderThan(n) \subseteq EntriesOf(ledger[n].wallet)
  BY DEF OlderThan
<1> QED
  BY <1>1, EntriesAreFinite, FS_Subset, FS_CardinalityType DEF Place, OlderThan

LEMMA PlaceType ==
  ASSUME Timed, NEW w, NEW n \in EntriesOf(w)
  PROVE  Place(n) \in 1..Cardinality(EntriesOf(w))
<1> DEFINE E == EntriesOf(w)
<1>1. n \in 1..Len(ledger) /\ ledger[n].wallet = w /\ IsFiniteSet(E) /\ Cardinality(E) \in Nat
  BY EntriesAreFinite DEF Timed, EntriesOf
<1>2. OlderThan(n) \subseteq E \ {n}
  BY <1>1, OlderIsStrict DEF OlderThan
<1>3. IsFiniteSet(E \ {n}) /\ Cardinality(E \ {n}) = Cardinality(E) - 1
  BY <1>1, FS_RemoveElement
<1>4. Cardinality(OlderThan(n)) <= Cardinality(E \ {n})
  BY <1>2, <1>3, FS_Subset
<1> QED
  BY <1>1, <1>3, <1>4, OlderAreFinite DEF Timed

LEMMA PlaceRises ==
  ASSUME Timed, NEW w, NEW m \in EntriesOf(w), NEW n \in EntriesOf(w), Older(m, n)
  PROVE  Place(m) < Place(n)
<1>1. m \in 1..Len(ledger) /\ ledger[m].wallet = w /\ n \in 1..Len(ledger) /\ ledger[n].wallet = w
  BY DEF EntriesOf
<1>2. m \notin OlderThan(m)
  BY <1>1, OlderIsStrict DEF OlderThan
<1>3. OlderThan(m) \cup {m} \subseteq OlderThan(n)
  <2>1. ASSUME NEW l \in OlderThan(m) PROVE l \in OlderThan(n)
    <3>1. l \in EntriesOf(w) /\ l \in 1..Len(ledger) /\ Older(l, m)
      BY <1>1, <2>1 DEF OlderThan, EntriesOf
    <3> QED
      BY <1>1, <3>1, OlderIsStrict DEF OlderThan
  <2> QED
    BY <1>1, <2>1 DEF OlderThan
<1>4. Cardinality(OlderThan(m) \cup {m}) = Cardinality(OlderThan(m)) + 1
  BY <1>2, OlderAreFinite, FS_AddElement DEF Timed
<1>5. Cardinality(OlderThan(m) \cup {m}) <= Cardinality(OlderThan(n))
  BY <1>3, OlderAreFinite, FS_Subset DEF Timed
<1> QED
  BY <1>4, <1>5, OlderAreFinite DEF Timed

LEMMA PlacesDiffer ==
  ASSUME Timed, NEW w, NEW m \in EntriesOf(w), NEW n \in EntriesOf(w), Place(m) = Place(n)
  PROVE  m = n
<1>1. m \in 1..Len(ledger) /\ n \in 1..Len(ledger)
  BY DEF EntriesOf
<1>2. Place(m) \in Int
  BY PlaceType
<1> QED
  BY <1>1, <1>2, OlderIsStrict, PlaceRises

LEMMA PlacesAreFilled ==
  ASSUME Timed, NEW w, NEW k \in 1..Cardinality(EntriesOf(w))
  PROVE  \E n \in EntriesOf(w) : Place(n) = k
<1> DEFINE E == EntriesOf(w)
           N == Cardinality(E)
           f == [n \in E |-> Place(n)]
<1>1. f \in [E -> 1..N] /\ \A m, n \in E : f[m] = f[n] => m = n
  BY PlaceType, PlacesDiffer
<1>2. N \in Nat
  BY EntriesAreFinite DEF Timed
<1>3. IsFiniteSet(1..N) /\ Cardinality(1..N) = N
  BY <1>2, FS_Interval
<1> HIDE DEF E, N, f
<1>4. f \in Injection(E, 1..N)
  BY <1>1 DEF Injection, IsInjective
<1>5. f \in Surjection(E, 1..N)
  BY <1>3, <1>4, FS_Injection DEF N
<1>6. \E n \in E : f[n] = k
  BY <1>5 DEF Surjection, E, N
<1> QED
  BY <1>6 DEF E, f

LEMMA Listing ==
  ASSUME Timed, NEW w
  PROVE  /\ ListByWallet(w) \in Seq(EntryRecord)
         /\ Len(ListByWallet(w)) = Cardinality(EntriesOf(w))
         /\ \A n \in EntriesOf(w) : ListByWallet(w)[Place(n)] = ledger[n]
<1> DEFINE E == EntriesOf(w)
           N == Cardinality(E)
           At(k) == CHOOSE n \in E : Place(n) = k
<1>1. N \in Nat /\ E \subseteq 1..Len(ledger) /\ ledger \in Seq(EntryRecord)
  BY EntriesAreFinite DEF Timed, Known, IInv, TypeOK, DbTypeOK
<1>2. ASSUME NEW k \in 1..N PROVE At(k) \in E /\ Place(At(k)) = k
  BY PlacesAreFilled
<1>3. ListByWallet(w) = [k \in 1..N |-> ledger[At(k)]]
  BY DEF ListByWallet
<1> HIDE DEF At, N, E
<1>4. ASSUME NEW k \in 1..N PROVE ledger[At(k)] \in EntryRecord
  <2>1. At(k) \in 1..Len(ledger)
    BY <1>1, <1>2
  <2> QED
    BY <1>1, <2>1
<1>5. ListByWallet(w) \in Seq(EntryRecord) /\ Len(ListByWallet(w)) = N
  BY <1>1, <1>3, <1>4
<1>6. ASSUME NEW n \in E PROVE ListByWallet(w)[Place(n)] = ledger[n]
  <2>1. Place(n) \in 1..N
    BY <1>6, PlaceType DEF E, N
  <2>2. At(Place(n)) = n
    BY <1>2, <1>6, <2>1, PlacesDiffer DEF E
  <2> QED
    BY <1>3, <2>1, <2>2
<1> QED
  BY <1>5, <1>6 DEF E, N

-----------------------------------------------------------------------------
(* What a step leaves of what a client was told *)

LEMMA WhatStays ==
  ASSUME Known, [Next]_vars
  PROVE  /\ Len(ledger) <= Len(ledger') /\ \A n \in 1..Len(ledger) : n \in 1..Len(ledger') /\ ledger'[n] = ledger[n]
         /\ \A n \in 1..Len(ledger') : n > Len(ledger) =>
              \E r \in Request : CommitKind(r) /\ IsEntryOf(ledger'[n], r)
         /\ \A r \in Request : pc[r] # "idle" => pc'[r] # "idle" /\ call'[r] = call[r]
         /\ \A w \in Wallet : status[w] = "suspended" => status'[w] = "suspended"
<1>0. /\ TypeInv /\ Len(ledger) \in Nat /\ pc \in [Request -> Label] /\ call \in [Request -> Call]
      /\ status \in [Wallet -> Status]
  BY DEF Known, IInv, TypeInv, TypeOK, DbTypeOK
<1>1. ASSUME NEW q \in Request, Step(q) \/ Fault(q)
      PROVE  /\ \A n \in 1..Len(ledger') : n > Len(ledger) =>
                   \E r \in Request : CommitKind(r) /\ IsEntryOf(ledger'[n], r)
             /\ \A r \in Request : pc[r] # "idle" => pc'[r] # "idle" /\ call'[r] = call[r]
             /\ \A w \in Wallet : status[w] = "suspended" => status'[w] = "suspended"
  <2>1. ASSUME NEW n \in 1..Len(ledger'), n > Len(ledger) PROVE \E r \in Request : CommitKind(r) /\ IsEntryOf(ledger'[n], r)
    <3>1. CommitKind(q)
      BY <1>0, <1>1, <2>1, AppliedGrows
    <3> QED
      BY <1>0, <2>1, <3>1, NewEntries
  <2>2. pc'[q] # "idle"
    BY <1>0, <1>1, Kinds
       DEF LocalKind, ReadKind, ValidateKind, RollbackKind, BeginKind, LockKind, AppendKind, ForeignKeyKind,
           UpdateKind, CommitKind, StatusKind, LateKind
  <2>3. call' = call /\ \A r \in Request \ {q} : pc'[r] = pc[r]
    BY <1>1, Movement
  <2>4. ASSUME NEW w \in Wallet, status[w] = "suspended" PROVE status'[w] = "suspended"
    <3>1. CASE status'[w] # status[w]
      <4>1. StatusKind(q) /\ w = call[q].from
        BY <1>0, <1>1, <3>1, StatusChange
      <4> QED
        BY <1>0, <4>1 DEF StatusKind, WriteStatus
    <3> QED
      BY <2>4, <3>1
  <2> QED
    BY <2>1, <2>2, <2>3, <2>4
<1>2. ASSUME NEW r \in Request, NEW c \in Call, NEW i \in Instance, Arrive(r, c, i)
      PROVE  /\ UNCHANGED <<ledger, status>> /\ pc[r] = "idle"
             /\ \A q \in Request \ {r} : pc'[q] = pc[q] /\ call'[q] = call[q]
  BY <1>0, <1>2 DEF Arrive, Goto, dbVars
<1>3. ASSUME NEW i \in Instance, Crash(i)
      PROVE  /\ UNCHANGED <<ledger, status, call>>
             /\ \A r \in Request : pc[r] # "idle" => pc'[r] # "idle"
  <2>1. ASSUME NEW r \in Request, pc[r] # "idle" PROVE pc'[r] # "idle"
    <3>1. pc'[r] = pc[r] \/ Leaves(r, pc'[r])
      BY <1>3, CrashMoves
    <3> QED
      BY <2>1, <3>1 DEF Leaves
  <2> QED
    BY <1>3, <2>1 DEF Crash, dbVars
<1>4. CASE UNCHANGED vars
  BY <1>0, <1>4 DEF vars, dbVars, reqVars
<1>5. ASSUME NEW q \in Request, Step(q) \/ Fault(q)
      PROVE  Len(ledger) <= Len(ledger') /\ \A n \in 1..Len(ledger) : n \in 1..Len(ledger') /\ ledger'[n] = ledger[n]
  BY <1>0, <1>5, LedgerGrows
<1>6. CASE \E r \in Request, c \in Call, i \in Instance : Arrive(r, c, i)
  BY <1>0, <1>2, <1>6
<1>7. CASE \E i \in Instance : Crash(i)
  BY <1>0, <1>3, <1>7
<1>8. CASE \E q \in Request : Step(q) \/ Fault(q)
  BY <1>1, <1>5, <1>8
<1> QED
  BY <1>4, <1>6, <1>7, <1>8 DEF Next, Quiet

\* r was answered "ok", and what that means still holds.
Told(r) ==
  /\ pc[r] # "idle"
  /\ IF call[r].op = "suspend" THEN call[r].from \in Wallet /\ status[call[r].from] = "suspended"
                               ELSE KeyCommitted(call[r].key)

LEMMA OkMeansTold ==
  ASSUME Known, NEW r \in Request, reply[r] = "ok"
  PROVE  Told(r)
BY DEF Known, AnswerInv, ReplyInv, ReplyAt, AcknowledgedIsDurable, Told

LEMMA TellingStands ==
  ASSUME Known, [Next]_vars, NEW r \in Request, Told(r)
  PROVE  Told(r)' /\ call'[r] = call[r]
<1>1. pc'[r] # "idle" /\ call'[r] = call[r]
  BY WhatStays DEF Told
<1>2. CASE call[r].op = "suspend"
  BY <1>1, <1>2, WhatStays DEF Told
<1>3. CASE call[r].op # "suspend"
  <2>1. KeyCommitted(call[r].key)'
    BY <1>1, <1>3, WhatStays DEF Told, KeyCommitted
  <2> QED
    BY <1>1, <1>3, <2>1 DEF Told
<1> QED
  BY <1>2, <1>3

LEMMA CreditKeysDiffer ==
  ASSUME NEW j \in Key, NEW k \in Key, CreditKey(j) = CreditKey(k)
  PROVE  j = k
<1>1. j = <<j[1], j[2]>> /\ k = <<k[1], k[2]>> /\ j[2] \in Nat /\ k[2] \in Nat
  BY DEF Key
<1>2. j[1] = k[1] /\ j[2] + 1 = k[2] + 1
  BY DEF CreditKey
<1> QED
  BY <1>1, <1>2

\* No later entry belongs to a call that was answered before: not under the call's
\* key, nor as the credit of a transfer, whose key goes with the debit's.
LEMMA NothingComesLate ==
  ASSUME Known, [Next]_vars, NEW r \in Request, Told(r), call[r].op # "suspend",
         NEW n \in 1..Len(ledger'), n > Len(ledger)
  PROVE  ledger'[n].key # call[r].key /\ ledger'[n] # Entry(call[r], call[r].to)
<1>1. PICK q \in Request : CommitKind(q) /\ IsEntryOf(ledger'[n], q)
  BY WhatStays
<1>2. PICK w \in Legs(call[q]) : ledger'[n] = Entry(call[q], w)
  BY <1>1 DEF IsEntryOf
<1>3. \A v \in Legs(call[q]) : ~KeyCommitted(EntryKey(call[q], v))
  BY <1>1, NewEntries
<1>4. KeyCommitted(call[r].key)
  BY DEF Told
<1>5. ledger'[n].key = EntryKey(call[q], w)
  BY <1>2 DEF Entry
<1>6. ledger'[n].key # call[r].key
  BY <1>3, <1>4, <1>5
<1>7. ASSUME ledger'[n] = Entry(call[r], call[r].to) PROVE FALSE
  <2>1. call[r].op = "transfer" /\ ledger'[n].operation = "transfer_in" /\ ledger'[n].key = CreditKey(call[r].key)
    <3>1. ledger'[n].key = EntryKey(call[r], call[r].to)
      BY <1>7 DEF Entry
    <3>2. call[r].op = "transfer"
      BY <1>6, <3>1 DEF EntryKey
    <3> QED
      BY <1>7, <3>1, <3>2 DEF Entry, EntryKey
  <2>2. call[q] \in Call /\ call[q].op \in Op /\ ControlAt(q)
    BY CallParts DEF Known, IInv, TypeOK, ControlInv
  <2>3. call[q].op = "transfer" /\ w = call[q].to
    BY <1>2, <2>1, <2>2 DEF Entry, Op, MoneyOp
  <2>4. call[q].key \in Key /\ call[q].from # call[q].to
    BY <1>1, <2>2, <2>3 DEF ControlAt, CommitKind, IsTransfer
  <2>5. call[r].key \in Key
    <3>1. PICK k \in 1..Len(ledger) : ledger[k].key = call[r].key
      BY <1>4 DEF KeyCommitted
    <3>2. ledger[k] \in EntryRecord
      BY DEF Known, IInv, TypeOK, DbTypeOK
    <3>3. ledger[k].key \in Key
      BY <3>2, SMT DEF EntryRecord
    <3> QED
      BY <3>1, <3>3
  <2>6. CreditKey(call[q].key) = CreditKey(call[r].key)
    BY <1>5, <2>1, <2>3 DEF EntryKey
  <2>7. call[q].key = call[r].key
    BY <2>4, <2>5, <2>6, CreditKeysDiffer
  <2>8. call[q].from \in Legs(call[q]) /\ EntryKey(call[q], call[q].from) = call[q].key
    BY <2>3, <2>4 DEF Legs, EntryKey
  <2> QED
    BY <1>3, <1>4, <2>7, <2>8
<1> QED
  BY <1>6, <1>7

-----------------------------------------------------------------------------
(* A client reads what has happened *)

HasRead == session.at \in {"findWallet", "listByWallet", "done"}

SessionType ==
  session \in [at: {"idle", "getWallet", "findWallet", "listByWallet", "done", "ErrWalletNotFound"},
              wallet: WalletID \cup {NoWallet}, answered: SUBSET Request, balance: Int64,
              status: Status, entries: Seq(EntryRecord)]

\* What the client reads includes all that it has been told, up to some entry m.
Covers(m) == \A n \in EntriesOf(session.wallet) : Answered(n) => n <= m
Explains(m) == (session.balance - LedgerSum(SubSeq(ledger, 1, m), session.wallet)) % Modulus = 0
SuspensionSeen ==
  (\E r \in session.answered : call[r].op = "suspend" /\ call[r].from = session.wallet) =>
    session.status = "suspended"
Listed == \A n \in EntriesOf(session.wallet) : Answered(n) => Contains(session.entries, ledger[n])

ReaderInv ==
  /\ started \in [Request -> Nat]
  /\ SessionType
  /\ \A r \in session.answered : Told(r)
  /\ HasRead => /\ session.wallet \in Wallet
                /\ \E m \in 0..Len(ledger) : Covers(m) /\ Explains(m)
                /\ SuspensionSeen
  /\ session.at = "done" => Listed

LEMMA ReaderSees == ReaderInv => ReadAfterWrite
  BY DEF ReaderInv, HasRead, ReadAfterWrite, Covers, Explains, SuspensionSeen, Listed

LEMMA StampType ==
  ASSUME IsFiniteSet(Request), started \in [Request -> Nat], Stamp
  PROVE  started' \in [Request -> Nat]
BY LatestType DEF Stamp

\* The requests go on while the client waits.
LEMMA ReaderWaits ==
  ASSUME Known, Known', ReaderInv, [Next]_vars, started' \in [Request -> Nat], session' = session
  PROVE  ReaderInv'
<1>0. /\ Len(ledger) \in Nat /\ Len(ledger') \in Nat /\ ledger \in Seq(EntryRecord) /\ ledger' \in Seq(EntryRecord)
      /\ session.answered \subseteq Request /\ session'.answered = session.answered
      /\ session'.wallet = session.wallet /\ session'.at = session.at
  BY DEF Known, IInv, TypeOK, DbTypeOK, ReaderInv, SessionType
<1>1. \A r \in session.answered : Told(r) /\ Told(r)' /\ call'[r] = call[r]
  BY <1>0, TellingStands DEF ReaderInv
<1>2. /\ Len(ledger) <= Len(ledger')
      /\ \A n \in 1..Len(ledger) : n \in 1..Len(ledger') /\ ledger'[n] = ledger[n]
  BY WhatStays
<1>3. ASSUME NEW n \in EntriesOf(session.wallet)', Answered(n)'
      PROVE  n \in EntriesOf(session.wallet) /\ Answered(n) /\ ledger'[n] = ledger[n]
  <2>1. n \in 1..Len(ledger') /\ ledger'[n].wallet = session.wallet
    BY <1>0 DEF EntriesOf
  <2>2. PICK r \in session.answered :
          /\ call[r].op # "suspend"
          /\ ledger'[n].key = call[r].key \/ ledger'[n] = Entry(call[r], call[r].to)
    BY <1>0, <1>1, <1>3 DEF Answered
  <2>3. n <= Len(ledger)
    BY <1>0, <1>1, <2>1, <2>2, NothingComesLate
  <2>4. n \in 1..Len(ledger) /\ ledger'[n] = ledger[n]
    BY <1>0, <1>2, <2>1, <2>3
  <2> QED
    BY <2>1, <2>2, <2>4 DEF EntriesOf, Answered
<1>4. ASSUME HasRead
      PROVE  /\ session.wallet \in Wallet
             /\ \E m \in 0..Len(ledger') : Covers(m)' /\ Explains(m)'
             /\ SuspensionSeen'
  <2>1. PICK m \in 0..Len(ledger) : Covers(m) /\ Explains(m)
    BY <1>4 DEF ReaderInv
  <2>2. Covers(m)'
    BY <1>0, <1>3, <2>1 DEF Covers
  <2>3. LedgerSum(SubSeq(ledger', 1, m), session.wallet) = LedgerSum(SubSeq(ledger, 1, m), session.wallet)
    BY <1>0, <1>2, SamePrefixSameSums
  <2>4. Explains(m)'
    BY <2>1, <2>3 DEF Explains
  <2>5. m \in 0..Len(ledger')
    BY <1>0, <1>2
  <2>6. SuspensionSeen'
    BY <1>1, <1>4 DEF ReaderInv, SuspensionSeen
  <2> QED
    BY <1>4, <2>2, <2>4, <2>5, <2>6 DEF ReaderInv
<1>5. session.at = "done" => Listed'
  BY <1>0, <1>3 DEF ReaderInv, Listed
<1>6. SessionType'
  BY DEF ReaderInv, SessionType
<1>7. HasRead' <=> HasRead
  BY DEF HasRead
<1> QED
  BY <1>0, <1>1, <1>4, <1>5, <1>6, <1>7 DEF ReaderInv

\* The client does, while no request does.
LEMMA ReaderAsks ==
  ASSUME Known, ReaderInv, Query, UNCHANGED <<vars, started>>
  PROVE  ReaderInv'
<1>0. /\ UNCHANGED <<ledger, call, pc, status, applied>> /\ started' = started
      /\ SessionType /\ status \in [Wallet -> Status] /\ balance \in [Wallet -> Int64] /\ ledger \in Seq(EntryRecord)
      /\ Timed
  BY DEF vars, dbVars, reqVars, ReaderInv, Known, IInv, TypeOK, DbTypeOK, Timed
<1>1. \A r : Told(r)' <=> Told(r)
  BY <1>0 DEF Told, KeyCommitted
<1>2. ASSUME NEW w \in WalletID, Open(w) PROVE ReaderInv'
  <2>1. session' = [session EXCEPT !.at = "getWallet", !.wallet = w,
                                   !.answered = {r \in Request : reply[r] = "ok"}]
    BY <1>2 DEF Open
  <2>2. SessionType' /\ session'.answered = {r \in Request : reply[r] = "ok"} /\ session'.at = "getWallet"
    BY <1>0, <2>1 DEF SessionType
  <2> QED
    BY <1>0, <1>1, <2>2, OkMeansTold DEF ReaderInv, HasRead, Timed
<1>3. CASE GetWallet
  <2>1. CASE session.wallet \notin Wallet
    <3>1. session' = [session EXCEPT !.at = "ErrWalletNotFound"]
      BY <1>3, <2>1 DEF GetWallet
    <3>2. SessionType' /\ session'.answered = session.answered /\ session'.at = "ErrWalletNotFound"
      BY <1>0, <3>1 DEF SessionType
    <3> QED
      BY <1>0, <1>1, <3>2 DEF ReaderInv, HasRead, Timed
  <2>2. CASE session.wallet \in Wallet
    <3>1. session' = [session EXCEPT !.at = "findWallet", !.balance = balance[session.wallet],
                                     !.status = status[session.wallet]]
      BY <1>3, <2>2 DEF GetWallet, CommittedBalance
    <3>2. /\ SessionType' /\ session'.answered = session.answered /\ session'.at = "findWallet"
          /\ session'.wallet = session.wallet /\ session'.balance = balance[session.wallet]
          /\ session'.status = status[session.wallet]
      BY <1>0, <2>2, <3>1 DEF SessionType
    <3>3. Len(ledger) \in 0..Len(ledger) /\ LedgerSum(SubSeq(ledger, 1, Len(ledger)), session.wallet)
                                               = LedgerSum(ledger, session.wallet)
      BY <1>0, SumOfPrefix, SumIsRunningSum
    <3>4. (balance[session.wallet] - LedgerSum(ledger, session.wallet)) % Modulus = 0
      BY <2>2, CongruentReconciles DEF Known, Reconciled
    <3>5. Explains(Len(ledger))'
      BY <1>0, <3>2, <3>3, <3>4 DEF Explains
    <3>6. Covers(Len(ledger))'
      BY <1>0 DEF Covers, EntriesOf
    <3>7. SuspensionSeen'
      BY <1>0, <3>2 DEF SuspensionSeen, ReaderInv, Told
    <3> QED
      BY <1>0, <1>1, <2>2, <3>2, <3>3, <3>5, <3>6, <3>7 DEF ReaderInv, HasRead, Timed
  <2> QED
    BY <2>1, <2>2
<1>4. ASSUME NEW a \in {"findWallet", "listByWallet", "done", "ErrWalletNotFound"}, HasRead,
             SessionType', session'.at = a, session'.answered = session.answered, session'.wallet = session.wallet,
             session'.balance = session.balance, session'.status = session.status, a = "done" => Listed'
      PROVE  ReaderInv'
  <2>1. PICK m \in 0..Len(ledger) : Covers(m) /\ Explains(m)
    BY <1>4 DEF ReaderInv
  <2>2. \A n : Answered(n)' <=> Answered(n)
    BY <1>0, <1>4 DEF Answered
  <2>3. Covers(m)' /\ Explains(m)' /\ SuspensionSeen'
    BY <1>0, <1>4, <2>1, <2>2 DEF ReaderInv, Covers, Explains, SuspensionSeen, EntriesOf
  <2> QED
    BY <1>0, <1>1, <1>4, <2>3 DEF ReaderInv, HasRead, Timed
<1>5. CASE FindWallet
  <2>1. \E a \in {"listByWallet", "ErrWalletNotFound"} : session' = [session EXCEPT !.at = a]
    BY <1>5 DEF FindWallet
  <2>2. PICK a \in {"listByWallet", "ErrWalletNotFound"} : session' = [session EXCEPT !.at = a]
    BY <2>1
  <2>3. /\ SessionType' /\ session'.at = a /\ session'.answered = session.answered /\ session'.wallet = session.wallet
        /\ session'.balance = session.balance /\ session'.status = session.status
    BY <1>0, <2>2 DEF SessionType
  <2> QED
    BY <1>4, <1>5, <2>3 DEF FindWallet, HasRead
<1>6. CASE List
  <2>1. session' = [session EXCEPT !.at = "done", !.entries = ListByWallet(session.wallet)]
    BY <1>6 DEF List
  <2>2. /\ ListByWallet(session.wallet) \in Seq(EntryRecord)
        /\ Len(ListByWallet(session.wallet)) = Cardinality(EntriesOf(session.wallet))
        /\ \A n \in EntriesOf(session.wallet) : ListByWallet(session.wallet)[Place(n)] = ledger[n]
    BY <1>0, Listing
  <2>3. /\ SessionType' /\ session'.at = "done" /\ session'.answered = session.answered /\ session'.wallet = session.wallet
        /\ session'.balance = session.balance /\ session'.status = session.status
        /\ session'.entries = ListByWallet(session.wallet)
    BY <1>0, <2>1, <2>2 DEF SessionType
  <2>4. ASSUME NEW n \in EntriesOf(session.wallet) PROVE Contains(ListByWallet(session.wallet), ledger[n])
    <3>1. Place(n) \in 1..Len(ListByWallet(session.wallet))
      BY <1>0, <2>2, PlaceType
    <3> QED
      BY <2>2, <3>1 DEF Contains
  <2>5. Listed'
    BY <1>0, <2>3, <2>4 DEF Listed, EntriesOf
  <2> QED
    BY <1>4, <1>6, <2>3, <2>5 DEF List, HasRead
<1> QED
  BY <1>2, <1>3, <1>5, <1>6 DEF Query

LEMMA ReaderInit ==
  ASSUME HistoryInit
  PROVE  ReaderInv
<1>1. NoSession \in [at: {"idle", "getWallet", "findWallet", "listByWallet", "done", "ErrWalletNotFound"},
                     wallet: WalletID \cup {NoWallet}, answered: SUBSET Request, balance: Int64,
                     status: Status, entries: Seq(EntryRecord)]
  BY AmountAssumption DEF NoSession, Int64, Status
<1>2. session = NoSession /\ NoSession.at = "idle" /\ NoSession.answered = {}
  BY DEF HistoryInit, NoSession
<1> QED
  BY <1>1, <1>2 DEF HistoryInit, ReaderInv, SessionType, HasRead

LEMMA ReaderStep ==
  ASSUME IsFiniteSet(Request), Known, Known', ReaderInv, [HistoryNext]_historyVars
  PROVE  ReaderInv'
<1>1. CASE Next /\ Stamp /\ UNCHANGED session
  BY <1>1, StampType, ReaderWaits DEF ReaderInv
<1>2. CASE Query /\ UNCHANGED <<vars, started>>
  BY <1>2, ReaderAsks
<1>3. CASE UNCHANGED historyVars
  BY <1>3, ReaderWaits DEF historyVars, ReaderInv
<1> QED
  BY <1>1, <1>2, <1>3 DEF HistoryNext

LEMMA ReaderInvariant ==
  ASSUME IsFiniteSet(Request)
  PROVE  HistorySpec => []ReaderInv
<1>1. HistoryInit => ReaderInv
  BY ReaderInit
<1>2. Known /\ Known' /\ ReaderInv /\ [HistoryNext]_historyVars => ReaderInv'
  BY ReaderStep
<1> QED
  BY <1>1, <1>2, HistoryInvariant, PTL DEF HistorySpec

\* However requests interleave, fail, are retried or die with their instance, a client
\* that asks for a wallet after an answer "ok" finds that operation in the balance or
\* the status it is shown, and in the history that it asks for afterwards.
THEOREM ClientsReadTheirWrites ==
  ASSUME IsFiniteSet(Request)
  PROVE  HistorySpec => []ReadAfterWrite
  BY ReaderInvariant, ReaderSees, PTL

-----------------------------------------------------------------------------
(* A balance that was read is a running total of the history read later *)

Upto(w, m) == {n \in EntriesOf(w) : n <= m}

LEMMA UptoIsFinite ==
  ASSUME Known, NEW w, NEW m
  PROVE  /\ IsFiniteSet(Upto(w, m)) /\ Cardinality(Upto(w, m)) \in Nat
         /\ Cardinality(Upto(w, m)) <= Cardinality(EntriesOf(w))
<1>1. Upto(w, m) \subseteq EntriesOf(w)
  BY DEF Upto
<1> QED
  BY <1>1, EntriesAreFinite, FS_Subset, FS_CardinalityType

\* In a history that is in order, an entry's place is the number of entries up to it.
LEMMA PlaceInOrder ==
  ASSUME Timed, HistoryInOrder, NEW w, NEW m \in EntriesOf(w)
  PROVE  Place(m) = 1 + Cardinality(Upto(w, m - 1))
<1>0. m \in 1..Len(ledger) /\ ledger[m].wallet = w /\ EntriesOf(w) \subseteq 1..Len(ledger) /\ Len(ledger) \in Nat
  BY EntriesAreFinite DEF EntriesOf, Timed, Known, IInv, TypeOK, DbTypeOK
<1>1. ASSUME NEW l \in EntriesOf(w) PROVE Older(l, m) <=> l <= m - 1
  <2>1. l \in 1..Len(ledger) /\ ledger[l].wallet = w
    BY <1>0 DEF EntriesOf
  <2>2. CreatedAt(l) \in Nat /\ CreatedAt(m) \in Nat
    BY <1>0, <2>1, CreatedAtType DEF Timed
  <2>3. (l < m => CreatedAt(l) <= CreatedAt(m)) /\ (m < l => CreatedAt(m) <= CreatedAt(l))
    BY <1>0, <2>1 DEF HistoryInOrder
  <2> QED
    BY <1>0, <2>1, <2>2, <2>3 DEF Older
<1>2. OlderThan(m) = Upto(w, m - 1)
  BY <1>0, <1>1 DEF OlderThan, Upto
<1> QED
  BY <1>2, OlderAreFinite DEF Timed

\* What the entries up to m sum up to, the listed entries up to the same one do.
SumsAgree(w, m) ==
  RunningSum(ListByWallet(w), w)[Cardinality(Upto(w, m))] = RunningSum(ledger, w)[m]

LEMMA NextSumAgrees ==
  ASSUME Timed, HistoryInOrder, NEW w, NEW m \in 1..Len(ledger), SumsAgree(w, m - 1)
  PROVE  SumsAgree(w, m)
<1> DEFINE L == ListByWallet(w)
           k == Cardinality(Upto(w, m - 1))
<1>0. /\ Len(ledger) \in Nat /\ m \in Nat \ {0} /\ k \in Nat /\ IsFiniteSet(Upto(w, m - 1))
      /\ EntriesOf(w) \subseteq 1..Len(ledger)
  BY UptoIsFinite, EntriesAreFinite DEF Timed, Known, IInv, TypeOK, DbTypeOK
<1>1. RunningSum(ledger, w)[m] = RunningSum(ledger, w)[m - 1] + AmountFor(ledger[m], w)
  BY <1>0, RunningSumUnfolds
<1>2. CASE m \in EntriesOf(w)
  <2>1. Upto(w, m) = Upto(w, m - 1) \cup {m} /\ m \notin Upto(w, m - 1)
    BY <1>0, <1>2 DEF Upto
  <2>2. Cardinality(Upto(w, m)) = k + 1
    BY <1>0, <2>1, FS_AddElement
  <2>3. L[k + 1] = ledger[m]
    <3>1. Place(m) = k + 1
      BY <1>0, <1>2, PlaceInOrder
    <3> QED
      BY <1>2, <3>1, Listing
  <2> HIDE DEF L, k
  <2>4. RunningSum(L, w)[k + 1] = RunningSum(L, w)[k] + AmountFor(L[k + 1], w)
    <3>1. k + 1 \in Nat /\ k + 1 # 0 /\ (k + 1) - 1 = k
      BY <1>0
    <3> QED
      BY <3>1, RunningSumUnfolds
  <2>5. RunningSum(L, w)[k] = RunningSum(ledger, w)[m - 1]
    BY DEF SumsAgree, L, k
  <2> QED
    BY <1>1, <2>2, <2>3, <2>4, <2>5 DEF SumsAgree, L
<1>3. CASE m \notin EntriesOf(w)
  <2>1. Upto(w, m) = Upto(w, m - 1)
    BY <1>0, <1>3 DEF Upto
  <2>2. AmountFor(ledger[m], w) = 0
    BY <1>3 DEF AmountFor, EntriesOf
  <2>3. RunningSum(ledger, w)[m - 1] \in Int
    BY <1>0, RunningSumType DEF Timed, Known, IInv, TypeOK, DbTypeOK
  <2> QED
    BY <1>1, <2>1, <2>2, <2>3 DEF SumsAgree
<1> QED
  BY <1>2, <1>3

LEMMA AllSumsAgree ==
  ASSUME Timed, HistoryInOrder, NEW w
  PROVE  \A m \in 0..Len(ledger) : SumsAgree(w, m)
<1> DEFINE Bad == {m \in 0..Len(ledger) : ~SumsAgree(w, m)}
<1> SUFFICES ASSUME Bad # {} PROVE FALSE
  OBVIOUS
<1>0. Len(ledger) \in Nat
  BY DEF Timed, Known, IInv, TypeOK, DbTypeOK
<1>1. PICK m \in Bad : \A n \in Bad : m <= n
  <2>1. Bad \subseteq Nat
    OBVIOUS
  <2> HIDE DEF Bad
  <2> QED
    BY <2>1, LeastNatural
<1>2. SumsAgree(w, 0)
  <2>1. Upto(w, 0) = {}
    BY <1>0, EntriesAreFinite DEF Upto, Timed
  <2>2. Cardinality(Upto(w, 0)) = 0
    BY <2>1, FS_EmptySet
  <2> QED
    BY <2>2, RunningSumUnfolds DEF SumsAgree
<1>3. m \in 1..Len(ledger) /\ m - 1 \in 0..Len(ledger) /\ m - 1 < m
  BY <1>0, <1>1, <1>2
<1>4. SumsAgree(w, m - 1)
  BY <1>0, <1>1, <1>3
<1> QED
  BY <1>1, <1>3, <1>4, NextSumAgrees

LEMMA ListExplains ==
  ASSUME Known, ReaderInv, HistoryInOrder, HasRead
  PROVE  \E k \in 0..Len(ListByWallet(session.wallet)) :
           (session.balance - LedgerSum(SubSeq(ListByWallet(session.wallet), 1, k), session.wallet)) % Modulus = 0
<1> DEFINE w == session.wallet
           L == ListByWallet(w)
<1>0. Timed /\ ledger \in Seq(EntryRecord)
  BY DEF Timed, ReaderInv, Known, IInv, TypeOK, DbTypeOK
<1>1. PICK m \in 0..Len(ledger) : Explains(m)
  BY DEF ReaderInv
<1>2. PICK k : k = Cardinality(Upto(w, m))
  OBVIOUS
<1>3. L \in Seq(EntryRecord) /\ Len(L) = Cardinality(EntriesOf(w)) /\ k \in 0..Len(L)
  BY <1>0, <1>2, Listing, UptoIsFinite, EntriesAreFinite DEF Timed
<1>4. RunningSum(L, w)[k] = RunningSum(ledger, w)[m]
  BY <1>0, <1>2, AllSumsAgree DEF SumsAgree
<1> HIDE DEF L
<1>5. LedgerSum(SubSeq(L, 1, k), w) = LedgerSum(SubSeq(ledger, 1, m), w)
  BY <1>0, <1>3, <1>4, SumOfPrefix
<1>6. (session.balance - LedgerSum(SubSeq(L, 1, k), w)) % Modulus = 0
  BY <1>1, <1>5 DEF Explains
<1> QED
  BY <1>3, <1>6 DEF L

LEMMA ExplanationStep ==
  ASSUME Known, ReaderInv, HistoryInOrder, HistoryExplainsBalance, [HistoryNext]_historyVars
  PROVE  HistoryExplainsBalance'
<1>0. SessionType
  BY DEF ReaderInv
<1>1. CASE session' = session
  BY <1>1 DEF HistoryExplainsBalance
<1>2. CASE List
  <2>1. session.at = "listByWallet" /\ session' = [session EXCEPT !.at = "done", !.entries = ListByWallet(session.wallet)]
    BY <1>2 DEF List
  <2>2. /\ session'.entries = ListByWallet(session.wallet) /\ session'.balance = session.balance
        /\ session'.wallet = session.wallet
    BY <1>0, <2>1 DEF SessionType
  <2>3. HasRead
    BY <2>1 DEF HasRead
  <2> QED
    BY <2>2, <2>3, ListExplains DEF HistoryExplainsBalance
<1>3. CASE FindWallet \/ GetWallet \/ \E w \in WalletID : Open(w)
  <2>1. session'.at # "done"
    BY <1>0, <1>3 DEF SessionType, FindWallet, GetWallet, Open
  <2> QED
    BY <2>1 DEF HistoryExplainsBalance
<1> QED
  BY <1>1, <1>2, <1>3 DEF HistoryNext, Query, historyVars

\* While one process at a time serves the wallets, a client finds the balance that it was
\* shown as a running total of the history that it reads later, whatever has been
\* committed in between.
THEOREM HistoriesExplainBalances ==
  ASSUME OneProcess, IsFiniteSet(Request)
  PROVE  HistorySpec => []HistoryExplainsBalance
<1>1. HistoryInit => HistoryExplainsBalance
  BY DEF HistoryInit, NoSession, HistoryExplainsBalance
<1>2. Known /\ ReaderInv /\ HistoryInOrder /\ HistoryExplainsBalance /\ [HistoryNext]_historyVars
        => HistoryExplainsBalance'
  BY ExplanationStep
<1> QED
  BY <1>1, <1>2, HistoryInvariant, ReaderInvariant, HistoriesAreInOrder, PTL DEF HistorySpec
=============================================================================
