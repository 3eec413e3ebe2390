------------------------ MODULE ConnectionPoolProofs ------------------------
(***************************************************************************)
(* A bounded pool delays the requests of WalletService and changes nothing *)
(* they do: what is proved of WalletService holds with any PoolSize.  What *)
(* it adds is one way to wait for ever, which takes two wallets for each   *)
(* connection.                                                             *)
(***************************************************************************)
EXTENDS ConnectionPool, AnswerProofs, FiniteSetTheorems

USE DEF Late, Dead

\* Every step with the pool is a step without it, or takes a connection.
LEMMA PoolRefines == PoolSpec => Spec
<1>1. PoolInit => Init
  BY DEF PoolInit
<1>2. ASSUME [PoolNext]_pooledVars PROVE [Next]_vars
  <2>1. CASE PoolNext
    <3>1. CASE \E r \in Request, c \in Call, i \in Instance : Arrive(r, c, i) /\ UNCHANGED executing
      BY <3>1 DEF Next
    <3>2. CASE \E r \in Request : PooledStep(r) \/ (Served(r) /\ Fault(r) /\ StopExecuting)
      <4> PICK r \in Request : PooledStep(r) \/ (Served(r) /\ Fault(r) /\ StopExecuting)
        BY <3>2
      <4>1. UNCHANGED vars \/ Step(r) \/ Fault(r)
        BY DEF PooledStep, TakeConnection
      <4> QED
        BY <4>1 DEF Next
    <3>3. CASE \E i \in Instance : Crash(i) /\ StopExecuting
      BY <3>3 DEF Next
    <3>4. CASE Quiet /\ UNCHANGED executing
      BY <3>4 DEF Next
    <3> QED
      BY <2>1, <3>1, <3>2, <3>3, <3>4 DEF PoolNext
  <2>2. CASE UNCHANGED pooledVars
    BY <2>2 DEF pooledVars
  <2> QED
    BY <1>2, <2>1, <2>2
<1> QED
  BY <1>1, <1>2, PTL DEF PoolSpec, Spec

\* Waiting for connections does not make money move differently: the service
\* implements AtomicWallet with a pool of any size, also one that is exhausted.
THEOREM PoolImplementsAtomicWallet == PoolSpec => AtomicSpec
  BY PoolRefines, ImplementsAtomicWallet, PTL

\* Nor does a request that has waited for one leave a lock behind.
THEOREM PoolLeaksNothing == PoolSpec => []NothingLeaks
  BY PoolRefines, NothingIsLeaked, PTL

-----------------------------------------------------------------------------
(* The deadlock of the pool *)

\* A finite set has an element with the greatest value.
LEMMA Greatest ==
  ASSUME NEW S, IsFiniteSet(S), S # {}, NEW f, \A x \in S : f[x] \in Int
  PROVE  \E x \in S : \A y \in S : f[y] <= f[x]
<1> DEFINE Above(x) == {y \in S : f[x] < f[y]}
           T == {Above(x) : x \in S}
           R == StrictSubsetOrdering(S)
<1>1. T \subseteq FiniteSubsetsOf(S)
  <2> SUFFICES ASSUME NEW x \in S PROVE Above(x) \in FiniteSubsetsOf(S)
    OBVIOUS
  <2>1. Above(x) \in SUBSET S
    OBVIOUS
  <2> HIDE DEF Above
  <2>2. IsFiniteSet(Above(x))
    BY <2>1, FS_Subset
  <2> QED
    BY <2>1, <2>2 DEF FiniteSubsetsOf
<1>2. PICK t \in T : \A u \in T : <<u, t>> \notin R
  <2>1. IsWellFoundedOn(R, FiniteSubsetsOf(S))
    BY FS_StrictSubsetOrderingWellFounded
  <2> HIDE DEF R, Above
  <2>2. T # {}
    OBVIOUS
  <2> HIDE DEF T
  <2> QED
    BY <1>1, <2>1, <2>2, WFMin
<1>3. PICK x \in S : t = Above(x)
  OBVIOUS
<1>4. ASSUME NEW y \in S, f[x] < f[y] PROVE FALSE
  <2>1. Above(y) \in SUBSET S /\ t \in SUBSET S /\ Above(y) \subseteq t
    BY <1>3, <1>4
  <2>2. y \in t /\ y \notin Above(y)
    BY <1>3, <1>4
  <2>3. Above(y) \in T
    OBVIOUS
  <2> HIDE DEF Above, T
  <2>4. <<Above(y), t>> \in StrictSubsetOrdering(S)
    BY <2>1, <2>2, Zenon DEF StrictSubsetOrdering
  <2> QED
    BY <1>2, <2>3, <2>4
<1> QED
  BY <1>3, <1>4

\* Only the UPDATE of a status keeps a connection without a transaction.
ExecutingInv == executing \subseteq {r \in Request : pc[r] = "status"}

LEMMA PoolInvariant == PoolSpec => [](IInv /\ AnswerInv /\ ExecutingInv)
<1>1. PoolInit => ExecutingInv
  BY DEF PoolInit, ExecutingInv
<1>2. IInv /\ IInv' /\ ExecutingInv /\ [PoolNext]_pooledVars => ExecutingInv'
  <2> SUFFICES ASSUME IInv, IInv', ExecutingInv, [PoolNext]_pooledVars
               PROVE  ExecutingInv'
    OBVIOUS
  <2>0. pc \in [Request -> Label] /\ pc' \in [Request -> Label]
    BY DEF IInv, TypeOK
  <2>1. CASE StopExecuting
    BY <2>0, <2>1 DEF StopExecuting, ExecutingInv
  <2>2. CASE \E r \in Request : TakeConnection(r)
    BY <2>0, <2>2 DEF TakeConnection, ExecutingInv, vars, reqVars
  <2>3. CASE \E r \in Request, c \in Call, i \in Instance : Arrive(r, c, i) /\ UNCHANGED executing
    BY <2>0, <2>3 DEF Arrive, Goto, ExecutingInv
  <2>4. CASE UNCHANGED <<vars, executing>>
    BY <2>4 DEF vars, reqVars, ExecutingInv
  <2> QED
    BY <2>1, <2>2, <2>3, <2>4 DEF PoolNext, PooledStep, Quiet, pooledVars
<1> QED
  BY <1>1, <1>2, PoolRefines, Inductive, AnswersInductive, PTL DEF PoolSpec

\* r waits for a connection, all of which members of S hold.
Exhausted(r, S) == AsksForConnection(r) /\ Free(inst[r]) = 0 /\ Held(inst[r]) \subseteq S

LEMMA LeftAsksNothing == \A r \in Left : ~AsksForConnection(r)
  BY DEF Left, AsksForConnection, OwnerIsRead, Reading

\* No statement of a dead process waits among the members of S.
WithoutLate(S) == \A r \in S : pc[r] \notin Late

\* Whom a stuck request waits for, other than for a connection, is one of a living
\* process.
LEMMA StuckWaitsForLiving ==
  ASSUME IInv, NEW S \in SUBSET Request, Stuck(S), WithoutLate(S)
  PROVE  /\ \A r \in S : Exhausted(r, S) \/ \E q \in S \cap Living : q \in WaitsFor(r)
         /\ S \cap Living # {}
<1>1. ASSUME NEW r \in S PROVE Exhausted(r, S) \/ \E q \in S : q \in WaitsFor(r)
  BY DEF Stuck, Exhausted
<1>2. ASSUME NEW r \in S, NEW q \in S, q \in WaitsFor(r) PROVE q \in Living
  <2> SUFFICES ASSUME q \in Left PROVE FALSE
    BY DEF WithoutLate, Living, Left
  <2>1. Blockers(q) = {}
    BY <1>2, LeftWaitsInVain
  <2>2. WaitsFor(q) = {}
    BY <2>1 DEF WaitsFor, Left
  <2> QED
    BY <1>1, <2>2, LeftAsksNothing DEF Exhausted
<1>3. PICK r \in S : TRUE
  BY DEF Stuck
<1>4. S \cap Living # {}
  <2>1. CASE r \in Left
    <3>1. PICK q \in S : q \in WaitsFor(r)
      BY <1>1, <2>1, LeftAsksNothing DEF Exhausted
    <3> QED
      BY <1>2, <3>1
  <2>2. CASE r \notin Left
    BY <2>2 DEF WithoutLate, Living, Left
  <2> QED
    BY <2>1, <2>2
<1> QED
  BY <1>1, <1>2, <1>4

\* Nobody in a stuck set waits to insert: the keys that they wait for would get longer
\* and longer.
LEMMA StuckInsertsNothing ==
  ASSUME IInv, ScopeInv, OneProcess, IsFiniteSet(Request),
         NEW S \in SUBSET Request, Stuck(S), WithoutLate(S)
  PROVE  S \cap Living \cap InsertWaiters = {}
<1> DEFINE A == S \cap Living
           C == A \cap CreditWaiters
<1>1. ASSUME NEW r \in A, r \in InsertWaiters
      PROVE  \E q \in C : r \in CreditWaiters => call[q].key[2] = call[r].key[2] + 1
  <2>1. r \in Request /\ r \in Living /\ r \in S /\ pc[r] \in {"append", "appendCredit"}
    BY <1>1 DEF InsertWaiters, Living
  <2>2. ~AsksForConnection(r)
    BY <2>1 DEF AsksForConnection, OwnerIsRead, Reading
  <2>3. PICK q \in A : q \in WaitsFor(r)
    BY <2>1, <2>2, StuckWaitsForLiving DEF Exhausted
  <2>4. q \in Living /\ q \in Request /\ q \in S
    BY <2>3 DEF Living
  <2>5. q \in KeyBlockers(r, EntryKey(call[r], Target(r)))
    <3>1. q \in Blockers(r)
      BY <2>1, <2>3 DEF WaitsFor
    <3> QED
      BY <2>1, <2>4, <3>1, RowsAreFree
  <2>6. PICK i \in 1..Len(inserted[q]) : TRUE
    BY <2>5 DEF KeyBlockers
  <2>7. inserted[q] # << >>
    BY <2>6
  <2>8. TransactionAt(q)
    BY <2>4 DEF IInv, TransactionInv
  <2>9. pc[q] \in {"foreignKey", "appendCredit", "update", "updateCredit", "commit"}
    BY <2>4, <2>7, <2>8 DEF TransactionAt, InTransaction, Writing, Living
  <2>10. ~AsksForConnection(q)
    BY <2>9 DEF AsksForConnection, OwnerIsRead, Reading
  <2>11. PICK t \in A : t \in WaitsFor(q)
    BY <2>4, <2>10, StuckWaitsForLiving DEF Exhausted
  <2>12. t \in Living
    BY <2>11
  <2> HIDE DEF A
  <2>13. q \in CreditWaiters /\ (r \in CreditWaiters => call[q].key[2] = call[r].key[2] + 1)
    BY <1>1, <2>1, <2>3, <2>4, <2>11, <2>12, NextInLine
  <2> QED
    BY <2>3, <2>13 DEF A
<1>2. CreditWaiters \subseteq InsertWaiters
  BY DEF CreditWaiters, InsertWaiters
<1>3. C = {}
  <2> SUFFICES ASSUME C # {} PROVE FALSE
    OBVIOUS
  <2> DEFINE f == [r \in C |-> call[r].key[2]]
  <2>1. IsFiniteSet(C)
    <3>1. C \in SUBSET Request
      BY DEF CreditWaiters
    <3> HIDE DEF C
    <3> QED
      BY <3>1, FS_Subset
  <2>2. ASSUME NEW r \in C PROVE f[r] \in Int
    <3>1. r \in Request /\ pc[r] = "appendCredit"
      BY DEF CreditWaiters, Living
    <3>2. ControlAt(r)
      BY <3>1 DEF IInv, ControlInv
    <3>3. call[r].key \in Key
      BY <3>1, <3>2 DEF ControlAt, Writing
    <3> QED
      BY <3>3 DEF Key
  <2>3. ASSUME NEW r \in C PROVE \E q \in C : f[q] = f[r] + 1
    BY <1>1, <1>2, <2>3
  <2> HIDE DEF f, C
  <2>4. PICK r \in C : \A q \in C : f[q] <= f[r]
    BY <2>1, <2>2, Greatest
  <2>5. PICK q \in C : f[q] = f[r] + 1
    BY <2>3
  <2>6. f[q] <= f[r] /\ f[r] \in Int
    BY <2>2, <2>4
  <2> QED
    BY <2>5, <2>6
<1> QED
  BY <1>1, <1>3

\* Requests that are stuck wait for the connections of an instance of which each is
\* held by a transfer that reads the owner.
LEMMA StuckOnOwners ==
  ASSUME IInv, ScopeInv, ExecutingInv, OneProcess, IsFiniteSet(Request),
         NEW S \in SUBSET Request, Stuck(S), WithoutLate(S)
  PROVE  \E i \in Instance : Free(i) = 0 /\ Held(i) \subseteq S /\ \A h \in Held(i) : OwnerIsRead(h)
<1> DEFINE A == S \cap Living
<1>1. PICK r \in A : Exhausted(r, S)
  <2> SUFFICES ASSUME \A r \in A : ~Exhausted(r, S) PROVE FALSE
    OBVIOUS
  <2> DEFINE f == [r \in A |-> Target(r)]
  <2>1. IsFiniteSet(A) /\ A # {}
    <3>1. A \in SUBSET Request /\ A # {}
      BY StuckWaitsForLiving
    <3> HIDE DEF A
    <3> QED
      BY <3>1, FS_Subset
  <2>2. ASSUME NEW r \in A PROVE f[r] \in Int
    <3>1. call[r] \in Call
      BY DEF IInv, TypeOK
    <3>2. Target(r) \in WalletID
      BY <3>1, CallParts DEF Target
    <3>3. Target(r) \in Int
      <4>1. \A w \in WalletID : w \in Int
        BY WalletAssumption
      <4> QED
        BY <3>2, <4>1
    <3> QED
      BY <3>3
  <2>3. ASSUME NEW r \in A PROVE \E q \in A : f[r] < f[q]
    <3>1. r \in S /\ r \in Living /\ r \notin InsertWaiters
      BY StuckInsertsNothing
    <3>2. PICK q \in A : q \in WaitsFor(r)
      BY <3>1, StuckWaitsForLiving
    <3>3. q \in S /\ q \in Living /\ q \notin InsertWaiters
      BY StuckInsertsNothing
    <3>4. PICK t \in A : t \in WaitsFor(q)
      BY <3>3, StuckWaitsForLiving
    <3>5. t \in Living
      OBVIOUS
    <3> HIDE DEF A
    <3>6. Target(r) < Target(q)
      BY <3>1, <3>2, <3>3, <3>4, <3>5, NextInLine
    <3> QED
      BY <3>2, <3>6
  <2> HIDE DEF f, A
  <2>4. PICK r \in A : \A q \in A : f[q] <= f[r]
    BY <2>1, <2>2, Greatest
  <2>5. PICK q \in A : f[r] < f[q]
    BY <2>3
  <2>6. f[q] <= f[r] /\ f[r] \in Int /\ f[q] \in Int
    BY <2>2, <2>4
  <2> QED
    BY <2>5, <2>6
<1>2. inst[r] \in Instance /\ Free(inst[r]) = 0 /\ Held(inst[r]) \subseteq S
  <2>1. r \in Request
    BY <1>1
  <2> QED
    BY <1>1, <2>1 DEF Exhausted, IInv, TypeOK
<1>3. ASSUME NEW h \in Held(inst[r]) PROVE OwnerIsRead(h)
  <2>1. h \in S /\ h \in Request /\ h \in Living
    BY <1>2, <1>3 DEF Held, Living
  <2>2. TransactionAt(h) /\ h \notin InsertWaiters
    BY <2>1, StuckInsertsNothing DEF IInv, TransactionInv
  <2>3. (h \in executing /\ pc[h] = "status") \/ (h \in txOpen /\ pc[h] \in Writing)
    BY <2>1, <2>2 DEF Held, ExecutingInv, TransactionAt, InTransaction, Living
  <2>4. ASSUME NEW q \in S \cap Living, q \in WaitsFor(h) PROVE FALSE
    <3>1. q \in Blockers(h)
      BY <2>3, <2>4 DEF WaitsFor, Writing
    <3>2. pc[h] \in {"append", "appendCredit"}
      BY <2>1, <2>4, <3>1, RowsAreFree
    <3> QED
      BY <2>1, <2>2, <3>2 DEF InsertWaiters
  <2>5. AsksForConnection(h)
    BY <2>1, <2>4, StuckWaitsForLiving DEF Exhausted
  <2> QED
    BY <2>3, <2>5 DEF AsksForConnection, Writing, Reading
<1> QED
  BY <1>2, <1>3

\* Transfers that read owners at the same time have all their wallets to themselves.
LEMMA OwnersNeedWallets ==
  ASSUME IInv, OneProcess, IsFiniteSet(Request), IsFiniteSet(Wallet),
         NEW H \in SUBSET Request, \A h \in H : OwnerIsRead(h)
  PROVE  2 * Cardinality(H) <= Cardinality(Wallet)
<1> DEFINE f == [h \in H |-> call[h].from]
           t == [h \in H |-> call[h].to]
           F == {call[h].from : h \in H}
           T == {call[h].to : h \in H}
<1>1. ASSUME NEW h \in H
      PROVE  /\ {call[h].from, call[h].to} \subseteq Wallet \cap mutexes[h]
             /\ call[h].from # call[h].to
  <2>1. ControlAt(h) /\ MutexAt(h) /\ seenActive[h] \subseteq Wallet
    BY DEF IInv, ControlInv, MutexInv, TypeOK
  <2>2. pc[h] = "validate" /\ Legs(call[h]) \subseteq seenActive[h]
    BY DEF OwnerIsRead, TransferError
  <2>3. IsTransfer(h) /\ call[h].from # call[h].to
    BY <2>1, <2>2 DEF ControlAt, IsTransfer
  <2>4. Legs(call[h]) = {call[h].from, call[h].to}
    BY <2>3 DEF Legs, IsTransfer
  <2>5. Legs(call[h]) \subseteq mutexes[h]
    BY <2>1, <2>2 DEF MutexAt, Writing
  <2> QED
    BY <2>1, <2>2, <2>3, <2>4, <2>5
<1>2. ASSUME NEW g \in H, NEW h \in H, g # h
      PROVE  {call[g].from, call[g].to} \cap {call[h].from, call[h].to} = {}
  BY <1>1, <1>2, OwnMutexes
<1>3. f \in Bijection(H, F) /\ t \in Bijection(H, T)
  BY <1>2 DEF Bijection, Injection, Surjection, IsInjective
<1>4. F \in SUBSET Wallet /\ T \in SUBSET Wallet /\ F \cap T = {}
  BY <1>1, <1>2
<1> HIDE DEF f, t, F, T
<1>5. IsFiniteSet(H)
  BY FS_Subset
<1>6. ExistsBijection(H, F) /\ ExistsBijection(H, T)
  BY <1>3 DEF ExistsBijection
<1>7. /\ IsFiniteSet(F) /\ Cardinality(F) = Cardinality(H)
      /\ IsFiniteSet(T) /\ Cardinality(T) = Cardinality(H)
  BY <1>5, <1>6, FS_Bijection
<1>8. Cardinality(F \cup T) = Cardinality(F) + Cardinality(T) - Cardinality({})
  BY <1>4, <1>7, FS_Union
<1>9. F \cup T \in SUBSET Wallet
  BY <1>4
<1>10. Cardinality(F \cup T) <= Cardinality(Wallet)
  BY <1>9, FS_Subset
<1>11. Cardinality({}) = 0 /\ Cardinality(H) \in Nat /\ Cardinality(Wallet) \in Nat
  BY <1>5, FS_EmptySet, FS_CardinalityType
<1> QED
  BY <1>7, <1>8, <1>10, <1>11

\* The only way in which a process's requests wait for each other's connections for
\* ever, without a statement that a dead process has left waiting among them: each of
\* its connections is held by a transfer that reads the owner.
OnlyOwnersExhaust ==
  \A S \in SUBSET Request : Stuck(S) /\ WithoutLate(S) =>
    \E i \in Instance : /\ Cardinality(Held(i)) = PoolSize
                        /\ \A h \in Held(i) : h \in S /\ OwnerIsRead(h)

\* Payments, suspensions, rows and mutexes have no part in a deadlock of the pool that
\* the running process makes, however few connections there are: 25 transfers between
\* Begin and Commit, all at owners.Get, are the one case.
THEOREM OnlyOwnerReadsDeadlock ==
  ASSUME OneProcess, IsFiniteSet(Request)
  PROVE  PoolSpec => []OnlyOwnersExhaust
<1>1. IInv /\ AnswerInv /\ ExecutingInv => OnlyOwnersExhaust
  <2> SUFFICES ASSUME IInv, AnswerInv, ExecutingInv, NEW S \in SUBSET Request, Stuck(S), WithoutLate(S)
               PROVE  \E i \in Instance : /\ Cardinality(Held(i)) = PoolSize
                                          /\ \A h \in Held(i) : h \in S /\ OwnerIsRead(h)
    BY DEF OnlyOwnersExhaust
  <2>1. PICK i \in Instance : Free(i) = 0 /\ Held(i) \subseteq S /\ \A h \in Held(i) : OwnerIsRead(h)
    BY StuckOnOwners DEF AnswerInv
  <2>2. Held(i) \in SUBSET Request
    BY <2>1
  <2>3. Cardinality(Held(i)) \in Nat
    BY <2>2, FS_Subset, FS_CardinalityType
  <2>4. Cardinality(Held(i)) = PoolSize
    BY <2>1, <2>3, PoolAssumption DEF Free
  <2> QED
    BY <2>1, <2>4
<1> QED
  BY <1>1, PoolInvariant, PTL

\* Every set of requests that wait for each other for ever has one in it whose
\* process died while its statement waited.
StuckOnTheDead == \A S \in SUBSET Request : Stuck(S) => ~WithoutLate(S)

\* Transfers that read owners exclude each other where they share a wallet: where there
\* are fewer than two wallets for each connection, requests wait for ever only if a dead
\* process has left a statement that waits for one of them.
THEOREM PoolsOfHalfTheWalletsSuffice ==
  ASSUME OneProcess, IsFiniteSet(Request), IsFiniteSet(Wallet), Cardinality(Wallet) < 2 * PoolSize
  PROVE  PoolSpec => []StuckOnTheDead
<1>1. IInv /\ OnlyOwnersExhaust => StuckOnTheDead
  <2> SUFFICES ASSUME IInv, OnlyOwnersExhaust, NEW S \in SUBSET Request, Stuck(S), WithoutLate(S)
               PROVE  FALSE
    BY DEF StuckOnTheDead
  <2>1. PICK i \in Instance : /\ Cardinality(Held(i)) = PoolSize
                              /\ \A h \in Held(i) : h \in S /\ OwnerIsRead(h)
    BY DEF OnlyOwnersExhaust
  <2>2. Held(i) \in SUBSET Request /\ \A h \in Held(i) : OwnerIsRead(h)
    BY <2>1
  <2>3. 2 * Cardinality(Held(i)) <= Cardinality(Wallet)
    BY <2>2, OwnersNeedWallets
  <2>4. Cardinality(Wallet) \in Nat
    BY FS_CardinalityType
  <2> QED
    BY <2>1, <2>3, <2>4, PoolAssumption
<1> QED
  BY <1>1, OnlyOwnerReadsDeadlock, PoolInvariant, PTL

\* Where nothing fails either, nobody waits for ever.
THEOREM NothingSticksWithoutFaults ==
  ASSUME OneMutexEach, IsFiniteSet(Request), IsFiniteSet(Wallet), Cardinality(Wallet) < 2 * PoolSize
  PROVE  PoolSpec => []NoPoolDeadlock
<1>1. OneProcess
  BY SameProcess
<1>2. IInv /\ StuckOnTheDead => NoPoolDeadlock
  <2> SUFFICES ASSUME IInv, StuckOnTheDead, NEW S \in SUBSET Request, Stuck(S)
               PROVE  FALSE
    BY DEF NoPoolDeadlock
  <2>1. PICK r \in S : pc[r] \in Late
    BY DEF StuckOnTheDead, WithoutLate
  <2> QED
    BY <2>1 DEF IInv, TypeOK, OneMutexEach, ActiveInv, ActiveAt
<1> QED
  BY <1>1, <1>2, PoolsOfHalfTheWalletsSuffice, PoolInvariant, PTL
=============================================================================
