--------------------------- MODULE DeploymentProofs ---------------------------
(***************************************************************************)
(* Starts, shutdowns and the registration of owners and wallets, for every *)
(* number of instances, requests, owners and faults.                       *)
(***************************************************************************)
EXTENDS DeploymentInvariant, FiniteSetTheorems, TLAPS

-----------------------------------------------------------------------------
(* Startup *)

LifeTypeOK ==
  /\ phase \in [Instance -> Starting \cup Up \cup Ended]
  /\ schema \in BOOLEAN
  /\ version \in {"none", "dirty", "clean"}
  /\ lock \in Instance \cup {NoInstance}
  /\ starts \in 0..MaxStarts
  /\ cut \subseteq Instance

Fates(i) == Stop(i) \/ EarlySignal(i) \/ Crash(i) \/ Deadline(i)

\* What the steps of an instance do to its phase and the database.
LEMMA LifeSteps ==
  ASSUME LifeTypeOK, StartupInv, NEW i \in Instance, Start(i) \/ Startup(i) \/ Signal(i) \/ Fates(i)
  PROVE  LifeTypeOK' /\ StartupInv' /\ cut \subseteq cut'
<1> USE DEF LifeTypeOK, StartupInv, StartupAt, Enter, Starting, Up, Ended, Migrating, HoldsLock
<1>0. NoInstance \notin Instance /\ MaxStarts \in Nat
  BY DeploymentAssumption
<1>1. CASE Start(i)
  BY <1>0, <1>1 DEF Start
<1>2. CASE Connect(i)
  BY <1>0, <1>2 DEF Connect
<1>3. CASE Lock(i)
  BY <1>0, <1>3 DEF Lock, LockIsFree
<1>4. CASE ReadVersion(i)
  <2>1. CASE version = "clean"
    BY <1>0, <1>4, <2>1 DEF ReadVersion, UpToDate, Release
  <2>2. CASE version = "none"
    BY <1>0, <1>4, <2>2 DEF ReadVersion, UpToDate
  <2>3. CASE version = "dirty"
    BY <1>0, <1>4, <2>3 DEF ReadVersion, UpToDate, Release
  <2> QED
    BY <2>1, <2>2, <2>3
<1>5. CASE MarkDirty(i)
  BY <1>0, <1>5 DEF MarkDirty
<1>6. CASE RunMigration(i)
  BY <1>0, <1>6 DEF RunMigration
<1>7. CASE MarkClean(i)
  BY <1>0, <1>7 DEF MarkClean, Release
<1>8. CASE Listen(i) \/ Notify(i)
  BY <1>0, <1>8 DEF Listen, Notify
<1>9. CASE Signal(i)
  BY <1>0, <1>9 DEF Signal
<1>10. CASE Stop(i)
  BY <1>0, <1>10 DEF Stop
<1>11. ASSUME Die(i), phase[i] \in Starting \cup Up PROVE LifeTypeOK' /\ StartupInv' /\ cut \subseteq cut'
  BY <1>0, <1>11 DEF Die, Release
<1> QED
  BY <1>1, <1>2, <1>3, <1>4, <1>5, <1>6, <1>7, <1>8, <1>9, <1>10, <1>11
     DEF Startup, Fates, EarlySignal, Crash, Deadline

LEMMA LifeStands ==
  ASSUME LifeTypeOK, StartupInv, UNCHANGED lifeVars
  PROVE  LifeTypeOK' /\ StartupInv' /\ cut \subseteq cut'
BY DEF LifeTypeOK, StartupInv, StartupAt, lifeVars

-----------------------------------------------------------------------------
(* Requests *)

RequestTypeOK ==
  /\ owners \subseteq OwnerID
  /\ wallets \subseteq owners \X Supported
  /\ pc \in [Request -> Labels]
  /\ received \in [Request -> Call \cup {NoCall}]
  /\ inst \in [Request -> Instance]
  /\ reply \in [Request -> Outcome \cup {"none"}]
  /\ DOMAIN listed = Request
  /\ applied \subseteq Request
  /\ faults \in 0..MaxFaults
RowsAt(r) == \/ received[r] = NoCall /\ listed[r] = {}
             \/ received[r].op = "listOwners" /\ listed[r] \subseteq owners
             \/ received[r].op # "listOwners" /\ listed[r] \subseteq wallets

\* A request that a step leaves alone keeps what it has.
LEMMA SameRequest ==
  ASSUME NEW q \in Request, RequestAt(q), RowsAt(q),
         owners \subseteq owners', wallets \subseteq wallets', cut \subseteq cut',
         pc'[q] = pc[q], received'[q] = received[q], inst'[q] = inst[q], reply'[q] = reply[q],
         listed'[q] = listed[q], q \in applied' <=> q \in applied
  PROVE  RequestAt(q)' /\ RowsAt(q)'
<1>1. RequestAt(q)'
  BY DEF RequestAt
<1>2. RowsAt(q)'
  BY DEF RowsAt
<1> QED
  BY <1>1, <1>2

\* An arrival, a statement or a fault is about one request.
LEMMA OthersStand ==
  ASSUME RequestTypeOK, NEW r \in Request,
         (\E c \in Call, i \in Instance : Arrive(r, c, i)) \/ RequestStep(r) \/ RequestFault(r)
  PROVE  /\ owners \subseteq owners' /\ wallets \subseteq wallets'
         /\ \A q \in Request \ {r} :
              /\ pc'[q] = pc[q] /\ received'[q] = received[q] /\ inst'[q] = inst[q] /\ reply'[q] = reply[q]
              /\ listed'[q] = listed[q] /\ (q \in applied' <=> q \in applied)
<1> USE DEF RequestTypeOK
<1>1. CASE \E c \in Call, i \in Instance : Arrive(r, c, i)
  BY <1>1 DEF Arrive
<1>2. CASE GetOwner(r) \/ GetByOwnerAndCurrency(r) \/ DropConnection(r)
  BY <1>2 DEF GetOwner, GetByOwnerAndCurrency, DropConnection, Continue, Refuse, Answer
<1>3. CASE Insert(r) \/ LateInsert(r) \/ AnswerLost(r)
  BY <1>3 DEF Insert, LateInsert, AnswerLost, InsertRow, Refuse, Answer
<1>4. CASE ListOwners(r) \/ ListWallets(r) \/ StorageFault(r)
  BY <1>4 DEF ListOwners, ListWallets, StorageFault, Answer
<1> QED
  BY <1>1, <1>2, <1>3, <1>4 DEF RequestStep, RequestFault

LEMMA ArrivalTypes ==
  ASSUME NEW c \in Call
  PROVE  /\ ArrivalError(c) \in {"none", BindingError, "ErrUnsupportedCurrency"}
         /\ c.op \in OpsAt(FirstLabel(c)) /\ c.op \in OpsAt("done") /\ FirstLabel(c) \in Running
         /\ FirstLabel(c) \notin {"getExisting", "insertWallet", "selectWallets", "inFlight", "idle", "done"}
         /\ ArrivalError(c) = "none" /\ c.op = "createWallet" => c.currency \in Supported
<1>1. c.op \in {"createOwner", "createWallet", "listOwners", "listWallets"}
  BY RegistrationAssumption
<1>2. ArrivalError(c) \in {"none", BindingError, "ErrUnsupportedCurrency"}
  BY DEF ArrivalError
<1>3. ArrivalError(c) = "none" /\ c.op = "createWallet" => c.currency \in Supported
  BY DEF ArrivalError, BindingError
<1>4. /\ c.op \in OpsAt(FirstLabel(c)) /\ c.op \in OpsAt("done") /\ FirstLabel(c) \in Running
      /\ FirstLabel(c) \notin {"getExisting", "insertWallet", "selectWallets", "inFlight", "idle", "done"}
  BY <1>1 DEF FirstLabel, OpsAt, Running, Inserting, Querying
<1> QED
  BY <1>2, <1>3, <1>4

\* The request that moves.
LEMMA RequestMoves ==
  ASSUME RequestTypeOK, NEW r \in Request, RequestAt(r), RowsAt(r), UNCHANGED cut,
         (\E c \in Call, i \in Instance : Arrive(r, c, i)) \/ RequestStep(r) \/ RequestFault(r)
  PROVE  RequestAt(r)' /\ RowsAt(r)' /\ RequestTypeOK'
<1> USE DEF RequestTypeOK, Labels, Running, Inserting, Querying
<1>0. NoCall \notin Call /\ MaxFaults \in Nat
  BY RegistrationAssumption
<1>1. ASSUME NEW c \in Call, NEW i \in Instance, Arrive(r, c, i)
      PROVE  RequestAt(r)' /\ RowsAt(r)' /\ RequestTypeOK'
  <2>1. /\ pc' = [pc EXCEPT ![r] = IF ArrivalError(c) = "none" THEN FirstLabel(c) ELSE "done"]
        /\ reply' = [reply EXCEPT ![r] = ArrivalError(c)]
        /\ received'[r] = c /\ received' \in [Request -> Call \cup {NoCall}] /\ inst' \in [Request -> Instance]
        /\ r \notin applied' /\ listed'[r] = {}
        /\ UNCHANGED <<owners, wallets, listed, applied, faults>>
    BY <1>1 DEF Arrive, RequestAt
  <2>2. pc' \in [Request -> Labels] /\ reply' \in [Request -> Outcome \cup {"none"}]
    BY <2>1, ArrivalTypes DEF Outcome
  <2>3. RequestAt(r)'
    <3>1. CASE ArrivalError(c) = "none"
      BY <1>0, <2>1, <3>1, ArrivalTypes DEF RequestAt
    <3>2. CASE ArrivalError(c) # "none"
      BY <1>0, <2>1, <3>2, ArrivalTypes DEF RequestAt, BindingError
    <3> QED
      BY <3>1, <3>2
  <2>4. RowsAt(r)'
    BY <2>1 DEF RowsAt
  <2> QED
    BY <2>1, <2>2, <2>3, <2>4
<1>2. CASE GetOwner(r)
  BY <1>0, <1>2 DEF GetOwner, Continue, Refuse, Answer, RequestAt, RowsAt, OpsAt, Outcome
<1>3. CASE GetByOwnerAndCurrency(r)
  BY <1>0, <1>3 DEF GetByOwnerAndCurrency, Continue, Refuse, Answer, RequestAt, RowsAt, OpsAt, Outcome
<1>4. CASE DropConnection(r)
  BY <1>0, <1>4 DEF DropConnection, Continue, RequestAt, RowsAt, OpsAt
<1>5. ASSUME InsertRow(r), pc[r] \in Inserting \cup {"inFlight"}
      PROVE  /\ owners \subseteq owners' /\ owners' \subseteq OwnerID /\ wallets \subseteq wallets'
             /\ wallets' \subseteq owners' \X Supported /\ applied' \subseteq Request
  <2>1. CASE received[r].op = "createOwner"
    BY <1>5, <2>1 DEF InsertRow
  <2>2. CASE received[r].op = "createWallet"
    <3>1. received[r].owner \in owners /\ received[r].currency \in Supported
      BY <1>5, <2>2, ArrivalTypes DEF RequestAt, OpsAt
    <3> QED
      BY <1>5, <2>2, <3>1 DEF InsertRow, Pair
  <2> QED
    BY <1>5, <2>1, <2>2 DEF InsertRow
<1>6. CASE Insert(r) \/ AnswerLost(r)
  <2>1. CASE InsertRow(r)
    BY <1>0, <1>5, <1>6, <2>1
       DEF Insert, AnswerLost, CountFault, Refuse, Answer, RequestAt, RowsAt, OpsAt, Outcome, ViolationError
  <2>2. CASE ~InsertRow(r)
    BY <1>0, <1>6, <2>2 DEF Insert, AnswerLost, Refuse, Answer, RequestAt, RowsAt, OpsAt, Outcome, ViolationError
  <2> QED
    BY <2>1, <2>2
<1>7. CASE LateInsert(r)
  BY <1>0, <1>5, <1>7 DEF LateInsert, RequestAt, RowsAt, OpsAt
<1>8. CASE ListOwners(r) \/ ListWallets(r)
  BY <1>0, <1>8 DEF ListOwners, ListWallets, Answer, RequestAt, RowsAt, OpsAt, Outcome
<1>9. CASE StorageFault(r)
  BY <1>0, <1>9 DEF StorageFault, CountFault, Answer, RequestAt, RowsAt, OpsAt, Outcome
<1> QED
  BY <1>1, <1>2, <1>3, <1>4, <1>6, <1>7, <1>8, <1>9 DEF RequestStep, RequestFault

\* The end of an instance: its running requests go unanswered. Only an instance that
\* is cut short has any.
LEMMA EndOfInstance ==
  ASSUME RequestTypeOK, NEW i \in Instance, LoseRequests(i), cut \subseteq cut', faults' \in 0..MaxFaults,
         i \in cut' \/ Drained(i), NEW q \in Request, RequestAt(q), RowsAt(q)
  PROVE  RequestAt(q)' /\ RowsAt(q)'
<1> DEFINE lost == {r \in Request : inst[r] = i /\ pc[r] \in Running}
<1>1. CASE q \notin lost
  <2>1. pc'[q] = pc[q] /\ reply'[q] = reply[q]
    BY <1>1 DEF LoseRequests
  <2> QED
    BY <2>1, SameRequest DEF LoseRequests
<1>2. CASE q \in lost
  <2>1. i \in cut'
    BY <1>2 DEF Drained
  <2>2. /\ pc'[q] = IF pc[q] \in Inserting THEN "inFlight" ELSE "done"
        /\ reply'[q] = "ErrConnectionLost" /\ inst'[q] = i
        /\ UNCHANGED <<owners, wallets, received, listed, applied>>
    BY <1>2 DEF LoseRequests
  <2> QED
    BY <1>2, <2>1, <2>2 DEF RequestAt, RowsAt, Running, Inserting, Querying, OpsAt
<1> QED
  BY <1>1, <1>2

LEMMA EndTypes ==
  ASSUME RequestTypeOK, NEW i \in Instance, LoseRequests(i), faults' \in 0..MaxFaults
  PROVE  RequestTypeOK'
BY DEF RequestTypeOK, LoseRequests, Labels, Running, Outcome

-----------------------------------------------------------------------------
(* The invariant *)

LEMMA Statuses ==
  /\ Status("ok") = 200 /\ Status("created") = 201
  /\ Status(BindingError) = 400 /\ Status("ErrUnsupportedCurrency") = 400
  /\ Status("ErrOwnerNotFound") = 404 /\ Status("ErrWalletAlreadyExists") = 409
  /\ Status("ErrStorage") = 500
<1>1. Status("ok") = 200 /\ Status("created") = 201
  BY DEF Status
<1>2. \A e : e \notin {"ok", "created"} => Status(e) = ErrorStatus(e)
  BY DEF Status
<1>3. ErrorStatus(BindingError) = 400 /\ ErrorStatus("ErrUnsupportedCurrency") = 400
  <2>1. \A e : e \notin NotFound /\ e \notin Conflict /\ e \in BadRequest \cup {BindingError} => ErrorStatus(e) = 400
    BY Zenon DEF ErrorStatus
  <2>2. /\ BindingError \notin NotFound /\ BindingError \notin Conflict
        /\ "ErrUnsupportedCurrency" \notin NotFound /\ "ErrUnsupportedCurrency" \notin Conflict
        /\ "ErrUnsupportedCurrency" \in BadRequest
    BY DEF NotFound, Conflict, BadRequest, BindingError
  <2> QED
    BY <2>1, <2>2
<1>4. ErrorStatus("ErrOwnerNotFound") = 404 /\ ErrorStatus("ErrWalletAlreadyExists") = 409
  <2>1. "ErrOwnerNotFound" \in NotFound /\ "ErrWalletAlreadyExists" \in Conflict \ NotFound
    BY DEF NotFound, Conflict
  <2> QED
    BY <2>1, Zenon DEF ErrorStatus
<1>5. ErrorStatus("ErrStorage") = 500
  <2>1. "ErrStorage" \notin NotFound \cup Conflict \cup BadRequest \cup {BindingError} \cup Unprocessable
    BY DEF NotFound, Conflict, BadRequest, BindingError, Unprocessable
  <2> QED
    BY <2>1, SMT DEF ErrorStatus
<1> QED
  BY <1>1, <1>2, <1>3, <1>4, <1>5 DEF BindingError

LEMMA StatusOfReply ==
  ASSUME NEW r, reply[r] \in Outcome \cup {"none"}
  PROVE  /\ HttpStatus(r) \in {0, 200, 201, 400, 404, 409, 500}
         /\ HttpStatus(r) = 500 <=> reply[r] = "ErrStorage"
BY Statuses DEF HttpStatus, Outcome, BindingError

LEMMA Parts ==
  DeployInv <=> /\ LifeTypeOK /\ RequestTypeOK /\ StartupInv
                /\ \A r \in Request : RequestAt(r) /\ RowsAt(r)
                /\ IsFiniteSet(StorageErrors) /\ Cardinality(StorageErrors) <= faults
<1>1. reply \in [Request -> Outcome \cup {"none"}] =>
        \A r \in Request : HttpStatus(r) \in {0, 200, 201, 400, 404, 409, 500}
  BY StatusOfReply
<1> QED
  BY <1>1 DEF DeployInv, TypeOK, LifeTypeOK, RequestTypeOK, RowsAt

\* An answer 500 costs a fault, and is never taken back.
LEMMA FaultsCover ==
  ASSUME RequestTypeOK, IsFiniteSet(StorageErrors), Cardinality(StorageErrors) <= faults, faults' \in Nat,
         \/ StorageErrors' \subseteq StorageErrors /\ faults <= faults'
         \/ faults' = faults + 1 /\ \E r \in Request : StorageErrors' = StorageErrors \cup {r}
  PROVE  IsFiniteSet(StorageErrors)' /\ (Cardinality(StorageErrors) <= faults)'
<1> DEFINE S == StorageErrors
           T == StorageErrors'
<1>0. faults \in Nat /\ IsFiniteSet(S) /\ Cardinality(S) \in Nat /\ Cardinality(S) <= faults
  BY RegistrationAssumption, FS_CardinalityType DEF RequestTypeOK
<1> HIDE DEF S, T
<1>1. CASE T \subseteq S /\ faults <= faults'
  <2>1. IsFiniteSet(T) /\ Cardinality(T) <= Cardinality(S)
    BY <1>0, <1>1, FS_Subset
  <2>2. Cardinality(T) \in Nat
    BY <2>1, FS_CardinalityType
  <2> QED
    BY <1>0, <1>1, <2>1, <2>2 DEF T
<1>2. CASE faults' = faults + 1 /\ \E r \in Request : T = S \cup {r}
  <2>1. IsFiniteSet(T) /\ Cardinality(T) <= Cardinality(S) + 1
    <3>1. PICK r \in Request : T = S \cup {r}
      BY <1>2
    <3>2. /\ IsFiniteSet(S \cup {r})
          /\ Cardinality(S \cup {r}) = IF r \in S THEN Cardinality(S) ELSE Cardinality(S) + 1
      BY <1>0, FS_AddElement
    <3> QED
      BY <1>0, <3>1, <3>2
  <2>2. Cardinality(T) \in Nat
    BY <2>1, FS_CardinalityType
  <2> QED
    BY <1>0, <1>2, <2>1, <2>2 DEF T
<1> QED
  BY <1>1, <1>2 DEF S, T

LEMMA NewErrors ==
  ASSUME RequestTypeOK, NEW r \in Request,
         (\E c \in Call, i \in Instance : Arrive(r, c, i)) \/ RequestStep(r) \/ RequestFault(r),
         RequestAt(r)
  PROVE  \/ StorageErrors' \subseteq StorageErrors /\ faults <= faults'
         \/ faults' = faults + 1 /\ \E q \in Request : StorageErrors' = StorageErrors \cup {q}
<1>0. faults \in Nat /\ \A q \in Request \ {r} : reply'[q] = reply[q]
  BY RegistrationAssumption, OthersStand DEF RequestTypeOK
<1>1. CASE RequestFault(r)
  <2>1. faults' = faults + 1 /\ reply'[r] = "ErrStorage"
    BY <1>1 DEF RequestFault, StorageFault, AnswerLost, CountFault, Answer, RequestTypeOK
  <2>2. StorageErrors' = StorageErrors \cup {r}
    BY <1>0, <2>1 DEF StorageErrors
  <2> QED
    BY <2>1, <2>2
<1>2. CASE (\E c \in Call, i \in Instance : Arrive(r, c, i)) \/ RequestStep(r)
  <2>1. faults' = faults /\ (reply'[r] = "ErrStorage" => reply[r] = "ErrStorage")
    <3>1. CASE \E c \in Call, i \in Instance : Arrive(r, c, i)
      BY <3>1, ArrivalTypes DEF Arrive, RequestTypeOK, BindingError
    <3>2. CASE RequestStep(r)
      BY <3>2 DEF RequestStep, GetOwner, GetByOwnerAndCurrency, Insert, ListOwners, ListWallets, LateInsert,
         DropConnection, Continue, Refuse, Answer, ViolationError, RequestTypeOK
    <3> QED
      BY <1>2, <3>1, <3>2
  <2>2. StorageErrors' \subseteq StorageErrors
    BY <1>0, <2>1 DEF StorageErrors
  <2> QED
    BY <1>0, <2>1, <2>2
<1> QED
  BY <1>1, <1>2

LEMMA DeployInvStep == DeployInv /\ [Next]_deployVars => DeployInv'
<1> SUFFICES ASSUME DeployInv, [Next]_deployVars PROVE DeployInv'
  OBVIOUS
<1>0. /\ LifeTypeOK /\ RequestTypeOK /\ StartupInv
      /\ \A r \in Request : RequestAt(r) /\ RowsAt(r)
      /\ IsFiniteSet(StorageErrors) /\ Cardinality(StorageErrors) <= faults
      /\ MaxFaults \in Nat
  BY Parts, RegistrationAssumption
<1> DEFINE Errors == \/ StorageErrors' \subseteq StorageErrors /\ faults <= faults'
                     \/ faults' = faults + 1 /\ \E r \in Request : StorageErrors' = StorageErrors \cup {r}
           Good == /\ LifeTypeOK' /\ RequestTypeOK' /\ StartupInv'
                   /\ \A r \in Request : RequestAt(r)' /\ RowsAt(r)'
                   /\ Errors
<1>1. ASSUME NEW r \in Request,
             (\E c \in Call, i \in Instance : Arrive(r, c, i)) \/ RequestStep(r) \/ RequestFault(r),
             UNCHANGED lifeVars
      PROVE  Good
  <2>1. LifeTypeOK' /\ StartupInv' /\ cut' = cut
    BY <1>0, <1>1, LifeStands DEF lifeVars
  <2>2. RequestAt(r)' /\ RowsAt(r)' /\ RequestTypeOK'
    BY <1>0, <1>1, <2>1, RequestMoves
  <2>3. \A q \in Request \ {r} : RequestAt(q)' /\ RowsAt(q)'
    BY <1>0, <1>1, <2>1, OthersStand, SameRequest
  <2>4. Errors
    BY <1>0, <1>1, NewErrors
  <2> QED
    BY <2>1, <2>2, <2>3, <2>4
<1>2. ASSUME NEW i \in Instance, Start(i) \/ Startup(i) \/ Signal(i) \/ Fates(i)
      PROVE  Good
  <2>1. LifeTypeOK' /\ StartupInv' /\ cut \subseteq cut'
    BY <1>0, <1>2, LifeSteps
  <2>2. CASE UNCHANGED requestVars
    <3>1. RequestTypeOK' /\ \A q \in Request : RequestAt(q)' /\ RowsAt(q)'
      BY <1>0, <2>1, <2>2, SameRequest DEF requestVars, RequestTypeOK
    <3>2. Errors
      BY <1>0, <2>2 DEF requestVars, StorageErrors, RequestTypeOK
    <3> QED
      BY <2>1, <3>1, <3>2
  <2>3. CASE Fates(i)
    <3>1. /\ LoseRequests(i) /\ faults' \in 0..MaxFaults /\ faults <= faults'
          /\ i \in cut' \/ Drained(i)
      BY <1>0, <2>3 DEF Fates, Stop, EarlySignal, Crash, Deadline, Die, CountFault, RequestTypeOK
    <3>2. RequestTypeOK' /\ \A q \in Request : RequestAt(q)' /\ RowsAt(q)'
      BY <1>0, <2>1, <3>1, EndTypes, EndOfInstance
    <3>3. StorageErrors' \subseteq StorageErrors
      BY <3>1 DEF LoseRequests, StorageErrors
    <3> QED
      BY <2>1, <3>1, <3>2, <3>3
  <2> QED
    BY <1>2, <2>2, <2>3 DEF Start, Startup, Signal, Connect, Lock, ReadVersion, MarkDirty, RunMigration, MarkClean,
       Listen, Notify
<1>3. ASSUME UNCHANGED deployVars PROVE Good
  <2>1. LifeTypeOK' /\ StartupInv' /\ cut' = cut
    BY <1>0, <1>3, LifeStands DEF deployVars, lifeVars
  <2>2. RequestTypeOK' /\ \A q \in Request : RequestAt(q)' /\ RowsAt(q)'
    BY <1>0, <1>3, <2>1, SameRequest DEF deployVars, requestVars, RequestTypeOK
  <2>3. Errors
    BY <1>0, <1>3 DEF deployVars, requestVars, StorageErrors, RequestTypeOK
  <2> QED
    BY <2>1, <2>2, <2>3
<1>4. Good
  BY <1>1, <1>2, <1>3 DEF Next, Receive, Serve, Fault, Fates, Quiet
<1>5. IsFiniteSet(StorageErrors)' /\ (Cardinality(StorageErrors) <= faults)'
  <2>1. faults' \in Nat
    BY <1>0, <1>4 DEF RequestTypeOK
  <2> QED
    BY <1>0, <1>4, <2>1, FaultsCover
<1> HIDE DEF Good
<1>6. (/\ LifeTypeOK /\ RequestTypeOK /\ StartupInv
       /\ \A r \in Request : RequestAt(r) /\ RowsAt(r)
       /\ IsFiniteSet(StorageErrors) /\ Cardinality(StorageErrors) <= faults)'
  BY <1>4, <1>5 DEF Good
<1> QED
  BY <1>6, Parts, PTL

LEMMA InitDeployInv == DeploymentInit => DeployInv
<1> SUFFICES ASSUME DeploymentInit PROVE DeployInv
  OBVIOUS
<1> USE DEF DeploymentInit, RegistrationInit
<1>0. /\ NoInstance \notin Instance /\ MaxStarts \in Nat /\ MaxFaults \in Nat /\ Instance # {}
      /\ OpeningOwner \subseteq OwnerID
  BY DeploymentAssumption, RegistrationAssumption
<1>1. LifeTypeOK
  BY <1>0 DEF LifeTypeOK, Ended
<1>2. RequestTypeOK
  BY <1>0 DEF RequestTypeOK, Labels
<1>3. StartupInv
  BY <1>0 DEF StartupInv, StartupAt, HoldsLock, Migrating, Up
<1>4. \A r \in Request : RequestAt(r) /\ RowsAt(r)
  BY DEF RequestAt, RowsAt, Running, Inserting, Querying
<1>5. StorageErrors = {}
  BY DEF StorageErrors
<1>6. IsFiniteSet(StorageErrors) /\ Cardinality(StorageErrors) <= faults
  BY <1>5, FS_EmptySet
<1> QED
  BY <1>1, <1>2, <1>3, <1>4, <1>6, Parts

\* What each step of a start and of a request relies on holds in every state, on
\* whichever instances start, stop and crash.
THEOREM DeploymentInductive == Spec => []DeployInv
  BY InitDeployInv, DeployInvStep, PTL DEF Spec

-----------------------------------------------------------------------------
(* What follows *)

\* The state of starts, requests and tables is well formed, and answers have the
\* statuses that the API names.
THEOREM DeploymentTypes == Spec => []TypeOK
  BY DeploymentInductive, PTL DEF DeployInv

\* No instance ever accepts a request before all tables exist, although several
\* start at once and each may die between any two statements of the migration.
THEOREM SchemaBeforeTraffic == Spec => []ServesOnSchema
<1>1. DeployInv => ServesOnSchema
  BY DEF DeployInv, StartupInv, StartupAt, ServesOnSchema
<1> QED
  BY <1>1, DeploymentInductive, PTL

\* Instances that start together never make each other fail: log.Fatalf on a dirty
\* version happens only after some process was cut short.
THEOREM StartsDoNotCollide == Spec => []StartsFailOnlyDirty
<1>1. DeployInv => StartsFailOnlyDirty
  BY DEF DeployInv, StartupInv, StartupAt, StartsFailOnlyDirty
<1> QED
  BY <1>1, DeploymentInductive, PTL

\* The shutdown that main handles leaves no request unanswered.
THEOREM ShutdownDropsNothing == Spec => []OnlyCutInstancesDropRequests
<1>1. DeployInv => OnlyCutInstancesDropRequests
  BY DEF DeployInv, RequestAt, OnlyCutInstancesDropRequests
<1> QED
  BY <1>1, DeploymentInductive, PTL

\* 500 is never the answer to a race: as many failures of the storage as there are
\* such answers have happened.
THEOREM OnlyFaultsAnswer500 == Spec => []ServerErrorsAreFaults
<1>1. ASSUME DeployInv PROVE ServerErrorsAreFaults
  <2>1. \A r \in Request : reply[r] \in Outcome \cup {"none"}
    BY <1>1 DEF DeployInv
  <2>2. {r \in Request : HttpStatus(r) = 500} = StorageErrors
    BY <2>1, StatusOfReply DEF StorageErrors
  <2> QED
    BY <1>1, <2>2 DEF DeployInv, ServerErrorsAreFaults
<1> QED
  BY <1>1, DeploymentInductive, PTL

-----------------------------------------------------------------------------
(* Refinement *)

\* The API documents as accepted what the handlers accept.
Documented == \A c \in Call : c \in ValidCall <=> ArrivalError(c) = "none"

AnswerOf == [r \in Request |-> HttpStatus(r)]
Replies(r, e) == reply' = [reply EXCEPT ![r] = e]
Answering(r, st) == AnswerOf' = [AnswerOf EXCEPT ![r] = st]

LEMMA InitLists == DeploymentInit => Listing!Init
  BY DEF DeploymentInit, RegistrationInit, Listing!Init, HttpStatus

\* A step that answers the request with outcome e, in terms of Directory.
StatusOf(e) == IF e \in {"none", "ErrConnectionLost"} THEN 0 ELSE Status(e)

LEMMA AnswerChanges ==
  ASSUME NEW r \in Request, NEW e, reply \in [Request -> Outcome \cup {"none"}],
         Replies(r, e)
  PROVE  Answering(r, StatusOf(e))
BY DEF AnswerOf, HttpStatus, StatusOf, Replies, Answering

LEMMA StatusOfOutcome ==
  /\ StatusOf("none") = 0 /\ StatusOf("ErrConnectionLost") = 0
  /\ StatusOf("ok") = 200 /\ StatusOf("created") = 201
  /\ StatusOf(BindingError) = 400 /\ StatusOf("ErrUnsupportedCurrency") = 400
  /\ StatusOf("ErrOwnerNotFound") = 404 /\ StatusOf("ErrWalletAlreadyExists") = 409
  /\ StatusOf("ErrStorage") = 500
BY Statuses DEF StatusOf, BindingError

\* A request whose statement executes is open in Directory.
LEMMA RunningIsOpen ==
  ASSUME NEW r \in Request, RequestAt(r), pc[r] \in {"inFlight"} \cup Running
  PROVE  Listing!Open(r, received[r].op)
<1>1. received[r] # NoCall /\ r \notin applied
  BY DEF RequestAt, Running, Inserting, Querying
<1>2. reply[r] \in {"none", "ErrConnectionLost"}
  BY DEF RequestAt
<1> QED
  BY <1>1, <1>2 DEF Listing!Open, HttpStatus

LEMMA InsertAdds ==
  ASSUME NEW r \in Request, RequestAt(r), pc[r] \in {"inFlight"} \cup Inserting, InsertRow(r),
         NEW st \in {201, 500, 0}, Answering(r, st), UNCHANGED <<received, listed>>
  PROVE  Listing!Next
<1>1. Listing!Open(r, received[r].op)
  BY RunningIsOpen DEF Running
<1>2. Listing!Added(r)
  <2>1. applied' = applied \cup {r}
    BY DEF InsertRow
  <2>2. \E s \in {201, 500, 0} : Answering(r, s)
    OBVIOUS
  <2> QED
    BY <2>1, <2>2, Zenon DEF AnswerOf, Answering, Listing!Added
<1>3. CASE received[r].op = "createOwner"
  BY <1>1, <1>2, <1>3 DEF InsertRow, Listing!CreateOwner, Listing!Next
<1>4. CASE received[r].op = "createWallet"
  <2>1. received[r].owner \in owners
    BY <1>4 DEF RequestAt, OpsAt, Inserting
  <2> QED
    BY <1>1, <1>2, <1>4, <2>1 DEF InsertRow, Violates, Pair, Listing!Pair, Listing!CreateWallet, Listing!Next
<1> QED
  BY <1>3, <1>4 DEF InsertRow

LEMMA RefusalHasReason ==
  ASSUME NEW r \in Request, RequestAt(r), pc[r] \in Running,
         NEW st \in {404, 409, 500}, Answering(r, st), Listing!Reason(r, st),
         received[r].op \in {"createOwner", "createWallet", "listOwners", "listWallets"},
         UNCHANGED <<received, owners, wallets, listed, applied>>
  PROVE  Listing!Next
<1>1. Listing!Open(r, received[r].op)
  BY RunningIsOpen
<1>2. Listing!Refuse(r)
  <2>1. \E op \in {"createOwner", "createWallet", "listOwners", "listWallets"} : Listing!Open(r, op)
    BY <1>1
  <2>2. \E s \in {404, 409, 500} : Listing!Reason(r, s) /\ Answering(r, s)
    OBVIOUS
  <2> QED
    BY <2>1, <2>2, Zenon DEF Listing!Refuse, AnswerOf, Answering
<1> QED
  BY <1>2 DEF Listing!Next

LEMMA RequestRefines ==
  ASSUME DeployInv, NEW r \in Request, RequestStep(r) \/ RequestFault(r)
  PROVE  Listing!Next \/ UNCHANGED Listing!directoryVars
<1>0. /\ RequestAt(r) /\ received[r] # NoCall /\ pc[r] \in {"inFlight"} \cup Running
      /\ received[r].op \in OpsAt(pc[r])
      /\ received[r].op \in {"createOwner", "createWallet", "listOwners", "listWallets"}
      /\ reply \in [Request -> Outcome \cup {"none"}]
  <2>1. RequestAt(r) /\ reply \in [Request -> Outcome \cup {"none"}] /\ received[r] \in Call \cup {NoCall}
    BY DEF DeployInv, TypeOK
  <2>2. pc[r] \in {"inFlight"} \cup Running
    BY DEF RequestStep, RequestFault, GetOwner, GetByOwnerAndCurrency, Insert, ListOwners, ListWallets, LateInsert,
       DropConnection, StorageFault, AnswerLost, Running, Inserting, Querying
  <2>3. pc[r] # "idle"
    BY <2>2 DEF Running, Inserting, Querying
  <2> QED
    BY <2>1, <2>2, <2>3, RegistrationAssumption DEF RequestAt
<1> USE DEF Listing!directoryVars
<1>1. ASSUME NEW label, Continue(r, label) PROVE UNCHANGED Listing!directoryVars
  BY <1>1 DEF Continue, HttpStatus
<1>2. CASE GetOwner(r)
  <2>1. CASE Refuse(r, "ErrOwnerNotFound") /\ received[r].owner \notin owners
    <3>1. Answering(r, 404)
      <4>1. Replies(r, "ErrOwnerNotFound")
        BY <1>0, <2>1 DEF Refuse, Answer, Replies
      <4> QED
        BY <1>0, <4>1, AnswerChanges, StatusOfOutcome
    <3>2. Listing!Reason(r, 404) /\ pc[r] \in Running
      BY <1>0, <1>2, <2>1 DEF GetOwner, Listing!Reason, OpsAt, Running, Querying
    <3> QED
      BY <1>0, <2>1, <3>1, <3>2, RefusalHasReason DEF Refuse, Answer
  <2> QED
    BY <1>1, <1>2, <2>1 DEF GetOwner
<1>3. ASSUME Refuse(r, "ErrWalletAlreadyExists"), Pair(r) \in wallets, pc[r] \in {"getExisting", "insertWallet"}
      PROVE  Listing!Next
  <2>1. Answering(r, 409)
    <3>1. Replies(r, "ErrWalletAlreadyExists")
      BY <1>0, <1>3 DEF Refuse, Answer, Replies
    <3> QED
      BY <1>0, <3>1, AnswerChanges, StatusOfOutcome
  <2>2. Listing!Reason(r, 409) /\ pc[r] \in Running
    BY <1>0, <1>3 DEF Listing!Reason, Pair, Listing!Pair, OpsAt, Running, Querying, Inserting
  <2> QED
    BY <1>0, <1>3, <2>1, <2>2, RefusalHasReason DEF Refuse, Answer
<1>4. CASE GetByOwnerAndCurrency(r)
  BY <1>1, <1>3, <1>4 DEF GetByOwnerAndCurrency
<1>5. CASE Insert(r)
  <2>1. CASE InsertRow(r) /\ Answer(r, "created") /\ UNCHANGED listed
    <3>1. Answering(r, 201)
      <4>1. Replies(r, "created")
        BY <1>0, <2>1 DEF Answer, Replies
      <4> QED
        BY <1>0, <4>1, AnswerChanges, StatusOfOutcome
    <3> QED
      BY <1>0, <1>5, <2>1, <3>1, InsertAdds DEF Insert, Answer
  <2> QED
    BY <1>3, <1>5, <2>1 DEF Insert, Violates, ViolationError
<1>6. CASE ListOwners(r) \/ ListWallets(r)
  <2>1. Answering(r, 200)
    <3>1. Replies(r, "ok")
      BY <1>0, <1>6 DEF ListOwners, ListWallets, Answer, Replies
    <3> QED
      BY <1>0, <3>1, AnswerChanges, StatusOfOutcome
  <2>2. Listing!Open(r, received[r].op)
    BY <1>0, RunningIsOpen
  <2>3. pc[r] = "selectWallets" => received[r].owner \in owners
    BY <1>0 DEF RequestAt
  <2>4. Listing!List(r)
    BY <1>0, <1>6, <2>1, <2>2, <2>3 DEF ListOwners, ListWallets, Answer, OpsAt, Listing!List, AnswerOf, Answering
  <2> QED
    BY <2>4 DEF Listing!Next
<1>7. CASE LateInsert(r)
  <2>1. Replies(r, "ErrConnectionLost") /\ reply[r] = "ErrConnectionLost"
    BY <1>0, <1>7 DEF LateInsert, RequestAt, Replies
  <2>2. Answering(r, 0)
    BY <1>0, <2>1, AnswerChanges, StatusOfOutcome
  <2> QED
    BY <1>0, <1>7, <2>2, InsertAdds DEF LateInsert
<1>8. CASE DropConnection(r)
  BY <1>1, <1>8 DEF DropConnection
<1>9. CASE StorageFault(r)
  <2>1. Answering(r, 500)
    <3>1. Replies(r, "ErrStorage")
      BY <1>0, <1>9 DEF StorageFault, Answer, Replies
    <3> QED
      BY <1>0, <3>1, AnswerChanges, StatusOfOutcome
  <2>2. Listing!Reason(r, 500)
    BY DEF Listing!Reason
  <2> QED
    BY <1>0, <1>9, <2>1, <2>2, RefusalHasReason DEF StorageFault, Answer
<1>10. CASE AnswerLost(r)
  <2>1. Answering(r, 500)
    <3>1. Replies(r, "ErrStorage")
      BY <1>0, <1>10 DEF AnswerLost, Answer, Replies
    <3> QED
      BY <1>0, <3>1, AnswerChanges, StatusOfOutcome
  <2>2. pc[r] \in Inserting /\ InsertRow(r) /\ UNCHANGED <<received, listed>>
    BY <1>10 DEF AnswerLost, Answer
  <2> QED
    BY <1>0, <2>1, <2>2, InsertAdds
<1> QED
  BY <1>2, <1>4, <1>5, <1>6, <1>7, <1>8, <1>9, <1>10 DEF RequestStep, RequestFault

LEMMA ArrivalRefines ==
  ASSUME Documented, DeployInv, NEW r \in Request, NEW c \in Call, NEW i \in Instance, Arrive(r, c, i)
  PROVE  Listing!Next
<1>1. RequestAt(r) /\ reply \in [Request -> Outcome \cup {"none"}] /\ pc[r] = "idle"
  BY DEF DeployInv, Arrive
<1>2. Answering(r, IF c \in ValidCall THEN 0 ELSE 400)
  <2>1. CASE c \in ValidCall
    <3>1. Replies(r, "none")
      BY <2>1 DEF Documented, Arrive, Replies
    <3> QED
      BY <1>1, <2>1, <3>1, AnswerChanges, StatusOfOutcome
  <2>2. CASE c \notin ValidCall
    <3>1. ArrivalError(c) \in {BindingError, "ErrUnsupportedCurrency"}
      BY <2>2, ArrivalTypes DEF Documented
    <3>2. StatusOf(ArrivalError(c)) = 400
      BY <3>1, StatusOfOutcome
    <3>3. Replies(r, ArrivalError(c))
      BY DEF Arrive, Replies
    <3> QED
      BY <1>1, <2>2, <3>2, <3>3, AnswerChanges
  <2> QED
    BY <2>1, <2>2
<1>3. Listing!Receive(r, c)
  BY <1>1, <1>2 DEF Arrive, RequestAt, AnswerOf, Answering, Listing!Receive
<1> QED
  BY <1>3 DEF Listing!Next

LEMMA NextLists ==
  ASSUME Documented, DeployInv, [Next]_deployVars
  PROVE  [Listing!Next]_Listing!directoryVars
<1> USE DEF Listing!directoryVars
<1>1. ASSUME NEW r \in Request, NEW c \in Call, NEW i \in Instance, Receive(r, c, i) PROVE Listing!Next
  BY <1>1, ArrivalRefines DEF Receive
<1>2. ASSUME NEW r \in Request, Serve(r) \/ Fault(r)
      PROVE  Listing!Next \/ UNCHANGED Listing!directoryVars
  BY <1>2, RequestRefines DEF Serve, Fault
<1>3. ASSUME NEW i \in Instance, LoseRequests(i) PROVE UNCHANGED Listing!directoryVars
  <2>1. ASSUME NEW r \in Request PROVE HttpStatus(r)' = HttpStatus(r)
    <3>1. reply'[r] = reply[r] \/ (reply'[r] = "ErrConnectionLost" /\ pc[r] \in Running)
      BY <1>3 DEF LoseRequests
    <3>2. pc[r] \in Running => reply[r] = "none"
      BY DEF DeployInv, RequestAt
    <3> QED
      BY <3>1, <3>2 DEF HttpStatus
  <2> QED
    BY <1>3, <2>1 DEF LoseRequests
<1>4. ASSUME UNCHANGED requestVars PROVE UNCHANGED Listing!directoryVars
  BY <1>4 DEF requestVars, HttpStatus
<1>5. ASSUME NEW i \in Instance, Start(i) \/ Startup(i) \/ Signal(i) \/ Fates(i)
      PROVE  UNCHANGED Listing!directoryVars
  <2>1. LoseRequests(i) \/ UNCHANGED requestVars
    BY <1>5 DEF Start, Startup, Signal, Connect, Lock, ReadVersion, MarkDirty, RunMigration, MarkClean,
       Listen, Notify, Fates, Stop, EarlySignal, Crash, Deadline, Die
  <2> QED
    BY <1>3, <1>4, <2>1
<1> QED
  BY <1>1, <1>2, <1>4, <1>5 DEF Next, Fates, Quiet, deployVars

\* Whatever interleaving of statements, starts, shutdowns, crashes and failures,
\* what happens to owners, wallets and answers is what Directory does in one step
\* per request: an owner has at most one wallet per currency, 409 means that the
\* wallet exists, a row that is refused is not added.
THEOREM ImplementsDirectory ==
  ASSUME Documented
  PROVE  Spec => DirectorySpec
  BY InitLists, NextLists, DeploymentInductive, PTL DEF Spec, DirectorySpec, Listing!Spec
=============================================================================
