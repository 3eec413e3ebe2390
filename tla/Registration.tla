---------------------------- MODULE Registration ----------------------------
(***************************************************************************)
(* Owners and wallets: CreateOwner, CreateWallet, ListOwners, ListWallets, *)
(* from the handler to the rows, as concurrent requests on the instances   *)
(* of the program.  A step is one SQL statement, which is a transaction of *)
(* its own, with the local code that follows.                              *)
(***************************************************************************)
EXTENDS Http, FiniteSets

CONSTANTS
  Request,
  Instance,
  OwnerID,        \* the ids that gen_random_uuid returns
  Call,           \* what clients ask for
  Malformed,      \* names, ids and currencies that the validator's tags reject
  NoCall,
  OpeningOwner,   \* the owners a database in use has
  MaxFaults       \* bound on storage errors, crashes and forced exits

ASSUME RegistrationAssumption ==
  /\ Instance # {} /\ MaxFaults \in Nat
  /\ NoCall \notin Call
  /\ \A c \in Call : c.op \in {"createOwner", "createWallet", "listOwners", "listWallets"}
  /\ OpeningOwner \subseteq OwnerID
  /\ IsFiniteSet(OwnerID)
  /\ Cardinality(OwnerID \ OpeningOwner) >= Cardinality(Request)

VARIABLES
  owners,     \* the committed rows of table owners
  wallets,    \* the committed rows of table wallets: <<owner_id, currency>>
  pc,         \* pc[r]: what request r does next
  received,   \* received[r]: what the client asked for
  inst,       \* inst[r]: the instance the request reached
  reply,      \* reply[r]: the outcome, as the handler gets it
  listed,     \* listed[r]: the rows in the reply
  applied,    \* history: the requests that have inserted a row
  faults      \* history: storage errors, crashes and forced exits so far

requestVars == <<owners, wallets, pc, received, inst, reply, listed, applied, faults>>

Inserting == {"insertOwner", "insertWallet"}
Querying == {"getOwner", "getExisting", "selectOwners", "selectWallets"}
Running == Inserting \cup Querying
Labels == {"idle", "inFlight", "done"} \cup Running

RegistrationInit ==
  /\ owners \in {{}, OpeningOwner}
  /\ wallets = {}
  /\ pc = [r \in Request |-> "idle"]
  /\ received = [r \in Request |-> NoCall]
  /\ inst = [r \in Request |-> CHOOSE i \in Instance : TRUE]
  /\ reply = [r \in Request |-> "none"]
  /\ listed = [r \in Request |-> {}]
  /\ applied = {}
  /\ faults = 0

-----------------------------------------------------------------------------
(* The handlers *)

Supported == {"usd", "idr", "eur"}

Fields(c) == CASE c.op = "createOwner" -> {c.name}
               [] c.op = "createWallet" -> {c.owner, c.currency}
               [] c.op = "listWallets" -> {c.owner}
               [] c.op = "listOwners" -> {}

\* Mutant: CreateWallet takes any three letters for a currency.
ArrivalErrorAnyCurrency(c) == IF Fields(c) \cap Malformed # {} THEN BindingError ELSE "none"

\* The handler's validation, and the service's own, before the first query.
ArrivalError(c) ==
  IF Fields(c) \cap Malformed # {} THEN BindingError
  ELSE IF c.op = "createWallet" /\ c.currency \notin Supported THEN "ErrUnsupportedCurrency"
  ELSE "none"

FirstLabel(c) == CASE c.op = "createOwner" -> "insertOwner"
                   [] c.op = "listOwners" -> "selectOwners"
                   [] OTHER -> "getOwner"

\* Clients know the id of an owner from an answer.
Arrive(r, c, i) ==
  /\ pc[r] = "idle"
  /\ c.owner \in OwnerID => c.owner \in owners
  /\ received' = [received EXCEPT ![r] = c]
  /\ inst' = [inst EXCEPT ![r] = i]
  /\ reply' = [reply EXCEPT ![r] = ArrivalError(c)]
  /\ pc' = [pc EXCEPT ![r] = IF ArrivalError(c) = "none" THEN FirstLabel(c) ELSE "done"]
  /\ UNCHANGED <<owners, wallets, listed, applied, faults>>

Continue(r, label) ==
  /\ pc' = [pc EXCEPT ![r] = label]
  /\ UNCHANGED <<owners, wallets, received, inst, reply, listed, applied, faults>>

Answer(r, outcome) ==
  /\ pc' = [pc EXCEPT ![r] = "done"]
  /\ reply' = [reply EXCEPT ![r] = outcome]
  /\ UNCHANGED <<received, inst>>

Refuse(r, error) == Answer(r, error) /\ UNCHANGED <<owners, wallets, listed, applied, faults>>

-----------------------------------------------------------------------------
(* The statements *)

Pair(r) == <<received[r].owner, received[r].currency>>

GetOwner(r) ==
  /\ pc[r] = "getOwner"
  /\ \/ /\ received[r].owner \in owners
        /\ Continue(r, IF received[r].op = "createWallet" THEN "getExisting" ELSE "selectWallets")
     \/ /\ received[r].owner \notin owners
        /\ Refuse(r, "ErrOwnerNotFound")

GetByOwnerAndCurrency(r) ==
  /\ pc[r] = "getExisting"
  /\ \/ /\ Pair(r) \notin wallets
        /\ Continue(r, "insertWallet")
     \/ /\ Pair(r) \in wallets
        /\ Refuse(r, "ErrWalletAlreadyExists")

Unconstrained(p) == FALSE   \* mutant: no uq_wallets_owner_currency

\* uq_wallets_owner_currency rejects the row.
Violates(p) == p \in wallets

\* The row that the request's INSERT adds.
InsertRow(r) ==
  /\ applied' = applied \cup {r}
  /\ \/ /\ received[r].op = "createOwner"
        /\ \E o \in OwnerID \ owners : owners' = owners \cup {o}
        /\ UNCHANGED wallets
     \/ /\ received[r].op = "createWallet"
        /\ ~Violates(Pair(r))
        /\ wallets' = wallets \cup {Pair(r)}
        /\ UNCHANGED owners

ViolationUnmapped == "ErrUniqueViolation"   \* mutant: WalletRepo.Create returns pq's error

\* isUniqueViolation recognises pq's error, and WalletRepo.Create maps it.
ViolationError == "ErrWalletAlreadyExists"

Insert(r) ==
  /\ pc[r] \in Inserting
  /\ \/ /\ InsertRow(r)
        /\ Answer(r, "created")
        /\ UNCHANGED <<listed, faults>>
     \/ /\ pc[r] = "insertWallet" /\ Violates(Pair(r))
        /\ Refuse(r, ViolationError)

ListOwners(r) ==
  /\ pc[r] = "selectOwners"
  /\ listed' = [listed EXCEPT ![r] = owners]
  /\ Answer(r, "ok")
  /\ UNCHANGED <<owners, wallets, applied, faults>>

ListWallets(r) ==
  /\ pc[r] = "selectWallets"
  /\ listed' = [listed EXCEPT ![r] = {p \in wallets : p[1] = received[r].owner}]
  /\ Answer(r, "ok")
  /\ UNCHANGED <<owners, wallets, applied, faults>>

-----------------------------------------------------------------------------
(* Failures *)

CountFault == faults < MaxFaults /\ faults' = faults + 1

\* A statement fails before it takes effect.
StorageFault(r) ==
  /\ pc[r] \in Running
  /\ CountFault
  /\ Answer(r, "ErrStorage")
  /\ UNCHANGED <<owners, wallets, listed, applied>>

\* The connection to the database is lost after an insert took effect.
AnswerLost(r) ==
  /\ pc[r] \in Inserting
  /\ CountFault
  /\ InsertRow(r)
  /\ Answer(r, "ErrStorage")
  /\ UNCHANGED listed

\* The process of i ends: its clients get no answer, the database may still be
\* executing their inserts.
LoseRequests(i) ==
  LET lost == {r \in Request : inst[r] = i /\ pc[r] \in Running} IN
  /\ pc' = [r \in Request |-> IF r \notin lost THEN pc[r]
                              ELSE IF pc[r] \in Inserting THEN "inFlight" ELSE "done"]
  /\ reply' = [r \in Request |-> IF r \in lost THEN "ErrConnectionLost" ELSE reply[r]]
  /\ UNCHANGED <<owners, wallets, received, inst, listed, applied>>

\* The database completes an insert for nobody, or drops it.
LateInsert(r) ==
  /\ pc[r] = "inFlight"
  /\ InsertRow(r)
  /\ pc' = [pc EXCEPT ![r] = "done"]
  /\ UNCHANGED <<received, inst, reply, listed, faults>>

DropConnection(r) == pc[r] = "inFlight" /\ Continue(r, "done")

RequestStep(r) ==
  \/ GetOwner(r) \/ GetByOwnerAndCurrency(r) \/ Insert(r) \/ ListOwners(r) \/ ListWallets(r)
  \/ LateInsert(r) \/ DropConnection(r)

RequestFault(r) == StorageFault(r) \/ AnswerLost(r)

-----------------------------------------------------------------------------
\* The HTTP status that reaches the client, if any does.
HttpStatus(r) == IF reply[r] \in {"none", "ErrConnectionLost"} THEN 0 ELSE Status(reply[r])
=============================================================================
