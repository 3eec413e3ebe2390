------------------------- MODULE DeploymentInvariant -------------------------
(***************************************************************************)
(* The inductive invariant of Deployment: what an instance may rely on at  *)
(* each step of its start, and a request at each of its statements,        *)
(* whatever other instances and requests do and whichever of them end.     *)
(***************************************************************************)
EXTENDS Deployment

Migrating == {"run", "clean"}
HoldsLock == {"version", "mark"} \cup Migrating

\* The migrator that holds the advisory lock is alone, so what it has read of the
\* version holds until it writes it; where nobody migrates, a dirty version is what
\* a process left that was cut short, and it stays.
StartupAt(i) ==
  /\ phase[i] \in HoldsLock <=> lock = i
  /\ phase[i] = "mark" => version = "none"
  /\ phase[i] \in Migrating => version = "dirty"
  /\ phase[i] = "clean" => schema
  /\ phase[i] \in {"listen"} \cup Up => version = "clean"
  /\ phase[i] = "failed" => version = "dirty" /\ cut # {} /\ \A j \in Instance : phase[j] \notin Migrating
StartupInv ==
  /\ \A i \in Instance : StartupAt(i)
  /\ version = "clean" => schema
  /\ version = "dirty" => cut # {} \/ \E i \in Instance : phase[i] \in Migrating

\* What the service returns here.
Outcome == {"ok", "created", BindingError, "ErrUnsupportedCurrency", "ErrOwnerNotFound",
            "ErrWalletAlreadyExists", "ErrStorage", "ErrConnectionLost"}

\* The operations whose requests come past a label.
OpsAt(label) ==
  CASE label = "insertOwner" -> {"createOwner"}
    [] label \in {"getExisting", "insertWallet"} -> {"createWallet"}
    [] label = "inFlight" -> {"createOwner", "createWallet"}
    [] label = "selectOwners" -> {"listOwners"}
    [] label = "selectWallets" -> {"listWallets"}
    [] label = "getOwner" -> {"createWallet", "listWallets"}
    [] OTHER -> {"createOwner", "createWallet", "listOwners", "listWallets"}

\* A request is answered once, adds a row only while unanswered, and asks for the
\* owner's id before it uses it; owners are never removed.
RequestAt(r) ==
  /\ received[r] = NoCall <=> pc[r] = "idle"
  /\ reply[r] = "none" <=> pc[r] \in {"idle"} \cup Running
  /\ pc[r] \in {"idle", "inFlight"} \cup Running => r \notin applied /\ listed[r] = {}
  /\ pc[r] # "idle" => received[r].op \in OpsAt(pc[r])
  /\ pc[r] \in {"inFlight"} \cup Running => ArrivalError(received[r]) = "none"
  /\ pc[r] \in {"getExisting", "insertWallet", "selectWallets"}
     \/ (pc[r] = "inFlight" /\ received[r].op = "createWallet") => received[r].owner \in owners
  /\ pc[r] = "inFlight" => reply[r] = "ErrConnectionLost"
  /\ reply[r] = "ErrConnectionLost" => inst[r] \in cut

\* Each answer 500 has a fault of its own.
StorageErrors == {r \in Request : reply[r] = "ErrStorage"}

DeployInv == /\ TypeOK
             /\ StartupInv
             /\ reply \in [Request -> Outcome \cup {"none"}]
             /\ DOMAIN listed = Request
             /\ \A r \in Request : RequestAt(r)
             /\ IsFiniteSet(StorageErrors) /\ Cardinality(StorageErrors) <= faults
=============================================================================
