----------------------------- MODULE Deployment -----------------------------
(***************************************************************************)
(* Instances of the program that start, migrate one database, serve the    *)
(* requests of Registration, and stop: main of cmd/server, and db.Connect  *)
(* and db.Migrate.  golang-migrate, which Migrate calls, takes an advisory *)
(* lock, marks the version dirty, runs the migration and marks the version *)
(* clean, each in a statement of its own.                                  *)
(***************************************************************************)
EXTENDS Registration

CONSTANTS
  NoInstance,
  ValidCall,    \* the calls that the API documents as accepted
  MaxStarts     \* bound on how often instances are started

ASSUME DeploymentAssumption ==
  NoInstance \notin Instance /\ ValidCall \subseteq Call /\ MaxStarts \in Nat

VARIABLES
  phase,     \* phase[i]: what main of instance i does next
  schema,    \* whether the tables exist
  version,   \* the row of schema_migrations
  lock,      \* the holder of the advisory lock
  starts,    \* history: starts so far
  cut        \* history: instances that have ended in the middle of something

lifeVars == <<phase, schema, version, lock, starts, cut>>
deployVars == <<requestVars, lifeVars>>

Starting == {"connect", "lock", "version", "mark", "run", "clean", "listen"}
Up == {"open", "serving", "draining"}
Ended == {"stopped", "failed"}

\* A new database, or one that an earlier deployment has migrated.
DeploymentInit ==
  /\ RegistrationInit
  /\ phase = [i \in Instance |-> "stopped"]
  /\ schema \in BOOLEAN
  /\ version = IF schema THEN "clean" ELSE "none"
  /\ owners # {} => schema
  /\ lock = NoInstance
  /\ starts = 0
  /\ cut = {}

-----------------------------------------------------------------------------
(* Startup *)

Enter(i, label) == phase' = [phase EXCEPT ![i] = label]

Start(i) ==
  /\ phase[i] \in Ended
  /\ starts < MaxStarts
  /\ starts' = starts + 1
  /\ Enter(i, "connect")
  /\ UNCHANGED <<requestVars, schema, version, lock, cut>>

Connect(i) ==
  /\ phase[i] = "connect"
  /\ Enter(i, "lock")
  /\ UNCHANGED <<requestVars, schema, version, lock, starts, cut>>

Unlocked(i) == TRUE   \* mutant: golang-migrate without its advisory lock

LockIsFree(i) == lock = NoInstance

Lock(i) ==
  /\ phase[i] = "lock"
  /\ LockIsFree(i)
  /\ lock' = i
  /\ Enter(i, "version")
  /\ UNCHANGED <<requestVars, schema, version, starts, cut>>

DirtyIgnored == version # "none"   \* mutant: a version is taken for an applied one

UpToDate == version = "clean"

KeepLock(i) == UNCHANGED lock      \* mutant: the migrator is never closed

Release(i) == lock' = IF lock = i THEN NoInstance ELSE lock

\* ErrNoChange is success; ErrDirty is not, and log.Fatalf ends the process.
ReadVersion(i) ==
  /\ phase[i] = "version"
  /\ \/ /\ UpToDate
        /\ Enter(i, "listen") /\ Release(i)
     \/ /\ version = "none"
        /\ Enter(i, "mark") /\ UNCHANGED lock
     \/ /\ version = "dirty"
        /\ Enter(i, "failed") /\ Release(i)
  /\ UNCHANGED <<requestVars, schema, version, starts, cut>>

MarkDirty(i) ==
  /\ phase[i] = "mark"
  /\ version' = "dirty"
  /\ Enter(i, "run")
  /\ UNCHANGED <<requestVars, schema, lock, starts, cut>>

RunMigration(i) ==
  /\ phase[i] = "run"
  /\ schema' = TRUE
  /\ Enter(i, "clean")
  /\ UNCHANGED <<requestVars, version, lock, starts, cut>>

MarkClean(i) ==
  /\ phase[i] = "clean"
  /\ version' = "clean"
  /\ Enter(i, "listen")
  /\ Release(i)
  /\ UNCHANGED <<requestVars, schema, starts, cut>>

\* The goroutine that serves and signal.Notify, in either order: "open" is the
\* moment in which the server accepts requests and a signal still kills it.
Listen(i) ==
  /\ phase[i] = "listen"
  /\ Enter(i, "open")
  /\ UNCHANGED <<requestVars, schema, version, lock, starts, cut>>

Notify(i) ==
  /\ phase[i] \in {"listen", "open"}
  /\ Enter(i, "serving")
  /\ UNCHANGED <<requestVars, schema, version, lock, starts, cut>>

-----------------------------------------------------------------------------
(* Shutdown and failure *)

Signal(i) ==
  /\ phase[i] = "serving"
  /\ Enter(i, "draining")
  /\ UNCHANGED <<requestVars, schema, version, lock, starts, cut>>

NothingToDrain(i) == TRUE   \* mutant: main does not wait for Shutdown

Drained(i) == \A r \in Request : inst[r] = i => pc[r] \notin Running

\* Shutdown returns, main returns, and with it whatever still runs ends.
Stop(i) ==
  /\ phase[i] = "draining"
  /\ Drained(i)
  /\ Enter(i, "stopped")
  /\ LoseRequests(i)
  /\ UNCHANGED <<faults, schema, version, lock, starts, cut>>

\* The process ends in the middle of what it does; its session's lock is released.
Die(i) ==
  /\ Enter(i, "stopped")
  /\ LoseRequests(i)
  /\ Release(i)
  /\ cut' = cut \cup {i}
  /\ UNCHANGED <<schema, version, starts>>

\* A signal before signal.Notify has its default effect.
EarlySignal(i) ==
  /\ phase[i] \in Starting \cup {"open"}
  /\ Die(i)
  /\ UNCHANGED faults

\* A crash, or log.Fatalf: no connection, a failed migration, no lock within the
\* time limit, a port in use.
Crash(i) ==
  /\ phase[i] \in Starting \cup Up
  /\ CountFault
  /\ Die(i)

\* The ten seconds of Shutdown are over.
Deadline(i) ==
  /\ phase[i] = "draining"
  /\ ~Drained(i)
  /\ CountFault
  /\ Die(i)

-----------------------------------------------------------------------------
Startup(i) == Connect(i) \/ Lock(i) \/ ReadVersion(i) \/ MarkDirty(i) \/ RunMigration(i)
              \/ MarkClean(i) \/ Listen(i) \/ Notify(i)

Accepts(i) == phase[i] \in {"open", "serving"}

Receive(r, c, i) == Accepts(i) /\ Arrive(r, c, i) /\ UNCHANGED lifeVars
Serve(r) == RequestStep(r) /\ UNCHANGED lifeVars
Fault(r) == RequestFault(r) /\ UNCHANGED lifeVars

\* Nobody waits for anything: the instances may stay as they are.
Quiet ==
  /\ \A r \in Request : pc[r] \in {"idle", "done"}
  /\ \A i \in Instance : phase[i] \in Ended \cup {"serving"}
  /\ UNCHANGED deployVars

Next ==
  \/ \E r \in Request, c \in Call, i \in Instance : Receive(r, c, i)
  \/ \E r \in Request : Serve(r) \/ Fault(r)
  \/ \E i \in Instance : \/ Start(i) \/ Startup(i) \/ Signal(i) \/ Stop(i)
                         \/ EarlySignal(i) \/ Crash(i) \/ Deadline(i)
  \/ Quiet

Spec == DeploymentInit /\ [][Next]_deployVars

\* Processes run, Postgres executes statements and grants the advisory lock.
\* Nothing makes operators start or stop instances, or clients call.
FairSpec ==
  /\ Spec
  /\ \A r \in Request : WF_deployVars(Serve(r))
  /\ \A i \in Instance : WF_deployVars(Startup(i)) /\ WF_deployVars(Stop(i))

-----------------------------------------------------------------------------
(* Properties *)

\* Type invariant.
TypeOK ==
  /\ owners \subseteq OwnerID
  /\ wallets \subseteq owners \X Supported
  /\ pc \in [Request -> Labels]
  /\ received \in [Request -> Call \cup {NoCall}]
  /\ inst \in [Request -> Instance]
  /\ \A r \in Request : HttpStatus(r) \in {0, 200, 201, 400, 404, 409, 500}
  /\ \A r \in Request : \/ received[r] = NoCall /\ listed[r] = {}
                        \/ received[r].op = "listOwners" /\ listed[r] \subseteq owners
                        \/ received[r].op # "listOwners" /\ listed[r] \subseteq wallets
  /\ applied \subseteq Request
  /\ faults \in 0..MaxFaults
  /\ phase \in [Instance -> Starting \cup Up \cup Ended]
  /\ schema \in BOOLEAN
  /\ version \in {"none", "dirty", "clean"}
  /\ lock \in Instance \cup {NoInstance}
  /\ starts \in 0..MaxStarts
  /\ cut \subseteq Instance

\* The requests of any number of instances that start, stop and crash do what
\* Directory says in one step each: one wallet per owner and currency, 201 only for
\* a row of one's own, 409 only when the pair is taken, 404 only when the owner is
\* unknown, nothing added by a refused request or added twice.
Listing == INSTANCE Directory WITH answer <- [r \in Request |-> HttpStatus(r)]
DirectorySpec == Listing!Spec

\* Error answers 500 for what it does not know: clients get it for a failure of the
\* storage and for nothing else, so the loser of two CreateWallet calls gets 409.
ServerErrorsAreFaults ==
  Cardinality({r \in Request : HttpStatus(r) = 500}) <= faults

\* main: "Apply any pending migrations before accepting traffic": an instance that
\* can accept a request finds all tables, whoever else starts, stops or crashes.
ServesOnSchema ==
  \A i \in Instance : phase[i] \in {"listen"} \cup Up => schema /\ version = "clean"

\* README: "Migrations run automatically on startup": a start never fails because
\* another instance starts at the same time, only where a process was cut short
\* between marking the version dirty and marking it clean.
StartsFailOnlyDirty ==
  \A i \in Instance : phase[i] = "failed" => cut # {} /\ version = "dirty"

\* main: "On shutdown, give in-flight requests up to 10 seconds to complete": a
\* request goes unanswered only if its instance was cut short, never by a signal
\* that the program handles.
OnlyCutInstancesDropRequests ==
  \A r \in Request : reply[r] = "ErrConnectionLost" => inst[r] \in cut

\* Every request is answered, or its instance ends; every start leads to a server
\* or an end; every shutdown ends: neither the advisory lock nor the drain hangs.
NothingHangs ==
  /\ \A r \in Request : pc[r] # "idle" ~> pc[r] = "done"
  /\ \A i \in Instance : phase[i] \in Starting ~> phase[i] \in {"serving"} \cup Ended
  /\ \A i \in Instance : phase[i] = "draining" ~> phase[i] \in Ended
=============================================================================
