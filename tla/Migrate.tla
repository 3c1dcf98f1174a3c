------------------------------- MODULE Migrate -------------------------------
(***************************************************************************)
(* From docker/entrypoint.sh to an API that serves: scripts/migrate.py     *)
(* over one connection, statement by statement and without a transaction,  *)
(* then the pool of main.py's lifespan.  Several starts may be under way   *)
(* at once, of images with more or fewer migrations, and each may die at   *)
(* any moment and is started again.                                        *)
(***************************************************************************)
EXTENDS PostgresServer

CONSTANTS
  Files,      \* the image of start c has the migrations 1..Files[c]
  PoolSize,   \* max_size of the API's pool
  MaxFaults   \* bound on the failures and deaths of all starts

ASSUME MigrateAssumption ==
  Files \in [Starts -> Nat] /\ PoolSize \in Nat \ {0} /\ MaxFaults \in Nat

VARIABLES
  applied,    \* the migrations the schema shows
  recorded,   \* the rows of schema_migrations
  phase,      \* what start c does next
  pending,    \* the migrations it has still to apply
  faults      \* how many faults there have been

migrateVars == <<applied, recorded, phase, pending, faults>>

Phases == {"connect", "read", "execute", "record", "pool", "serving", "exited"}

MigrateInit ==
  /\ applied = {} /\ recorded = {}
  /\ phase = [c \in Starts |-> "connect"]
  /\ pending = [c \in Starts |-> {}]
  /\ faults = 0

Enter(c, next) == phase' = [phase EXCEPT ![c] = next]

\* Mutant: entrypoint.sh goes on when migrate.py has failed.
ExitIgnored(c) == Enter(c, "pool") /\ Disconnect(c)

\* The process ends, and the server drops what it had open.
Exit(c) == Enter(c, "exited") /\ Disconnect(c)

-----------------------------------------------------------------------------
\* scripts/migrate.py.

ConnectRun(c) ==
  /\ phase[c] = "connect"
  /\ IF Room THEN Connect(c) /\ Enter(c, "read") ELSE Exit(c)
  /\ UNCHANGED <<applied, recorded, pending, faults>>

\* Mutant: what is recorded is not left out.
AllPending(c) == 1..Files[c]

Pending(c) == 1..Files[c] \ recorded

\* Mutant: a run with nothing to apply leaves its connection open.
ProceedOpen(c, todo) ==
  /\ pending' = [pending EXCEPT ![c] = todo]
  /\ Enter(c, IF todo = {} THEN "pool" ELSE "execute")
  /\ UNCHANGED conns

\* With todo left to apply, or the connection closed and the run over.
Proceed(c, todo) ==
  /\ pending' = [pending EXCEPT ![c] = todo]
  /\ IF todo = {} THEN Enter(c, "pool") /\ Disconnect(c)
                  ELSE Enter(c, "execute") /\ UNCHANGED conns

\* CREATE TABLE IF NOT EXISTS schema_migrations, and what it records.
ReadRecorded(c) ==
  /\ phase[c] = "read"
  /\ Proceed(c, Pending(c))
  /\ UNCHANGED <<applied, recorded, faults>>

\* Mutant: in the order in which the directory lists them.
IsAny(c, n) == n \in pending[c]

IsNext(c, n) == n \in pending[c] /\ \A m \in pending[c] : n <= m

\* Mutant: recorded before it is executed.
RecordFirst(c) ==
  /\ phase[c] = "execute"
  /\ \E n \in pending[c] : IsNext(c, n) /\ recorded' = recorded \cup {n}
  /\ Enter(c, "record")
  /\ UNCHANGED <<conns, applied, pending, faults>>

\* All statements of a file, as one: asyncpg sends them in one query, which
\* the server runs in one transaction.  All are IF NOT EXISTS.
Execute(c) ==
  /\ phase[c] = "execute"
  /\ \E n \in pending[c] : IsNext(c, n) /\ applied' = applied \cup {n}
  /\ Enter(c, "record")
  /\ UNCHANGED <<conns, recorded, pending, faults>>

\* seq_num is the primary key: the second of two starts to record fails.
Record(c) ==
  /\ phase[c] = "record"
  /\ \E n \in pending[c] :
       /\ IsNext(c, n)
       /\ IF n \notin recorded
          THEN recorded' = recorded \cup {n} /\ Proceed(c, pending[c] \ {n})
          ELSE Exit(c) /\ UNCHANGED <<recorded, pending>>
  /\ UNCHANGED <<applied, faults>>

-----------------------------------------------------------------------------
\* main.py: the pool of the lifespan, then requests.

CreatePool(c) ==
  /\ phase[c] = "pool"
  /\ IF Room THEN Connect(c) /\ Enter(c, "serving") ELSE Exit(c)
  /\ UNCHANGED <<applied, recorded, pending, faults>>

\* Requests that need more connections, and idle ones that are closed.
Grow(c) ==
  /\ phase[c] = "serving" /\ conns[c] < PoolSize
  /\ Connect(c)
  /\ UNCHANGED migrateVars

Shrink(c) ==
  /\ phase[c] = "serving"
  /\ DisconnectOne(c)
  /\ UNCHANGED migrateVars

-----------------------------------------------------------------------------

\* A statement or the server fails, or the container is killed or stopped.
\* Two starts that create one table at once may fail each other as well.
Fault(c) ==
  /\ phase[c] # "exited" /\ faults < MaxFaults
  /\ faults' = faults + 1
  /\ Exit(c)
  /\ UNCHANGED <<applied, recorded, pending>>

\* restart: unless-stopped.
Restart(c) ==
  /\ phase[c] = "exited"
  /\ Enter(c, "connect")
  /\ UNCHANGED <<conns, applied, recorded, pending, faults>>

StartStep(c) ==
  \/ ConnectRun(c)
  \/ ReadRecorded(c)
  \/ Execute(c)
  \/ Record(c)
  \/ CreatePool(c)
  \/ Restart(c)

=============================================================================
