------------------------------ MODULE McpTools ------------------------------
(***************************************************************************)
(* The MCP tools ask_collection, search_collection, ingest_url and         *)
(* ingest_file, as far as they differ from the routes: each call makes a   *)
(* pool of one connection and runs a service on it.  What the services do  *)
(* is in Questions, Search and IngestService.                              *)
(***************************************************************************)
EXTENDS PostgresServer

CONSTANT ToolOf   \* the tool of each call

ASSUME ToolsAssumption == ToolOf \in [ToolCalls -> {"ask", "search", "ingest"}]

VARIABLES
  call,   \* what a call does next, or how it was answered
  taken   \* the calls whose pool has handed out its connection

toolVars == <<call, taken>>

Answered == {"result", "toolerror"}
Steps == {"idle", "pool", "acquire", "run", "close"} \cup Answered

ToolsInit ==
  /\ call = [m \in ToolCalls |-> "idle"]
  /\ taken = {}

Step(m, next) == call' = [call EXCEPT ![m] = next]

CallTool(m) ==
  /\ call[m] = "idle"
  /\ Step(m, "pool")
  /\ UNCHANGED <<conns, taken>>

\* Only ask holds a connection for the whole of its run.
OpenPool(m) ==
  /\ call[m] = "pool"
  /\ Connect(m)
  /\ Step(m, IF ToolOf[m] = "ask" THEN "acquire" ELSE "run")
  /\ UNCHANGED taken

\* A file that is not base64 or too large; "Database connection unavailable",
\* for want of room or for another reason.
OpenPoolFails(m) ==
  /\ call[m] = "pool"
  /\ Step(m, "toolerror")
  /\ UNCHANGED <<conns, taken>>

AcquireOwn(m) ==
  /\ call[m] = "acquire" /\ m \notin taken
  /\ taken' = taken \cup {m}
  /\ Step(m, "run")
  /\ UNCHANGED conns

\* Mutant: every repository is given the pool, as the routes do it.
FromPool(m) == m \notin taken

\* ask gives its repository the connection, the others theirs the pool.
HasConnection(m) == ToolOf[m] = "ask" \/ m \notin taken

\* Mutant: ask returns its result before it closes the pool.
AfterRunForgetful(m) == IF ToolOf[m] = "ingest" THEN "close" ELSE "result"

\* search never closes its pool.
AfterRun(m) == IF ToolOf[m] = "search" THEN "result" ELSE "close"

Run(m) ==
  /\ call[m] = "run" /\ HasConnection(m)
  /\ Step(m, AfterRun(m))
  /\ taken' = taken \ {m}
  /\ UNCHANGED conns

\* An exception becomes a ToolError, on a way that does not close the pool.
RunFails(m) ==
  /\ call[m] = "run" /\ HasConnection(m)
  /\ Step(m, "toolerror")
  /\ taken' = taken \ {m}
  /\ UNCHANGED conns

\* Waits until the connection has been returned.
ClosePool(m) ==
  /\ call[m] = "close" /\ m \notin taken
  /\ Disconnect(m)
  /\ Step(m, "result")
  /\ UNCHANGED taken

\* asyncpg closes a connection that has been idle for 300 s.
Expire(m) ==
  /\ call[m] \in Answered
  /\ DisconnectOne(m)
  /\ UNCHANGED toolVars

ToolStep(m) ==
  \/ OpenPool(m)
  \/ OpenPoolFails(m)
  \/ AcquireOwn(m)
  \/ Run(m)
  \/ RunFails(m)
  \/ ClosePool(m)
  \/ Expire(m)

=============================================================================
