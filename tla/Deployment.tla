----------------------------- MODULE Deployment -----------------------------
(***************************************************************************)
(* Starts of the program and calls of its MCP tools on one database        *)
(* server, whose connections they share.                                   *)
(***************************************************************************)
EXTENDS Migrate, McpTools

vars == <<conns, migrateVars, toolVars>>

Init == ServerInit /\ MigrateInit /\ ToolsInit

Start(c) ==
  /\ StartStep(c) \/ Grow(c) \/ Shrink(c) \/ Fault(c)
  /\ UNCHANGED toolVars

Tool(m) == (CallTool(m) \/ ToolStep(m)) /\ UNCHANGED migrateVars

Next ==
  \/ \E c \in Starts : Start(c)
  \/ \E m \in ToolCalls : Tool(m)

Spec == Init /\ [][Next]_vars

\* What an operator who looks at the database sees of the starts.
History ==
  INSTANCE SchemaHistory WITH
    executed <- Cardinality(applied),
    logged <- Cardinality(recorded),
    serving <- {c \in Starts : phase[c] = "serving"}

(***************************************************************************)
(* A start goes on, and Docker restarts it; a tool call that was made goes *)
(* on, since each of its calls has a timeout, and the driver closes what   *)
(* was left.  No request, tool call or fault has to happen.                *)
(***************************************************************************)
Fairness ==
  /\ \A c \in Starts : WF_vars(StartStep(c) /\ UNCHANGED toolVars)
  /\ \A m \in ToolCalls : WF_vars(ToolStep(m) /\ UNCHANGED migrateVars)

FairSpec == Spec /\ Fairness

-----------------------------------------------------------------------------
\* Properties.

\* The variables keep to their types, and whoever has gone has no connection.
TypeOK ==
  /\ conns \in [Clients -> Nat]
  /\ Cardinality(Open) <= MaxConnections
  /\ applied \cup recorded \subseteq Nat \ {0}
  /\ phase \in [Starts -> Phases]
  /\ pending \in [Starts -> SUBSET Nat]
  /\ faults \in 0..MaxFaults
  /\ call \in [ToolCalls -> Steps]
  /\ taken \subseteq ToolCalls
  /\ \A c \in Starts :
       /\ phase[c] \in {"connect", "pool", "exited"} => conns[c] = 0
       /\ phase[c] \in {"read", "execute", "record"} => conns[c] = 1
       /\ phase[c] = "serving" => conns[c] <= PoolSize
  /\ \A m \in ToolCalls : conns[m] <= 1 /\ (m \in taken => conns[m] = 1)

\* However often runs die between the execution of a migration and its
\* record, and however many run at once: what is recorded was executed.
RecordedIsApplied == recorded \subseteq applied

\* Each migration finds what the ones before it have made.
AppliedInOrder == \A n \in applied : 1..n \subseteq applied

\* An API that serves has all the schema its image knows.
ServingHasSchema == \A c \in Starts : phase[c] = "serving" => 1..Files[c] \subseteq applied

\* However many starts execute, record and die, the schema grows by one
\* migration at a time, the record follows before the next one is executed,
\* and an API comes up when the record has reached its image.
ImplementsHistory == History!Spec

\* A tool call leaves a connection behind only if it failed or was a search.
LeftByFailuresAndSearches ==
  \A m \in ToolCalls : call[m] = "result" /\ ToolOf[m] # "search" => conns[m] = 0

\* Every start serves in the end, whoever recorded a migration before it, and
\* whatever tool calls have left open: the duplicate key, the missing room
\* and the faults are overcome by starting again.
EveryStartServes == \A c \in Starts : <>[](phase[c] = "serving")

\* A tool call is answered: with a pool of one connection, it never waits for
\* another one than that which it holds.
ToolCallsAreAnswered == \A m \in ToolCalls : (call[m] = "pool") ~> (call[m] \in Answered)

=============================================================================
