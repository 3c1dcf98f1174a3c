--------------------------- MODULE PostgresServer ---------------------------
(***************************************************************************)
(* The database server as its clients meet it when they connect: so many   *)
(* connections and no more, and one that is refused raises at once.        *)
(***************************************************************************)
EXTENDS Naturals, FiniteSets

CONSTANTS
  Starts,          \* what entrypoint.sh starts: containers of the program
  ToolCalls,       \* the calls of MCP tools that may ever be made
  MaxConnections   \* the server's max_connections

ASSUME ServerAssumption ==
  MaxConnections \in Nat /\ Starts \cap ToolCalls = {}

VARIABLE conns   \* how many connections each client has open

Clients == Starts \cup ToolCalls

ServerInit == conns = [o \in Clients |-> 0]

\* The connections that are open, numbered within their client.
Open == UNION {{o} \X (1..conns[o]) : o \in Clients}

Room == Cardinality(Open) < MaxConnections

Connect(o) ==
  /\ Room
  /\ conns' = [conns EXCEPT ![o] = @ + 1]

\* All of its connections, or one.
Disconnect(o) == conns' = [conns EXCEPT ![o] = 0]
DisconnectOne(o) == conns[o] > 0 /\ conns' = [conns EXCEPT ![o] = @ - 1]

=============================================================================
