-------------------------- MODULE DeploymentProofs --------------------------
(***************************************************************************)
(* What TLAPS proves of Deployment, for any starts, images, tool calls and *)
(* bounds.                                                                 *)
(***************************************************************************)
EXTENDS Deployment, FiniteSetTheorems, TLAPS

-----------------------------------------------------------------------------
\* Types, and the connections of tool calls.

Types ==
  /\ conns \in [Clients -> Nat]
  /\ applied \subseteq Nat /\ recorded \subseteq Nat
  /\ phase \in [Starts -> Phases]
  /\ pending \in [Starts -> SUBSET Nat]
  /\ call \in [ToolCalls -> Steps]

LEMMA InitTypes == Init => Types
  BY DEF Init, ServerInit, MigrateInit, ToolsInit, Types, Phases, Steps

LEMMA ConnsKeepType ==
  ASSUME Types, NEW o \in Clients,
         \/ UNCHANGED conns \/ Connect(o) \/ Disconnect(o) \/ DisconnectOne(o)
  PROVE  conns' \in [Clients -> Nat]
  BY DEF Types, Connect, Disconnect, DisconnectOne

LEMMA StartTypes ==
  ASSUME Types, NEW c \in Starts, Start(c)
  PROVE  Types'
<1> USE MigrateAssumption DEF Types, Start, toolVars, migrateVars, Enter, Exit, Phases
<1>0. c \in Clients
  BY DEF Clients
<1>1. CASE ConnectRun(c) \/ CreatePool(c)
  BY <1>0, <1>1, ConnsKeepType DEF ConnectRun, CreatePool
<1>2. CASE ReadRecorded(c)
  BY <1>0, <1>2, ConnsKeepType DEF ReadRecorded, Proceed, Pending
<1>3. CASE Execute(c)
  BY <1>3 DEF Execute, IsNext
<1>4. CASE Record(c)
  <2>1. PICK n \in pending[c] :
          IF n \notin recorded
          THEN recorded' = recorded \cup {n} /\ Proceed(c, pending[c] \ {n})
          ELSE Exit(c) /\ UNCHANGED <<recorded, pending>>
    BY <1>4 DEF Record
  <2>2. n \in Nat /\ pending[c] \ {n} \subseteq Nat
    OBVIOUS
  <2>3. CASE n \notin recorded
    BY <1>0, <1>4, <2>1, <2>2, <2>3, ConnsKeepType DEF Record, Proceed
  <2>4. CASE n \in recorded
    BY <1>0, <1>4, <2>1, <2>4, ConnsKeepType DEF Record
  <2> QED BY <2>3, <2>4
<1>5. CASE Grow(c) \/ Shrink(c) \/ Fault(c) \/ Restart(c)
  BY <1>0, <1>5, ConnsKeepType DEF Grow, Shrink, Fault, Restart
<1> QED BY <1>1, <1>2, <1>3, <1>4, <1>5 DEF StartStep

LEMMA ToolTypes ==
  ASSUME Types, NEW m \in ToolCalls, Tool(m)
  PROVE  Types'
<1>1. m \in Clients
  BY DEF Clients
<1>2. UNCHANGED conns \/ Connect(m) \/ Disconnect(m) \/ DisconnectOne(m)
  BY DEF Tool, ToolStep, CallTool, OpenPool, OpenPoolFails, AcquireOwn, Run, RunFails, ClosePool, Expire
<1>3. conns' \in [Clients -> Nat]
  BY <1>1, <1>2, ConnsKeepType
<1>4. call' \in [ToolCalls -> Steps]
  BY DEF Types, Tool, ToolStep, CallTool, OpenPool, OpenPoolFails, AcquireOwn, Run, RunFails, ClosePool,
         Expire, toolVars, Step, AfterRun, Steps, Answered
<1> QED BY <1>3, <1>4 DEF Types, Tool, migrateVars

\* Only an error or a search leaves "run" for an answer without a close.
LEMMA LeftStep ==
  ASSUME Types, LeftByFailuresAndSearches, Next
  PROVE  LeftByFailuresAndSearches'
<1> SUFFICES ASSUME NEW m \in ToolCalls, call'[m] = "result", ToolOf[m] # "search"
             PROVE  conns'[m] = 0
  BY DEF LeftByFailuresAndSearches
<1>1. m \in Clients /\ m \notin Starts
  BY ServerAssumption DEF Clients
<1>2. CASE call[m] = "result" /\ conns'[m] = conns[m]
  BY <1>2 DEF LeftByFailuresAndSearches
<1>3. ASSUME NEW c \in Starts, Start(c)
      PROVE  call[m] = "result" /\ conns'[m] = conns[m]
  BY <1>1, <1>3 DEF Types, Start, StartStep, toolVars, ConnectRun, CreatePool, ReadRecorded,
       Execute, Record, Grow, Shrink, Fault, Restart, Proceed, Exit, Connect, Disconnect,
       DisconnectOne, Clients
<1>4. ASSUME NEW k \in ToolCalls, k # m, Tool(k)
      PROVE  call[m] = "result" /\ conns'[m] = conns[m]
  BY <1>1, <1>4 DEF Types, Tool, ToolStep, CallTool, OpenPool, OpenPoolFails, AcquireOwn, Run, RunFails,
       ClosePool, Expire, toolVars, Step, Connect, Disconnect, DisconnectOne, Clients
<1>5. ASSUME Tool(m) PROVE conns'[m] = 0
  <2>1. CASE ClosePool(m)
    BY <1>1, <2>1 DEF ClosePool, Disconnect, Types
  <2>2. CASE Expire(m)
    BY <2>2 DEF Expire, DisconnectOne, LeftByFailuresAndSearches, toolVars
  <2> QED
    BY <1>5, <2>1, <2>2 DEF Types, Tool, ToolStep, CallTool, OpenPool, OpenPoolFails, AcquireOwn, Run,
         RunFails, Step, AfterRun
<1> QED BY <1>2, <1>3, <1>4, <1>5 DEF Next

-----------------------------------------------------------------------------
\* The schema.  A run that is under way has nothing pending that its image
\* does not know, and all else its image knows has been recorded; what it
\* has executed and not yet recorded is its next migration.

RunKeepsTrack(c) ==
  /\ phase[c] \in {"execute", "record"} => 1..Files[c] \ pending[c] \subseteq recorded
  /\ phase[c] \in {"execute", "record"} => pending[c] \subseteq 1..Files[c]
  /\ phase[c] = "record" => \A n \in pending[c] : IsNext(c, n) => n \in applied
  /\ phase[c] \in {"pool", "serving"} => 1..Files[c] \subseteq recorded

SchemaInv ==
  /\ RecordedIsApplied
  /\ AppliedInOrder
  /\ \A c \in Starts : RunKeepsTrack(c)

LEMMA InitSchema == Init => SchemaInv
  BY DEF Init, MigrateInit, SchemaInv, RecordedIsApplied, AppliedInOrder, RunKeepsTrack

\* A start that another one's step leaves where it is keeps track: the tables
\* only grow.
LEMMA OthersKeepTrack ==
  ASSUME Types, NEW d \in Starts, RunKeepsTrack(d),
         applied \subseteq applied', recorded \subseteq recorded',
         phase'[d] = phase[d], pending'[d] = pending[d]
  PROVE  RunKeepsTrack(d)'
  BY DEF RunKeepsTrack, IsNext

LEMMA StartSchema ==
  ASSUME Types, SchemaInv, NEW c \in Starts, Start(c)
  PROVE  SchemaInv'
<1> USE DEF Types, SchemaInv, Start, migrateVars, Enter, Exit
<1>1. /\ applied \subseteq applied' /\ recorded \subseteq recorded'
      /\ \A d \in Starts \ {c} : phase'[d] = phase[d] /\ pending'[d] = pending[d]
  BY DEF StartStep, ConnectRun, CreatePool, ReadRecorded, Execute, Record, Grow, Shrink, Fault,
         Restart, Proceed
<1>2. \A d \in Starts \ {c} : RunKeepsTrack(d)'
  BY <1>1, OthersKeepTrack
<1>3. SUFFICES RecordedIsApplied' /\ AppliedInOrder' /\ RunKeepsTrack(c)'
  BY <1>2
<1>4. CASE ConnectRun(c) \/ Restart(c) \/ Fault(c) \/ Grow(c) \/ Shrink(c) \/ CreatePool(c)
  BY <1>4 DEF ConnectRun, Restart, Fault, Grow, Shrink, CreatePool, RunKeepsTrack,
              RecordedIsApplied, AppliedInOrder, IsNext
<1>5. CASE ReadRecorded(c)
  BY <1>5 DEF ReadRecorded, Proceed, Pending, RunKeepsTrack, RecordedIsApplied, AppliedInOrder
<1>6. CASE Execute(c)
  <2>1. PICK n \in pending[c] : IsNext(c, n) /\ applied' = applied \cup {n}
    BY <1>6 DEF Execute
  <2>2. UNCHANGED <<recorded, pending>> /\ phase[c] = "execute" /\ phase'[c] = "record"
    BY <1>6 DEF Execute
  <2>3. 1..n \subseteq applied'
    <3> SUFFICES ASSUME NEW k \in 1..n, k # n PROVE k \in applied
      BY <2>1
    <3>1. n \in 1..Files[c] /\ n \in Nat /\ Files[c] \in Nat
      BY <2>1, <2>2, MigrateAssumption DEF RunKeepsTrack
    <3>2. k \in 1..Files[c] /\ k < n
      BY <3>1
    <3>3. k \notin pending[c]
      BY <2>1, <3>1, <3>2 DEF IsNext
    <3>4. 1..Files[c] \ pending[c] \subseteq recorded
      BY <2>2 DEF RunKeepsTrack
    <3> QED BY <3>2, <3>3, <3>4 DEF RecordedIsApplied
  <2>4. AppliedInOrder'
    BY <2>1, <2>3 DEF AppliedInOrder
  <2>5. \A k \in pending[c] : IsNext(c, k) => k = n
    BY <2>1 DEF IsNext
  <2>6. RunKeepsTrack(c)'
    BY <2>1, <2>2, <2>5 DEF RunKeepsTrack, IsNext
  <2> QED BY <2>1, <2>2, <2>4, <2>6 DEF RecordedIsApplied
<1>7. CASE Record(c)
  <2>1. PICK n \in pending[c] :
          /\ IsNext(c, n)
          /\ IF n \notin recorded
             THEN recorded' = recorded \cup {n} /\ Proceed(c, pending[c] \ {n})
             ELSE Exit(c) /\ UNCHANGED <<recorded, pending>>
    BY <1>7 DEF Record
  <2>2. applied' = applied /\ phase[c] = "record" /\ n \in applied
    BY <1>7, <2>1 DEF Record, RunKeepsTrack
  <2>3. CASE n \notin recorded
    <3> DEFINE known == 1..Files[c]
               todo == pending[c] \ {n}
    <3>1. recorded' = recorded \cup {n} /\ Proceed(c, todo)
      BY <2>1, <2>3
    <3>2. known \ pending[c] \subseteq recorded /\ pending[c] \subseteq known
      BY <2>2 DEF RunKeepsTrack
    <3>3. known \ todo \subseteq recorded' /\ todo \subseteq known
      BY <3>1, <3>2
    <3>4. pending'[c] = todo /\ phase'[c] = IF todo = {} THEN "pool" ELSE "execute"
      BY <3>1 DEF Proceed
    <3>5. todo = {} => known \subseteq recorded'
      BY <3>3
    <3> HIDE DEF known, todo
    <3>6. RunKeepsTrack(c)'
      BY <3>3, <3>4, <3>5 DEF RunKeepsTrack, known
    <3> QED BY <2>2, <3>1, <3>6 DEF RecordedIsApplied, AppliedInOrder
  <2>4. CASE n \in recorded
    BY <2>1, <2>2, <2>4 DEF RunKeepsTrack, RecordedIsApplied, AppliedInOrder
  <2> QED BY <2>3, <2>4
<1> QED BY <1>4, <1>5, <1>6, <1>7 DEF StartStep

LEMMA IdleSchema ==
  ASSUME SchemaInv, UNCHANGED migrateVars
  PROVE  SchemaInv'
  BY DEF SchemaInv, RunKeepsTrack, RecordedIsApplied, AppliedInOrder, IsNext, migrateVars

-----------------------------------------------------------------------------
\* The connections of the server, and what each client holds of them.

ServerKeepsBound == IsFiniteSet(Open) /\ Cardinality(Open) <= MaxConnections

LEMMA OpenMembers ==
  \A x : x \in Open <=> \E o \in Clients : \E n \in 1..conns[o] : x = <<o, n>>
  BY DEF Open

\* One more connection if there is room, and otherwise never more.
LEMMA ServerStep ==
  ASSUME Types, ServerKeepsBound, NEW o \in Clients,
         \/ UNCHANGED conns \/ Connect(o) \/ Disconnect(o) \/ DisconnectOne(o)
  PROVE  ServerKeepsBound'
<1>0. conns' \in [Clients -> Nat]
  BY ConnsKeepType
<1>1. \A x : x \in Open' <=> \E q \in Clients : \E n \in 1..conns'[q] : x = <<q, n>>
  BY DEF Open
<1>2. CASE Connect(o)
  <2>1. Open' = Open \cup {<<o, conns[o] + 1>>}
    <3>1. \A q \in Clients : conns'[q] = IF q = o THEN conns[o] + 1 ELSE conns[q]
      BY <1>2 DEF Connect, Types
    <3>2. 1..(conns[o] + 1) = 1..conns[o] \cup {conns[o] + 1}
      BY DEF Types
    <3> QED BY <1>1, <3>1, <3>2, OpenMembers
  <2>2. Cardinality(Open) \in Nat /\ Cardinality(Open) < MaxConnections
    BY <1>2, FS_CardinalityType DEF Connect, Room, ServerKeepsBound
  <2>3. /\ IsFiniteSet(Open')
        /\ Cardinality(Open') \in {Cardinality(Open), Cardinality(Open) + 1}
    BY <2>1, FS_AddElement DEF ServerKeepsBound
  <2> QED BY <2>2, <2>3, ServerAssumption DEF ServerKeepsBound
<1>3. CASE UNCHANGED conns \/ Disconnect(o) \/ DisconnectOne(o)
  <2>1. \A q \in Clients : conns'[q] <= conns[q]
    BY <1>0, <1>3 DEF Disconnect, DisconnectOne, Types
  <2>2. \A q \in Clients : 1..conns'[q] \subseteq 1..conns[q]
    BY <1>0, <2>1 DEF Types
  <2>3. Open' \in SUBSET Open
    BY <1>1, <2>2, OpenMembers
  <2>4. IsFiniteSet(Open') /\ Cardinality(Open') <= Cardinality(Open)
    BY <2>3, FS_Subset DEF ServerKeepsBound
  <2>5. Cardinality(Open) \in Nat /\ Cardinality(Open') \in Nat
    BY <2>4, FS_CardinalityType DEF ServerKeepsBound
  <2> QED BY <2>4, <2>5, ServerAssumption DEF ServerKeepsBound
<1> QED BY <1>2, <1>3

StartHolds(c) ==
  /\ phase[c] \in {"connect", "pool", "exited"} => conns[c] = 0
  /\ phase[c] \in {"read", "execute", "record"} => conns[c] = 1
  /\ phase[c] = "serving" => conns[c] <= PoolSize

\* A pool is opened with its connection, ask takes it before it runs, and
\* nobody else takes it for longer than a call.
CallHolds(m) ==
  /\ call[m] \in {"idle", "pool"} => conns[m] = 0
  /\ call[m] \in {"acquire", "run", "close"} => conns[m] = 1
  /\ conns[m] <= 1
  /\ call[m] = "acquire" => ToolOf[m] = "ask"
  /\ m \in taken => call[m] = "run" /\ ToolOf[m] = "ask"

Holding ==
  /\ ServerKeepsBound
  /\ taken \subseteq ToolCalls
  /\ faults \in 0..MaxFaults
  /\ 0 \notin applied \cup recorded
  /\ \A c \in Starts : StartHolds(c)
  /\ \A m \in ToolCalls : CallHolds(m)

LEMMA InitHolding == Init => Holding
<1> SUFFICES ASSUME Init PROVE Holding
  OBVIOUS
<1>1. \A o \in Clients : conns[o] = 0
  BY DEF Init, ServerInit
<1>2. Open = {}
  BY <1>1, OpenMembers
<1>3. ServerKeepsBound
  BY <1>2, FS_EmptySet, ServerAssumption DEF ServerKeepsBound
<1> QED
  BY <1>1, <1>3, MigrateAssumption
  DEF Init, MigrateInit, ToolsInit, Holding, StartHolds, CallHolds, Clients

LEMMA StartHolding ==
  ASSUME Types, Holding, SchemaInv, NEW c \in Starts, Start(c)
  PROVE  Holding'
<1> USE MigrateAssumption DEF Types, Start, toolVars, migrateVars, Enter, Exit, Phases
<1>0. c \in Clients /\ c \notin ToolCalls /\ \A m \in ToolCalls : m \in Clients
  BY ServerAssumption DEF Clients
<1>1. \/ UNCHANGED conns \/ Connect(c) \/ Disconnect(c) \/ DisconnectOne(c)
  BY DEF StartStep, ConnectRun, CreatePool, ReadRecorded, Execute, Record, Proceed, Grow, Shrink,
         Fault, Restart
<1>2. ServerKeepsBound'
  BY <1>0, <1>1, ServerStep DEF Holding
<1>3. \A o \in Clients \ {c} : conns'[o] = conns[o]
  BY <1>1 DEF Connect, Disconnect, DisconnectOne
<1>4. \A m \in ToolCalls : CallHolds(m)'
  BY <1>0, <1>3 DEF Holding, CallHolds
<1>5. \A d \in Starts \ {c} : phase'[d] = phase[d]
  BY DEF StartStep, ConnectRun, CreatePool, ReadRecorded, Execute, Record, Proceed, Grow, Shrink,
         Fault, Restart
<1>6. \A d \in Starts \ {c} : StartHolds(d)'
  BY <1>3, <1>5 DEF Holding, StartHolds, Clients
<1>7. StartHolds(c)'
  <2> USE <1>0 DEF Holding, StartHolds, Connect, Disconnect, DisconnectOne
  <2>1. CASE ConnectRun(c) \/ CreatePool(c)
    BY <2>1 DEF ConnectRun, CreatePool
  <2>2. CASE ReadRecorded(c)
    BY <2>2 DEF ReadRecorded, Proceed
  <2>3. CASE Execute(c)
    BY <2>3 DEF Execute
  <2>4. CASE Record(c)
    BY <2>4 DEF Record, Proceed
  <2>5. CASE Grow(c) \/ Shrink(c) \/ Fault(c) \/ Restart(c)
    BY <2>5 DEF Grow, Shrink, Fault, Restart
  <2> QED BY <2>1, <2>2, <2>3, <2>4, <2>5 DEF StartStep
<1>8. faults' \in 0..MaxFaults
  BY DEF Holding, StartStep, ConnectRun, CreatePool, ReadRecorded, Execute, Record, Grow,
         Shrink, Fault, Restart
<1>9. 0 \notin applied' \cup recorded'
  <2>1. phase[c] \in {"execute", "record"} => 0 \notin pending[c]
    BY DEF SchemaInv, RunKeepsTrack
  <2> QED
    BY <2>1 DEF Holding, StartStep, ConnectRun, CreatePool, ReadRecorded, Execute, Record, Grow,
                Shrink, Fault, Restart
<1> QED BY <1>2, <1>4, <1>6, <1>7, <1>8, <1>9 DEF Holding

LEMMA ToolHolding ==
  ASSUME Types, Holding, NEW m \in ToolCalls, Tool(m)
  PROVE  Holding'
<1> USE DEF Types, Tool, toolVars, migrateVars, Step
<1>0. m \in Clients /\ m \notin Starts /\ \A c \in Starts : c \in Clients
  BY ServerAssumption DEF Clients
<1>1. \/ UNCHANGED conns \/ Connect(m) \/ Disconnect(m) \/ DisconnectOne(m)
  BY DEF ToolStep, CallTool, OpenPool, OpenPoolFails, AcquireOwn, Run, RunFails, ClosePool, Expire
<1>2. ServerKeepsBound'
  BY <1>0, <1>1, ServerStep DEF Holding
<1>3. \A o \in Clients \ {m} : conns'[o] = conns[o]
  BY <1>1 DEF Connect, Disconnect, DisconnectOne
<1>4. \A c \in Starts : StartHolds(c)'
  BY <1>0, <1>3 DEF Holding, StartHolds
<1>5. /\ \A k \in ToolCalls \ {m} : call'[k] = call[k] /\ (k \in taken' <=> k \in taken)
      /\ taken' \subseteq ToolCalls
  BY DEF Holding, ToolStep, CallTool, OpenPool, OpenPoolFails, AcquireOwn, Run, RunFails,
         ClosePool, Expire
<1>6. \A k \in ToolCalls \ {m} : CallHolds(k)'
  BY <1>3, <1>5 DEF Holding, CallHolds, Clients
<1>7. CallHolds(m)'
  <2> USE <1>0, ToolsAssumption DEF Holding, CallHolds, Connect, Disconnect, DisconnectOne
  <2>1. CASE CallTool(m) \/ OpenPool(m) \/ OpenPoolFails(m)
    BY <2>1 DEF CallTool, OpenPool, OpenPoolFails
  <2>2. CASE AcquireOwn(m)
    BY <2>2 DEF AcquireOwn
  <2>3. CASE Run(m) \/ RunFails(m)
    BY <2>3 DEF Run, RunFails, AfterRun
  <2>4. CASE ClosePool(m)
    BY <2>4 DEF ClosePool
  <2>5. CASE Expire(m)
    BY <2>5 DEF Expire, Answered
  <2> QED BY <2>1, <2>2, <2>3, <2>4, <2>5 DEF ToolStep
<1> QED BY <1>2, <1>4, <1>5, <1>6, <1>7 DEF Holding

LEMMA IdleHolding ==
  ASSUME Holding, UNCHANGED vars
  PROVE  Holding'
  BY DEF Holding, ServerKeepsBound, Open, StartHolds, CallHolds, vars, toolVars, migrateVars

-----------------------------------------------------------------------------

DeploymentInv == Types /\ SchemaInv /\ Holding /\ LeftByFailuresAndSearches

LEMMA DeploymentInvariant == Spec => []DeploymentInv
<1>1. Init => DeploymentInv
  BY InitTypes, InitSchema, InitHolding
  DEF DeploymentInv, LeftByFailuresAndSearches, Init, ToolsInit
<1>2. DeploymentInv /\ [Next]_vars => DeploymentInv'
  <2> SUFFICES ASSUME DeploymentInv, [Next]_vars PROVE DeploymentInv'
    OBVIOUS
  <2>1. ASSUME NEW c \in Starts, Start(c) PROVE Types' /\ SchemaInv' /\ Holding'
    BY <2>1, StartTypes, StartSchema, StartHolding DEF DeploymentInv
  <2>2. ASSUME NEW m \in ToolCalls, Tool(m) PROVE Types' /\ SchemaInv' /\ Holding'
    BY <2>2, ToolTypes, IdleSchema, ToolHolding DEF DeploymentInv, Tool
  <2>3. CASE Next
    BY <2>1, <2>2, <2>3, LeftStep DEF DeploymentInv, Next
  <2>4. CASE UNCHANGED vars
    BY <2>4, IdleSchema, IdleHolding
    DEF vars, toolVars, migrateVars, DeploymentInv, Types, LeftByFailuresAndSearches
  <2> QED BY <2>3, <2>4
<1> QED BY <1>1, <1>2, PTL DEF Spec

\* The server never has more connections than it takes, each start and each
\* call holds those of its phase, and who has gone holds none.
THEOREM TypeTheorem == Spec => []TypeOK
<1>1. DeploymentInv => TypeOK
  BY DEF DeploymentInv, Types, Holding, ServerKeepsBound, StartHolds, CallHolds, TypeOK
<1> QED BY <1>1, DeploymentInvariant, PTL

\* A tool call that runs a service has the connection this takes, and one
\* that opens or closes its pool finds its connection free: with the fairness
\* of FairSpec this is why every call is answered.
ToolsNeverWait ==
  \A m \in ToolCalls :
    /\ call[m] = "run" => HasConnection(m)
    /\ call[m] \in {"acquire", "close"} => m \notin taken

\* No tool call ever waits for the connection that it holds itself.
THEOREM ToolsTheorem == Spec => []ToolsNeverWait
<1>1. DeploymentInv => ToolsNeverWait
  BY DEF DeploymentInv, Holding, CallHolds, ToolsNeverWait, HasConnection
<1> QED BY <1>1, DeploymentInvariant, PTL

\* What is recorded was executed, whatever crashes and however many run.
THEOREM RecordedTheorem == Spec => []RecordedIsApplied
  BY DeploymentInvariant, PTL DEF DeploymentInv, SchemaInv

\* No migration is in the schema without all those before it.
THEOREM OrderTheorem == Spec => []AppliedInOrder
  BY DeploymentInvariant, PTL DEF DeploymentInv, SchemaInv

\* An API that serves has all the schema its image knows.
THEOREM SchemaTheorem == Spec => []ServingHasSchema
<1>1. DeploymentInv => ServingHasSchema
  BY DEF DeploymentInv, SchemaInv, RunKeepsTrack, RecordedIsApplied, ServingHasSchema
<1> QED BY <1>1, DeploymentInvariant, PTL

\* Only failures and searches leave the connection of a tool call open.
THEOREM LeftTheorem == Spec => []LeftByFailuresAndSearches
  BY DeploymentInvariant, PTL DEF DeploymentInv

-----------------------------------------------------------------------------
\* The schema as SchemaHistory counts it.

\* The record has no gaps, and the schema is at most one migration ahead.
Counted(k) == recorded = 1..k /\ applied \in {1..k, 1..(k + 1)}

Aligned == \E k \in Nat : Counted(k)

Serving == {c \in Starts : phase[c] = "serving"}

LEMMA CountOf == \A k \in Nat : Cardinality(1..k) = k /\ Cardinality(1..(k + 1)) = k + 1
  BY FS_Interval

LEMMA CountedSteps ==
  ASSUME NEW k \in Nat, Counted(k), applied' = applied, recorded' = recorded
  PROVE  /\ Counted(k)'
         /\ Cardinality(applied)' = Cardinality(applied)
         /\ Cardinality(recorded)' = Cardinality(recorded)
  BY DEF Counted

\* The next migration of a run is the one after the record, or it is in the
\* schema already: executed by a start that has not recorded it, or by this
\* one before it died.
LEMMA NextMigration ==
  ASSUME Types, SchemaInv, NEW k \in Nat, Counted(k), NEW c \in Starts,
         phase[c] \in {"execute", "record"}, NEW n \in pending[c], IsNext(c, n)
  PROVE  n \in 1..Files[c] /\ Files[c] \in Nat /\ n <= k + 1
<1>1. Files[c] \in Nat /\ n \in 1..Files[c]
  BY MigrateAssumption DEF SchemaInv, RunKeepsTrack
<1>2. ASSUME n > k + 1 PROVE FALSE
  <2>1. k + 1 \in 1..Files[c] /\ k + 1 \notin 1..k
    BY <1>1, <1>2
  <2>2. k + 1 \notin pending[c]
    BY <1>1, <1>2 DEF IsNext
  <2> QED BY <2>1, <2>2 DEF SchemaInv, RunKeepsTrack, Counted
<1> QED BY <1>1, <1>2

LEMMA ExecuteRefines ==
  ASSUME Types, SchemaInv, NEW k \in Nat, Counted(k), NEW c \in Starts, Execute(c)
  PROVE  Aligned' /\ [History!Next]_(History!historyVars)
<1>1. PICK n \in pending[c] : IsNext(c, n) /\ applied' = applied \cup {n}
  BY DEF Execute
<1>2. recorded' = recorded /\ Serving' = Serving
  BY DEF Execute, Enter, Serving, Types
<1>3. n \in 1..Files[c] /\ Files[c] \in Nat /\ n <= k + 1
  BY <1>1, NextMigration DEF Execute
<1>4. CASE n \in applied
  <2>1. applied' = applied
    BY <1>1, <1>4
  <2> QED BY <1>2, <2>1, CountedSteps DEF Aligned, History!historyVars, Serving
<1>5. CASE n \notin applied
  <2>1. n = k + 1 /\ applied = 1..k
    BY <1>3, <1>5 DEF Counted
  <2>2. applied' = 1..(k + 1)
    BY <1>1, <2>1
  <2>3. Counted(k)'
    BY <1>2, <2>2 DEF Counted
  <2>4. /\ Cardinality(applied) = k /\ Cardinality(applied') = k + 1
        /\ Cardinality(recorded) = k
    BY <2>1, <2>2, CountOf DEF Counted
  <2>5. k < Files[c]
    BY <1>3, <2>1
  <2>6. History!Execute
    BY <1>2, <2>4, <2>5 DEF History!Execute, Serving
  <2> QED BY <2>3, <2>6 DEF Aligned, History!Next
<1> QED BY <1>4, <1>5

LEMMA RecordRefines ==
  ASSUME Types, SchemaInv, NEW k \in Nat, Counted(k), NEW c \in Starts, Record(c)
  PROVE  Aligned' /\ [History!Next]_(History!historyVars)
<1>1. PICK n \in pending[c] :
        /\ IsNext(c, n)
        /\ IF n \notin recorded
           THEN recorded' = recorded \cup {n} /\ Proceed(c, pending[c] \ {n})
           ELSE Exit(c) /\ UNCHANGED <<recorded, pending>>
  BY DEF Record
<1>2. applied' = applied /\ Serving' = Serving
  BY <1>1 DEF Record, Proceed, Exit, Enter, Serving, Types
<1>3. n \in 1..Files[c] /\ n <= k + 1 /\ n \in applied
  BY <1>1, NextMigration DEF Record, SchemaInv, RunKeepsTrack
<1>4. CASE n \in recorded
  BY <1>1, <1>2, <1>4, CountedSteps DEF Aligned, History!historyVars, Serving
<1>5. CASE n \notin recorded
  <2>1. n = k + 1 /\ applied = 1..(k + 1)
    BY <1>3, <1>5 DEF Counted
  <2>2. recorded' = 1..(k + 1)
    <3>1. recorded' = 1..k \cup {k + 1}
      BY <1>1, <1>5, <2>1 DEF Counted
    <3>2. 1..(k + 1) = 1..k \cup {k + 1}
      OBVIOUS
    <3> QED BY <3>1, <3>2
  <2>3. k + 1 \in Nat /\ Counted(k + 1)'
    BY <1>2, <2>1, <2>2 DEF Counted
  <2>4. /\ Cardinality(recorded) = k /\ Cardinality(recorded') = k + 1
        /\ Cardinality(applied) = k + 1
    BY <2>1, <2>2, CountOf DEF Counted
  <2>5. History!Record
    BY <1>2, <2>4 DEF History!Record, Serving
  <2> QED BY <2>3, <2>5 DEF Aligned, History!Next
<1> QED BY <1>4, <1>5

\* All other steps leave the tables alone, and one of them starts or ends an
\* API at most.
LEMMA ServeRefines ==
  ASSUME Types, SchemaInv, NEW k \in Nat, Counted(k), NEW c \in Starts, Start(c),
         ~ Execute(c), ~ Record(c)
  PROVE  Aligned' /\ [History!Next]_(History!historyVars)
<1>1. applied' = applied /\ recorded' = recorded
  BY DEF Start, StartStep, ConnectRun, ReadRecorded, CreatePool, Grow, Shrink, Fault, Restart,
         migrateVars
<1>2. /\ Aligned'
      /\ Cardinality(applied)' = Cardinality(applied)
      /\ Cardinality(recorded)' = Cardinality(recorded)
  BY <1>1, CountedSteps DEF Aligned
<1>3. \/ Serving' = Serving
      \/ phase[c] = "pool" /\ Serving' = Serving \cup {c}
      \/ c \in Serving /\ Serving' = Serving \ {c}
  BY DEF Types, Start, StartStep, ConnectRun, ReadRecorded, CreatePool, Grow, Shrink, Fault,
         Restart, Proceed, Enter, Exit, migrateVars, Serving
<1>4. ASSUME phase[c] = "pool" PROVE c \notin Serving /\ Files[c] <= Cardinality(recorded)
  <2>1. 1..Files[c] \subseteq 1..k /\ Files[c] \in Nat
    BY <1>4, MigrateAssumption DEF SchemaInv, RunKeepsTrack, Counted
  <2>2. Files[c] <= k
    BY <2>1
  <2> QED BY <1>4, <2>2, CountOf DEF Counted, Serving
<1>5. \/ UNCHANGED History!historyVars
      \/ History!Serve(c)
      \/ History!Stop(c)
  BY <1>2, <1>3, <1>4 DEF History!historyVars, History!Serve, History!Stop, Serving
<1> QED BY <1>2, <1>5 DEF History!Next

\* Any number of starts, of whatever images and however often they die, is
\* seen as one growing schema, of which at most the last migration has not
\* been recorded.
THEOREM HistoryTheorem == Spec => ImplementsHistory
<1>1. Init => History!Init /\ Aligned
  <2> SUFFICES ASSUME Init PROVE History!Init /\ Aligned
    OBVIOUS
  <2>1. applied = {} /\ recorded = {} /\ Serving = {}
    BY DEF Init, MigrateInit, Serving
  <2>2. Counted(0)
    BY <2>1 DEF Counted
  <2> QED BY <2>1, <2>2, FS_EmptySet DEF Aligned, History!Init, Serving
<1>2. DeploymentInv /\ Aligned /\ [Next]_vars => Aligned' /\ [History!Next]_(History!historyVars)
  <2> SUFFICES ASSUME DeploymentInv, Aligned, [Next]_vars
               PROVE  Aligned' /\ [History!Next]_(History!historyVars)
    OBVIOUS
  <2>0. PICK k \in Nat : Counted(k)
    BY DEF Aligned
  <2>1. ASSUME NEW c \in Starts, Start(c)
        PROVE  Aligned' /\ [History!Next]_(History!historyVars)
    BY <2>0, <2>1, ExecuteRefines, RecordRefines, ServeRefines DEF DeploymentInv
  <2>2. CASE UNCHANGED migrateVars
    BY <2>0, <2>2, CountedSteps DEF migrateVars, Aligned, History!historyVars
  <2> QED BY <2>1, <2>2 DEF Next, Tool, vars
<1>3. Spec => [](Aligned /\ DeploymentInv)
  BY <1>1, <1>2, DeploymentInvariant, PTL DEF Spec
<1> QED BY <1>1, <1>2, <1>3, PTL DEF Spec, ImplementsHistory, History!Spec

=============================================================================
