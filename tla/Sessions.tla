------------------------------ MODULE Sessions ------------------------------
(***************************************************************************)
(* The HTTP requests that hold one connection of the pool for all of their *)
(* statements: those on sessions and briefs (sessions/router.py,           *)
(* briefs/router.py), on collections (collections/router.py), the two that *)
(* read sources (sources/router.py) and the readiness probe (health.py).   *)
(* None of them opens a transaction.                                       *)
(***************************************************************************)
EXTENDS Workspace

CONSTANT Kinds   \* what the requests of an instance are for

Opening == {"open", "sessions"}                \* POST, GET /sessions
OnSession == {"get", "close", "save", "briefs"} \* of a session
OnCollection == {"remove", "sources", "source"} \* of a collection
OnNothing == {"collections", "ready"}          \* GET /collections, /health/ready

ASSUME KindsAssumption ==
  Kinds \subseteq Opening \cup OnSession \cup OnCollection \cup OnNothing

VARIABLES
  kind,     \* what a call is for
  target,   \* the collection or the session it names
  step,     \* what it does next, or how it was answered
  rows,     \* who made the rows it has read
  known     \* history: whose rows its client knew to be there when it sent it

callVars == <<kind, target, step, rows, known>>

Statements == {"exists", "main"}
Responses == {"created", "ok", "deleted", "notfound", "error", "unready"}

NoTarget == <<>>

\* A client names a collection, or a session that was opened once.
Targets(k) ==
  CASE k \in OnSession -> opened
    [] k \in Opening \cup OnCollection -> Collections
    [] OTHER -> {NoTarget}

SessionsInit ==
  /\ kind = [c \in Calls |-> "none"]
  /\ target = [c \in Calls |-> NoTarget]
  /\ step = [c \in Calls |-> "idle"]
  /\ rows = [c \in Calls |-> {}]
  /\ known = [c \in Calls |-> {}]

\* A client that knows of the rows of seen sends a request.
Send(c, k, t, seen) ==
  /\ step[c] = "idle"
  /\ kind' = [kind EXCEPT ![c] = k]
  /\ target' = [target EXCEPT ![c] = t]
  /\ known' = [known EXCEPT ![c] = seen]
  /\ step' = [step EXCEPT ![c] = "acquire"]
  /\ UNCHANGED <<tableVars, holding, rows>>

\* These look for their collection or session first.
ChecksFirst == {"open", "get", "save", "briefs", "sources"}

AcquireForCall(c) ==
  /\ step[c] = "acquire"
  /\ Acquire(c)
  /\ step' = [step EXCEPT ![c] = IF kind[c] \in ChecksFirst THEN "exists" ELSE "main"]
  /\ UNCHANGED <<tableVars, kind, target, rows, known>>

\* Mutant: the connection is not released.
RespondHolding(c, how) ==
  /\ step' = [step EXCEPT ![c] = how]
  /\ UNCHANGED holding

Respond(c, how) ==
  /\ step' = [step EXCEPT ![c] = how]
  /\ Release(c)

\* Mutant: one query instead, with an inner join.
ExistsWithRows(c) ==
  IF kind[c] \in OnSession THEN \E a \in activity : a.session = target[c] /\ target[c] \in sessions
  ELSE target[c] \in live

Exists(c) == IF kind[c] \in OnSession THEN target[c] \in sessions ELSE target[c] \in live

\* SELECT 1, or for a "get" the session's row.
CheckTarget(c) ==
  /\ step[c] = "exists"
  /\ IF Exists(c)
     THEN step' = [step EXCEPT ![c] = "main"] /\ UNCHANGED holding
     ELSE Respond(c, "notfound")
  /\ UNCHANGED <<tableVars, kind, target, rows, known>>

\* INSERT, each into its table.
OpenSession(c) == kind[c] = "open" /\ InsertSession(<<c, target[c]>>)
SaveBrief(c) == kind[c] = "save" /\ InsertBrief([session |-> target[c], by |-> c])

Insert(c) == OpenSession(c) \/ SaveBrief(c)

Create(c) ==
  /\ step[c] = "main"
  /\ Insert(c)
  /\ Respond(c, "created")
  /\ UNCHANGED <<kind, target, rows, known>>

\* A SELECT, for a request of kind k, that finds the rows made by found.
Select(c, k, found) ==
  /\ step[c] = "main" /\ kind[c] = k
  /\ rows' = [rows EXCEPT ![c] = found]
  /\ Respond(c, "ok")
  /\ UNCHANGED <<tableVars, kind, target, known>>

\* The trail and the briefs are those of a session that may have gone by now.
GetSession(c) == Select(c, "get", {a.by : a \in {x \in activity : x.session = target[c]}})
ListBriefs(c) == Select(c, "briefs", {b.by : b \in {x \in briefs : x.session = target[c]}})
ListSessions(c) == Select(c, "sessions", {s[1] : s \in {x \in sessions : x[2] = target[c]}})

\* The rows of these are not followed here.
ListSources(c) == Select(c, "sources", {})
ListCollections(c) == Select(c, "collections", {})
Readiness(c) == Select(c, "ready", {})

\* One source of a collection: each has had one, which goes with it.
GetSource(c) ==
  /\ step[c] = "main" /\ kind[c] = "source"
  /\ Respond(c, IF target[c] \in live THEN "ok" ELSE "notfound")
  /\ UNCHANGED <<tableVars, kind, target, rows, known>>

\* DELETE, of what is there.
CloseSession(c) == kind[c] = "close" /\ DeleteSession(target[c])
RemoveCollection(c) == kind[c] = "remove" /\ DeleteCollection(target[c])

Delete(c) == CloseSession(c) \/ RemoveCollection(c)

DeleteTarget(c) ==
  /\ step[c] = "main" /\ kind[c] \in {"close", "remove"}
  /\ IF Exists(c)
     THEN Delete(c) /\ Respond(c, "deleted")
     ELSE UNCHANGED tableVars /\ Respond(c, "notfound")
  /\ UNCHANGED <<kind, target, rows, known>>

\* The connection cannot be made, a statement raises or takes longer than it
\* may: the client sees a 500, or a 503 from the probe.  So it does when what
\* was checked is gone and the foreign key refuses the row.
Fails(c) ==
  /\ step[c] \in Statements \/ (step[c] = "acquire" /\ Available)
  /\ Respond(c, IF kind[c] = "ready" THEN "unready" ELSE "error")
  /\ UNCHANGED <<tableVars, kind, target, rows, known>>

\* The timeout strikes when the row is committed: an error all the same.
CommitUnseen(c) ==
  /\ step[c] = "main"
  /\ Insert(c) \/ Delete(c)
  /\ Respond(c, "error")
  /\ UNCHANGED <<kind, target, rows, known>>

CallStep(c) ==
  \/ AcquireForCall(c)
  \/ CheckTarget(c)
  \/ Create(c)
  \/ GetSession(c)
  \/ ListBriefs(c)
  \/ ListSessions(c)
  \/ ListSources(c)
  \/ ListCollections(c)
  \/ Readiness(c)
  \/ GetSource(c)
  \/ DeleteTarget(c)
  \/ Fails(c)

=============================================================================
