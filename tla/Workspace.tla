----------------------------- MODULE Workspace -----------------------------
(***************************************************************************)
(* The tables sessions, session_activity and briefs, below collections,    *)
(* and the connection pool of the API process (db.py), which the requests  *)
(* of Sessions and the questions of Questions share.                       *)
(*                                                                         *)
(* A session is named by the request that inserted it, an activity row by  *)
(* its question and a brief by the request that saved it: serial ids are   *)
(* never reused and none of them inserts twice.                            *)
(***************************************************************************)
EXTENDS Naturals, Sequences, FiniteSets

CONSTANTS
  Collections,  \* the collections there are at the beginning
  Calls,        \* the HTTP requests that may ever be made
  Questions,    \* the questions that may ever be asked
  PoolSize      \* max_size of the pool

ASSUME WorkspaceAssumption ==
  /\ PoolSize \in Nat \ {0}
  /\ Calls \cap Questions = {}
  /\ Collections \cap (Calls \X Collections) = {}

VARIABLES
  live,      \* the collections that exist
  sessions,  \* the sessions that exist, as <<the call that opened it, its collection>>
  opened,    \* history: those that ever existed
  activity,  \* the rows of session_activity
  briefs,    \* the rows of briefs
  holding    \* who holds a connection of the pool

tableVars == <<live, sessions, opened, activity, briefs>>

WorkspaceInit ==
  /\ live = Collections
  /\ sessions = {} /\ opened = {} /\ activity = {} /\ briefs = {}
  /\ holding = {}

-----------------------------------------------------------------------------
\* The pool.  acquire() has no timeout and serves the waiting in their order.

Available == Cardinality(holding) < PoolSize

Acquire(who) ==
  /\ Available
  /\ holding' = holding \cup {who}

Release(who) == holding' = holding \ {who}

-----------------------------------------------------------------------------
\* The tables.

\* Without its session no row of activity or briefs remains: ON DELETE CASCADE.
RemoveSessions(gone) ==
  /\ sessions' = sessions \ gone
  /\ activity' = {a \in activity : a.session \notin gone}
  /\ briefs' = {b \in briefs : b.session \notin gone}
  /\ UNCHANGED opened

\* Mutant: no ON DELETE CASCADE, and no foreign key either.
DeleteCollectionOnly(c) ==
  /\ c \in live
  /\ live' = live \ {c}
  /\ UNCHANGED <<sessions, opened, activity, briefs>>

\* DELETE FROM collections cascades to sessions and on to their rows.
DeleteCollection(c) ==
  /\ c \in live
  /\ live' = live \ {c}
  /\ RemoveSessions({s \in sessions : s[2] = c})

InsertSession(s) ==
  /\ s[2] \in live
  /\ sessions' = sessions \cup {s}
  /\ opened' = opened \cup {s}
  /\ UNCHANGED <<live, activity, briefs>>

DeleteSession(s) ==
  /\ s \in sessions
  /\ RemoveSessions({s})
  /\ UNCHANGED live

\* The foreign keys to sessions(id).
InsertActivity(row) ==
  /\ row.session \in sessions
  /\ activity' = activity \cup {row}
  /\ UNCHANGED <<live, sessions, opened, briefs>>

\* Mutant: one brief for a session, the last.
ReplaceBrief(row) ==
  /\ row.session \in sessions
  /\ briefs' = {b \in briefs : b.session # row.session} \cup {row}
  /\ UNCHANGED <<live, sessions, opened, activity>>

InsertBrief(row) ==
  /\ row.session \in sessions
  /\ briefs' = briefs \cup {row}
  /\ UNCHANGED <<live, sessions, opened, activity>>

=============================================================================
