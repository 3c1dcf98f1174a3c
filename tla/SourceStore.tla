---------------------------- MODULE SourceStore ----------------------------
(***************************************************************************)
(* The tables collections, sources and chunks (migrations/001, 003) and    *)
(* the SQL statements the ingest service and the worker run on them.  Both *)
(* use a pool and open no transaction, so one statement is one step.       *)
(*                                                                         *)
(* A source row is named by the ingest request that inserted it: serial    *)
(* ids are never reused and a request inserts at most one row.  Its        *)
(* columns collection_id and origin are those of that request, and no      *)
(* statement changes them.                                                 *)
(***************************************************************************)
EXTENDS Naturals, FiniteSets

CONSTANTS
  Requests,      \* the ingest requests that may ever be made
  Collections,   \* collection ids
  Origins,       \* URLs and the file:// placeholders of uploads
  FileOrigins,   \* the origins that are file:// placeholders
  CollectionOf,  \* the collection each request names
  OriginOf       \* the origin each request names

ASSUME RequestAssumption ==
  /\ FileOrigins \subseteq Origins
  /\ CollectionOf \in [Requests -> Collections]
  /\ OriginOf \in [Requests -> Origins]

VARIABLES
  collection,  \* per id: not yet created, live, or deleted
  status,      \* sources.status, "absent" where there is no row
  reason,      \* sources.failed_reason: the step that raised, or "null"
  chunks       \* the rows of chunks, each marked with the run that wrote it

storeVars == <<collection, status, reason, chunks>>

Statuses == {"pending", "processing", "ready", "failed"}
Reasons == {"null", "fetch", "nofile", "index", "unseen"}
Chunk == [src : Requests, job : Requests, run : Nat, pos : Nat]

StoreTypeOK ==
  /\ collection \in [Collections -> {"none", "live", "deleted"}]
  /\ status \in [Requests -> Statuses \cup {"absent"}]
  /\ reason \in [Requests -> Reasons]
  /\ chunks \subseteq Chunk

StoreInit ==
  /\ collection = [c \in Collections |-> "none"]
  /\ status = [s \in Requests |-> "absent"]
  /\ reason = [s \in Requests |-> "null"]
  /\ chunks = {}

Sources == {s \in Requests : status[s] # "absent"}
ChunksOf(s) == {c \in chunks : c.src = s}

-----------------------------------------------------------------------------
\* Collections.

CreateCollection(c) ==
  /\ collection[c] = "none"
  /\ collection' = [collection EXCEPT ![c] = "live"]
  /\ UNCHANGED <<status, reason, chunks>>

\* DELETE FROM collections, with ON DELETE CASCADE to sources and to chunks.
DeleteCollection(c) ==
  LET gone == {s \in Sources : CollectionOf[s] = c}
  IN  /\ collection[c] = "live"
      /\ collection' = [collection EXCEPT ![c] = "deleted"]
      /\ status' = [s \in Requests |-> IF s \in gone THEN "absent" ELSE status[s]]
      /\ reason' = [s \in Requests |-> IF s \in gone THEN "null" ELSE reason[s]]
      /\ chunks' = {k \in chunks : k.src \notin gone}

-----------------------------------------------------------------------------
\* Sources.  UNIQUE (collection_id, origin) makes s the conflicting row of r.

SameKey(r, s) == CollectionOf[r] = CollectionOf[s] /\ OriginOf[r] = OriginOf[s]

\* The INSERT arm of the upsert: the new row is r.
InsertSource(r) ==
  /\ collection[CollectionOf[r]] = "live"
  /\ \A s \in Sources : ~ SameKey(r, s)
  /\ status' = [status EXCEPT ![r] = "pending"]
  /\ reason' = [reason EXCEPT ![r] = "null"]
  /\ UNCHANGED <<collection, chunks>>

\* The ON CONFLICT arm: the status is reset, failed_reason is left alone.
ResetSource(r, s) ==
  /\ s \in Sources /\ SameKey(r, s)
  /\ status' = [status EXCEPT ![s] = "pending"]
  /\ UNCHANGED <<collection, reason, chunks>>

\* UPDATE ... WHERE id = s: the callers' RuntimeError when no row matches.
SetProcessing(s) ==
  /\ s \in Sources
  /\ status' = [status EXCEPT ![s] = "processing"]
  /\ reason' = [reason EXCEPT ![s] = "null"]
  /\ UNCHANGED <<collection, chunks>>

SetReady(s) ==
  /\ s \in Sources
  /\ status' = [status EXCEPT ![s] = "ready"]
  /\ UNCHANGED <<collection, reason, chunks>>

SetFailed(s, why) ==
  /\ s \in Sources
  /\ status' = [status EXCEPT ![s] = "failed"]
  /\ reason' = [reason EXCEPT ![s] = why]
  /\ UNCHANGED <<collection, chunks>>

-----------------------------------------------------------------------------
\* Chunks.

DeleteChunks(s) ==
  /\ chunks' = {c \in chunks : c.src # s}
  /\ UNCHANGED <<collection, status, reason>>

\* Mutant: no foreign key from chunks to sources.
InsertOrphan(c) ==
  /\ chunks' = chunks \cup {c}
  /\ UNCHANGED <<collection, status, reason>>

\* The foreign key to sources(id) rejects a chunk of a source that is gone.
InsertChunk(c) ==
  /\ c.src \in Sources
  /\ chunks' = chunks \cup {c}
  /\ UNCHANGED <<collection, status, reason>>

=============================================================================
