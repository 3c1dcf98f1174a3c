--------------------------- MODULE IngestService ---------------------------
(***************************************************************************)
(* IngestService.ingest_url and ingest_file, reached over HTTP or MCP: the *)
(* calls of one request, in their order, interleaved with everything else. *)
(***************************************************************************)
EXTENDS JobQueue

VARIABLES
  pc,       \* what request r does next, or how it was answered
  uploads   \* the source ids under whose S3 key a file has been stored

serviceVars == <<pc, uploads>>

AfterUpsert == {"delete", "upload", "enqueue"}
InFlight == {"upsert"} \cup AfterUpsert

\* "rejected": failed before the upsert; "broken": failed or died after it.
ServiceTypeOK ==
  /\ pc \in [Requests -> {"idle", "accepted", "rejected", "broken"} \cup InFlight]
  /\ uploads \subseteq Requests

ServiceInit ==
  /\ pc = [r \in Requests |-> "idle"]
  /\ uploads = {}

IsUpload(r) == OriginOf[r] \in FileOrigins
Goto(r, next) == pc' = [pc EXCEPT ![r] = next]

-----------------------------------------------------------------------------

AssertCollectionExists(r) ==
  /\ pc[r] = "idle"
  /\ Goto(r, IF collection[CollectionOf[r]] = "live" THEN "upsert" ELSE "rejected")
  /\ UNCHANGED <<storeVars, queueVars, uploads>>

\* Mutant: the job is enqueued without waiting for the upload.
AfterCleanupUnstored(r) == "enqueue"

\* What follows the upsert and its cleanup: a file is uploaded first.
AfterCleanup(r) == IF IsUpload(r) THEN "upload" ELSE "enqueue"

\* A new source has nothing to clean up; a refreshed one has.
Upsert(r) ==
  /\ pc[r] = "upsert"
  /\ \/ /\ InsertSource(r)
        /\ source' = [source EXCEPT ![r] = r]
        /\ Goto(r, AfterCleanup(r))
     \/ \E s \in Requests :
          /\ ResetSource(r, s)
          /\ source' = [source EXCEPT ![r] = s]
          /\ Goto(r, "delete")
  /\ UNCHANGED <<step, tries, uploads>>

\* The foreign key to collections(id): it was deleted after the check.
UpsertRejected(r) ==
  /\ pc[r] = "upsert"
  /\ collection[CollectionOf[r]] # "live"
  /\ Goto(r, "rejected")
  /\ UNCHANGED <<storeVars, queueVars, uploads>>

DeleteOldChunks(r) ==
  /\ pc[r] = "delete"
  /\ DeleteChunks(source[r])
  /\ Goto(r, AfterCleanup(r))
  /\ UNCHANGED <<queueVars, uploads>>

UploadFile(r) ==
  /\ pc[r] = "upload"
  /\ uploads' = uploads \cup {source[r]}
  /\ Goto(r, "enqueue")
  /\ UNCHANGED <<storeVars, queueVars>>

EnqueueJob(r) ==
  /\ pc[r] = "enqueue"
  /\ Enqueue(r)
  /\ Goto(r, "accepted")
  /\ UNCHANGED <<storeVars, uploads>>

\* The enqueue is abandoned after 10 s, or its reply is lost, with the job
\* already in Redis.
EnqueueReplyLost(r) ==
  /\ pc[r] = "enqueue"
  /\ Enqueue(r)
  /\ Goto(r, "broken")
  /\ UNCHANGED <<storeVars, uploads>>

\* A call raises or times out, without an effect or just after the step that
\* models it, or the API process dies.
Abort(r) ==
  /\ pc[r] \in InFlight
  /\ Goto(r, IF pc[r] = "upsert" THEN "rejected" ELSE "broken")
  /\ UNCHANGED <<storeVars, queueVars, uploads>>

\* The code's own steps, and what may befall it.
IngestStep(r) ==
  \/ AssertCollectionExists(r)
  \/ Upsert(r)
  \/ UpsertRejected(r)
  \/ DeleteOldChunks(r)
  \/ UploadFile(r)
  \/ EnqueueJob(r)

IngestFault(r) == EnqueueReplyLost(r) \/ Abort(r)

=============================================================================
