--------------------------- MODULE SourcePipeline ---------------------------
(***************************************************************************)
(* The ingest pipeline: requests (IngestService) and worker runs (Worker)  *)
(* over shared tables (SourceStore) and a queue (JobQueue), with           *)
(* collections created and deleted under them.                             *)
(***************************************************************************)
EXTENDS IngestService, Worker

vars == <<storeVars, queueVars, serviceVars, workerVars>>

Init == StoreInit /\ QueueInit /\ ServiceInit /\ WorkerInit

\* POST and DELETE /collections.
Collection(c) ==
  /\ CreateCollection(c) \/ DeleteCollection(c)
  /\ UNCHANGED <<queueVars, serviceVars, workerVars>>

Request(r) == (IngestStep(r) \/ IngestFault(r)) /\ UNCHANGED workerVars

Job(j) == (JobStep(j) \/ JobFault(j)) /\ UNCHANGED serviceVars

Next ==
  \/ \E c \in Collections : Collection(c)
  \/ \E r \in Requests : Request(r)
  \/ \E j \in Requests : Job(j)

Spec == Init /\ [][Next]_vars

(***************************************************************************)
(* What has a timeout goes on: the upload and the enqueue of a request     *)
(* (10 s each), and a job (300 s), after which they are done or raise; and *)
(* arq polls its queue for ever.  The statements of a request have none:   *)
(* it may wait for a connection of the API's pool for ever.  Nobody has to *)
(* send a request, and no fault has to happen.                             *)
(***************************************************************************)
Fairness ==
  \A r \in Requests :
    /\ WF_vars((UploadFile(r) \/ EnqueueJob(r)) /\ UNCHANGED workerVars)
    /\ WF_vars(JobStep(r) /\ UNCHANGED serviceVars)

FairSpec == Spec /\ Fairness

-----------------------------------------------------------------------------
\* What the properties talk about.

\* Request r has reset the row of s and its job has not yet marked it.
OwesMark(r, s) ==
  /\ source[r] = s
  /\ \/ pc[r] \in AfterUpsert
     \/ step[r] \in {"queued"} \cup BeforeMark

\* Job j has marked s as processing and has yet to mark it ready or failed,
\* or is to be run again.
OwesResult(j, s) ==
  /\ source[j] = s
  /\ \/ step[j] \in InTry \cup {"setfailed"}
     \/ step[j] \in {"queued"} \cup BeforeMark /\ tries[j] > 0

\* Request r gave up after the upsert, or its job ended without a word.
Abandoned(r) == pc[r] = "broken" \/ step[r] \in Lost

\* The current or last run of job j has marked its source ready, and whether
\* or not it has seen that, has not marked it failed.
SaidReady(j) ==
  \/ step[j] \in {"publish", "ready"}
  \/ step[j] = "setfailed" /\ cause[j] = "unseen"

\* All of the chunks of j's current or last run so far, none of them gone.
Intact(j) == \A p \in 0..(done[j] - 1) : ChunkAt(j, p) \in chunks

\* Every request for s was accepted and every job of s ended well.
AllWentWell(s) ==
  \A r \in JobsOf(s) : pc[r] = "accepted" /\ step[r] = "ready"

\* What a job has still to do in its current run, by its next step.
Distance(j) ==
  CASE step[j] = "get"                    -> 8
    [] step[j] = "delete"                 -> 7
    [] step[j] = "mark"                   -> 6
    [] step[j] = "fetch"                  -> 5
    [] step[j] = "insert"                 -> 4
    [] step[j] = "setfailed"              -> 3
    [] step[j] \in {"publish", "reraise"} -> 2
    [] step[j] = "queued"                 -> 1
    [] OTHER                              -> 0

\* The job uses up an attempt, or comes nearer to the end of the one it has.
WearsOut(j) ==
  \/ tries[j] < tries'[j] /\ tries'[j] <= MaxTries
  \/ /\ tries'[j] = tries[j]
     /\ \/ Distance(j)' < Distance(j)
        \/ /\ Distance(j)' = Distance(j)
           /\ done[j] < done'[j] /\ done'[j] <= size[j] /\ size'[j] = size[j]

-----------------------------------------------------------------------------
\* The abstract specification.

\* How far request r and its job have come, seen from outside.
Ticket(r) ==
  CASE step[r] \in {"queued"} \cup BeforeMark   -> "open"
    [] step[r] = "setfailed"                    -> IF cause[r] = "unseen" THEN "doubted" ELSE "begun"
    [] step[r] \in InTry                        -> "begun"
    [] step[r] \in {"publish", "reraise"}       -> "reported"
    [] step[r] \in {"ready", "failed"}          -> "closed"
    [] step[r] = "notfound"                     -> "gone"
    [] step[r] \in Lost                         -> "lost"
    [] step[r] = "none" /\ pc[r] \in AfterUpsert -> "open"
    [] step[r] = "none" /\ pc[r] = "broken"     -> "lost"
    [] step[r] = "none" /\ pc[r] = "rejected"   -> "refused"
    [] OTHER                                    -> "none"

Lifecycle ==
  INSTANCE SourceLifecycle WITH
    Tickets <- Requests,
    ticket <- [r \in Requests |-> Ticket(r)]

-----------------------------------------------------------------------------
\* Properties.

\* The variables keep to their types.
TypeOK == StoreTypeOK /\ QueueTypeOK /\ ServiceTypeOK /\ WorkerTypeOK

\* No source is stuck without a trace.  A row that says "pending" or
\* "processing" still has a request or a job that owes it the next status,
\* or one whose failure was reported elsewhere: to the client, or by arq.
\* Overlapping runs overwrite each other's status, and never leave a row
\* unfinished when all of them have finished.
NoSilentStranding ==
  \A s \in Sources :
    /\ status[s] = "pending" =>
         \E r \in Requests : OwesMark(r, s) \/ (source[r] = s /\ Abandoned(r))
    /\ status[s] = "processing" =>
         \E r \in Requests : OwesResult(r, s) \/ (source[r] = s /\ Abandoned(r))

\* However the requests and runs for a source have interleaved, once all
\* have succeeded its chunks include the whole of one run: the DELETE that
\* opens a run, or a re-ingest, cannot leave a ready source with a part of
\* its document.
SettledIsComplete ==
  \A s \in Sources : AllWentWell(s) => \E j \in JobsOf(s) : done[j] = size[j] /\ Intact(j)

\* docs/api/SOURCES.md:174, as far as the code keeps it: a ready source that
\* was only requested once has every chunk of its document, whatever its
\* client was told and however often its worker died, until an interrupted
\* job is run again, or unless it ended without a word.
ReadyOnceIsComplete ==
  \A s \in Sources :
    /\ JobsOf(s) = {s} /\ status[s] = "ready"
    /\ step[s] \notin {"queued"} \cup BeforeMark \cup Lost
    => SaidReady(s) /\ done[s] = size[s] /\ Intact(s)

\* Re-ingests, retries after a crash, cancelled and failed runs leave no
\* second chunk at a position, as long as no two jobs run on the source at
\* the same time.
DuplicatesNeedOverlap ==
  \A k, l \in chunks :
    k.src = l.src /\ k.pos = l.pos /\ k.src \notin overlapped => k = l

\* No job of an upload is queued or run before the file has been stored.
JobsFindUploadStored ==
  \A j \in Requests : IsUpload(j) /\ step[j] # "none" => source[j] \in uploads

\* The work in flight when a collection is deleted can neither bring its
\* sources back nor leave chunks behind for them.
DeletedStaysDeleted ==
  [][\A s \in Requests :
       source[s] = s /\ s \notin Sources =>
         s \notin Sources' /\ ChunksOf(s)' = {}]_vars

\* A source that is ready is marked failed by a job that was running on it
\* together with another one, or by the run that marked it ready and did not
\* see that: otherwise it leaves "ready" through a re-ingest or a rerun.
ReadyFailsOnlyByOverlap ==
  [][\A s \in Sources :
       status[s] = "ready" /\ status'[s] = "failed" =>
         s \in overlapped \/ reason'[s] = "unseen"]_vars

\* Nothing sends a job back without using up one of its attempts, neither
\* another job or request nor a crash or a timeout: a queued job has only so
\* many steps, which the fairness of FairSpec turns into an end.
JobsWearOut ==
  [][\A j \in Requests :
       step[j] # "none" => WearsOut(j) \/ UNCHANGED <<step[j], tries[j], size[j], done[j]>>]_vars

\* Whatever interleaves, repeats, crashes, raises after its effect or is
\* deleted: a source changes its status only as a ticket on it is opened,
\* begun or reported; every run that has begun reports before it closes, once
\* unless it did not see itself report "ready" and reports "failed" then; and
\* what has gone is never reported on.
ImplementsLifecycle == Lifecycle!Spec

\* Every source reset to "pending" settles, or somebody gave up on it, or a
\* re-ingest is at its DELETE, where it may wait for a connection for ever;
\* if it gets past that, the source is owed an end again.
PendingSettles ==
  \A s \in Requests :
    (status[s] = "pending") ~>
      \/ status[s] \in {"ready", "failed", "absent"}
      \/ \E r \in JobsOf(s) : Abandoned(r) \/ pc[r] = "delete"

\* Every job the queue has taken comes to an end.
JobsEnd == \A j \in Requests : (step[j] = "queued") ~> (step[j] \in Ended)

-----------------------------------------------------------------------------
\* What documents say, and the code does not do.

\* README.md:61: re-ingest refreshes in place, without a duplicate.  Here
\* once every request was accepted and every run succeeded.
SettledHasNoDuplicates ==
  \A k, l \in chunks :
    k.src = l.src /\ k.pos = l.pos /\ AllWentWell(k.src) => k = l

\* docs/api/SOURCES.md:174: the chunks of a ready source are created and
\* embedded.  Here with every request answered and every run over and
\* recorded on the row, so that what is missing stays missing.
QuietReadyIsComplete ==
  \A s \in Sources :
    /\ status[s] = "ready"
    /\ \A r \in JobsOf(s) : pc[r] \notin InFlight /\ step[r] \in {"none", "ready", "failed"}
    => \E j \in JobsOf(s) : step[j] = "ready" /\ Intact(j)

\* docs/api/SOURCES.md:57-58: an uploaded file is stored at once and then
\* processed, so a run for it does not find that there is no file.
StoredUploadIsFound ==
  \A s \in Sources \cap uploads : reason[s] # "nofile"

=============================================================================
