------------------------------- MODULE Worker -------------------------------
(***************************************************************************)
(* worker.process_source: one run of it per started job, one step per      *)
(* await, interleaved with the other jobs of the same worker (max_jobs =   *)
(* 10) and of other workers.                                               *)
(***************************************************************************)
EXTENDS JobQueue

CONSTANT MaxChunks   \* bound on the chunks of one document

ASSUME ChunksAssumption == MaxChunks \in Nat

VARIABLES
  size,       \* len(raw_chunks) of the run of job j
  done,       \* how many of them it has inserted
  cause,      \* the step of the run that raised
  overlapped  \* history: the sources two jobs have been running on at once

runVars == <<size, done, cause>>
workerVars == <<runVars, overlapped>>

WorkerTypeOK ==
  /\ size \in [Requests -> 0..MaxChunks]
  /\ done \in [Requests -> 0..MaxChunks]
  /\ cause \in [Requests -> Reasons]
  /\ overlapped \subseteq Requests

WorkerInit ==
  /\ size = [j \in Requests |-> 0]
  /\ done = [j \in Requests |-> 0]
  /\ cause = [j \in Requests |-> "null"]
  /\ overlapped = {}

\* The row job j writes for position p in its current run.
ChunkAt(j, p) == [src |-> source[j], job |-> j, run |-> tries[j], pos |-> p]

-----------------------------------------------------------------------------

\* Mutant: a rerun goes on where the last run of the job stopped.
StartResuming(j) ==
  /\ Dequeue(j)
  /\ overlapped' = IF tries[j] < MaxTries /\ RunningOn(source[j]) # {}
                   THEN overlapped \cup {source[j]} ELSE overlapped
  /\ UNCHANGED <<storeVars, size, done, cause>>

Start(j) ==
  /\ Dequeue(j)
  /\ overlapped' = IF tries[j] < MaxTries /\ RunningOn(source[j]) # {}
                   THEN overlapped \cup {source[j]} ELSE overlapped
  /\ size' = [size EXCEPT ![j] = 0]
  /\ done' = [done EXCEPT ![j] = 0]
  /\ cause' = [cause EXCEPT ![j] = "null"]
  /\ UNCHANGED storeVars

\* SourceNotFoundError when the row has gone: raised, not recorded.
GetSource(j) ==
  /\ step[j] = "get"
  /\ MoveTo(j, IF source[j] \in Sources THEN "delete" ELSE "notfound")
  /\ UNCHANGED <<storeVars, workerVars>>

\* Mutant: the run trusts the ingest service to have deleted the chunks.
KeepStaleChunks(j) ==
  /\ step[j] = "delete"
  /\ MoveTo(j, "mark")
  /\ UNCHANGED <<storeVars, workerVars>>

DeleteStaleChunks(j) ==
  /\ step[j] = "delete"
  /\ DeleteChunks(source[j])
  /\ MoveTo(j, "mark")
  /\ UNCHANGED workerVars

MarkProcessing(j) ==
  /\ step[j] = "mark"
  /\ SetProcessing(source[j])
  /\ MoveTo(j, "fetch")
  /\ UNCHANGED workerVars

\* The adapter of the scheme.  HTTP may deliver a document of any size.
Fetch(j) ==
  /\ step[j] = "fetch"
  /\ OriginOf[source[j]] \notin FileOrigins
  /\ \E n \in 0..MaxChunks : size' = [size EXCEPT ![j] = n]
  /\ MoveTo(j, "insert")
  /\ UNCHANGED <<storeVars, done, cause, overlapped>>

\* A file:// path is read from the worker's own disk, where the program
\* never puts a file: its upload went to object storage.
FetchFindsNoFile(j) ==
  /\ step[j] = "fetch"
  /\ OriginOf[source[j]] \in FileOrigins
  /\ MoveTo(j, "setfailed")
  /\ cause' = [cause EXCEPT ![j] = "nofile"]
  /\ UNCHANGED <<storeVars, size, done, overlapped>>

\* embed, then INSERT, for each position in turn.
EmbedAndInsert(j) ==
  /\ step[j] = "insert"
  /\ done[j] < size[j]
  /\ InsertChunk(ChunkAt(j, done[j]))
  /\ done' = [done EXCEPT ![j] = @ + 1]
  /\ UNCHANGED <<queueVars, size, cause, overlapped>>

\* Mutant: the last chunk is skipped.
MarkReadyEarly(j) ==
  /\ step[j] = "insert"
  /\ done[j] + 1 >= size[j]
  /\ SetReady(source[j])
  /\ MoveTo(j, "publish")
  /\ UNCHANGED workerVars

MarkReady(j) ==
  /\ step[j] = "insert"
  /\ done[j] = size[j]
  /\ SetReady(source[j])
  /\ MoveTo(j, "publish")
  /\ UNCHANGED workerVars

\* What else raises inside the try block: an HTTP fetch, an embedding or a
\* statement that fails, among them those that find the row gone.  After an
\* EmbedAndInsert it is also an INSERT that took effect and then raised.
Fails(j) ==
  /\ step[j] \in InTry
  /\ step[j] = "fetch" => OriginOf[source[j]] \notin FileOrigins
  /\ MoveTo(j, "setfailed")
  /\ cause' = [cause EXCEPT ![j] = IF step[j] = "fetch" THEN "fetch" ELSE "index"]
  /\ UNCHANGED <<storeVars, size, done, overlapped>>

\* Mutant: the failure is logged and re-raised, the row is forgotten.
LogFailure(j) ==
  /\ step[j] = "setfailed"
  /\ MoveTo(j, "reraise")
  /\ UNCHANGED <<storeVars, workerVars>>

\* Whether set_failed then returns or raises, the run ends the same way.
MarkFailed(j) ==
  /\ step[j] = "setfailed"
  /\ SetFailed(source[j], cause[j])
  /\ MoveTo(j, "reraise")
  /\ UNCHANGED workerVars

\* The row has gone, or the statement fails: the error is only logged.
MarkFailedRaises(j) ==
  /\ step[j] = "setfailed"
  /\ MoveTo(j, "unmarked")
  /\ UNCHANGED <<storeVars, workerVars>>

\* A statement before the try block fails, or finds no row to mark; or it is
\* the DELETE, after taking effect.
RaisesEarly(j) ==
  /\ step[j] \in BeforeMark
  /\ MoveTo(j, "raised")
  /\ UNCHANGED <<storeVars, workerVars>>

\* The event is published, the function returns or re-raises, arq is done.
Finish(j) ==
  /\ \/ step[j] = "publish" /\ MoveTo(j, "ready")
     \/ step[j] = "reraise" /\ MoveTo(j, "failed")
  /\ UNCHANGED <<storeVars, workerVars>>

-----------------------------------------------------------------------------

\* job_timeout: CancelledError is no Exception, so nothing is recorded.
Cancel(j) ==
  /\ step[j] \in Running
  /\ MoveTo(j, "cancelled")
  /\ UNCHANGED <<storeVars, workerVars>>

\* Mutant: an attempt that was interrupted is given back.
CrashUncounted(j) ==
  /\ step[j] \in Running
  /\ step' = [step EXCEPT ![j] = "queued"]
  /\ tries' = [tries EXCEPT ![j] = @ - 1]
  /\ UNCHANGED <<source, storeVars, workerVars>>

\* The worker process dies or is shut down: arq will run the job again.
Crash(j) ==
  /\ step[j] \in Running
  /\ MoveTo(j, "queued")
  /\ UNCHANGED <<storeVars, workerVars>>

\* A statement that takes effect, and then raises: its reply is lost, or the
\* release of its connection fails.  The source is left processing ...
MarkProcessingUnseen(j) ==
  /\ step[j] = "mark"
  /\ SetProcessing(source[j])
  /\ MoveTo(j, "raised")
  /\ UNCHANGED workerVars

\* ... or ready, in a run that goes on to mark it failed: set_ready is the
\* last call of the try block.
MarkReadyUnseen(j) ==
  /\ step[j] = "insert"
  /\ done[j] = size[j]
  /\ SetReady(source[j])
  /\ MoveTo(j, "setfailed")
  /\ cause' = [cause EXCEPT ![j] = "unseen"]
  /\ UNCHANGED <<size, done, overlapped>>

EffectUnseen(j) == MarkProcessingUnseen(j) \/ MarkReadyUnseen(j)

JobStep(j) ==
  \/ Start(j)
  \/ GetSource(j)
  \/ DeleteStaleChunks(j)
  \/ MarkProcessing(j)
  \/ Fetch(j)
  \/ FetchFindsNoFile(j)
  \/ EmbedAndInsert(j)
  \/ MarkReady(j)
  \/ Fails(j)
  \/ MarkFailed(j)
  \/ MarkFailedRaises(j)
  \/ RaisesEarly(j)
  \/ Finish(j)

JobFault(j) == Cancel(j) \/ Crash(j) \/ EffectUnseen(j)

=============================================================================
