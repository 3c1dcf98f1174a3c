------------------------ MODULE SourcePipelineProofs ------------------------
(***************************************************************************)
(* What TLAPS proves of SourcePipeline, for any sets of requests,          *)
(* collections and origins and any bounds.                                 *)
(***************************************************************************)
EXTENDS SourcePipeline, TLAPS

-----------------------------------------------------------------------------
\* How far a request and its job have come.

\* The upsert gives a request its source id; only then is its job enqueued.
RequestPhase(r) ==
  /\ pc[r] \in {"idle", "upsert", "rejected"} => source[r] = NoSource
  /\ pc[r] \in AfterUpsert \cup {"accepted", "broken"} => source[r] \in Requests
  /\ step[r] # "none" => pc[r] \in {"accepted", "broken"}

\* A run has been counted; it has inserted nothing before its insert loop.
RunPhase(r) ==
  /\ step[r] \in Running => tries[r] > 0
  /\ step[r] \in BeforeMark \cup {"fetch"} => done[r] = 0

Basics == TypeOK /\ \A r \in Requests : RequestPhase(r) /\ RunPhase(r)

LEMMA InitBasics == Init => Basics
  BY RequestAssumption, QueueAssumption, ChunksAssumption
  DEF Init, Basics, TypeOK, RequestPhase, RunPhase,
      StoreInit, QueueInit, ServiceInit, WorkerInit,
      StoreTypeOK, QueueTypeOK, ServiceTypeOK, WorkerTypeOK,
      Statuses, Reasons, Chunk, AfterUpsert, Running, BeforeMark, AfterMark, InTry

LEMMA CollectionBasics ==
  ASSUME Basics, NEW c \in Collections, Collection(c)
  PROVE  Basics'
<1>1. StoreTypeOK'
  <2>1. CASE CreateCollection(c)
    BY <2>1 DEF CreateCollection, Basics, TypeOK, StoreTypeOK
  <2>2. CASE DeleteCollection(c)
    BY <2>2 DEF DeleteCollection, Basics, TypeOK, StoreTypeOK, Reasons
  <2> QED BY <2>1, <2>2 DEF Collection
<1> QED
  BY <1>1 DEF Collection, Basics, TypeOK, QueueTypeOK, ServiceTypeOK, WorkerTypeOK,
              queueVars, serviceVars, workerVars, runVars, RequestPhase, RunPhase

LEMMA RequestBasics ==
  ASSUME Basics, NEW r \in Requests, Request(r)
  PROVE  Basics'
<1> USE DEF Basics, TypeOK, StoreTypeOK, QueueTypeOK, ServiceTypeOK, WorkerTypeOK,
            RequestPhase, RunPhase, storeVars, queueVars, workerVars, runVars, Goto,
            InFlight, AfterUpsert, Running, BeforeMark, AfterMark, InTry
<1>1. CASE AssertCollectionExists(r)
  BY <1>1 DEF Request, AssertCollectionExists
<1>2. CASE Upsert(r)
  BY <1>2 DEF Request, Upsert, InsertSource, ResetSource, AfterCleanup,
              Statuses, Reasons
<1>3. CASE UpsertRejected(r)
  BY <1>3 DEF Request, UpsertRejected
<1>4. CASE DeleteOldChunks(r)
  BY <1>4 DEF Request, DeleteOldChunks, DeleteChunks, AfterCleanup
<1>5. CASE UploadFile(r)
  BY <1>5 DEF Request, UploadFile
<1>6. CASE EnqueueJob(r)
  BY <1>6 DEF Request, EnqueueJob, Enqueue
<1>7. CASE EnqueueReplyLost(r)
  BY <1>7 DEF Request, EnqueueReplyLost, Enqueue
<1>8. CASE Abort(r)
  BY <1>8 DEF Request, Abort
<1> QED
  BY <1>1, <1>2, <1>3, <1>4, <1>5, <1>6, <1>7, <1>8
  DEF Request, IngestStep, IngestFault

LEMMA JobBasics ==
  ASSUME Basics, NEW j \in Requests, Job(j)
  PROVE  Basics'
<1> USE QueueAssumption, ChunksAssumption
    DEF Basics, TypeOK, StoreTypeOK, QueueTypeOK, ServiceTypeOK, WorkerTypeOK,
        RequestPhase, RunPhase, storeVars, queueVars, workerVars, runVars,
        serviceVars, MoveTo, Statuses, Reasons,
        Running, BeforeMark, AfterMark, InTry, Ended, Lost
<1>1. CASE Start(j)
  BY <1>1 DEF Job, Start, Dequeue
<1>2. CASE GetSource(j)
  BY <1>2 DEF Job, GetSource
<1>3. CASE DeleteStaleChunks(j)
  BY <1>3 DEF Job, DeleteStaleChunks, DeleteChunks
<1>4. CASE MarkProcessing(j)
  BY <1>4 DEF Job, MarkProcessing, SetProcessing
<1>5. CASE Fetch(j)
  BY <1>5 DEF Job, Fetch
<1>6. CASE FetchFindsNoFile(j)
  BY <1>6 DEF Job, FetchFindsNoFile
<1>7. CASE EmbedAndInsert(j)
  <2>1. ChunkAt(j, done[j]) \in Chunk
    BY <1>7 DEF EmbedAndInsert, ChunkAt, Chunk
  <2> QED BY <1>7, <2>1 DEF Job, EmbedAndInsert, InsertChunk
<1>8. CASE MarkReady(j)
  BY <1>8 DEF Job, MarkReady, SetReady
<1>9. CASE Fails(j)
  BY <1>9 DEF Job, Fails
<1>10. CASE MarkFailed(j)
  BY <1>10 DEF Job, MarkFailed, SetFailed
<1>11. CASE MarkFailedRaises(j) \/ RaisesEarly(j) \/ Finish(j) \/ Cancel(j) \/ Crash(j)
  BY <1>11 DEF Job, MarkFailedRaises, RaisesEarly, Finish, Cancel, Crash
<1>12. CASE EffectUnseen(j)
  BY <1>12 DEF Job, EffectUnseen, MarkProcessingUnseen, MarkReadyUnseen, SetProcessing, SetReady
<1> QED
  BY <1>1, <1>2, <1>3, <1>4, <1>5, <1>6, <1>7, <1>8, <1>9, <1>10, <1>11, <1>12
  DEF Job, JobStep, JobFault

LEMMA BasicsInvariant == Spec => []Basics
<1>1. Basics /\ [Next]_vars => Basics'
  <2> SUFFICES ASSUME Basics, [Next]_vars PROVE Basics'
    OBVIOUS
  <2>1. CASE Next
    BY <2>1, CollectionBasics, RequestBasics, JobBasics DEF Next
  <2>2. CASE UNCHANGED vars
    BY <2>2 DEF vars, storeVars, queueVars, serviceVars, workerVars, runVars,
                Basics, TypeOK, StoreTypeOK, QueueTypeOK, ServiceTypeOK, WorkerTypeOK,
                RequestPhase, RunPhase
  <2> QED BY <2>1, <2>2
<1> QED BY InitBasics, <1>1, PTL DEF Spec

\* The variables keep to their types in every state the pipeline reaches.
THEOREM TypeCorrect == Spec => []TypeOK
  BY BasicsInvariant, PTL DEF Basics

-----------------------------------------------------------------------------
\* No silent stranding.  Given Basics, the property is inductive: whoever
\* wrote a source's status last owes it the next one, and a job that finds
\* its source gone cannot be the one, for the source is there.

LEMMA CollectionStranding ==
  ASSUME Basics, NoSilentStranding, NEW c \in Collections, Collection(c)
  PROVE  NoSilentStranding'
<1>1. /\ UNCHANGED <<pc, source, step, tries>>
      /\ \A s \in Sources' : s \in Sources /\ status'[s] = status[s]
  BY DEF Collection, CreateCollection, DeleteCollection, Sources, Basics, TypeOK,
         StoreTypeOK, queueVars, serviceVars
<1> QED
  BY <1>1 DEF NoSilentStranding, OwesMark, OwesResult, Abandoned

LEMMA RequestStranding ==
  ASSUME Basics, NoSilentStranding, NEW r \in Requests, Request(r)
  PROVE  NoSilentStranding'
<1> USE DEF Basics, TypeOK, StoreTypeOK, QueueTypeOK, ServiceTypeOK, RequestPhase,
            AfterUpsert, InFlight
\* What a step of r does, to its own columns and to the source it may write.
<1>1. /\ pc[r] \in {"idle", "upsert"} \cup AfterUpsert
      /\ tries' = tries
      /\ \A q \in Requests \ {r} : /\ pc'[q] = pc[q]
                                   /\ source'[q] = source[q]
                                   /\ step'[q] = step[q]
      /\ source[r] \in Requests => /\ source'[r] = source[r]
                                   /\ pc'[r] \in AfterUpsert \cup {"broken"} \/ step'[r] = "queued"
      /\ \A s \in Sources' :
           \/ s \in Sources /\ status'[s] = status[s]
           \/ status'[s] = "pending" /\ source'[r] = s /\ pc'[r] \in AfterUpsert
  <2> USE DEF Request, storeVars, queueVars, Goto, Sources
  <2>1. CASE AssertCollectionExists(r)
    BY <2>1, QueueAssumption DEF AssertCollectionExists
  <2>2. CASE Upsert(r)
    BY <2>2, QueueAssumption DEF Upsert, InsertSource, ResetSource, AfterCleanup
  <2>3. CASE UpsertRejected(r)
    BY <2>3, QueueAssumption DEF UpsertRejected
  <2>4. CASE DeleteOldChunks(r)
    BY <2>4 DEF DeleteOldChunks, DeleteChunks, AfterCleanup
  <2>5. CASE UploadFile(r)
    BY <2>5 DEF UploadFile
  <2>6. CASE EnqueueJob(r)
    BY <2>6 DEF EnqueueJob, Enqueue
  <2>7. CASE EnqueueReplyLost(r)
    BY <2>7 DEF EnqueueReplyLost, Enqueue
  <2>8. CASE Abort(r)
    BY <2>8, QueueAssumption DEF Abort
  <2> QED
    BY <2>1, <2>2, <2>3, <2>4, <2>5, <2>6, <2>7, <2>8 DEF IngestStep, IngestFault
\* So r itself answers for its source from its upsert on, and the others
\* answer as before.
<1>2. SUFFICES ASSUME NEW s \in Sources'
      PROVE  /\ status'[s] = "pending" =>
                  \E q \in Requests : OwesMark(q, s)' \/ (source'[q] = s /\ Abandoned(q)')
             /\ status'[s] = "processing" =>
                  \E q \in Requests : OwesResult(q, s)' \/ (source'[q] = s /\ Abandoned(q)')
  BY DEF NoSilentStranding
<1>3. CASE status'[s] = "pending" /\ source'[r] = s /\ pc'[r] \in AfterUpsert
  BY <1>3 DEF OwesMark
<1>4. CASE s \in Sources /\ status'[s] = status[s]
  <2>1. CASE status[s] = "pending"
    <3>1. PICK q \in Requests : OwesMark(q, s) \/ (source[q] = s /\ Abandoned(q))
      BY <1>4, <2>1 DEF NoSilentStranding
    <3>2. CASE q = r
      BY <1>1, <1>4, <2>1, <3>1, <3>2 DEF OwesMark, Abandoned, Sources
    <3>3. CASE q # r
      BY <1>1, <1>4, <2>1, <3>1, <3>3 DEF OwesMark, Abandoned, Sources
    <3> QED BY <3>2, <3>3
  <2>2. CASE status[s] = "processing"
    <3>1. PICK q \in Requests : OwesResult(q, s) \/ (source[q] = s /\ Abandoned(q))
      BY <1>4, <2>2 DEF NoSilentStranding
    <3>2. CASE q = r
      <4>1. step[r] = "none"
        BY <1>1
      <4> QED
        BY <1>1, <3>1, <3>2, <4>1
        DEF OwesResult, Abandoned, InTry, BeforeMark, Lost
    <3>3. CASE q # r
      BY <1>1, <1>4, <2>2, <3>1, <3>3 DEF OwesResult, Abandoned, Sources
    <3> QED BY <3>2, <3>3
  <2> QED BY <1>4, <2>1, <2>2
<1> QED BY <1>1, <1>3, <1>4

LEMMA JobStranding ==
  ASSUME Basics, NoSilentStranding, NEW j \in Requests, Job(j)
  PROVE  NoSilentStranding'
<1> DEFINE Waiting == {"queued"} \cup BeforeMark
           Working == InTry \cup {"setfailed"}
<1> USE DEF Basics, TypeOK, StoreTypeOK, QueueTypeOK, ServiceTypeOK, WorkerTypeOK,
            RequestPhase, RunPhase, BeforeMark, InTry, AfterMark, Running, Lost
\* What a step of j does: to its source, and to what it owes it.
<1>1. /\ UNCHANGED <<pc, source>>
      /\ \A k \in Requests \ {j} : step'[k] = step[k] /\ tries'[k] = tries[k]
      /\ step[j] \notin Lost
      /\ \A s \in Sources' :
           /\ s \in Sources
           /\ \/ status'[s] = status[s]
              \/ status'[s] \in {"ready", "failed"}
              \/ status'[s] = "processing" /\ source[j] = s /\ step'[j] \in Working \cup Lost
      /\ source[j] \in Sources =>
           /\ step[j] \in Waiting /\ status'[source[j]] = "pending" =>
                step'[j] \in Waiting \cup Lost
           /\ step[j] \in Working /\ status'[source[j]] = "processing" =>
                step'[j] \in Working \cup Lost \/ (step'[j] = "queued" /\ tries'[j] > 0)
           /\ step[j] \in Waiting /\ tries[j] > 0 /\ status'[source[j]] = "processing" =>
                step'[j] \in Working \cup Lost \/ (step'[j] \in Waiting /\ tries'[j] > 0)
  <2> USE QueueAssumption DEF Job, storeVars, queueVars, serviceVars, MoveTo, Sources
  <2>1. CASE Start(j)
    BY <2>1 DEF Start, Dequeue
  <2>2. CASE GetSource(j)
    BY <2>2 DEF GetSource
  <2>3. CASE DeleteStaleChunks(j)
    BY <2>3 DEF DeleteStaleChunks, DeleteChunks
  <2>4. CASE MarkProcessing(j)
    BY <2>4 DEF MarkProcessing, SetProcessing
  <2>5. CASE Fetch(j)
    BY <2>5 DEF Fetch
  <2>6. CASE FetchFindsNoFile(j)
    BY <2>6 DEF FetchFindsNoFile
  <2>7. CASE EmbedAndInsert(j)
    BY <2>7 DEF EmbedAndInsert, InsertChunk
  <2>8. CASE MarkReady(j)
    BY <2>8 DEF MarkReady, SetReady
  <2>9. CASE Fails(j)
    BY <2>9 DEF Fails
  <2>10. CASE MarkFailed(j)
    BY <2>10 DEF MarkFailed, SetFailed
  <2>11. CASE MarkFailedRaises(j) \/ RaisesEarly(j) \/ Finish(j) \/ Cancel(j) \/ Crash(j)
    BY <2>11 DEF MarkFailedRaises, RaisesEarly, Finish, Cancel, Crash
  <2>12. CASE EffectUnseen(j)
    BY <2>12 DEF EffectUnseen, MarkProcessingUnseen, MarkReadyUnseen, SetProcessing, SetReady
  <2> QED
    BY <2>1, <2>2, <2>3, <2>4, <2>5, <2>6, <2>7, <2>8, <2>9, <2>10, <2>11, <2>12
    DEF JobStep, JobFault
<1>2. SUFFICES ASSUME NEW s \in Sources'
      PROVE  /\ status'[s] = "pending" =>
                  \E q \in Requests : OwesMark(q, s)' \/ (source'[q] = s /\ Abandoned(q)')
             /\ status'[s] = "processing" =>
                  \E q \in Requests : OwesResult(q, s)' \/ (source'[q] = s /\ Abandoned(q)')
  BY DEF NoSilentStranding
<1>3. CASE status'[s] = "processing" /\ source[j] = s /\ step'[j] \in Working \cup Lost
  BY <1>1, <1>3 DEF OwesResult, Abandoned
<1>4. CASE s \in Sources /\ status'[s] = status[s]
  <2>1. CASE status[s] = "pending"
    <3>1. PICK q \in Requests : OwesMark(q, s) \/ (source[q] = s /\ Abandoned(q))
      BY <1>4, <2>1 DEF NoSilentStranding
    <3>2. CASE q = j
      BY <1>1, <1>4, <2>1, <3>1, <3>2 DEF OwesMark, Abandoned
    <3>3. CASE q # j
      BY <1>1, <1>4, <2>1, <3>1, <3>3 DEF OwesMark, Abandoned
    <3> QED BY <3>2, <3>3
  <2>2. CASE status[s] = "processing"
    <3>1. PICK q \in Requests : OwesResult(q, s) \/ (source[q] = s /\ Abandoned(q))
      BY <1>4, <2>2 DEF NoSilentStranding
    <3>2. CASE q = j
      BY <1>1, <1>4, <2>2, <3>1, <3>2 DEF OwesResult, Abandoned
    <3>3. CASE q # j
      BY <1>1, <1>4, <2>2, <3>1, <3>3 DEF OwesResult, Abandoned
    <3> QED BY <3>2, <3>3
  <2> QED BY <1>4, <2>1, <2>2
<1> QED BY <1>1, <1>3, <1>4

\* A source that says pending or processing has somebody who owes it the
\* next status, or whose giving up was reported.
THEOREM StrandingTheorem == Spec => []NoSilentStranding
<1>1. Init => NoSilentStranding
  BY DEF Init, StoreInit, NoSilentStranding, Sources
<1>2. Basics /\ NoSilentStranding /\ [Next]_vars => NoSilentStranding'
  <2> SUFFICES ASSUME Basics, NoSilentStranding, [Next]_vars PROVE NoSilentStranding'
    OBVIOUS
  <2>1. CASE Next
    BY <2>1, CollectionStranding, RequestStranding, JobStranding DEF Next
  <2>2. CASE UNCHANGED vars
    BY <2>2 DEF vars, storeVars, queueVars, serviceVars, NoSilentStranding, Sources,
                OwesMark, OwesResult, Abandoned
  <2> QED BY <2>1, <2>2
<1> QED BY BasicsInvariant, <1>1, <1>2, PTL DEF Spec

-----------------------------------------------------------------------------
\* A settled source is complete.  At every moment a source has a request or
\* job that has not succeeded (yet), or a run that has opened with its DELETE
\* and lost nothing since: a later DELETE belongs to a request, which then
\* has not succeeded yet, or opens a run, which then has nothing to lose.

Unsettled(r, s) ==
  /\ source[r] = s
  /\ \/ pc[r] \in AfterUpsert \cup {"broken"}
     \/ step[r] \in {"queued", "get", "delete", "failed", "notfound"} \cup Lost

Whole(j, s) ==
  /\ source[j] = s
  /\ step[j] \in {"mark", "ready"} \cup AfterMark
  /\ Intact(j)
  /\ step[j] \in {"publish", "ready"} => done[j] = size[j]

UnsettledOrWhole == \A s \in Sources : \E r \in Requests : Unsettled(r, s) \/ Whole(r, s)

\* A run whose own columns do not change stays whole while the source keeps
\* its chunks.
LEMMA WholeKept ==
  ASSUME NEW q \in Requests, NEW s \in Requests, Whole(q, s), Basics,
         source'[q] = source[q], step'[q] = step[q], tries'[q] = tries[q],
         done'[q] = done[q], size'[q] = size[q],
         \A c \in chunks : c.src = s => c \in chunks'
  PROVE  Whole(q, s)'
<1>1. ASSUME NEW p \in 0..(done[q] - 1) PROVE ChunkAt(q, p)' \in chunks'
  <2>1. ChunkAt(q, p) \in chunks /\ ChunkAt(q, p).src = s
    BY <1>1 DEF Whole, Intact, ChunkAt
  <2> QED BY <2>1 DEF ChunkAt
<1> QED BY <1>1 DEF Whole, Intact

LEMMA CollectionSettled ==
  ASSUME Basics, UnsettledOrWhole, NEW c \in Collections, Collection(c)
  PROVE  UnsettledOrWhole'
<1>1. /\ UNCHANGED <<pc, source, step, tries, done, size>>
      /\ \A s \in Sources' : s \in Sources /\ \A k \in chunks : k.src = s => k \in chunks'
  BY DEF Collection, CreateCollection, DeleteCollection, Sources, Basics, TypeOK,
         StoreTypeOK, queueVars, serviceVars, workerVars, runVars
<1>2. SUFFICES ASSUME NEW s \in Sources' PROVE \E r \in Requests : Unsettled(r, s)' \/ Whole(r, s)'
  BY DEF UnsettledOrWhole
<1>3. PICK r \in Requests : Unsettled(r, s) \/ Whole(r, s)
  BY <1>1 DEF UnsettledOrWhole
<1>4. Unsettled(r, s) => Unsettled(r, s)'
  BY <1>1 DEF Unsettled
<1>5. Whole(r, s) => Whole(r, s)'
  BY <1>1, WholeKept DEF Sources
<1> QED BY <1>3, <1>4, <1>5

\* What a step of r leaves alone: jobs, and the sources that it does not
\* open, whose chunks it keeps.
LEMMA RequestEffects ==
  ASSUME Basics, NEW r \in Requests, Request(r)
  PROVE  /\ pc[r] \in {"idle", "upsert"} \cup AfterUpsert
         /\ UNCHANGED <<tries, done, size, cause>>
         /\ \A q \in Requests \ {r} : /\ pc'[q] = pc[q]
                                      /\ source'[q] = source[q]
                                      /\ step'[q] = step[q]
         /\ source[r] \in Requests => /\ source'[r] = source[r]
                                      /\ pc'[r] \in AfterUpsert \cup {"broken"} \/ step'[r] = "queued"
         /\ \A s \in Sources' :
              \/ s \in Sources /\ \A k \in chunks : k.src = s => k \in chunks'
              \/ source'[r] = s /\ pc'[r] \in AfterUpsert
<1> USE DEF Basics, TypeOK, StoreTypeOK, QueueTypeOK, ServiceTypeOK, RequestPhase,
            AfterUpsert, InFlight
<1> USE QueueAssumption DEF Request, storeVars, queueVars, workerVars, runVars, Goto, Sources
<1>1. CASE AssertCollectionExists(r)
  BY <1>1 DEF AssertCollectionExists
<1>2. CASE Upsert(r)
  BY <1>2 DEF Upsert, InsertSource, ResetSource, AfterCleanup
<1>3. CASE UpsertRejected(r)
  BY <1>3 DEF UpsertRejected
<1>4. CASE DeleteOldChunks(r)
  BY <1>4 DEF DeleteOldChunks, DeleteChunks, AfterCleanup
<1>5. CASE UploadFile(r)
  BY <1>5 DEF UploadFile
<1>6. CASE EnqueueJob(r)
  BY <1>6 DEF EnqueueJob, Enqueue
<1>7. CASE EnqueueReplyLost(r)
  BY <1>7 DEF EnqueueReplyLost, Enqueue
<1>8. CASE Abort(r)
  BY <1>8 DEF Abort
<1> QED
  BY <1>1, <1>2, <1>3, <1>4, <1>5, <1>6, <1>7, <1>8 DEF IngestStep, IngestFault

LEMMA RequestSettled ==
  ASSUME Basics, UnsettledOrWhole, NEW r \in Requests, Request(r)
  PROVE  UnsettledOrWhole'
<1> USE DEF Basics, TypeOK, StoreTypeOK, QueueTypeOK, ServiceTypeOK, RequestPhase,
            AfterUpsert, InFlight
<1>1. /\ pc[r] \in {"idle", "upsert"} \cup AfterUpsert
      /\ UNCHANGED <<tries, done, size>>
      /\ \A q \in Requests \ {r} : /\ pc'[q] = pc[q]
                                   /\ source'[q] = source[q]
                                   /\ step'[q] = step[q]
      /\ source[r] \in Requests => /\ source'[r] = source[r]
                                   /\ pc'[r] \in AfterUpsert \cup {"broken"} \/ step'[r] = "queued"
      /\ \A s \in Sources' :
           \/ s \in Sources /\ \A k \in chunks : k.src = s => k \in chunks'
           \/ source'[r] = s /\ pc'[r] \in AfterUpsert
  BY RequestEffects
<1>2. SUFFICES ASSUME NEW s \in Sources' PROVE \E q \in Requests : Unsettled(q, s)' \/ Whole(q, s)'
  BY DEF UnsettledOrWhole
<1>3. CASE source'[r] = s /\ pc'[r] \in AfterUpsert
  BY <1>3 DEF Unsettled
<1>4. CASE s \in Sources /\ \A k \in chunks : k.src = s => k \in chunks'
  <2>1. PICK q \in Requests : Unsettled(q, s) \/ Whole(q, s)
    BY <1>4 DEF UnsettledOrWhole
  <2>2. CASE q = r
    <3>1. source[r] = s /\ s \in Requests
      BY <1>4, <2>1, <2>2 DEF Unsettled, Whole, Sources
    <3> QED BY <1>1, <2>2, <3>1 DEF Unsettled
  <2>3. CASE q # r
    <3>1. Unsettled(q, s) => Unsettled(q, s)'
      BY <1>1, <2>3 DEF Unsettled
    <3>2. Whole(q, s) => Whole(q, s)'
      BY <1>1, <1>4, <2>3, WholeKept DEF Sources
    <3> QED BY <2>1, <3>1, <3>2
  <2> QED BY <2>2, <2>3
<1> QED BY <1>1, <1>3, <1>4

\* What a step of j leaves alone: other runs, and all chunks but those its
\* own DELETE removes.
LEMMA JobEffects ==
  ASSUME Basics, NEW j \in Requests, Job(j)
  PROVE  /\ UNCHANGED <<pc, source>>
         /\ \A q \in Requests \ {j} : /\ step'[q] = step[q] /\ tries'[q] = tries[q]
                                      /\ done'[q] = done[q] /\ size'[q] = size[q]
                                      /\ cause'[q] = cause[q]
         /\ Sources' = Sources
         /\ \/ chunks \subseteq chunks'
            \/ DeleteStaleChunks(j)
<1> USE DEF Basics, TypeOK, StoreTypeOK, QueueTypeOK, ServiceTypeOK, WorkerTypeOK
<1> USE DEF Job, storeVars, queueVars, serviceVars, workerVars, runVars, MoveTo
<1>1. CASE Start(j)
  BY <1>1 DEF Start, Dequeue, Sources
<1>2. CASE GetSource(j) \/ DeleteStaleChunks(j)
  BY <1>2 DEF GetSource, DeleteStaleChunks, DeleteChunks, Sources
<1>3. CASE MarkProcessing(j)
  BY <1>3 DEF MarkProcessing, SetProcessing, Sources
<1>4. CASE Fetch(j) \/ FetchFindsNoFile(j) \/ Fails(j)
  BY <1>4 DEF Fetch, FetchFindsNoFile, Fails, Sources
<1>5. CASE EmbedAndInsert(j)
  BY <1>5 DEF EmbedAndInsert, InsertChunk, Sources
<1>6. CASE MarkReady(j)
  BY <1>6 DEF MarkReady, SetReady, Sources
<1>7. CASE MarkFailed(j)
  BY <1>7 DEF MarkFailed, SetFailed, Sources
<1>8. CASE MarkFailedRaises(j) \/ RaisesEarly(j) \/ Finish(j) \/ Cancel(j) \/ Crash(j)
  BY <1>8 DEF MarkFailedRaises, RaisesEarly, Finish, Cancel, Crash, Sources
<1>9. CASE EffectUnseen(j)
  BY <1>9 DEF EffectUnseen, MarkProcessingUnseen, MarkReadyUnseen, SetProcessing, SetReady, Sources
<1> QED BY <1>1, <1>2, <1>3, <1>4, <1>5, <1>6, <1>7, <1>8, <1>9 DEF JobStep, JobFault

\* The run that opens with the DELETE is the whole one from now on.
LEMMA WholeOpens ==
  ASSUME Basics, NEW j \in Requests, DeleteStaleChunks(j), NEW s, source[j] = s
  PROVE  Whole(j, s)'
<1>1. /\ done'[j] = 0 /\ step'[j] = "mark" /\ source' = source
  BY DEF DeleteStaleChunks, MoveTo, workerVars, runVars, BeforeMark, Basics, RunPhase, TypeOK, QueueTypeOK
<1>2. Intact(j)'
  BY <1>1 DEF Intact
<1> QED BY <1>1, <1>2 DEF Whole, DeleteStaleChunks

\* A whole run stays whole until it ends, or is to be run again.
LEMMA WholeMoves ==
  ASSUME Basics, NEW j \in Requests, Job(j), NEW s, Whole(j, s)
  PROVE  Whole(j, s)' \/ (source'[j] = s /\ step'[j] \in {"queued", "failed"} \cup Lost)
<1>0. source' = source
  BY JobEffects
<1> USE DEF Basics, TypeOK, StoreTypeOK, QueueTypeOK, ServiceTypeOK, WorkerTypeOK,
            RequestPhase, RunPhase, Job, MoveTo, BeforeMark, AfterMark, InTry, Running, Lost
<1>1. CASE EmbedAndInsert(j)
  <2>1. /\ done'[j] = done[j] + 1
        /\ UNCHANGED <<step, tries>>
        /\ chunks' = chunks \cup {ChunkAt(j, done[j])}
        /\ step[j] = "insert"
    BY <1>0, <1>1 DEF EmbedAndInsert, InsertChunk, queueVars
  <2>2. \A p \in 0..(done'[j] - 1) : p \in 0..(done[j] - 1) \/ p = done[j]
    BY <2>1
  <2>3. \A p : ChunkAt(j, p)' = ChunkAt(j, p)
    BY <1>0, <2>1 DEF ChunkAt
  <2>4. Intact(j)'
    BY <2>1, <2>2, <2>3 DEF Intact, Whole
  <2> QED BY <1>0, <2>1, <2>4 DEF Whole
<1>2. CASE UNCHANGED <<chunks, tries, done>>
  <2>1. Intact(j)'
    BY <1>0, <1>2 DEF Whole, Intact, ChunkAt
  <2>2. CASE MarkProcessing(j) \/ Fetch(j) \/ FetchFindsNoFile(j) \/ Fails(j)
    BY <2>1, <2>2 DEF Whole, MarkProcessing, Fetch, FetchFindsNoFile, Fails
  <2>3. CASE MarkReady(j) \/ MarkFailed(j)
    BY <2>1, <2>3 DEF Whole, MarkReady, MarkFailed, workerVars, runVars
  <2>4. CASE MarkFailedRaises(j) \/ RaisesEarly(j) \/ Cancel(j) \/ Crash(j)
    BY <2>4 DEF Whole, MarkFailedRaises, RaisesEarly, Cancel, Crash
  <2>5. CASE Finish(j)
    BY <2>1, <2>5 DEF Whole, Finish, workerVars, runVars
  <2>6. CASE Start(j) \/ GetSource(j) \/ DeleteStaleChunks(j)
    BY <2>6 DEF Whole, Start, Dequeue, GetSource, DeleteStaleChunks
  <2>7. CASE EffectUnseen(j)
    BY <2>1, <2>7 DEF Whole, EffectUnseen, MarkProcessingUnseen, MarkReadyUnseen
  <2> QED BY <1>0, <1>1, <2>2, <2>3, <2>4, <2>5, <2>6, <2>7 DEF JobStep, JobFault
<1>3. EmbedAndInsert(j) \/ UNCHANGED <<chunks, tries, done>>
  BY DEF JobStep, JobFault, Whole, Start, Dequeue, GetSource, DeleteStaleChunks,
         MarkProcessing, SetProcessing, Fetch, FetchFindsNoFile, Fails, MarkReady, SetReady,
         MarkFailed, SetFailed, MarkFailedRaises, RaisesEarly, Finish, Cancel, Crash,
         EffectUnseen, MarkProcessingUnseen, MarkReadyUnseen, storeVars, workerVars, runVars
<1> QED BY <1>0, <1>1, <1>2, <1>3

LEMMA JobSettled ==
  ASSUME Basics, UnsettledOrWhole, NEW j \in Requests, Job(j)
  PROVE  UnsettledOrWhole'
<1> USE DEF Basics, TypeOK, StoreTypeOK, QueueTypeOK, ServiceTypeOK, WorkerTypeOK,
            RequestPhase, RunPhase
<1>1. /\ UNCHANGED <<pc, source>>
      /\ \A q \in Requests \ {j} : /\ step'[q] = step[q] /\ tries'[q] = tries[q]
                                   /\ done'[q] = done[q] /\ size'[q] = size[q]
      /\ Sources' = Sources
      /\ \/ chunks \subseteq chunks'
         \/ DeleteStaleChunks(j)
  BY JobEffects
<1>2. ASSUME NEW s, source[j] = s, DeleteStaleChunks(j)
      PROVE  Whole(j, s)'
  BY <1>2, WholeOpens
\* What becomes of j as a witness.
<1>3. ASSUME NEW s \in Sources, Unsettled(j, s), ~ DeleteStaleChunks(j)
      PROVE  Unsettled(j, s)'
  <2> USE <1>1, <1>3 DEF Job, Unsettled, MoveTo, BeforeMark, AfterMark, InTry, Running,
                         Lost, AfterUpsert
  <2>1. CASE Start(j) \/ GetSource(j)
    BY <2>1 DEF Start, Dequeue, GetSource
  <2>2. CASE MarkProcessing(j) \/ Fetch(j) \/ FetchFindsNoFile(j) \/ Fails(j)
    BY <2>2 DEF MarkProcessing, Fetch, FetchFindsNoFile, Fails
  <2>3. CASE EmbedAndInsert(j) \/ MarkReady(j) \/ MarkFailed(j)
    BY <2>3 DEF EmbedAndInsert, MarkReady, MarkFailed, queueVars
  <2>4. CASE MarkFailedRaises(j) \/ RaisesEarly(j) \/ Finish(j) \/ JobFault(j)
    BY <2>4 DEF MarkFailedRaises, RaisesEarly, Finish, JobFault, Cancel, Crash,
                EffectUnseen, MarkProcessingUnseen, MarkReadyUnseen
  <2> QED BY <1>3, <2>1, <2>2, <2>3, <2>4 DEF JobStep
<1>4. ASSUME NEW s \in Sources, Whole(j, s)
      PROVE  Unsettled(j, s)' \/ Whole(j, s)'
  BY <1>4, WholeMoves DEF Unsettled
<1>5. SUFFICES ASSUME NEW s \in Sources PROVE \E q \in Requests : Unsettled(q, s)' \/ Whole(q, s)'
  BY <1>1 DEF UnsettledOrWhole
<1>6. CASE DeleteStaleChunks(j) /\ source[j] = s
  BY <1>2, <1>6
<1>7. CASE ~ (DeleteStaleChunks(j) /\ source[j] = s)
  <2>1. PICK q \in Requests : Unsettled(q, s) \/ Whole(q, s)
    BY DEF UnsettledOrWhole
  <2>2. source[q] = s
    BY <2>1 DEF Unsettled, Whole
  <2>3. CASE q = j
    BY <1>3, <1>4, <1>7, <2>1, <2>2, <2>3
  <2>4. CASE q # j
    <3>1. \A c \in chunks : c.src = s => c \in chunks'
      BY <1>1, <1>7 DEF DeleteStaleChunks, DeleteChunks
    <3>2. Unsettled(q, s) => Unsettled(q, s)'
      BY <1>1, <2>4 DEF Unsettled
    <3>3. Whole(q, s) => Whole(q, s)'
      BY <1>1, <2>4, <3>1, WholeKept DEF Sources
    <3> QED BY <2>1, <3>2, <3>3
  <2> QED BY <2>3, <2>4
<1> QED BY <1>6, <1>7

\* Once every request and run for a source has succeeded, its chunks include
\* the whole of one run.
THEOREM SettledTheorem == Spec => []SettledIsComplete
<1>1. Init => UnsettledOrWhole
  BY DEF Init, StoreInit, UnsettledOrWhole, Sources
<1>2. Basics /\ UnsettledOrWhole /\ [Next]_vars => UnsettledOrWhole'
  <2> SUFFICES ASSUME Basics, UnsettledOrWhole, [Next]_vars PROVE UnsettledOrWhole'
    OBVIOUS
  <2>1. CASE Next
    BY <2>1, CollectionSettled, RequestSettled, JobSettled DEF Next
  <2>2. CASE UNCHANGED vars
    BY <2>2 DEF vars, storeVars, queueVars, serviceVars, workerVars, runVars,
                UnsettledOrWhole, Sources, Unsettled, Whole, Intact, ChunkAt
  <2> QED BY <2>1, <2>2
<1>3. UnsettledOrWhole => SettledIsComplete
  <2> SUFFICES ASSUME UnsettledOrWhole, NEW s \in Sources, AllWentWell(s)
               PROVE  \E j \in JobsOf(s) : done[j] = size[j] /\ Intact(j)
    BY DEF SettledIsComplete
  <2>1. PICK r \in Requests : Unsettled(r, s) \/ Whole(r, s)
    BY DEF UnsettledOrWhole
  <2>2. source[r] = s /\ pc[r] = "accepted" /\ step[r] = "ready"
    BY <2>1 DEF Unsettled, Whole, AllWentWell, JobsOf
  <2>3. Whole(r, s)
    BY <2>1, <2>2 DEF Unsettled, AfterUpsert, Lost
  <2> QED BY <2>2, <2>3 DEF Whole, JobsOf
<1> QED BY BasicsInvariant, <1>1, <1>2, <1>3, PTL DEF Spec

-----------------------------------------------------------------------------
\* A source that was requested once has one job, which nobody's DELETE but
\* its own disturbs.  Its row says "ready" from the end of one run to the
\* mark of the next, or until the run that does not know it says "failed".

LoneRun(s) ==
  /\ step[s] \in {"mark", "ready"} \cup AfterMark => Whole(s, s)
  /\ SaidReady(s) => done[s] = size[s]
  /\ status[s] = "ready" => SaidReady(s) \/ step[s] \in {"queued"} \cup BeforeMark \cup Lost

LoneRuns == \A s \in Sources : JobsOf(s) = {s} => LoneRun(s)

\* A request resets the row it opens, and no other row changes.
LEMMA RequestMarks ==
  ASSUME Basics, NEW r \in Requests, Request(r)
  PROVE  \A s \in Requests :
           \/ status'[s] = status[s] /\ (source'[r] = s => source[r] = s)
           \/ source'[r] = s /\ status'[s] = "pending"
<1> USE DEF Basics, TypeOK, StoreTypeOK, QueueTypeOK, Request, storeVars, queueVars
<1>1. CASE Upsert(r)
  BY <1>1 DEF Upsert, InsertSource, ResetSource
<1>2. CASE ~ Upsert(r)
  BY <1>2 DEF IngestStep, IngestFault, AssertCollectionExists, UpsertRejected, DeleteOldChunks,
       DeleteChunks, UploadFile, EnqueueJob, EnqueueReplyLost, Enqueue, Abort
<1> QED BY <1>1, <1>2

LEMMA RequestLone ==
  ASSUME Basics, LoneRuns, NEW r \in Requests, Request(r)
  PROVE  LoneRuns'
<1> SUFFICES ASSUME NEW s \in Sources', JobsOf(s)' = {s} PROVE LoneRun(s)'
  BY DEF LoneRuns
<1> USE DEF Basics, TypeOK, StoreTypeOK, QueueTypeOK, ServiceTypeOK, RequestPhase, AfterUpsert
<1>1. s \in Requests /\ source'[s] = s
  BY DEF JobsOf, Sources
<1>2. CASE s = r
  <2>1. step'[s] \in {"none", "queued"}
    BY <1>2 DEF Request, IngestStep, IngestFault, AssertCollectionExists, Upsert, UpsertRejected,
       DeleteOldChunks, UploadFile, EnqueueJob, EnqueueReplyLost, Abort, Enqueue, queueVars, InFlight
  <2>2. CASE status'[s] = "pending"
    BY <2>1, <2>2 DEF LoneRun, SaidReady, AfterMark, InTry
  <2>3. CASE status'[s] = status[s] /\ source[s] = s
    <3>1. step[s] = "none"
      BY <1>1, <1>2, <2>3, RequestEffects
    <3>2. s \in Sources /\ JobsOf(s) = {s}
      BY <1>1, <1>2, <2>3, RequestEffects DEF Sources, JobsOf
    <3>3. status[s] # "ready"
      BY <3>1, <3>2 DEF LoneRuns, LoneRun, SaidReady, BeforeMark, Lost
    <3> QED BY <2>1, <2>3, <3>3 DEF LoneRun, SaidReady, AfterMark, InTry
  <2> QED BY <1>1, <1>2, <2>2, <2>3, RequestMarks
<1>3. CASE s # r
  <2>1. source'[r] # s
    BY <1>1, <1>3 DEF JobsOf
  <2>2. s \in Sources /\ \A k \in chunks : k.src = s => k \in chunks'
    BY <2>1, RequestEffects
  <2>3. /\ UNCHANGED <<tries, done, size, cause>>
        /\ source'[s] = source[s] /\ step'[s] = step[s]
    BY <1>1, <1>3, RequestEffects
  <2>4. source[r] # s
    BY <1>1, <2>1, RequestEffects
  <2>5. JobsOf(s) = {s}
    BY <1>1, <2>3, <2>4, RequestEffects DEF JobsOf
  <2>6. status'[s] = status[s]
    BY <1>1, <2>1, RequestMarks
  <2>7. Whole(s, s) => Whole(s, s)'
    BY <1>1, <2>2, <2>3, WholeKept
  <2> QED BY <2>2, <2>3, <2>5, <2>6, <2>7 DEF LoneRuns, LoneRun, SaidReady
<1> QED BY <1>2, <1>3

LEMMA CollectionLone ==
  ASSUME Basics, LoneRuns, NEW c \in Collections, Collection(c)
  PROVE  LoneRuns'
<1>1. /\ UNCHANGED <<source, step, tries, done, size, cause>>
      /\ \A s \in Sources' : /\ s \in Sources /\ status'[s] = status[s]
                             /\ \A k \in chunks : k.src = s => k \in chunks'
  BY DEF Collection, CreateCollection, DeleteCollection, Sources, Basics, TypeOK,
         StoreTypeOK, queueVars, workerVars, runVars
<1>2. SUFFICES ASSUME NEW s \in Sources', JobsOf(s)' = {s} PROVE LoneRun(s)'
  BY DEF LoneRuns
<1>3. s \in Sources /\ LoneRun(s)
  BY <1>1, <1>2 DEF LoneRuns, JobsOf
<1>4. Whole(s, s) => Whole(s, s)'
  BY <1>1, <1>3, WholeKept DEF Sources
<1> QED BY <1>1, <1>2, <1>3, <1>4 DEF LoneRun, SaidReady

LEMMA JobLone ==
  ASSUME Basics, LoneRuns, NEW j \in Requests, Job(j)
  PROVE  LoneRuns'
<1> SUFFICES ASSUME NEW s \in Sources', JobsOf(s)' = {s} PROVE LoneRun(s)'
  BY DEF LoneRuns
<1>1. s \in Sources /\ s \in Requests /\ source[s] = s /\ JobsOf(s) = {s} /\ LoneRun(s)
  BY JobEffects DEF LoneRuns, JobsOf, Sources
<1> USE DEF Basics, TypeOK, StoreTypeOK, QueueTypeOK, WorkerTypeOK
<1>2. CASE j # s
  <2>1. source[j] # s
    BY <1>1, <1>2 DEF JobsOf
  <2>2. status'[s] = status[s]
    BY <1>1, <2>1 DEF Job, JobStep, JobFault, Start, GetSource, DeleteStaleChunks, DeleteChunks,
       MarkProcessing, SetProcessing, Fetch, FetchFindsNoFile, EmbedAndInsert, InsertChunk,
       MarkReady, SetReady, Fails, MarkFailed, SetFailed, MarkFailedRaises, RaisesEarly, Finish,
       Cancel, Crash,
       EffectUnseen, MarkProcessingUnseen, MarkReadyUnseen, storeVars
  <2>3. \A k \in chunks : k.src = s => k \in chunks'
    BY <2>1, JobEffects DEF DeleteStaleChunks, DeleteChunks
  <2>4. Whole(s, s) => Whole(s, s)'
    BY <1>1, <1>2, <2>3, JobEffects, WholeKept
  <2> QED BY <1>1, <1>2, <2>2, <2>4, JobEffects DEF LoneRun, SaidReady
<1>3. CASE j = s
  <2>1. step'[s] \in {"mark", "ready"} \cup AfterMark => Whole(s, s)'
    <3>1. CASE DeleteStaleChunks(s)
      BY <1>1, <3>1, WholeOpens
    <3>2. CASE Whole(s, s)
      BY <1>1, <1>3, <3>2, WholeMoves DEF Lost, AfterMark, InTry
    <3>3. CASE step[s] \in {"none", "queued", "get", "delete"} /\ ~ DeleteStaleChunks(s)
      BY <1>3, <3>3 DEF Job, JobStep, JobFault, Start, Dequeue, GetSource, MarkProcessing,
         Fetch, FetchFindsNoFile, EmbedAndInsert, MarkReady, Fails, MarkFailed,
         MarkFailedRaises, RaisesEarly, Finish, Cancel, Crash,
         EffectUnseen, MarkProcessingUnseen, MarkReadyUnseen, MoveTo, AfterMark, InTry
    <3>4. step[s] \in {"failed", "notfound"} \cup Lost => FALSE
      BY <1>3 DEF Job, JobStep, JobFault, Start, Dequeue, GetSource, DeleteStaleChunks,
         MarkProcessing, Fetch, FetchFindsNoFile, EmbedAndInsert, MarkReady, Fails, MarkFailed,
         MarkFailedRaises, RaisesEarly, Finish, Cancel, Crash,
         EffectUnseen, MarkProcessingUnseen, MarkReadyUnseen, Lost, Running, BeforeMark,
         AfterMark, InTry
    <3> QED BY <1>1, <3>1, <3>2, <3>3, <3>4
            DEF LoneRun, Running, Ended, BeforeMark, AfterMark, InTry
  <2>2. /\ SaidReady(s)' => done'[s] = size'[s]
        /\ status'[s] = "ready" =>
             SaidReady(s)' \/ step'[s] \in {"queued"} \cup BeforeMark \cup Lost
    <3> USE <1>1, <1>3 DEF LoneRun, SaidReady, workerVars, runVars, Job, MoveTo, storeVars, Sources, BeforeMark, AfterMark, InTry,
                           Running, Lost
    <3>1. CASE Start(s) \/ GetSource(s)
      BY <3>1 DEF Start, Dequeue, GetSource
    <3>2. CASE DeleteStaleChunks(s) \/ MarkProcessing(s)
      BY <3>2 DEF DeleteStaleChunks, DeleteChunks, MarkProcessing, SetProcessing
    <3>3. CASE Fetch(s) \/ FetchFindsNoFile(s) \/ Fails(s)
      BY <3>3 DEF Fetch, FetchFindsNoFile, Fails
    <3>4. CASE EmbedAndInsert(s) \/ MarkReady(s) \/ MarkFailed(s)
      BY <3>4 DEF EmbedAndInsert, InsertChunk, MarkReady, SetReady, MarkFailed, SetFailed, queueVars
    <3>5. CASE MarkFailedRaises(s) \/ RaisesEarly(s) \/ Finish(s) \/ JobFault(s)
      BY <3>5 DEF MarkFailedRaises, RaisesEarly, Finish, JobFault, Cancel, Crash,
                  EffectUnseen, MarkProcessingUnseen, MarkReadyUnseen
    <3> QED BY <3>1, <3>2, <3>3, <3>4, <3>5 DEF JobStep
  <2> QED BY <2>1, <2>2 DEF LoneRun
<1> QED BY <1>2, <1>3

\* A source that was requested once and says "ready" has its whole document,
\* but for what the rerun of an interrupted job is about to replace.
THEOREM OnceTheorem == Spec => []ReadyOnceIsComplete
<1>1. Init => LoneRuns
  BY DEF Init, StoreInit, LoneRuns, Sources
<1>2. Basics /\ LoneRuns /\ [Next]_vars => LoneRuns'
  <2> SUFFICES ASSUME Basics, LoneRuns, [Next]_vars PROVE LoneRuns'
    OBVIOUS
  <2>1. CASE Next
    BY <2>1, CollectionLone, RequestLone, JobLone DEF Next
  <2>2. CASE UNCHANGED vars
    BY <2>2 DEF vars, storeVars, queueVars, serviceVars, workerVars, runVars,
                LoneRuns, LoneRun, SaidReady, Sources, JobsOf, Whole, Intact, ChunkAt
  <2> QED BY <2>1, <2>2
<1>3. LoneRuns => ReadyOnceIsComplete
  <2> SUFFICES ASSUME LoneRuns, NEW s \in Sources, JobsOf(s) = {s}, status[s] = "ready",
                      step[s] \notin {"queued"} \cup BeforeMark \cup Lost
               PROVE  SaidReady(s) /\ done[s] = size[s] /\ Intact(s)
    BY DEF ReadyOnceIsComplete
  <2>1. SaidReady(s) /\ done[s] = size[s] /\ Whole(s, s)
    BY DEF LoneRuns, LoneRun, SaidReady, AfterMark
  <2> QED BY <2>1 DEF Whole
<1> QED BY BasicsInvariant, <1>1, <1>2, <1>3, PTL DEF Spec

-----------------------------------------------------------------------------
\* Duplicates need overlap.  While no two jobs have run on a source at once,
\* its chunks all come from one run, the current one after its DELETE.

OneRun ==
  \A s \in Requests \ overlapped :
    /\ \A j, k \in RunningOn(s) : j = k
    /\ \A c, d \in ChunksOf(s) : c.job = d.job /\ c.run = d.run
    /\ \A j \in RunningOn(s) : step[j] \in {"mark"} \cup AfterMark =>
         \A c \in ChunksOf(s) : c.job = j /\ c.run = tries[j]

\* A request neither starts, moves nor stops a run, and adds no chunk.
LEMMA RequestLeavesRuns ==
  ASSUME Basics, NEW r \in Requests, Request(r)
  PROVE  /\ UNCHANGED <<tries, overlapped>>
         /\ chunks' \subseteq chunks
         /\ \A j \in Requests : IF step[j] \in Running
                                THEN step'[j] = step[j] /\ source'[j] = source[j]
                                ELSE step'[j] \notin Running
         /\ \A s : RunningOn(s)' = RunningOn(s)
<1>1. /\ UNCHANGED <<tries, overlapped>>
      /\ chunks' \subseteq chunks
      /\ \A j \in Requests : IF step[j] \in Running
                             THEN step'[j] = step[j] /\ source'[j] = source[j]
                             ELSE step'[j] \notin Running
  <2> USE QueueAssumption
      DEF Basics, TypeOK, QueueTypeOK, RequestPhase, Request, Goto,
          storeVars, queueVars, workerVars, AfterUpsert, InFlight,
          Running, BeforeMark, AfterMark, InTry
  <2>1. CASE Upsert(r)
    BY <2>1 DEF Upsert, InsertSource, ResetSource
  <2>2. CASE EnqueueJob(r) \/ EnqueueReplyLost(r)
    BY <2>2 DEF EnqueueJob, EnqueueReplyLost, Enqueue
  <2>3. CASE DeleteOldChunks(r)
    BY <2>3 DEF DeleteOldChunks, DeleteChunks
  <2>4. CASE AssertCollectionExists(r) \/ UpsertRejected(r) \/ UploadFile(r) \/ Abort(r)
    BY <2>4 DEF AssertCollectionExists, UpsertRejected, UploadFile, Abort
  <2> QED BY <2>1, <2>2, <2>3, <2>4 DEF IngestStep, IngestFault
<1>2. \A s : RunningOn(s)' = RunningOn(s)
  BY <1>1 DEF RunningOn, JobsOf
<1> QED BY <1>1, <1>2

LEMMA RequestOneRun ==
  ASSUME Basics, OneRun, NEW r \in Requests, Request(r)
  PROVE  OneRun'
  BY RequestLeavesRuns DEF OneRun, ChunksOf, RunningOn, JobsOf

LEMMA CollectionOneRun ==
  ASSUME Basics, OneRun, NEW c \in Collections, Collection(c)
  PROVE  OneRun'
<1>1. UNCHANGED <<source, step, tries, overlapped>> /\ chunks' \subseteq chunks
  BY DEF Collection, CreateCollection, DeleteCollection, queueVars, workerVars
<1> QED BY <1>1 DEF OneRun, ChunksOf, RunningOn, JobsOf

LEMMA JobOneRun ==
  ASSUME Basics, OneRun, NEW j \in Requests, Job(j)
  PROVE  OneRun'
<1> USE DEF Basics, TypeOK, StoreTypeOK, QueueTypeOK, WorkerTypeOK, RequestPhase
<1> DEFINE Opened == {"mark"} \cup AfterMark
\* Only a start makes a job run, and no other job is touched.
<1>1. /\ UNCHANGED source
      /\ \A k \in Requests \ {j} : step'[k] = step[k] /\ tries'[k] = tries[k]
      /\ overlapped \subseteq overlapped'
      /\ Start(j) \/ (UNCHANGED <<tries, overlapped>> /\ (step'[j] \in Running => step[j] \in Running))
      /\ \/ DeleteStaleChunks(j)
         \/ EmbedAndInsert(j)
         \/ UNCHANGED chunks /\ (step'[j] \in Opened => step[j] \in Opened)
  <2> USE DEF Job, storeVars, queueVars, workerVars, runVars, MoveTo,
              Running, BeforeMark, AfterMark, InTry
  <2>1. CASE Start(j)
    BY <2>1 DEF Start, Dequeue
  <2>2. CASE GetSource(j) \/ DeleteStaleChunks(j)
    BY <2>2 DEF GetSource, DeleteStaleChunks, DeleteChunks
  <2>3. CASE MarkProcessing(j)
    BY <2>3 DEF MarkProcessing, SetProcessing
  <2>4. CASE Fetch(j) \/ FetchFindsNoFile(j) \/ Fails(j)
    BY <2>4 DEF Fetch, FetchFindsNoFile, Fails
  <2>5. CASE EmbedAndInsert(j)
    BY <2>5 DEF EmbedAndInsert
  <2>6. CASE MarkReady(j) \/ MarkFailed(j)
    BY <2>6 DEF MarkReady, SetReady, MarkFailed, SetFailed
  <2>7. CASE MarkFailedRaises(j) \/ RaisesEarly(j) \/ Finish(j) \/ JobFault(j)
    BY <2>7 DEF MarkFailedRaises, RaisesEarly, Finish, JobFault, Cancel, Crash,
                EffectUnseen, MarkProcessingUnseen, MarkReadyUnseen, SetProcessing, SetReady
  <2> QED BY <2>1, <2>2, <2>3, <2>4, <2>5, <2>6, <2>7 DEF JobStep
<1>2. SUFFICES ASSUME NEW s \in Requests \ overlapped'
      PROVE  /\ \A k, l \in RunningOn(s)' : k = l
             /\ \A c, d \in ChunksOf(s)' : c.job = d.job /\ c.run = d.run
             /\ \A k \in RunningOn(s)' : step'[k] \in Opened =>
                  \A c \in ChunksOf(s)' : c.job = k /\ c.run = tries'[k]
  BY DEF OneRun
<1>3. s \in Requests \ overlapped
  BY <1>1
\* A start with another job running on s would put s into overlapped.
<1>4. \A k, l \in RunningOn(s)' : k = l
  <2>1. CASE Start(j)
    <3>1. step'[j] = "get" /\ source[j] = s => RunningOn(s) = {}
      BY <1>2, <2>1 DEF Start, Dequeue
    <3> QED
      BY <1>1, <1>3, <2>1, <3>1 DEF OneRun, RunningOn, JobsOf, Start, Dequeue, Running,
                                    BeforeMark, AfterMark, InTry
  <2>2. CASE ~ Start(j)
    <3>1. RunningOn(s)' \subseteq RunningOn(s)
      BY <1>1, <2>2 DEF RunningOn, JobsOf
    <3> QED BY <1>3, <3>1 DEF OneRun
  <2> QED BY <2>1, <2>2
<1>5. CASE DeleteStaleChunks(j)
  <2>1. source[j] = s => ChunksOf(s)' = {}
    BY <1>5 DEF DeleteStaleChunks, DeleteChunks, ChunksOf
  <2>2. source[j] # s => RunningOn(s)' = RunningOn(s) /\ ChunksOf(s)' \subseteq ChunksOf(s)
    BY <1>1, <1>5 DEF DeleteStaleChunks, DeleteChunks, ChunksOf, RunningOn, JobsOf
  <2>3. source[j] # s => \A k \in RunningOn(s) : step'[k] = step[k] /\ tries'[k] = tries[k]
    BY <1>1 DEF RunningOn, JobsOf
  <2> QED BY <1>3, <1>4, <2>1, <2>2, <2>3 DEF OneRun
<1>6. CASE EmbedAndInsert(j)
  <2>1. /\ step[j] = "insert" /\ UNCHANGED <<step, tries>>
        /\ chunks' = chunks \cup {ChunkAt(j, done[j])}
    BY <1>6 DEF EmbedAndInsert, InsertChunk, queueVars
  <2>2. RunningOn(s)' = RunningOn(s)
    BY <1>1, <2>1 DEF RunningOn, JobsOf
  <2>3. CASE source[j] = s
    <3>1. j \in RunningOn(s) /\ step[j] \in Opened
      BY <2>1, <2>3 DEF RunningOn, JobsOf, Running, AfterMark, InTry
    <3>2. \A c \in ChunksOf(s) : c.job = j /\ c.run = tries[j]
      BY <1>3, <3>1 DEF OneRun
    <3>3. \A c \in ChunksOf(s)' : c.job = j /\ c.run = tries[j]
      BY <2>1, <3>2 DEF ChunksOf, ChunkAt
    <3> QED BY <1>4, <2>1, <2>2, <3>1, <3>3
  <2>4. CASE source[j] # s
    <3>1. ChunksOf(s)' = ChunksOf(s)
      BY <2>1, <2>4 DEF ChunksOf, ChunkAt
    <3> QED BY <1>3, <1>4, <2>1, <2>2, <3>1 DEF OneRun
  <2> QED BY <2>3, <2>4
<1>7. CASE UNCHANGED chunks /\ (step'[j] \in Opened => step[j] \in Opened)
  <2>1. ChunksOf(s)' = ChunksOf(s)
    BY <1>7 DEF ChunksOf
  <2>2. ASSUME NEW k \in RunningOn(s)', step'[k] \in Opened
        PROVE  k \in RunningOn(s) /\ step[k] \in Opened /\ tries'[k] = tries[k]
    BY <1>1, <1>7, <2>2 DEF RunningOn, JobsOf, Start, Dequeue, Running, BeforeMark,
                            AfterMark, InTry
  <2> QED BY <1>3, <1>4, <2>1, <2>2 DEF OneRun
<1> QED BY <1>1, <1>5, <1>6, <1>7

\* Two chunks of a source at one position are the same chunk, unless two jobs
\* have run on the source at once.
THEOREM DuplicatesTheorem == Spec => []DuplicatesNeedOverlap
<1>1. Init => OneRun
  BY DEF Init, StoreInit, QueueInit, OneRun, ChunksOf, RunningOn, JobsOf,
         Running, BeforeMark, AfterMark, InTry
<1>2. Basics /\ OneRun /\ [Next]_vars => OneRun'
  <2> SUFFICES ASSUME Basics, OneRun, [Next]_vars PROVE OneRun'
    OBVIOUS
  <2>1. CASE Next
    BY <2>1, CollectionOneRun, RequestOneRun, JobOneRun DEF Next
  <2>2. CASE UNCHANGED vars
    BY <2>2 DEF vars, storeVars, queueVars, workerVars, OneRun, ChunksOf, RunningOn, JobsOf
  <2> QED BY <2>1, <2>2
<1>3. Basics /\ OneRun => DuplicatesNeedOverlap
  <2> SUFFICES ASSUME Basics, OneRun, NEW k \in chunks, NEW l \in chunks,
                      k.src = l.src, k.pos = l.pos, k.src \notin overlapped
               PROVE  k = l
    BY DEF DuplicatesNeedOverlap
  <2>1. k \in Chunk /\ l \in Chunk
    BY DEF Basics, TypeOK, StoreTypeOK
  <2>2. k.job = l.job /\ k.run = l.run
    BY <2>1 DEF OneRun, ChunksOf, Chunk
  <2> QED BY <2>1, <2>2 DEF Chunk
<1> QED BY BasicsInvariant, <1>1, <1>2, <1>3, PTL DEF Spec

-----------------------------------------------------------------------------
\* What is deleted stays deleted.

NoOrphans == \A c \in chunks : c.src \in Sources

LEMMA NoOrphansStep == Basics /\ NoOrphans /\ [Next]_vars => NoOrphans'
<1> SUFFICES ASSUME Basics, NoOrphans, [Next]_vars PROVE NoOrphans'
  OBVIOUS
<1> USE DEF Basics, TypeOK, StoreTypeOK, NoOrphans, Sources, storeVars, Statuses
<1>1. CASE \E c \in Collections : Collection(c)
  BY <1>1 DEF Collection, CreateCollection, DeleteCollection, Chunk
<1>2. ASSUME NEW r \in Requests, Request(r) PROVE NoOrphans'
  <2>1. CASE Upsert(r)
    BY <2>1 DEF Upsert, InsertSource, ResetSource
  <2>2. CASE DeleteOldChunks(r)
    BY <2>2 DEF DeleteOldChunks, DeleteChunks
  <2>3. CASE UNCHANGED storeVars
    BY <2>3
  <2> QED
    BY <1>2, <2>1, <2>2, <2>3
    DEF Request, IngestStep, IngestFault, AssertCollectionExists, UpsertRejected,
        UploadFile, EnqueueJob, EnqueueReplyLost, Abort
<1>3. ASSUME NEW j \in Requests, Job(j) PROVE NoOrphans'
  <2>1. CASE DeleteStaleChunks(j)
    BY <2>1 DEF DeleteStaleChunks, DeleteChunks
  <2>2. CASE MarkProcessing(j) \/ MarkReady(j) \/ MarkFailed(j) \/ EffectUnseen(j)
    BY <2>2 DEF MarkProcessing, SetProcessing, MarkReady, SetReady, MarkFailed, SetFailed,
                EffectUnseen, MarkProcessingUnseen, MarkReadyUnseen
  <2>3. CASE EmbedAndInsert(j)
    BY <2>3 DEF EmbedAndInsert, InsertChunk
  <2>4. CASE UNCHANGED storeVars
    BY <2>4
  <2> QED
    BY <1>3, <2>1, <2>2, <2>3, <2>4
    DEF Job, JobStep, JobFault, Start, GetSource, Fetch, FetchFindsNoFile, Fails,
        MarkFailedRaises, RaisesEarly, Finish, Cancel, Crash
<1>4. CASE UNCHANGED vars
  BY <1>4 DEF vars
<1> QED BY <1>1, <1>2, <1>3, <1>4 DEF Next

\* Only an INSERT brings a row into being, and the row it names is new.
LEMMA RowsStayGone ==
  ASSUME Basics, [Next]_vars, NEW s \in Requests, source[s] = s, s \notin Sources
  PROVE  s \notin Sources'
<1> USE DEF Basics, TypeOK, StoreTypeOK, Sources, storeVars
<1>1. CASE \E c \in Collections : Collection(c)
  BY <1>1 DEF Collection, CreateCollection, DeleteCollection
<1>2. ASSUME NEW r \in Requests, Request(r) PROVE s \notin Sources'
  <2>1. CASE Upsert(r)
    <3>1. source[r] = NoSource
      BY <2>1 DEF Upsert, RequestPhase
    <3>2. r # s
      BY <3>1, QueueAssumption
    <3> QED BY <2>1, <3>2 DEF Upsert, InsertSource, ResetSource
  <2>2. CASE DeleteOldChunks(r)
    BY <2>2 DEF DeleteOldChunks, DeleteChunks
  <2>3. CASE UNCHANGED storeVars
    BY <2>3
  <2> QED
    BY <1>2, <2>1, <2>2, <2>3
    DEF Request, IngestStep, IngestFault, AssertCollectionExists, UpsertRejected,
        UploadFile, EnqueueJob, EnqueueReplyLost, Abort
<1>3. ASSUME NEW j \in Requests, Job(j) PROVE s \notin Sources'
  <2>1. CASE MarkProcessing(j) \/ MarkReady(j) \/ MarkFailed(j) \/ EffectUnseen(j)
    BY <2>1 DEF MarkProcessing, SetProcessing, MarkReady, SetReady, MarkFailed, SetFailed,
                EffectUnseen, MarkProcessingUnseen, MarkReadyUnseen
  <2>2. CASE UNCHANGED status
    BY <2>2
  <2> QED
    BY <1>3, <2>1, <2>2
    DEF Job, JobStep, JobFault, Start, GetSource, DeleteStaleChunks, DeleteChunks, Fetch,
        FetchFindsNoFile, EmbedAndInsert, InsertChunk, Fails,
        MarkFailedRaises, RaisesEarly, Finish, Cancel, Crash
<1>4. CASE UNCHANGED vars
  BY <1>4 DEF vars
<1> QED BY <1>1, <1>2, <1>3, <1>4 DEF Next

\* The work in flight can neither bring back a deleted source nor leave
\* chunks behind for it.
THEOREM DeletedTheorem == Spec => DeletedStaysDeleted
<1>1. Init => NoOrphans
  BY DEF Init, StoreInit, NoOrphans
<1>2. ASSUME Basics, NoOrphans, [Next]_vars
      PROVE  [\A s \in Requests :
                source[s] = s /\ s \notin Sources =>
                  s \notin Sources' /\ ChunksOf(s)' = {}]_vars
  <2>1. NoOrphans'
    BY <1>2, NoOrphansStep
  <2>2. ASSUME NEW s \in Requests, source[s] = s, s \notin Sources
        PROVE  s \notin Sources' /\ ChunksOf(s)' = {}
    BY <1>2, <2>1, <2>2, RowsStayGone DEF NoOrphans, ChunksOf
  <2> QED BY <2>2
<1> QED BY BasicsInvariant, NoOrphansStep, <1>1, <1>2, PTL DEF Spec, DeletedStaysDeleted

-----------------------------------------------------------------------------
\* Ready fails only by overlap, or unseen.  The one run on a source that is
\* ready has left its try block, and if by an exception, then by set_ready's.

Unsaid(j) == step[j] \in InTry \/ (step[j] = "setfailed" /\ cause[j] # "unseen")

ReadyIsSettled ==
  \A s \in Sources \ overlapped : status[s] = "ready" => \A j \in RunningOn(s) : ~ Unsaid(j)

LEMMA RequestReady ==
  ASSUME Basics, ReadyIsSettled, NEW r \in Requests, Request(r)
  PROVE  ReadyIsSettled'
<1>1. \A s \in Sources' : status'[s] = "ready" => s \in Sources /\ status[s] = "ready"
  <2> USE DEF Basics, TypeOK, StoreTypeOK, Request, storeVars, Sources
  <2>1. CASE Upsert(r)
    BY <2>1 DEF Upsert, InsertSource, ResetSource
  <2>2. CASE UNCHANGED status
    BY <2>2
  <2> QED
    BY <2>1, <2>2 DEF IngestStep, IngestFault, AssertCollectionExists, UpsertRejected,
       DeleteOldChunks, DeleteChunks, UploadFile, EnqueueJob, EnqueueReplyLost, Abort
<1>2. UNCHANGED cause
  BY DEF Request, workerVars, runVars
<1> QED BY <1>1, <1>2, RequestLeavesRuns DEF ReadyIsSettled, Unsaid, RunningOn, JobsOf

LEMMA JobReady ==
  ASSUME Basics, OneRun, ReadyIsSettled, NEW j \in Requests, Job(j)
  PROVE  ReadyIsSettled'
<1> USE DEF Basics, TypeOK, StoreTypeOK, QueueTypeOK, WorkerTypeOK
<1> SUFFICES ASSUME NEW s \in Sources' \ overlapped', status'[s] = "ready",
                    NEW k \in RunningOn(s)'
             PROVE  ~ Unsaid(k)'
  BY DEF ReadyIsSettled
\* The writer of the row is the only one that runs on it.
<1>1. CASE (MarkReady(j) \/ MarkReadyUnseen(j)) /\ source[j] = s
  <2>1. /\ step[j] = "insert" /\ ~ Unsaid(j)' /\ source' = source
        /\ overlapped' = overlapped /\ \A i \in Requests \ {j} : step'[i] = step[i]
    BY <1>1 DEF MarkReady, MarkReadyUnseen, MoveTo, workerVars, Unsaid, InTry
  <2>2. j \in RunningOn(s) /\ (k # j => k \in RunningOn(s))
    BY <1>1, <2>1 DEF RunningOn, JobsOf, Running, AfterMark, InTry
  <2>3. k = j
    BY <2>1, <2>2 DEF OneRun, Sources
  <2> QED BY <2>1, <2>3
<1>2. CASE ~ ((MarkReady(j) \/ MarkReadyUnseen(j)) /\ source[j] = s)
  <2>1. /\ source' = source /\ overlapped \subseteq overlapped'
        /\ Sources' = Sources
        /\ status[s] = "ready"
        /\ \A i \in Requests \ {j} : step'[i] = step[i] /\ cause'[i] = cause[i]
        /\ Unsaid(j)' /\ source[j] = s => Unsaid(j)
    <3> USE <1>2 DEF Job, storeVars, queueVars, workerVars, runVars, MoveTo, Sources,
                     Unsaid, InTry, BeforeMark, Running
    <3>1. CASE Start(j)
      BY <3>1 DEF Start, Dequeue
    <3>2. CASE GetSource(j) \/ DeleteStaleChunks(j)
      BY <3>2 DEF GetSource, DeleteStaleChunks, DeleteChunks
    <3>3. CASE MarkProcessing(j)
      BY <3>3 DEF MarkProcessing, SetProcessing
    <3>4. CASE Fetch(j) \/ FetchFindsNoFile(j) \/ Fails(j)
      BY <3>4 DEF Fetch, FetchFindsNoFile, Fails
    <3>5. CASE EmbedAndInsert(j)
      BY <3>5 DEF EmbedAndInsert, InsertChunk
    <3>6. CASE MarkReady(j) \/ MarkFailed(j)
      BY <3>6 DEF MarkReady, SetReady, MarkFailed, SetFailed
    <3>7. CASE MarkFailedRaises(j) \/ RaisesEarly(j) \/ Finish(j) \/ Cancel(j) \/ Crash(j)
      BY <3>7 DEF MarkFailedRaises, RaisesEarly, Finish, Cancel, Crash
    <3>8. CASE EffectUnseen(j)
      BY <3>8 DEF EffectUnseen, MarkProcessingUnseen, MarkReadyUnseen, SetProcessing, SetReady
    <3> QED BY <3>1, <3>2, <3>3, <3>4, <3>5, <3>6, <3>7, <3>8 DEF JobStep, JobFault
  <2>2. Unsaid(k)' => k \in RunningOn(s) /\ Unsaid(k)
    BY <2>1 DEF Unsaid, RunningOn, JobsOf, Running, AfterMark
  <2> QED BY <2>1, <2>2 DEF ReadyIsSettled
<1> QED BY <1>1, <1>2

\* A ready source is marked failed only by a job that was running on it
\* together with another one, or did not see that it had marked it ready.
THEOREM ReadyTheorem == Spec => ReadyFailsOnlyByOverlap
<1>1. Init => OneRun /\ ReadyIsSettled
  BY DEF Init, StoreInit, QueueInit, OneRun, ReadyIsSettled, ChunksOf, RunningOn, JobsOf,
         Sources, Running, BeforeMark, AfterMark, InTry
<1>2. ASSUME Basics, OneRun, ReadyIsSettled, [Next]_vars
      PROVE  OneRun' /\ ReadyIsSettled'
  <2>1. CASE \E c \in Collections : Collection(c)
    <3>1. UNCHANGED <<source, step, cause, overlapped>>
      BY <2>1 DEF Collection, queueVars, workerVars, runVars
    <3>2. \A s \in Sources' : s \in Sources /\ status'[s] = status[s]
      BY <1>2, <2>1 DEF Collection, CreateCollection, DeleteCollection, Sources
    <3> QED
      BY <1>2, <2>1, <3>1, <3>2, CollectionOneRun DEF ReadyIsSettled, Unsaid, RunningOn, JobsOf
  <2>2. CASE \E r \in Requests : Request(r)
    BY <1>2, <2>2, RequestOneRun, RequestReady
  <2>3. CASE \E j \in Requests : Job(j)
    BY <1>2, <2>3, JobOneRun, JobReady
  <2>4. CASE UNCHANGED vars
    BY <1>2, <2>4 DEF vars, storeVars, queueVars, workerVars, runVars, OneRun, ReadyIsSettled,
                      Unsaid, ChunksOf, RunningOn, JobsOf, Sources
  <2> QED BY <1>2, <2>1, <2>2, <2>3, <2>4 DEF Next
<1>3. ASSUME Basics, OneRun, ReadyIsSettled, [Next]_vars
      PROVE  [\A s \in Sources :
                status[s] = "ready" /\ status'[s] = "failed" =>
                  s \in overlapped \/ reason'[s] = "unseen"]_vars
  <2> SUFFICES ASSUME NEW s \in Sources, status[s] = "ready", status'[s] = "failed"
               PROVE  s \in overlapped \/ reason'[s] = "unseen"
    OBVIOUS
  <2> USE <1>3 DEF Basics, TypeOK, StoreTypeOK, Sources
  <2>1. PICK j \in Requests : MarkFailed(j) /\ source[j] = s
    <3>1. ~ UNCHANGED status
      OBVIOUS
    <3>2. CASE \E c \in Collections : Collection(c)
      BY <3>2 DEF Collection, CreateCollection, DeleteCollection
    <3>3. ASSUME NEW r \in Requests, Request(r) PROVE FALSE
      BY <3>1, <3>3 DEF Request, IngestStep, IngestFault, AssertCollectionExists, Upsert,
         InsertSource, ResetSource, UpsertRejected, DeleteOldChunks, DeleteChunks,
         UploadFile, EnqueueJob, EnqueueReplyLost, Abort, storeVars
    <3>4. ASSUME NEW j \in Requests, Job(j) PROVE MarkFailed(j) /\ source[j] = s
      BY <3>1, <3>4 DEF Job, JobStep, JobFault, Start, GetSource, DeleteStaleChunks,
         DeleteChunks, MarkProcessing, SetProcessing, Fetch, FetchFindsNoFile,
         EmbedAndInsert, InsertChunk, MarkReady, SetReady, Fails, MarkFailed, SetFailed,
         MarkFailedRaises, RaisesEarly, Finish, Cancel, Crash,
         EffectUnseen, MarkProcessingUnseen, MarkReadyUnseen, storeVars
    <3> QED BY <3>1, <3>2, <3>3, <3>4 DEF Next, vars, storeVars
  <2>2. j \in RunningOn(s) /\ step[j] = "setfailed"
    BY <2>1 DEF MarkFailed, RunningOn, JobsOf, Running, AfterMark
  <2>3. reason'[s] = cause[j]
    BY <2>1 DEF MarkFailed, SetFailed
  <2> QED BY <2>2, <2>3 DEF ReadyIsSettled, Unsaid
<1> QED BY BasicsInvariant, <1>1, <1>2, <1>3, PTL DEF Spec, ReadyFailsOnlyByOverlap

-----------------------------------------------------------------------------
\* An upload is stored before its job is enqueued.

Stored ==
  \A r \in Requests :
    IsUpload(r) /\ (pc[r] = "enqueue" \/ step[r] # "none") => source[r] \in uploads

LEMMA RequestStored ==
  ASSUME Basics, Stored, NEW r \in Requests, Request(r)
  PROVE  Stored'
<1> USE DEF Basics, TypeOK, QueueTypeOK, ServiceTypeOK, RequestPhase, Stored, Goto, queueVars,
            AfterUpsert, IsUpload, AfterCleanup
<1>1. CASE AssertCollectionExists(r)
  BY <1>1 DEF AssertCollectionExists
<1>2. CASE Upsert(r)
  BY <1>2 DEF Upsert
<1>3. CASE UpsertRejected(r)
  BY <1>3 DEF UpsertRejected
<1>4. CASE DeleteOldChunks(r)
  BY <1>4 DEF DeleteOldChunks
<1>5. CASE UploadFile(r)
  BY <1>5 DEF UploadFile
<1>6. CASE EnqueueJob(r) \/ EnqueueReplyLost(r)
  BY <1>6 DEF EnqueueJob, EnqueueReplyLost, Enqueue
<1>7. CASE Abort(r)
  BY <1>7 DEF Abort
<1> QED
  BY <1>1, <1>2, <1>3, <1>4, <1>5, <1>6, <1>7 DEF Request, IngestStep, IngestFault

\* No job of an upload is queued or run before its file has been stored.
THEOREM UploadTheorem == Spec => []JobsFindUploadStored
<1>1. Init => Stored
  BY DEF Init, QueueInit, ServiceInit, Stored
<1>2. Basics /\ Stored /\ [Next]_vars => Stored'
  <2> SUFFICES ASSUME Basics, Stored, [Next]_vars PROVE Stored'
    OBVIOUS
  <2>1. ASSUME NEW c \in Collections, Collection(c) PROVE Stored'
    BY <2>1 DEF Collection, queueVars, serviceVars, Stored
  <2>2. ASSUME NEW j \in Requests, Job(j) PROVE Stored'
    <3>1. /\ UNCHANGED <<source, serviceVars>> /\ step[j] # "none"
          /\ \A r \in Requests \ {j} : step'[r] = step[r]
      BY <2>2 DEF Basics, TypeOK, QueueTypeOK, MoveTo, queueVars, serviceVars, Job, JobStep,
         JobFault, Start, Dequeue, GetSource, DeleteStaleChunks, MarkProcessing, Fetch,
         FetchFindsNoFile, EmbedAndInsert, MarkReady, Fails, MarkFailed, MarkFailedRaises,
         RaisesEarly, Finish, Cancel, Crash,
         EffectUnseen, MarkProcessingUnseen, MarkReadyUnseen, Running, BeforeMark, AfterMark, InTry
    <3> QED BY <3>1 DEF Stored, serviceVars
  <2>3. CASE UNCHANGED vars
    BY <2>3 DEF vars, queueVars, serviceVars, Stored
  <2> QED BY <2>1, <2>2, <2>3, RequestStored DEF Next
<1>3. Stored => JobsFindUploadStored
  BY DEF Stored, JobsFindUploadStored
<1> QED BY <1>1, <1>2, <1>3, BasicsInvariant, PTL DEF Spec

-----------------------------------------------------------------------------
\* Jobs wear out.

\* Every step of a job is its own: it uses up an attempt or brings it nearer
\* to the end of one.
LEMMA JobWears ==
  ASSUME Basics, NEW j \in Requests, Job(j)
  PROVE  WearsOut(j)
<1> USE DEF Basics, TypeOK, QueueTypeOK, WorkerTypeOK, Job, MoveTo, queueVars, workerVars, runVars,
            WearsOut, Distance
<1>1. CASE Start(j)
  BY <1>1, QueueAssumption DEF Start, Dequeue
<1>2. CASE GetSource(j) \/ DeleteStaleChunks(j) \/ MarkProcessing(j)
  BY <1>2 DEF GetSource, DeleteStaleChunks, MarkProcessing
<1>3. CASE Fetch(j) \/ FetchFindsNoFile(j)
  BY <1>3 DEF Fetch, FetchFindsNoFile
<1>4. CASE EmbedAndInsert(j)
  BY <1>4, ChunksAssumption DEF EmbedAndInsert
<1>5. CASE MarkReady(j) \/ Fails(j) \/ MarkFailed(j) \/ MarkFailedRaises(j)
  BY <1>5 DEF MarkReady, Fails, MarkFailed, MarkFailedRaises, InTry
<1>6. CASE RaisesEarly(j) \/ Finish(j)
  BY <1>6 DEF RaisesEarly, Finish, BeforeMark
<1>7. CASE JobFault(j)
  BY <1>7 DEF JobFault, Cancel, Crash, EffectUnseen, MarkProcessingUnseen, MarkReadyUnseen,
              Running, BeforeMark, AfterMark, InTry
<1> QED BY <1>1, <1>2, <1>3, <1>4, <1>5, <1>6, <1>7 DEF JobStep

\* Where a job is and what it has inserted.
Course(j) == <<step[j], tries[j], size[j], done[j]>>

LEMMA JobLeavesOthers ==
  ASSUME Basics, NEW j \in Requests, Job(j), NEW k \in Requests, k # j
  PROVE  UNCHANGED Course(k)
<1> USE DEF Basics, TypeOK, QueueTypeOK, WorkerTypeOK, Job, MoveTo, queueVars, workerVars, runVars,
            Course
<1>1. CASE Start(j) \/ Fetch(j) \/ EmbedAndInsert(j)
  BY <1>1 DEF Start, Dequeue, Fetch, EmbedAndInsert
<1>2. CASE ~ (Start(j) \/ Fetch(j) \/ EmbedAndInsert(j))
  BY <1>2 DEF JobStep, JobFault, GetSource, DeleteStaleChunks, MarkProcessing, FetchFindsNoFile,
       MarkReady, Fails, MarkFailed, MarkFailedRaises, RaisesEarly, Finish, Cancel, Crash,
       EffectUnseen, MarkProcessingUnseen, MarkReadyUnseen
<1> QED BY <1>1, <1>2

LEMMA RequestLeavesJobs ==
  ASSUME Basics, NEW r \in Requests, Request(r), NEW k \in Requests, step[k] # "none"
  PROVE  UNCHANGED Course(k)
<1> USE DEF Basics, TypeOK, QueueTypeOK, RequestPhase, Request, queueVars, workerVars, runVars, Course,
            AfterUpsert
<1>1. CASE EnqueueJob(r) \/ EnqueueReplyLost(r)
  BY <1>1 DEF EnqueueJob, EnqueueReplyLost, Enqueue
<1>2. CASE ~ (EnqueueJob(r) \/ EnqueueReplyLost(r))
  BY <1>2 DEF IngestStep, IngestFault, AssertCollectionExists, Upsert, UpsertRejected,
       DeleteOldChunks, UploadFile, Abort
<1> QED BY <1>1, <1>2

\* A job that was queued comes to its end in boundedly many steps: whatever
\* the others, the crashes and the timeouts, none sends it back for nothing.
THEOREM WearTheorem == Spec => JobsWearOut
<1>1. ASSUME Basics, [Next]_vars
      PROVE  [\A j \in Requests :
                step[j] # "none" => WearsOut(j) \/ UNCHANGED <<step[j], tries[j], size[j], done[j]>>]_vars
  <2> SUFFICES ASSUME NEW k \in Requests, step[k] # "none"
               PROVE  WearsOut(k) \/ UNCHANGED Course(k)
    BY DEF Course
  <2>1. ASSUME NEW j \in Requests, Job(j) PROVE WearsOut(k) \/ UNCHANGED Course(k)
    BY <1>1, <2>1, JobWears, JobLeavesOthers
  <2>2. ASSUME NEW r \in Requests, Request(r) PROVE UNCHANGED Course(k)
    BY <1>1, <2>2, RequestLeavesJobs
  <2>3. ASSUME NEW c \in Collections, Collection(c) PROVE UNCHANGED Course(k)
    BY <2>3 DEF Collection, queueVars, workerVars, runVars, Course
  <2>4. CASE UNCHANGED vars
    BY <2>4 DEF vars, queueVars, workerVars, runVars, Course
  <2> QED BY <1>1, <2>1, <2>2, <2>3, <2>4 DEF Next
<1> QED BY <1>1, BasicsInvariant, PTL DEF Spec, JobsWearOut

=============================================================================
