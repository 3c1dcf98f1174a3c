----------------------- MODULE SourceLifecycleProofs -----------------------
(***************************************************************************)
(* SourcePipeline implements SourceLifecycle, for any sets of requests,    *)
(* collections and origins and any bounds: each of its steps is a step of  *)
(* one ticket, a removal of sources, or nothing that the tickets show.     *)
(***************************************************************************)
EXTENDS SourcePipelineProofs

LEMMA InitImplements == Init => Lifecycle!Init
  BY DEF Init, StoreInit, QueueInit, ServiceInit, Lifecycle!Init, Ticket,
         AfterUpsert, BeforeMark, InTry, Lost

\* A step that moves request r or its job moves the ticket of r at most.
LEMMA OthersKeepTickets ==
  ASSUME NEW r \in Requests,
         \A x \in Requests \ {r} :
           step'[x] = step[x] /\ cause'[x] = cause[x] /\ pc'[x] = pc[x]
  PROVE  /\ [x \in Requests |-> Ticket(x)]' =
              [[x \in Requests |-> Ticket(x)] EXCEPT ![r] = Ticket(r)']
         /\ Ticket(r)' = Ticket(r) => UNCHANGED [x \in Requests |-> Ticket(x)]
<1>1. \A x \in Requests \ {r} : Ticket(x)' = Ticket(x)
  <2> SUFFICES ASSUME NEW x \in Requests \ {r} PROVE Ticket(x)' = Ticket(x)
    OBVIOUS
  <2>1. step'[x] = step[x] /\ cause'[x] = cause[x] /\ pc'[x] = pc[x]
    OBVIOUS
  <2> QED BY <2>1 DEF Ticket
<1> QED BY <1>1

LEMMA CollectionImplements ==
  ASSUME Basics, NEW c \in Collections, Collection(c)
  PROVE  [Lifecycle!Next]_(Lifecycle!lifecycleVars)
<1> DEFINE gone == {s \in Sources : CollectionOf[s] = c}
<1>1. UNCHANGED <<pc, source, step, cause>>
  BY DEF Collection, serviceVars, queueVars, workerVars, runVars
<1>2. UNCHANGED [x \in Requests |-> Ticket(x)]
  BY <1>1 DEF Ticket
<1>3. CASE CreateCollection(c)
  BY <1>1, <1>2, <1>3 DEF CreateCollection, Lifecycle!lifecycleVars
<1>4. CASE DeleteCollection(c)
  <2>1. gone \in SUBSET {s \in Requests : Lifecycle!Exists(s)}
    BY DEF Sources, Lifecycle!Exists
  <2>2. Lifecycle!Remove(gone)
    BY <1>1, <1>2, <1>4 DEF DeleteCollection, Lifecycle!Remove
  <2> QED BY <2>1, <2>2 DEF Lifecycle!Next
<1> QED BY <1>3, <1>4 DEF Collection

\* Refused before the upsert, opened by it, lost after it or unseen.
LEMMA RequestImplements ==
  ASSUME Basics, NEW r \in Requests, Request(r)
  PROVE  [Lifecycle!Next]_(Lifecycle!lifecycleVars)
<1> DEFINE T == [x \in Requests |-> Ticket(x)]
<1> USE DEF Basics, TypeOK, ServiceTypeOK, QueueTypeOK, StoreTypeOK, RequestPhase, Goto,
            storeVars, queueVars, workerVars, runVars
<1>1. \A x \in Requests \ {r} :
        step'[x] = step[x] /\ cause'[x] = cause[x] /\ pc'[x] = pc[x]
  BY DEF Request, IngestStep, IngestFault, AssertCollectionExists, Upsert, UpsertRejected,
         DeleteOldChunks, UploadFile, EnqueueJob, EnqueueReplyLost, Abort, Enqueue
<1>2. T' = [T EXCEPT ![r] = Ticket(r)'] /\ (Ticket(r)' = Ticket(r) => UNCHANGED T)
  BY <1>1, OthersKeepTickets
<1>3. CASE AssertCollectionExists(r) \/ UpsertRejected(r) \/ (pc[r] = "upsert" /\ Abort(r))
  <2>1. /\ UNCHANGED <<source, status>>
        /\ Ticket(r) = "none" /\ Ticket(r)' \in {"none", "refused"}
    BY <1>3 DEF AssertCollectionExists, UpsertRejected, Abort, Ticket, AfterUpsert,
                BeforeMark, InTry, Lost
  <2>2. CASE Ticket(r)' = "none"
    BY <1>2, <2>1, <2>2 DEF Lifecycle!lifecycleVars
  <2>3. CASE Ticket(r)' = "refused"
    <3>1. Lifecycle!Refuse(r)
      BY <1>2, <2>1, <2>3 DEF Lifecycle!Refuse, Lifecycle!Pass
    <3> QED BY <3>1 DEF Lifecycle!Next
  <2> QED BY <2>1, <2>2, <2>3
<1>4. CASE Upsert(r)
  <2>1. Ticket(r) = "none" /\ Ticket(r)' = "open"
    BY <1>4 DEF Upsert, AfterCleanup, Ticket, AfterUpsert, BeforeMark, InTry, Lost
  <2>2. \E s \in Requests :
          /\ Lifecycle!Exists(s) \/ s = r
          /\ source' = [source EXCEPT ![r] = s]
          /\ status' = [status EXCEPT ![s] = "pending"]
    BY <1>4 DEF Upsert, InsertSource, ResetSource, Sources, Lifecycle!Exists
  <2>3. Lifecycle!Open(r)
    BY <1>2, <2>1, <2>2 DEF Lifecycle!Open, Lifecycle!Pass, Lifecycle!Mark
  <2> QED BY <2>3 DEF Lifecycle!Next
<1>5. CASE pc[r] \in AfterUpsert /\ Abort(r)
  <2>1. /\ UNCHANGED <<source, status>>
        /\ Ticket(r) = "open" /\ Ticket(r)' = "lost"
    BY <1>5 DEF Abort, Ticket, AfterUpsert, BeforeMark, InTry, Lost
  <2>2. Lifecycle!Lose(r)
    BY <1>2, <2>1 DEF Lifecycle!Lose, Lifecycle!Pass
  <2> QED BY <2>2 DEF Lifecycle!Next
<1>6. CASE DeleteOldChunks(r) \/ UploadFile(r) \/ EnqueueJob(r) \/ EnqueueReplyLost(r)
  <2>1. /\ UNCHANGED <<source, status>>
        /\ Ticket(r)' = Ticket(r)
    BY <1>6 DEF DeleteOldChunks, DeleteChunks, UploadFile, EnqueueJob, EnqueueReplyLost,
                Enqueue, AfterCleanup, Ticket, AfterUpsert, BeforeMark, InTry, Lost
  <2> QED BY <1>2, <2>1 DEF Lifecycle!lifecycleVars
<1> QED
  BY <1>3, <1>4, <1>5, <1>6 DEF Request, IngestStep, IngestFault, Abort, InFlight

LEMMA JobImplements ==
  ASSUME Basics, NEW j \in Requests, Job(j)
  PROVE  [Lifecycle!Next]_(Lifecycle!lifecycleVars)
<1> DEFINE T == [x \in Requests |-> Ticket(x)]
<1> USE DEF Basics, TypeOK, ServiceTypeOK, QueueTypeOK, StoreTypeOK, WorkerTypeOK,
            RequestPhase, MoveTo, storeVars, queueVars, serviceVars, workerVars, runVars
<1>1. /\ UNCHANGED <<pc, source>>
      /\ \A x \in Requests \ {j} : step'[x] = step[x] /\ cause'[x] = cause[x]
  BY JobEffects
<1>2. T' = [T EXCEPT ![j] = Ticket(j)'] /\ (Ticket(j)' = Ticket(j) => UNCHANGED T)
  BY <1>1, OthersKeepTickets
<1>3. step[j] # "none" => source[j] \in Requests
  OBVIOUS
<1>4. CASE /\ \/ Start(j) /\ tries[j] < MaxTries
              \/ GetSource(j) /\ source[j] \in Sources
              \/ DeleteStaleChunks(j) \/ Fetch(j) \/ FetchFindsNoFile(j)
              \/ EmbedAndInsert(j) \/ Fails(j)
              \/ Crash(j) /\ step[j] \in BeforeMark
  <2>1. /\ UNCHANGED status
        /\ Ticket(j)' = Ticket(j)
    BY <1>1, <1>4
    DEF Start, Dequeue, GetSource, DeleteStaleChunks, DeleteChunks, Fetch, FetchFindsNoFile,
        EmbedAndInsert, InsertChunk, Fails, Crash, Ticket, BeforeMark, InTry, Lost
  <2> QED BY <1>1, <1>2, <2>1 DEF Lifecycle!lifecycleVars
<1>5. CASE GetSource(j) /\ source[j] \notin Sources
  <2>1. /\ UNCHANGED status
        /\ Ticket(j) = "open" /\ Ticket(j)' = "gone"
    BY <1>1, <1>5 DEF GetSource, Ticket, BeforeMark, InTry, Lost
  <2>2. Lifecycle!Miss(j)
    BY <1>1, <1>2, <1>3, <1>5, <2>1
    DEF Lifecycle!Miss, Lifecycle!Pass, Lifecycle!Exists, Sources, GetSource
  <2> QED BY <2>2 DEF Lifecycle!Next
<1>6. CASE MarkProcessing(j) \/ MarkProcessingUnseen(j)
  <2>1. /\ Ticket(j) = "open" /\ Ticket(j)' \in {"begun", "lost"}
    BY <1>1, <1>6 DEF MarkProcessing, MarkProcessingUnseen, Ticket, BeforeMark, InTry, Lost
  <2>2. Lifecycle!Begin(j)
    BY <1>1, <1>2, <1>6, <2>1
    DEF Lifecycle!Begin, Lifecycle!Pass, Lifecycle!Mark, Lifecycle!Exists, Sources,
        MarkProcessing, MarkProcessingUnseen, SetProcessing
  <2> QED BY <2>2 DEF Lifecycle!Next
<1>7. CASE MarkReady(j) \/ (MarkFailed(j) /\ cause[j] # "unseen")
  <2>1. /\ Ticket(j) = "begun" /\ Ticket(j)' = "reported"
    BY <1>1, <1>7 DEF MarkReady, MarkFailed, Ticket, BeforeMark, InTry, Lost
  <2>2. Lifecycle!Report(j)
    BY <1>1, <1>2, <1>7, <2>1
    DEF Lifecycle!Report, Lifecycle!Pass, Lifecycle!Mark, Lifecycle!Exists, Sources,
        MarkReady, MarkFailed, SetReady, SetFailed
  <2> QED BY <2>2 DEF Lifecycle!Next
<1>8. CASE MarkReadyUnseen(j)
  <2>1. Ticket(j) = "begun" /\ Ticket(j)' = "doubted"
    BY <1>1, <1>8 DEF MarkReadyUnseen, Ticket, BeforeMark, InTry, Lost
  <2>2. Lifecycle!Doubt(j)
    BY <1>1, <1>2, <1>8, <2>1
    DEF Lifecycle!Doubt, Lifecycle!Pass, Lifecycle!Mark, Lifecycle!Exists, Sources,
        MarkReadyUnseen, SetReady
  <2> QED BY <2>2 DEF Lifecycle!Next
<1>9. CASE MarkFailed(j) /\ cause[j] = "unseen"
  <2>1. Ticket(j) = "doubted" /\ Ticket(j)' = "reported"
    BY <1>1, <1>9 DEF MarkFailed, Ticket, BeforeMark, InTry, Lost
  <2>2. Lifecycle!Retract(j)
    BY <1>1, <1>2, <1>9, <2>1
    DEF Lifecycle!Retract, Lifecycle!Pass, Lifecycle!Mark, Lifecycle!Exists, Sources,
        MarkFailed, SetFailed
  <2> QED BY <2>2 DEF Lifecycle!Next
<1>10. CASE Finish(j)
  <2>1. /\ UNCHANGED status
        /\ Ticket(j) = "reported" /\ Ticket(j)' = "closed"
    BY <1>1, <1>10 DEF Finish, Ticket, BeforeMark, InTry, Lost
  <2>2. Lifecycle!Close(j)
    BY <1>1, <1>2, <2>1 DEF Lifecycle!Close, Lifecycle!Pass
  <2> QED BY <2>2 DEF Lifecycle!Next
<1>11. CASE Crash(j) /\ step[j] \in AfterMark
  <2>1. /\ UNCHANGED status
        /\ Ticket(j) \in {"begun", "doubted", "reported"} /\ Ticket(j)' = "open"
    BY <1>1, <1>11 DEF Crash, Ticket, AfterMark, BeforeMark, InTry, Lost
  <2>2. Lifecycle!Retry(j)
    BY <1>1, <1>2, <2>1 DEF Lifecycle!Retry, Lifecycle!Pass
  <2> QED BY <2>2 DEF Lifecycle!Next
<1>12. CASE \/ Start(j) /\ ~ (tries[j] < MaxTries)
            \/ MarkFailedRaises(j) \/ RaisesEarly(j) \/ Cancel(j)
  <2>1. /\ UNCHANGED status
        /\ Ticket(j) \in {"open", "begun", "doubted", "reported"} /\ Ticket(j)' = "lost"
    BY <1>1, <1>12
    DEF Start, Dequeue, MarkFailedRaises, RaisesEarly, Cancel, Ticket, Running, AfterMark,
        BeforeMark, InTry, Lost
  <2>2. Lifecycle!Lose(j)
    BY <1>1, <1>2, <2>1 DEF Lifecycle!Lose, Lifecycle!Pass
  <2> QED BY <2>2 DEF Lifecycle!Next
<1> QED
  BY <1>4, <1>5, <1>6, <1>7, <1>8, <1>9, <1>10, <1>11, <1>12
  DEF Job, JobStep, JobFault, EffectUnseen, Crash, Running

\* The pipeline implements the life cycle its clients are promised.
THEOREM LifecycleTheorem == Spec => ImplementsLifecycle
<1>1. Basics /\ [Next]_vars => [Lifecycle!Next]_(Lifecycle!lifecycleVars)
  <2> SUFFICES ASSUME Basics, [Next]_vars
               PROVE  [Lifecycle!Next]_(Lifecycle!lifecycleVars)
    OBVIOUS
  <2>1. CASE Next
    BY <2>1, CollectionImplements, RequestImplements, JobImplements DEF Next
  <2>2. CASE UNCHANGED vars
    BY <2>2 DEF vars, storeVars, queueVars, serviceVars, workerVars, runVars,
                Lifecycle!lifecycleVars, Ticket
  <2> QED BY <2>1, <2>2
<1> QED
  BY InitImplements, BasicsInvariant, <1>1, PTL DEF Spec, ImplementsLifecycle, Lifecycle!Spec

=============================================================================
