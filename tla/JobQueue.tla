------------------------------ MODULE JobQueue ------------------------------
(***************************************************************************)
(* The arq queue between the ingest service and the worker, as the code    *)
(* uses it: enqueue_job without a job id, so nothing is deduplicated and   *)
(* each request's job is a job of its own; the worker's job_timeout ends a *)
(* job for good; a worker that dies or shuts down leaves the job to be run *)
(* again from the start, at most MaxTries times in all.                    *)
(***************************************************************************)
EXTENDS SourceStore

CONSTANTS
  MaxTries,    \* arq's max_tries
  NoSource     \* no source id

ASSUME QueueAssumption ==
  /\ MaxTries \in Nat \ {0}
  /\ NoSource \notin Requests

VARIABLES
  source,  \* the id that request r's upsert returned: its job's source_id
  step,    \* where the job of request r is
  tries    \* how often it has been started

queueVars == <<source, step, tries>>

\* A run of process_source, by the call it makes next.
BeforeMark == {"get", "delete", "mark"}
\* Mutant: the event is published without a try block of its own.
InTryWithPublish == {"fetch", "insert", "publish"}

InTry == {"fetch", "insert"}
AfterMark == InTry \cup {"setfailed", "publish", "reraise"}
Running == BeforeMark \cup AfterMark

\* How a job is over.  The Lost ones have not said so on the source row.
Lost == {"raised", "unmarked", "cancelled", "exhausted"}
Ended == {"ready", "failed", "notfound"} \cup Lost

QueueTypeOK ==
  /\ source \in [Requests -> Requests \cup {NoSource}]
  /\ step \in [Requests -> {"none", "queued"} \cup Running \cup Ended]
  /\ tries \in [Requests -> 0..MaxTries]

QueueInit ==
  /\ source = [r \in Requests |-> NoSource]
  /\ step = [r \in Requests |-> "none"]
  /\ tries = [r \in Requests |-> 0]

\* The jobs of source s.
JobsOf(s) == {j \in Requests : source[j] = s}
RunningOn(s) == {j \in JobsOf(s) : step[j] \in Running}

Enqueue(r) ==
  /\ step' = [step EXCEPT ![r] = "queued"]
  /\ UNCHANGED <<source, tries>>

\* Mutant: an interrupted attempt does not count.
DequeueUncounted(j) ==
  /\ step[j] = "queued"
  /\ step' = [step EXCEPT ![j] = "get"]
  /\ UNCHANGED <<source, tries>>

\* Mutant: one attempt too many.
DequeueOnceMore(j) ==
  /\ step[j] = "queued"
  /\ IF tries[j] <= MaxTries
     THEN /\ step' = [step EXCEPT ![j] = "get"]
          /\ tries' = [tries EXCEPT ![j] = @ + 1]
     ELSE /\ step' = [step EXCEPT ![j] = "exhausted"]
          /\ UNCHANGED tries
  /\ UNCHANGED source

\* arq counts the attempt, and gives up on one beyond max_tries.
Dequeue(j) ==
  /\ step[j] = "queued"
  /\ IF tries[j] < MaxTries
     THEN /\ step' = [step EXCEPT ![j] = "get"]
          /\ tries' = [tries EXCEPT ![j] = @ + 1]
     ELSE /\ step' = [step EXCEPT ![j] = "exhausted"]
          /\ UNCHANGED tries
  /\ UNCHANGED source

MoveTo(j, next) ==
  /\ step' = [step EXCEPT ![j] = next]
  /\ UNCHANGED <<source, tries>>

=============================================================================
