-------------------------- MODULE SourceLifecycle --------------------------
(***************************************************************************)
(* What the ingest pipeline promises, without its requests' calls, its     *)
(* chunks, its queue or its attempts: every ingest request is a ticket on  *)
(* a source, and the status of a source moves only as a ticket on it is    *)
(* opened, begun and reported.  SourcePipeline implements it.              *)
(***************************************************************************)
CONSTANTS
  Tickets,   \* the ingest requests that may ever be made
  NoSource   \* no source id

VARIABLES
  ticket,   \* how far each ticket has come
  source,   \* the source it is for
  status    \* the status of each source, "absent" where there is none

lifecycleVars == <<ticket, source, status>>

Init ==
  /\ ticket = [r \in Tickets |-> "none"]
  /\ source = [r \in Tickets |-> NoSource]
  /\ status = [s \in Tickets |-> "absent"]

Exists(s) == s \in Tickets /\ status[s] # "absent"
Pass(r, phase) == ticket' = [ticket EXCEPT ![r] = phase]
Mark(s, mark) == status' = [status EXCEPT ![s] = mark]

\* The request's own source is made, or one that is there is opened again.
Open(r) ==
  /\ ticket[r] = "none"
  /\ Pass(r, "open")
  /\ \E s \in Tickets :
       /\ Exists(s) \/ s = r
       /\ source' = [source EXCEPT ![r] = s]
       /\ Mark(s, "pending")

Refuse(r) ==
  /\ ticket[r] = "none"
  /\ Pass(r, "refused")
  /\ UNCHANGED <<source, status>>

\* Whoever begins may not see that it has, and be lost.
Begin(r) ==
  /\ ticket[r] = "open" /\ Exists(source[r])
  /\ Pass(r, "begun") \/ Pass(r, "lost")
  /\ Mark(source[r], "processing")
  /\ UNCHANGED source

\* Once for every time the ticket was begun, unless ...
Report(r) ==
  /\ ticket[r] = "begun" /\ Exists(source[r])
  /\ Pass(r, "reported")
  /\ Mark(source[r], "ready") \/ Mark(source[r], "failed")
  /\ UNCHANGED source

\* ... the source is ready and the one that reported it has not seen it, ...
Doubt(r) ==
  /\ ticket[r] = "begun" /\ Exists(source[r])
  /\ Pass(r, "doubted")
  /\ Mark(source[r], "ready")
  /\ UNCHANGED source

\* ... and so reports once more, that it failed.
Retract(r) ==
  /\ ticket[r] = "doubted" /\ Exists(source[r])
  /\ Pass(r, "reported")
  /\ Mark(source[r], "failed")
  /\ UNCHANGED source

Close(r) ==
  /\ ticket[r] = "reported"
  /\ Pass(r, "closed")
  /\ UNCHANGED <<source, status>>

\* An interrupted ticket is opened again, which its source does not show.
Retry(r) ==
  /\ ticket[r] \in {"begun", "doubted", "reported"}
  /\ Pass(r, "open")
  /\ UNCHANGED <<source, status>>

\* The source of the ticket has been removed.
Miss(r) ==
  /\ ticket[r] = "open" /\ ~ Exists(source[r])
  /\ Pass(r, "gone")
  /\ UNCHANGED <<source, status>>

\* Nobody works on the ticket any more, and its source does not say so.
Lose(r) ==
  /\ ticket[r] \in {"open", "begun", "doubted", "reported"}
  /\ Pass(r, "lost")
  /\ UNCHANGED <<source, status>>

\* Sources go with their collection.
Remove(gone) ==
  /\ status' = [s \in Tickets |-> IF s \in gone THEN "absent" ELSE status[s]]
  /\ UNCHANGED <<ticket, source>>

Next ==
  \/ \E r \in Tickets :
       \/ Open(r) \/ Refuse(r) \/ Begin(r) \/ Report(r) \/ Doubt(r) \/ Retract(r)
       \/ Close(r) \/ Retry(r) \/ Miss(r) \/ Lose(r)
  \/ \E gone \in SUBSET {s \in Tickets : Exists(s)} : Remove(gone)

Spec == Init /\ [][Next]_lifecycleVars

=============================================================================
