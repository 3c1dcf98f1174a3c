---------------------------- MODULE AnswerStream ----------------------------
(***************************************************************************)
(* The protocol of a question (docs/api/QA.md, "Protocol"): token frames,  *)
(* then one done frame or one error frame, to a client that may leave; and *)
(* what is recorded of it, which is a whole answer that is then delivered. *)
(* What the document leaves out: the server may stumble after the end, and *)
(* say so.  Research implements it with a database, a pool and a model.    *)
(***************************************************************************)
EXTENDS Naturals, Sequences

CONSTANTS
  Questions,   \* the questions that may ever be asked
  Tokens       \* what an answer is made of

VARIABLES
  phase,    \* not asked, being answered, answered in full, ended, or over
  text,     \* the answer so far
  frames,   \* what the client has got
  left,     \* the questions whose client has left
  record    \* the answers recorded for a question, at most one

streamVars == <<phase, text, frames, left, record>>

Init ==
  /\ phase = [q \in Questions |-> "idle"]
  /\ text = [q \in Questions |-> <<>>]
  /\ frames = [q \in Questions |-> <<>>]
  /\ left = {}
  /\ record = [q \in Questions |-> {}]

Enter(q, next) == phase' = [phase EXCEPT ![q] = next]

\* Nothing is delivered to a client that has left.
Deliver(q, frame) ==
  frames' = IF q \in left THEN frames ELSE [frames EXCEPT ![q] = Append(@, frame)]

Open(q) ==
  /\ phase[q] = "idle"
  /\ Enter(q, "open")
  /\ UNCHANGED <<text, frames, left, record>>

Say(q, n) ==
  /\ phase[q] = "open"
  /\ text' = [text EXCEPT ![q] = Append(@, n)]
  /\ Deliver(q, [type |-> "token", text |-> n])
  /\ UNCHANGED <<phase, left, record>>

Complete(q) ==
  /\ phase[q] = "open"
  /\ Enter(q, "whole")
  /\ UNCHANGED <<text, frames, left, record>>

Keep(q) ==
  /\ phase[q] = "whole"
  /\ record' = [record EXCEPT ![q] = {text[q]}]
  /\ UNCHANGED <<phase, text, frames, left>>

Finish(q) ==
  /\ phase[q] = "whole"
  /\ Enter(q, "told")
  /\ Deliver(q, [type |-> "done"])
  /\ UNCHANGED <<text, left, record>>

\* Refused, failed half-way, or left by its client.
Fail(q) ==
  /\ phase[q] \in {"idle", "open"}
  /\ Enter(q, "told") \/ Enter(q, "closed")
  /\ Deliver(q, [type |-> "error"])
  /\ UNCHANGED <<text, left, record>>

Close(q) ==
  /\ phase[q] = "told"
  /\ Enter(q, "closed")
  /\ UNCHANGED <<text, frames, left, record>>

\* The stream has ended, and the server fails to clean up after it.
Stumble(q) ==
  /\ phase[q] = "told"
  /\ Enter(q, "closed")
  /\ Deliver(q, [type |-> "error"])
  /\ UNCHANGED <<text, left, record>>

Leave(q) ==
  /\ phase[q] \in {"open", "whole", "told"}
  /\ left' = left \cup {q}
  /\ UNCHANGED <<phase, text, frames, record>>

\* Records go with their session.
Forget(qs) ==
  /\ record' = [q \in Questions |-> IF q \in qs THEN {} ELSE record[q]]
  /\ UNCHANGED <<phase, text, frames, left>>

Next ==
  \/ \E q \in Questions :
       \/ Open(q) \/ Complete(q) \/ Keep(q) \/ Finish(q) \/ Fail(q)
       \/ Close(q) \/ Stumble(q) \/ Leave(q)
       \/ \E n \in Tokens : Say(q, n)
  \/ \E qs \in SUBSET Questions : Forget(qs)

Spec == Init /\ [][Next]_streamVars

=============================================================================
