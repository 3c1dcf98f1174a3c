----------------------------- MODULE Questions -----------------------------
(***************************************************************************)
(* A question over the WebSocket (qa/router.py): the generator of          *)
(* QAService inside the handler, which holds one connection of the pool to *)
(* record the activity on, while QARepository takes another one from the   *)
(* same pool for each statement.                                           *)
(*                                                                         *)
(* An answer is a sequence of tokens, a token n > 0 being the marker [n]   *)
(* and 0 any other text.  A prompt is the sequence of its sources: [n] is  *)
(* the n-th.  A ranking gives the source of each retrieved chunk, nearest  *)
(* first.                                                                  *)
(***************************************************************************)
EXTENDS Workspace, SequencesExt

CONSTANTS
  Rankings,   \* the rankings retrieve_chunks may return
  MaxTokens,  \* bound on the tokens of an answer
  MaxMarker   \* bound on the markers the model writes

ASSUME QuestionsAssumption ==
  /\ \A chunks \in Rankings : chunks \in Seq(Range(chunks))
  /\ MaxTokens \in Nat /\ MaxMarker \in Nat

VARIABLES
  ask,         \* the collection and the session a question names
  pc,          \* what its handler does next
  ranking,     \* the chunks retrieved for it
  answer,      \* the tokens so far
  sent,        \* the frames its client has got
  gone,        \* the questions whose client has left
  unrecorded   \* history: those whose recording failed

questionVars == <<ask, pc, ranking, answer, sent, gone, unrecorded>>

NoSession == <<>>
Handling ==
  {"validate", "exists", "embed", "retrieve", "stream", "record", "final", "release"}
Tokens == 0..MaxMarker

QuestionsInit ==
  /\ ask = [q \in Questions |-> [coll |-> NoSession, session |-> NoSession]]
  /\ pc = [q \in Questions |-> "idle"]
  /\ ranking = [q \in Questions |-> <<>>]
  /\ answer = [q \in Questions |-> <<>>]
  /\ sent = [q \in Questions |-> <<>>]
  /\ gone = {} /\ unrecorded = {}

-----------------------------------------------------------------------------
\* The prompt and its citations.

\* What a loop over seq keeps of its first elements: those of known that it
\* has not seen yet.
Kept(seq, known) ==
  LET kept[i \in 0..Len(seq)] ==
        IF i = 0 THEN <<>>
        ELSE IF seq[i] \in known /\ ~Contains(kept[i - 1], seq[i])
             THEN Append(kept[i - 1], seq[i])
             ELSE kept[i - 1]
  IN  kept

FirstUses(seq, known) == Kept(seq, known)[Len(seq)]

\* Sources in the order in which their first chunk is ranked.
build_prompt(chunks) == FirstUses(chunks, Range(chunks))

Citation(chunks, n) ==
  LET source == build_prompt(chunks)[n]
  IN  [source |-> source,
       chunk_ids |-> {i \in DOMAIN chunks : chunks[i] = source},
       marker |-> n]

\* Mutant: a marker cited twice makes two citations.
RepeatedCitations(text, chunks) ==
  [i \in DOMAIN SelectSeq(text, LAMBDA n : n \in DOMAIN build_prompt(chunks)) |->
     Citation(chunks, SelectSeq(text, LAMBDA n : n \in DOMAIN build_prompt(chunks))[i])]

\* The markers that number a source, each once, in their order.
extract_citations(text, chunks) ==
  LET markers == FirstUses(text, DOMAIN build_prompt(chunks))
  IN  [i \in DOMAIN markers |-> Citation(chunks, markers[i])]

-----------------------------------------------------------------------------
\* The handler.

Goto(q, next) == pc' = [pc EXCEPT ![q] = next]

TokenFrame(n) == [type |-> "token", text |-> n]
DoneFrame(citations) == [type |-> "done", citations |-> citations]
ErrorFrame(code) == [type |-> "error", code |-> code]

Deliver(q, frame) == sent' = [sent EXCEPT ![q] = Append(@, frame)]

\* Mutant: an error leaves the connection with the handler.
CloseHolding(q) == Goto(q, "closed") /\ UNCHANGED holding

\* The handler returns: its connection, if it has one, is released.
Close(q) == Goto(q, "closed") /\ Release(q)

\* If the client has left, sending raises or is lost.
Tell(q, frame) == IF q \in gone THEN UNCHANGED sent ELSE Deliver(q, frame)

\* The frame is sent before the connection is released.
Conclude(q, frame) ==
  /\ Tell(q, frame)
  /\ Goto(q, "release")
  /\ UNCHANGED holding

\* Mutant: only expected exceptions are reported.
RefuseSilently(q, code) ==
  /\ IF code = "QA_SYN_001" THEN UNCHANGED sent ELSE Tell(q, ErrorFrame(code))
  /\ Close(q)
  /\ UNCHANGED <<tableVars, ask, ranking, answer, gone, unrecorded>>

\* An exception becomes an error frame, and nothing follows it: there is no
\* connection, it has been released by then, or the socket is closed before.
Refuse(q, code) ==
  /\ Tell(q, ErrorFrame(code))
  /\ Close(q)
  /\ UNCHANGED <<tableVars, ask, ranking, answer, gone, unrecorded>>

\* An exception of the service becomes one while the connection is held.
Report(q, code) ==
  /\ Conclude(q, ErrorFrame(code))
  /\ UNCHANGED <<tableVars, ask, ranking, answer, gone, unrecorded>>

\* A message that is not a question: QA_VAL_001, or when it is JSON but no
\* object, QA_SYN_001.
Reject(q) ==
  /\ pc[q] = "idle"
  /\ Refuse(q, "QA_VAL_001") \/ Refuse(q, "QA_SYN_001")

\* session_id may name any session that was ever opened, or none.
Receive(q) ==
  /\ pc[q] = "idle"
  /\ \E c \in Collections, s \in opened \cup {NoSession} :
       ask' = [ask EXCEPT ![q] = [coll |-> c, session |-> s]]
  /\ Goto(q, "acquire")
  /\ UNCHANGED <<tableVars, holding, ranking, answer, sent, gone, unrecorded>>

AcquireForQuestion(q) ==
  /\ pc[q] = "acquire"
  /\ Acquire(q)
  /\ Goto(q, "validate")
  /\ UNCHANGED <<tableVars, ask, ranking, answer, sent, gone, unrecorded>>

\* A blank question passes AskRequest and is refused here, and the socket
\* closed.
Validate(q) ==
  /\ pc[q] = "validate"
  /\ \/ Refuse(q, "QA_VAL_001")
     \/ /\ Goto(q, "exists")
        /\ UNCHANGED <<tableVars, holding, ask, ranking, answer, sent, gone, unrecorded>>

\* Each statement of QARepository takes a connection of the pool and returns it.
AnotherConnection == Available

CheckCollection(q) ==
  /\ pc[q] = "exists" /\ AnotherConnection
  /\ IF ask[q].coll \in live
     THEN /\ Goto(q, "embed")
          /\ UNCHANGED <<tableVars, holding, ask, ranking, answer, sent, gone, unrecorded>>
     ELSE Report(q, "QA_COL_001")

Embed(q) ==
  /\ pc[q] = "embed"
  /\ Goto(q, "retrieve")
  /\ UNCHANGED <<tableVars, holding, ask, ranking, answer, sent, gone, unrecorded>>

\* A collection that was deleted meanwhile has no chunks.
Retrieve(q) ==
  /\ pc[q] = "retrieve" /\ AnotherConnection
  /\ \/ /\ ask[q].coll \in live
        /\ \E chunks \in Rankings \ {<<>>} : ranking' = [ranking EXCEPT ![q] = chunks]
        /\ Goto(q, "stream")
        /\ UNCHANGED <<tableVars, holding, ask, answer, sent, gone, unrecorded>>
     \/ Report(q, "QA_CTX_001")

\* What is recorded of a question.
Row(q) ==
  [session |-> ask[q].session, by |-> q, answer |-> answer[q],
   citations |-> extract_citations(answer[q], ranking[q])]

\* Mutant: partial answers are kept as well.
BreaksAndRecords(q) ==
  /\ pc[q] = "stream"
  /\ Conclude(q, ErrorFrame("QA_SYN_001"))
  /\ InsertActivity(Row(q))
  /\ UNCHANGED <<ask, ranking, answer, gone, unrecorded>>

\* The embedding or the model fails; the model falls silent for 30 s; the
\* content filter stops it.  Or a connection or a statement fails, which only
\* the handler of last resort catches, outside the one connection.
Breaks(q) ==
  \/ pc[q] \in {"embed", "stream"} /\ Report(q, "QA_SYN_001")
  \/ /\ pc[q] \in {"acquire", "exists", "retrieve"} /\ AnotherConnection
     /\ Refuse(q, "QA_SYN_001")

\* One token is sent on.  To a client that has left, it is lost or raises.
StreamToken(q) ==
  /\ pc[q] = "stream" /\ Len(answer[q]) < MaxTokens
  /\ \E n \in Tokens :
       \/ /\ q \notin gone
          /\ Deliver(q, TokenFrame(n))
          /\ answer' = [answer EXCEPT ![q] = Append(@, n)]
          /\ UNCHANGED <<pc, holding>>
       \/ /\ q \in gone
          /\ answer' = [answer EXCEPT ![q] = Append(@, n)]
          /\ UNCHANGED <<pc, holding, sent>>
       \/ q \in gone /\ Close(q) /\ UNCHANGED <<answer, sent>>
  /\ UNCHANGED <<tableVars, ask, ranking, gone, unrecorded>>

\* Mutant: the recording is skipped.
NeverRecord(q) == "final"

AfterStream(q) == IF ask[q].session = NoSession THEN "final" ELSE "record"

\* The model has finished, or reached its length limit.
StreamEnds(q) ==
  /\ pc[q] = "stream"
  /\ Goto(q, AfterStream(q))
  /\ UNCHANGED <<tableVars, holding, ask, ranking, answer, sent, gone, unrecorded>>

\* Whether or not the reply arrives.
Record(q) ==
  /\ pc[q] = "record"
  /\ InsertActivity(Row(q))
  /\ Goto(q, "final")
  /\ UNCHANGED <<holding, ask, ranking, answer, sent, gone, unrecorded>>

\* The session has gone, or the INSERT fails or times out: a warning.
RecordFails(q) ==
  /\ pc[q] = "record"
  /\ unrecorded' = unrecorded \cup {q}
  /\ Goto(q, "final")
  /\ UNCHANGED <<tableVars, holding, ask, ranking, answer, sent, gone>>

SendDone(q) ==
  /\ pc[q] = "final"
  /\ Conclude(q, DoneFrame(extract_citations(answer[q], ranking[q])))
  /\ UNCHANGED <<tableVars, ask, ranking, answer, gone, unrecorded>>

\* The pool resets the connection and takes it back.  When the reset raises
\* it takes it back as well, and the handler of last resort sends its frame.
ReleaseConnection(q) ==
  /\ pc[q] = "release"
  /\ UNCHANGED sent \/ Tell(q, ErrorFrame("QA_SYN_001"))
  /\ Close(q)
  /\ UNCHANGED <<tableVars, ask, ranking, answer, gone, unrecorded>>

-----------------------------------------------------------------------------

\* The client closes its end, which the handler notices when it sends.
Leave(q) ==
  /\ pc[q] \in {"acquire"} \cup Handling /\ q \notin gone
  /\ gone' = gone \cup {q}
  /\ UNCHANGED <<tableVars, holding, ask, pc, ranking, answer, sent, unrecorded>>

QuestionStep(q) ==
  \/ AcquireForQuestion(q)
  \/ Validate(q)
  \/ CheckCollection(q)
  \/ Embed(q)
  \/ Retrieve(q)
  \/ Breaks(q)
  \/ StreamToken(q)
  \/ StreamEnds(q)
  \/ Record(q)
  \/ RecordFails(q)
  \/ SendDone(q)
  \/ ReleaseConnection(q)

=============================================================================
