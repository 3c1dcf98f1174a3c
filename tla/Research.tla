------------------------------ MODULE Research ------------------------------
(***************************************************************************)
(* Sessions, briefs, collections and questions at work on one connection   *)
(* pool and one set of tables.                                             *)
(***************************************************************************)
EXTENDS Sessions, Questions

vars == <<tableVars, holding, callVars, questionVars>>

Init == WorkspaceInit /\ SessionsInit /\ QuestionsInit

\* Whose rows a client can know to be there, when it asks for those of t:
\* questions of a session whose done frame was sent, briefs saved and
\* sessions opened as far as that was confirmed.
Known(k, t) ==
  CASE k = "get" ->
         {q \in Questions : /\ ask[q].session = t
                           /\ \E i \in DOMAIN sent[q] : sent[q][i].type = "done"}
    [] k = "briefs"   -> {c \in Calls : <<kind[c], target[c], step[c]>> = <<"save", t, "created">>}
    [] k = "sessions" -> {c \in Calls : <<kind[c], target[c], step[c]>> = <<"open", t, "created">>}
    [] OTHER -> {}

Call(c) ==
  /\ \/ \E k \in Kinds : \E t \in Targets(k) : Send(c, k, t, Known(k, t))
     \/ CallStep(c)
     \/ CommitUnseen(c)
  /\ UNCHANGED questionVars

Question(q) ==
  /\ Receive(q) \/ Reject(q) \/ QuestionStep(q) \/ Leave(q)
  /\ UNCHANGED callVars

Next ==
  \/ \E c \in Calls : Call(c)
  \/ \E q \in Questions : Question(q)

Spec == Init /\ [][Next]_vars

(***************************************************************************)
(* A request or a question that was sent is worked on: statements have     *)
(* timeouts of 5 s or 30 s and the model one of 30 s a token.  Waiters for *)
(* a connection are served in order, so that one which keeps becoming free *)
(* is obtained in the end (strong fairness).  Nobody has to send anything. *)
(***************************************************************************)
Fairness ==
  /\ \A c \in Calls : SF_vars(CallStep(c) /\ UNCHANGED questionVars)
  /\ \A q \in Questions : SF_vars(QuestionStep(q) /\ UNCHANGED callVars)

FairSpec == Spec /\ Fairness

-----------------------------------------------------------------------------
\* The abstract protocol of questions.

Phase(q) ==
  CASE pc[q] \in {"idle", "closed"}      -> pc[q]
    [] pc[q] \in {"record", "final"}     -> "whole"
    [] pc[q] = "release"                 -> "told"
    [] OTHER                             -> "open"

\* A frame without its citations or its code.
Shown(frame) == IF frame.type = "token" THEN frame ELSE [type |-> frame.type]

Stream ==
  INSTANCE AnswerStream WITH
    phase <- [q \in Questions |-> Phase(q)],
    text <- answer,
    frames <- [q \in Questions |-> [i \in DOMAIN sent[q] |-> Shown(sent[q][i])]],
    left <- gone,
    record <- [q \in Questions |-> {a.answer : a \in {x \in activity : x.by = q}}]

-----------------------------------------------------------------------------
\* Properties.

Session == Calls \X Collections

\* The variables keep to their types, and a connection is held exactly by
\* what is between its acquire and its answer.
TypeOK ==
  /\ live \subseteq Collections /\ sessions \subseteq opened /\ opened \subseteq Session
  /\ \A a \in activity : a.session \in Session /\ a.by \in Questions
  /\ \A b \in briefs : b.session \in Session /\ b.by \in Calls
  /\ holding = {c \in Calls : step[c] \in Statements} \cup {q \in Questions : pc[q] \in Handling}
  /\ Cardinality(holding) <= PoolSize
  /\ step \in [Calls -> {"idle", "acquire"} \cup Statements \cup Responses]
  /\ \A c \in Calls : step[c] # "idle" =>
       kind[c] \in Kinds /\ target[c] \in (IF kind[c] \in OnSession THEN Session
                                            ELSE Collections \cup {NoTarget})
  /\ \A c \in Calls : rows[c] \cup known[c] \subseteq Calls \cup Questions
  /\ pc \in [Questions -> {"idle", "acquire", "closed"} \cup Handling]
  /\ \A q \in Questions : Len(answer[q]) <= MaxTokens /\ Range(answer[q]) \subseteq Tokens
  /\ gone \subseteq Questions /\ unrecorded \subseteq Questions

\* Whatever is deleted while rows are being added, no row outlives its
\* session and no session its collection.
NoOrphans ==
  /\ \A s \in sessions : s[2] \in live
  /\ \A row \in activity \cup briefs : row.session \in sessions

\* 404 is the truth: what a request did not find had gone, for good.
NotFoundIsTrue == \A c \in Calls : step[c] = "notfound" => target[c] \notin live \cup sessions

\* A brief whose client got 201 stays until its session goes.
SavedBriefStays ==
  \A c \in Calls :
    kind[c] = "save" /\ step[c] = "created" /\ target[c] \in sessions =>
      \E b \in briefs : b.by = c /\ b.session = target[c]

\* A client reads what it knows: who has seen the done frame finds the
\* question in the session's trail, unless recording it failed; who got 201
\* for a brief or a session finds it in the list.  So it is unless the row
\* has gone with what it belongs to, also when that happened between the
\* statements of the request.
ReadsWhatIsKnown ==
  \A c \in Calls :
    step[c] = "ok" /\ (kind[c] \in OnSession => target[c] \in sessions) =>
      known[c] \subseteq rows[c] \cup unrecorded \cup {s[1] : s \in opened \ sessions}

\* A stream is tokens, then one done or one error frame, which no token
\* follows, and only if releasing the connection fails another error frame
\* when the handler closes.  A client that stays gets the first of them.
StreamsEnd ==
  \A q \in Questions :
    LET frames == sent[q] IN
    /\ \A i \in DOMAIN frames : frames[i].type # "token" =>
         \/ i = Len(frames) /\ pc[q] \in {"release", "closed"}
         \/ i = Len(frames) - 1 /\ pc[q] = "closed" /\ Last(frames) = ErrorFrame("QA_SYN_001")
    /\ pc[q] \in {"release", "closed"} /\ q \notin gone =>
         frames # <<>> /\ Last(frames).type # "token"

\* What is recorded is a whole answer: the tokens that were streamed and
\* the citations of the done frame that came next, never what there was of a
\* question whose answer failed.
RecordedIsDelivered ==
  \A a \in activity :
    LET frames == sent[a.by]
        n == Len(a.answer)
    IN  /\ a.answer = answer[a.by] /\ pc[a.by] \in {"final", "release", "closed"}
        /\ a.by \notin gone /\ pc[a.by] \in {"release", "closed"} =>
             /\ n < Len(frames) /\ frames[n + 1] = DoneFrame(a.citations)
             /\ \A i \in 1..n : frames[i] = TokenFrame(a.answer[i])

\* Where marker n comes first in a text.
FirstAt(text, n) == CHOOSE i \in DOMAIN text : text[i] = n /\ \A j \in 1..(i - 1) : text[j] # n

\* The citations of a done frame are those of the answer the client has: one
\* for each marker that numbers a source, in the order of first appearance,
\* each with all of the chunks that were retrieved from its source.
CitationsMatchAnswer ==
  \A q \in Questions : \A i \in DOMAIN sent[q] :
    sent[q][i].type = "done" =>
      LET cites == sent[q][i].citations
          chunks == ranking[q]
          sources == Cardinality(Range(chunks))
      IN  /\ {c.marker : c \in Range(cites)} = Range(answer[q]) \cap 1..sources
          /\ \A j, k \in DOMAIN cites :
               j < k => FirstAt(answer[q], cites[j].marker) < FirstAt(answer[q], cites[k].marker)
          /\ \A j, k \in DOMAIN cites : j # k => cites[j].source # cites[k].source
          /\ \A c \in Range(cites) : c.chunk_ids = {r \in DOMAIN chunks : chunks[r] = c.source}

\* Whatever fails, leaves or is deleted: a question is tokens and a last
\* frame, which at most an error frame follows; only a whole answer is
\* recorded, and its last token is followed by done.
ImplementsStream == Stream!Spec

\* The statements of a question that need a second connection.
Nested == {"exists", "retrieve"}

\* Who holds a connection and returns it without needing another one.
Unhindered == {c \in Calls : step[c] \in Statements} \cup {q \in Questions : pc[q] \in Handling \ Nested}

\* When no connection is left somebody is about to return one, unless every
\* single connection is held by a question that waits for its second one: no
\* answer, error, client that leaves or timeout has kept any.
PoolIsReturned ==
  ~Available => Unhindered # {} \/ Cardinality({q \in Questions : pc[q] \in Nested}) = PoolSize

\* Requests, the readiness probe among them, are answered as long as there
\* are fewer questions than connections, however many wait.
CallsAreAnswered == \A c \in Calls : (step[c] = "acquire") ~> (step[c] \in Responses)

\* docs/api/QA.md, "Protocol": the stream ends with a done frame when
\* synthesis completes, or with an error frame.
QuestionsAreAnswered == \A q \in Questions : (pc[q] = "acquire") ~> (pc[q] = "closed")

=============================================================================
