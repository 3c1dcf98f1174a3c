------------------------- MODULE AnswerStreamProofs -------------------------
(***************************************************************************)
(* Research implements AnswerStream: to each question, each of its steps   *)
(* is a step of the protocol, a loss of records with what they belong to,  *)
(* or nothing that the stream shows.                                       *)
(***************************************************************************)
EXTENDS ResearchProofs

Phases == [q \in Questions |-> Phase(q)]
Frames == [q \in Questions |-> [i \in DOMAIN sent[q] |-> Shown(sent[q][i])]]
Records == [q \in Questions |-> {a.answer : a \in {x \in activity : x.by = q}}]

LEMMA InitImplements == Init => Stream!Init
<1> SUFFICES ASSUME Init PROVE Stream!Init
  OBVIOUS
<1>1. \A q \in Questions : Phase(q) = "idle"
  BY DEF Init, QuestionsInit, Phase
<1>2. \A q \in Questions : [i \in DOMAIN sent[q] |-> Shown(sent[q][i])] = <<>>
  BY DEF Init, QuestionsInit
<1>3. \A q \in Questions : {a.answer : a \in {x \in activity : x.by = q}} = {}
  BY DEF Init, WorkspaceInit
<1> QED BY <1>1, <1>2, <1>3 DEF Init, QuestionsInit, Stream!Init

\* The phase of a question is a matter of its handler.
LEMMA PhaseMoves ==
  ASSUME NEW q \in Questions, \A r \in Questions \ {q} : pc'[r] = pc[r]
  PROVE  /\ Phases' = [Phases EXCEPT ![q] = Phase(q)']
         /\ Phases[q] = Phase(q)
         /\ Phase(q)' = Phase(q) => Phases' = Phases
<1>1. \A r \in Questions \ {q} : Phase(r)' = Phase(r)
  <2> SUFFICES ASSUME NEW r \in Questions \ {q} PROVE Phase(r)' = Phase(r)
    OBVIOUS
  <2>1. pc'[r] = pc[r]
    OBVIOUS
  <2> QED BY <2>1 DEF Phase
<1> QED BY <1>1 DEF Phases

\* What is delivered is shown.
LEMMA FramesMove ==
  ASSUME Streams, NEW q \in Questions, NEW f \in TokenFrames \cup LastFrames, Deliver(q, f)
  PROVE  Frames' = [Frames EXCEPT ![q] = Append(Frames[q], Shown(f))]
<1> DEFINE Show(s) == [i \in DOMAIN s |-> Shown(s[i])]
<1>1. sent[q] \in Seq(TokenFrames \cup LastFrames) /\ sent' = [sent EXCEPT ![q] = Append(sent[q], f)]
  BY DEF Streams, Deliver
<1>2. Show(Append(sent[q], f)) = Append(Show(sent[q]), Shown(f))
  <2>1. /\ DOMAIN Append(sent[q], f) = 1..(Len(sent[q]) + 1) /\ DOMAIN sent[q] = 1..Len(sent[q])
        /\ Len(sent[q]) \in Nat
    BY <1>1
  <2> DEFINE shown == {Shown(x) : x \in TokenFrames \cup LastFrames}
  <2>2. Show(sent[q]) \in Seq(shown) /\ Len(Show(sent[q])) = Len(sent[q])
    BY <1>1
  <2> QED BY <1>1, <2>1, <2>2
<1> QED BY <1>1, <1>2 DEF Frames, Streams

LEMMA FramesStay ==
  ASSUME UNCHANGED sent
  PROVE  Frames' = Frames
BY DEF Frames

\* A question has one answer, and so has its record.
RecordIn(table, q) == {a.answer : a \in {x \in table : x.by = q}}

LEMMA OneRecord ==
  ASSUME NEW q \in Questions, NEW table, \A a \in table : a.answer = answer[a.by]
  PROVE  RecordIn(table, q) = IF \E a \in table : a.by = q THEN {answer[q]} ELSE {}
<1>1. CASE \E a \in table : a.by = q
  <2>1. PICK a \in table : a.by = q
    BY <1>1
  <2>2. a.answer = answer[q] /\ a \in {x \in table : x.by = q}
    BY <2>1
  <2>3. answer[q] \in RecordIn(table, q)
    BY <2>2 DEF RecordIn
  <2>4. \A x \in RecordIn(table, q) : x = answer[q]
    BY DEF RecordIn
  <2> QED BY <1>1, <2>3, <2>4
<1>2. CASE ~ \E a \in table : a.by = q
  BY <1>2 DEF RecordIn
<1> QED BY <1>1, <1>2

-----------------------------------------------------------------------------
\* The steps of a question.

StreamStep == [Stream!Next]_(Stream!streamVars)

\* The handler moves on, and the stream shows nothing of it.
LEMMA Unseen ==
  ASSUME NEW q \in Questions, \A r \in Questions \ {q} : pc'[r] = pc[r],
         Phase(q)' = Phase(q), UNCHANGED <<sent, answer, gone, activity>>
  PROVE  StreamStep
<1>1. UNCHANGED <<Phases, Frames, Records>>
  BY PhaseMoves, FramesStay DEF Records
<1> QED BY <1>1 DEF StreamStep, Stream!streamVars, Phases, Frames, Records

\* It reports a failure, or finds that its client has left.
LEMMA Failing ==
  ASSUME NEW q \in Questions, \A r \in Questions \ {q} : pc'[r] = pc[r],
         Phase(q) \in {"idle", "open"}, pc'[q] \in Ending,
         Frames' = IF q \in gone THEN Frames
                   ELSE [Frames EXCEPT ![q] = Append(Frames[q], [type |-> "error"])],
         UNCHANGED <<answer, gone, activity>>
  PROVE  StreamStep
<1>1. /\ Phases' = [Phases EXCEPT ![q] = "closed"] \/ Phases' = [Phases EXCEPT ![q] = "told"]
      /\ Phases[q] \in {"idle", "open"}
  BY PhaseMoves DEF Phase, Ending
<1>2. Records' = Records
  BY DEF Records
<1>3. Stream!Fail(q)
  BY <1>1, <1>2 DEF Stream!Fail, Stream!Enter, Stream!Deliver, Phases, Frames, Records
<1> QED BY <1>3 DEF StreamStep, Stream!Next

LEMMA Refusing ==
  ASSUME Streams, NEW q \in Questions, Phase(q) \in {"idle", "open"},
         NEW code \in Codes, Ends(q, code)
  PROVE  StreamStep
<1>1. ErrorFrame(code) \in LastFrames /\ Shown(ErrorFrame(code)) = [type |-> "error"]
  BY DEF LastFrames, ErrorFrame, Shown
<1>2. \E next \in Ending : pc' = [pc EXCEPT ![q] = next]
  BY DEF Ends, Refuse, Report, Conclude, Close, Goto, Ending
<1>3. Frames' = IF q \in gone THEN Frames
                ELSE [Frames EXCEPT ![q] = Append(Frames[q], [type |-> "error"])]
  BY <1>1, FramesMove, FramesStay DEF Ends, Refuse, Report, Conclude, Tell
<1>4. UNCHANGED <<answer, gone, activity>>
  BY DEF Ends, Refuse, Report, tableVars
<1> QED BY <1>2, <1>3, <1>4, Failing DEF Streams

LEMMA Finishing ==
  ASSUME Streams, NEW q \in Questions, SendDone(q)
  PROVE  StreamStep
<1>1. Done(q) \in LastFrames /\ Shown(Done(q)) = [type |-> "done"]
  BY DEF LastFrames, Done, DoneFrame, Shown, Streams
<1>2. pc[q] = "final" /\ pc' = [pc EXCEPT ![q] = "release"]
  BY DEF SendDone, Conclude, Goto
<1>3. Frames' = IF q \in gone THEN Frames
                ELSE [Frames EXCEPT ![q] = Append(Frames[q], [type |-> "done"])]
  BY <1>1, FramesMove, FramesStay DEF SendDone, Conclude, Tell, Done
<1>4. UNCHANGED <<answer, gone, activity>>
  BY DEF SendDone, tableVars
<1>5. Phases' = [Phases EXCEPT ![q] = "told"] /\ Phases[q] = "whole"
  BY <1>2, PhaseMoves DEF Phase, Streams
<1>6. Records' = Records
  BY <1>4 DEF Records
<1>7. Stream!Finish(q)
  BY <1>3, <1>4, <1>5, <1>6
  DEF Stream!Finish, Stream!Enter, Stream!Deliver, Phases, Frames, Records
<1> QED BY <1>7 DEF StreamStep, Stream!Next

\* The connection is released, or the handler stumbles over it.
LEMMA Closing ==
  ASSUME Streams, NEW q \in Questions, ReleaseConnection(q)
  PROVE  StreamStep
<1>1. Failed \in LastFrames /\ Shown(Failed) = [type |-> "error"]
  BY DEF LastFrames, Failed, ErrorFrame, Shown, Codes
<1>2. /\ pc[q] = "release" /\ pc' = [pc EXCEPT ![q] = "closed"]
      /\ UNCHANGED <<answer, gone, activity>>
  BY DEF ReleaseConnection, Close, Goto, tableVars
<1>3. Phases' = [Phases EXCEPT ![q] = "closed"] /\ Phases[q] = "told" /\ Records' = Records
  BY <1>2, PhaseMoves DEF Phase, Records, Streams
<1>4. CASE UNCHANGED sent
  <2>1. Stream!Close(q)
    BY <1>2, <1>3, <1>4, FramesStay DEF Stream!Close, Stream!Enter, Phases, Frames, Records
  <2> QED BY <2>1 DEF StreamStep, Stream!Next
<1>5. CASE Tell(q, Failed)
  <2>1. Frames' = IF q \in gone THEN Frames
                  ELSE [Frames EXCEPT ![q] = Append(Frames[q], [type |-> "error"])]
    BY <1>1, <1>5, FramesMove, FramesStay DEF Tell
  <2>2. Stream!Stumble(q)
    BY <1>2, <1>3, <2>1
    DEF Stream!Stumble, Stream!Enter, Stream!Deliver, Phases, Frames, Records
  <2> QED BY <2>2 DEF StreamStep, Stream!Next
<1> QED BY <1>4, <1>5 DEF ReleaseConnection, Failed

LEMMA Saying ==
  ASSUME Streams, NEW q \in Questions, StreamToken(q)
  PROVE  StreamStep
<1>1. PICK n \in Tokens :
        \/ /\ q \notin gone /\ Deliver(q, TokenFrame(n))
           /\ answer' = [answer EXCEPT ![q] = Append(@, n)] /\ UNCHANGED pc
        \/ /\ q \in gone /\ UNCHANGED sent
           /\ answer' = [answer EXCEPT ![q] = Append(@, n)] /\ UNCHANGED pc
        \/ q \in gone /\ Close(q) /\ UNCHANGED <<answer, sent>>
  BY DEF StreamToken
<1>2. pc[q] = "stream" /\ UNCHANGED <<gone, activity>> /\ Phase(q) = "open"
  BY DEF StreamToken, tableVars, Phase
<1>3. CASE q \in gone /\ Close(q) /\ UNCHANGED <<answer, sent>>
  <2>1. pc' = [pc EXCEPT ![q] = "closed"]
    BY <1>3 DEF Close, Goto
  <2> QED BY <1>2, <1>3, <2>1, FramesStay, Failing DEF Streams, Ending
<1>4. CASE answer' = [answer EXCEPT ![q] = Append(@, n)] /\ UNCHANGED pc
  <2>1. TokenFrame(n) \in TokenFrames /\ Shown(TokenFrame(n)) = [type |-> "token", text |-> n]
    BY DEF TokenFrames, TokenFrame, Shown
  <2>2. Frames' = IF q \in gone THEN Frames
                  ELSE [Frames EXCEPT ![q] = Append(Frames[q], [type |-> "token", text |-> n])]
    BY <1>1, <2>1, FramesMove, FramesStay
  <2>3. Phases' = Phases /\ Phases[q] = "open" /\ Records' = Records
    BY <1>2, <1>4, PhaseMoves DEF Records, Phase
  <2>4. Stream!Say(q, n)
    BY <1>2, <1>4, <2>2, <2>3 DEF Stream!Say, Stream!Deliver, Phases, Frames, Records
  <2> QED BY <2>4 DEF StreamStep, Stream!Next
<1> QED BY <1>1, <1>3, <1>4

\* A row is kept of a question that has none, or the same.
LEMMA Keeping ==
  ASSUME Tables, Streams, NEW q \in Questions, Record(q)
  PROVE  StreamStep
<1>1. /\ pc[q] = "record" /\ pc' = [pc EXCEPT ![q] = "final"]
      /\ activity' = activity \cup {Row(q)} /\ UNCHANGED <<answer, sent, gone>>
  BY DEF Record, InsertActivity, Goto
<1>2. Row(q).by = q /\ Row(q).answer = answer[q]
  BY DEF Row
<1>3. Phases' = Phases /\ Phases[q] = "whole" /\ Frames' = Frames
  BY <1>1, PhaseMoves, FramesStay DEF Phase, Streams
<1>4. \A a \in activity' : a.answer = answer[a.by]
  BY <1>1, <1>2 DEF Streams
<1>5. \A r \in Questions :
        RecordIn(activity', r) = IF r = q THEN {answer[q]} ELSE RecordIn(activity, r)
  <2> SUFFICES ASSUME NEW r \in Questions
               PROVE  RecordIn(activity', r) = IF r = q THEN {answer[q]} ELSE RecordIn(activity, r)
    OBVIOUS
  <2>1. RecordIn(activity', r) = IF \E a \in activity' : a.by = r THEN {answer[r]} ELSE {}
    BY <1>4, OneRecord
  <2>2. RecordIn(activity, r) = IF \E a \in activity : a.by = r THEN {answer[r]} ELSE {}
    BY OneRecord DEF Streams
  <2> QED BY <1>1, <1>2, <2>1, <2>2
<1>6. Records' = [Records EXCEPT ![q] = {answer[q]}]
  BY <1>5 DEF Records, RecordIn
<1>7. Stream!Keep(q)
  BY <1>1, <1>3, <1>6 DEF Stream!Keep, Phases, Frames, Records
<1> QED BY <1>7 DEF StreamStep, Stream!Next

\* Rows go with their sessions.
LEMMA Forgetting ==
  ASSUME Tables, Streams, UNCHANGED questionVars, activity' \subseteq activity
  PROVE  StreamStep
<1>1. UNCHANGED <<pc, sent, answer, gone>>
  BY DEF questionVars
<1>2. Phases' = Phases /\ Frames' = Frames
  BY <1>1 DEF Phases, Phase, Frames
<1>3. PICK qs \in SUBSET Questions :
        qs = {q \in Questions : ~ \E a \in activity' : a.by = q}
  OBVIOUS
<1>4. \A q \in Questions :
        RecordIn(activity', q) = IF q \in qs THEN {} ELSE RecordIn(activity, q)
  <2> SUFFICES ASSUME NEW q \in Questions
               PROVE  RecordIn(activity', q) = IF q \in qs THEN {} ELSE RecordIn(activity, q)
    OBVIOUS
  <2>1. RecordIn(activity', q) = IF \E a \in activity' : a.by = q THEN {answer[q]} ELSE {}
    BY OneRecord DEF Streams
  <2>2. RecordIn(activity, q) = IF \E a \in activity : a.by = q THEN {answer[q]} ELSE {}
    BY OneRecord DEF Streams
  <2> QED BY <1>3, <2>1, <2>2
<1>5. Records' = [q \in Questions |-> IF q \in qs THEN {} ELSE Records[q]]
  BY <1>4 DEF Records, RecordIn
<1>6. Stream!Forget(qs)
  BY <1>1, <1>2, <1>5 DEF Stream!Forget, Phases, Frames, Records
<1> QED BY <1>6 DEF StreamStep, Stream!Next

LEMMA QuestionImplements ==
  ASSUME Tables, Streams, NEW q \in Questions, Question(q)
  PROVE  StreamStep
<1>1. \A r \in Questions \ {q} : pc'[r] = pc[r]
  BY QuestionHolds DEF Moves
<1>2. CASE Receive(q)
  <2>1. UNCHANGED <<answer, sent, gone, activity>> /\ pc[q] = "idle" /\ pc'[q] = "acquire"
    BY <1>2 DEF Receive, Goto, tableVars, Streams
  <2>2. Phases' = [Phases EXCEPT ![q] = "open"] /\ Phases[q] = "idle"
    BY <1>1, <2>1, PhaseMoves DEF Phase
  <2>3. UNCHANGED <<Frames, Records>>
    BY <2>1, FramesStay DEF Records
  <2>4. Stream!Open(q)
    BY <2>1, <2>2, <2>3 DEF Stream!Open, Stream!Enter, Phases, Frames, Records
  <2> QED BY <2>4 DEF StreamStep, Stream!Next
<1>3. CASE StreamEnds(q)
  <2>1. /\ UNCHANGED <<answer, sent, gone, activity>> /\ pc[q] = "stream"
        /\ pc'[q] \in {"record", "final"}
    BY <1>3 DEF StreamEnds, AfterStream, Goto, tableVars, Streams
  <2>2. Phases' = [Phases EXCEPT ![q] = "whole"] /\ Phases[q] = "open"
    BY <1>1, <2>1, PhaseMoves DEF Phase
  <2>3. UNCHANGED <<Frames, Records>>
    BY <2>1, FramesStay DEF Records
  <2>4. Stream!Complete(q)
    BY <2>1, <2>2, <2>3 DEF Stream!Complete, Stream!Enter, Phases, Frames, Records
  <2> QED BY <2>4 DEF StreamStep, Stream!Next
<1>4. CASE Leave(q)
  <2>1. /\ UNCHANGED <<answer, sent, pc, activity>> /\ gone' = gone \cup {q}
        /\ pc[q] \in {"acquire"} \cup Handling
    BY <1>4 DEF Leave, tableVars
  <2>2. Phases' = Phases /\ Phases[q] \in {"open", "whole", "told"}
    BY <1>1, <2>1, PhaseMoves DEF Phase, Handling
  <2>3. UNCHANGED <<Frames, Records>>
    BY <2>1, FramesStay DEF Records
  <2>4. Stream!Leave(q)
    BY <2>1, <2>2, <2>3 DEF Stream!Leave, Phases, Frames, Records
  <2> QED BY <2>4 DEF StreamStep, Stream!Next
<1>5. CASE AcquireForQuestion(q) \/ Embed(q) \/ RecordFails(q)
  BY <1>1, <1>5, Unseen
  DEF AcquireForQuestion, Embed, RecordFails, Goto, Phase, tableVars, Streams
<1>6. CASE Reject(q) \/ Breaks(q)
  BY <1>6, Refusing DEF Reject, Breaks, Phase, Ends, Codes
<1>7. CASE Validate(q)
  BY <1>1, <1>7, Unseen, Refusing DEF Validate, Goto, Phase, tableVars, Streams, Ends, Codes
<1>8. CASE CheckCollection(q)
  BY <1>1, <1>8, Unseen, Refusing DEF CheckCollection, Goto, Phase, tableVars, Streams, Ends, Codes
<1>9. CASE Retrieve(q)
  BY <1>1, <1>9, Unseen, Refusing DEF Retrieve, Goto, Phase, tableVars, Streams, Ends, Codes
<1>10. CASE StreamToken(q)
  BY <1>10, Saying
<1>11. CASE Record(q)
  BY <1>11, Keeping
<1>12. CASE SendDone(q)
  BY <1>12, Finishing
<1>13. CASE ReleaseConnection(q)
  BY <1>13, Closing
<1> QED BY <1>2, <1>3, <1>4, <1>5, <1>6, <1>7, <1>8, <1>9, <1>10, <1>11, <1>12, <1>13
    DEF Question, QuestionStep

\* A client sees the protocol of AnswerStream, whatever fails, leaves or is
\* deleted, and so do those who read the records.
THEOREM StreamTheorem == Spec => ImplementsStream
<1>1. Tables /\ Streams /\ [Next]_vars => [Stream!Next]_(Stream!streamVars)
  <2> SUFFICES ASSUME Tables, Streams, [Next]_vars PROVE StreamStep
    BY DEF StreamStep
  <2>1. ASSUME NEW c \in Calls, Call(c) PROVE StreamStep
    <3>1. activity' \subseteq activity
      BY <2>1, CallChanges DEF tableVars, Insert, OpenSession, SaveBrief, InsertSession,
         InsertBrief, Delete, CloseSession, RemoveCollection, DeleteSession, DeleteCollection,
         RemoveSessions
    <3> QED BY <2>1, <3>1, CallChanges, Forgetting
  <2>2. CASE UNCHANGED vars
    BY <2>2, Forgetting DEF vars, tableVars
  <2> QED BY <2>1, <2>2, QuestionImplements DEF Next
<1> QED
  BY InitImplements, StreamsInvariant, <1>1, PTL DEF Spec, ImplementsStream, Stream!Spec

=============================================================================
