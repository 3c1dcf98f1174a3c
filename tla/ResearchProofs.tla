--------------------------- MODULE ResearchProofs ---------------------------
(***************************************************************************)
(* What TLAPS proves of Research, for any requests, questions, pool size,  *)
(* rankings and bounds.                                                    *)
(***************************************************************************)
EXTENDS Research, FiniteSetTheorems, TLAPS

Unanswered == {"idle", "acquire"} \cup Statements

\* What a request of kind k names.
Named(k) ==
  IF k \in OnSession THEN opened ELSE IF k \in OnNothing THEN {NoTarget} ELSE Collections

\* The tables and the requests.  A session that was ever opened is that of a
\* request that has been answered, so that none is ever opened again.
Tables ==
  /\ live \subseteq Collections /\ sessions \subseteq opened /\ opened \subseteq Session
  /\ \A a \in activity : a.session \in Session /\ a.by \in Questions
  /\ \A b \in briefs : b.session \in Session /\ b.by \in Calls
  /\ step \in [Calls -> Unanswered \cup Responses]
  /\ kind \in [Calls -> Kinds \cup {"none"}]
  /\ target \in [Calls -> Session \cup Collections \cup {NoTarget}]
  /\ \A c \in Calls : step[c] # "idle" =>
       kind[c] \in Kinds /\ target[c] \in Named(kind[c])
  /\ \A s \in opened : step[s[1]] \in Responses
  /\ rows \in [Calls -> SUBSET (Calls \cup Questions)]
  /\ known \in [Calls -> SUBSET (Calls \cup Questions)]
  /\ ask \in [Questions -> [coll : Collections \cup {NoSession},
                            session : Session \cup {NoSession}]]

LEMMA InitTables == Init => Tables
  BY DEF Init, WorkspaceInit, SessionsInit, QuestionsInit, Tables, Unanswered, Session

\* What a request does to the tables, it does with its last statement.
LEMMA CallChanges ==
  ASSUME Tables, NEW c \in Calls, Call(c)
  PROVE  /\ \/ UNCHANGED tableVars
            \/ /\ step[c] = "main" /\ step'[c] \in Responses
               /\ Insert(c) \/ Delete(c)
         /\ UNCHANGED questionVars
<1> USE DEF Tables, Respond
<1>1. CASE \E k \in Kinds : \E t \in Targets(k) : Send(c, k, t, Known(k, t))
  BY <1>1 DEF Send, Call
<1>2. CASE CommitUnseen(c)
  BY <1>2 DEF CommitUnseen, Call, Responses
<1>3. CASE Create(c) \/ DeleteTarget(c)
  BY <1>3 DEF Create, DeleteTarget, Call, Responses
<1>4. CASE CallStep(c) /\ ~ Create(c) /\ ~ DeleteTarget(c)
  BY <1>4 DEF CallStep, AcquireForCall, CheckTarget, GetSession, ListBriefs, ListSessions,
              ListSources, ListCollections, Readiness, Select, GetSource, Fails, Call
<1> QED BY <1>1, <1>2, <1>3, <1>4 DEF Call

\* The statements that read, and what they find.
Reads(c) ==
  \/ GetSession(c) \/ ListBriefs(c) \/ ListSessions(c)
  \/ ListSources(c) \/ ListCollections(c) \/ Readiness(c)

LEMMA ReadsFindRows ==
  ASSUME Tables, NEW c \in Calls, Reads(c)
  PROVE  \E k \in {"get", "briefs", "sessions", "sources", "collections", "ready"} :
           \E found \in SUBSET (Calls \cup Questions) : Select(c, k, found)
<1> USE DEF Tables, Session
<1>1. CASE GetSession(c)
  <2>1. {a.by : a \in {x \in activity : x.session = target[c]}} \subseteq Calls \cup Questions
    OBVIOUS
  <2> QED BY <1>1, <2>1 DEF GetSession
<1>2. CASE ListBriefs(c)
  <2>1. {b.by : b \in {x \in briefs : x.session = target[c]}} \subseteq Calls \cup Questions
    OBVIOUS
  <2> QED BY <1>2, <2>1 DEF ListBriefs
<1>3. CASE ListSessions(c)
  <2>1. {s[1] : s \in {x \in sessions : x[2] = target[c]}} \subseteq Calls \cup Questions
    OBVIOUS
  <2> QED BY <1>3, <2>1 DEF ListSessions
<1>4. CASE ListSources(c) \/ ListCollections(c) \/ Readiness(c)
  BY <1>4 DEF ListSources, ListCollections, Readiness
<1> QED BY <1>1, <1>2, <1>3, <1>4 DEF Reads

LEMMA KnownAreRows ==
  ASSUME NEW k, NEW t
  PROVE  Known(k, t) \in SUBSET (Calls \cup Questions)
BY DEF Known

\* A request changes nothing of another one, and of its own what it is for
\* only as it is sent.
LEMMA CallMoves ==
  ASSUME Tables, NEW c \in Calls, Call(c)
  PROVE  /\ step' \in [Calls -> Unanswered \cup Responses]
         /\ rows' \in [Calls -> SUBSET (Calls \cup Questions)]
         /\ \A d \in Calls \ {c} : step'[d] = step[d] /\ rows'[d] = rows[d]
         /\ \/ /\ step[c] = "idle" /\ step'[c] = "acquire"
               /\ \E k \in Kinds : \E t \in Targets(k) :
                    /\ kind' = [kind EXCEPT ![c] = k]
                    /\ target' = [target EXCEPT ![c] = t]
                    /\ known' = [known EXCEPT ![c] = Known(k, t)]
            \/ /\ step[c] \in {"acquire"} \cup Statements /\ step'[c] # "idle"
               /\ UNCHANGED <<kind, target, known>>
<1> USE DEF Tables, Respond, Unanswered, Statements, Responses
<1>1. CASE \E k \in Kinds : \E t \in Targets(k) : Send(c, k, t, Known(k, t))
  BY <1>1 DEF Send
<1>2. CASE CommitUnseen(c)
  BY <1>2 DEF CommitUnseen
<1>3. CASE Create(c) \/ DeleteTarget(c)
  BY <1>3 DEF Create, DeleteTarget
<1>4. CASE AcquireForCall(c) \/ CheckTarget(c) \/ GetSource(c) \/ Fails(c)
  BY <1>4 DEF AcquireForCall, CheckTarget, GetSource, Fails
<1>5. CASE Reads(c)
  BY <1>5, ReadsFindRows DEF Select
<1> QED BY <1>1, <1>2, <1>3, <1>4, <1>5 DEF Call, CallStep, Reads

\* An exception of a question becomes an error frame.
Codes == {"QA_VAL_001", "QA_SYN_001", "QA_COL_001", "QA_CTX_001"}
Ends(q, code) == Refuse(q, code) \/ Report(q, code)

\* A question only ever adds its row.
LEMMA QuestionChanges ==
  ASSUME Tables, NEW q \in Questions, Question(q)
  PROVE  /\ UNCHANGED callVars
         /\ UNCHANGED tableVars \/ (Record(q) /\ InsertActivity(Row(q)))
         /\ ask' \in [Questions -> [coll : Collections \cup {NoSession},
                                    session : Session \cup {NoSession}]]
<1> USE DEF Tables, Question
<1>1. CASE Receive(q)
  BY <1>1 DEF Receive
<1>2. CASE Record(q)
  BY <1>2 DEF Record
<1>3. CASE \E code \in Codes : Ends(q, code)
  BY <1>3 DEF Ends, Refuse, Report
<1>4. CASE UNCHANGED <<tableVars, ask>>
  BY <1>4
<1>5. Reject(q) \/ Leave(q) \/ QuestionStep(q) =>
        \/ Record(q)
        \/ \E code \in Codes : Ends(q, code)
        \/ UNCHANGED <<tableVars, ask>>
  BY DEF Reject, Leave, QuestionStep, AcquireForQuestion, Validate, CheckCollection, Embed,
         Retrieve, Breaks, StreamToken, StreamEnds, RecordFails, SendDone, ReleaseConnection,
         Ends, Codes
<1> QED BY <1>1, <1>2, <1>3, <1>4, <1>5

-----------------------------------------------------------------------------

\* What a client may name: a collection, or a session that was opened.
LEMMA TargetsAreOpened ==
  ASSUME NEW k \in Kinds, NEW t \in Targets(k)
  PROVE  t \in Named(k)
BY KindsAssumption DEF Named, Targets, Opening, OnSession, OnCollection, OnNothing

LEMMA CallTables ==
  ASSUME Tables, NEW c \in Calls, Call(c)
  PROVE  Tables'
<1>1. /\ step' \in [Calls -> Unanswered \cup Responses]
      /\ rows' \in [Calls -> SUBSET (Calls \cup Questions)]
      /\ \A d \in Calls \ {c} : step'[d] = step[d]
  BY CallMoves
<1>2. opened \subseteq opened'
  BY CallChanges DEF tableVars, Insert, OpenSession, SaveBrief, Delete, CloseSession,
     RemoveCollection, InsertSession, InsertBrief, DeleteSession, DeleteCollection, RemoveSessions
<1> DEFINE Meant ==
      /\ kind' \in [Calls -> Kinds \cup {"none"}]
      /\ target' \in [Calls -> Session \cup Collections \cup {NoTarget}]
      /\ known' \in [Calls -> SUBSET (Calls \cup Questions)]
      /\ \A d \in Calls : step'[d] # "idle" =>
           kind'[d] \in Kinds /\ target'[d] \in Named(kind'[d])
<1>3. Meant
  <2>1. CASE UNCHANGED <<kind, target, known>> /\ step[c] # "idle"
    BY <1>1, <2>1 DEF Tables
  <2>2. ASSUME NEW k \in Kinds, NEW t \in Targets(k),
               kind' = [kind EXCEPT ![c] = k], target' = [target EXCEPT ![c] = t],
               known' = [known EXCEPT ![c] = Known(k, t)]
        PROVE  Meant
    <3>1. t \in Named(k) /\ Named(k) \subseteq Session \cup Collections \cup {NoTarget}
      BY TargetsAreOpened DEF Named, Tables
    <3>2. Known(k, t) \in SUBSET (Calls \cup Questions)
      BY KnownAreRows
    <3> QED BY <1>1, <2>2, <3>1, <3>2 DEF Tables
  <2> QED BY <2>1, <2>2, CallMoves DEF Statements
<1>4. /\ live' \subseteq Collections /\ sessions' \subseteq opened' /\ opened' \subseteq Session
      /\ \A a \in activity' : a.session \in Session /\ a.by \in Questions
      /\ \A b \in briefs' : b.session \in Session /\ b.by \in Calls
      /\ \A s \in opened' : step'[s[1]] \in Responses
  <2>1. CASE UNCHANGED tableVars
    <3>1. \A s \in opened : s[1] # c \/ step'[c] \in Responses
      BY CallMoves DEF Tables, Statements, Responses
    <3> QED BY <1>1, <2>1, <3>1 DEF Tables, tableVars, Session
  <2>2. CASE step'[c] \in Responses /\ OpenSession(c)
    <3>1. <<c, target[c]>> \in Session /\ opened' = opened \cup {<<c, target[c]>>}
      BY <2>2 DEF OpenSession, InsertSession, Tables, Session
    <3> QED BY <1>1, <2>2, <3>1 DEF OpenSession, InsertSession, Tables, Session
  <2>3. CASE step'[c] \in Responses /\ SaveBrief(c)
    <3>1. target[c] \in sessions
      BY <2>3 DEF SaveBrief, InsertBrief
    <3> QED BY <1>1, <2>3, <3>1 DEF SaveBrief, InsertBrief, Tables, Session
  <2>4. CASE step'[c] \in Responses /\ Delete(c)
    BY <1>1, <2>4 DEF Delete, CloseSession, RemoveCollection, DeleteSession, DeleteCollection,
       RemoveSessions, Tables, Session
  <2> QED BY <2>1, <2>2, <2>3, <2>4, CallChanges DEF Insert
<1>5. UNCHANGED ask
  BY CallChanges DEF questionVars
<1> QED BY <1>1, <1>2, <1>3, <1>4, <1>5 DEF Tables, Named

LEMMA TablesInvariant == Spec => []Tables
<1>1. Tables /\ [Next]_vars => Tables'
  <2> SUFFICES ASSUME Tables, [Next]_vars PROVE Tables'
    OBVIOUS
  <2>1. ASSUME NEW c \in Calls, Call(c) PROVE Tables'
    BY <2>1, CallTables
  <2>2. ASSUME NEW q \in Questions, Question(q) PROVE Tables'
    <3>1. CASE UNCHANGED tableVars
      BY <2>2, <3>1, QuestionChanges DEF Tables, tableVars, callVars, Named
    <3>2. CASE InsertActivity(Row(q))
      BY <2>2, <3>2, QuestionChanges DEF Tables, InsertActivity, Row, callVars, Named
    <3> QED BY <2>2, <3>1, <3>2, QuestionChanges
  <2>3. CASE UNCHANGED vars
    BY <2>3 DEF vars, Tables, tableVars, callVars, questionVars, Named
  <2> QED BY <2>1, <2>2, <2>3 DEF Next
<1> QED BY <1>1, InitTables, PTL DEF Spec

-----------------------------------------------------------------------------
\* No row outlives its session, no session its collection.

LEMMA OrphansStep ==
  ASSUME Tables, NoOrphans, [Next]_vars
  PROVE  NoOrphans'
<1> USE DEF NoOrphans
<1>1. CASE UNCHANGED tableVars
  BY <1>1 DEF tableVars
<1>2. ASSUME NEW c \in Calls, Insert(c) \/ Delete(c) PROVE NoOrphans'
  <2>1. CASE Insert(c)
    BY <2>1 DEF Insert, OpenSession, SaveBrief, InsertSession, InsertBrief
  <2>2. CASE Delete(c)
    BY <2>2 DEF Delete, CloseSession, RemoveCollection, DeleteSession, DeleteCollection,
       RemoveSessions
  <2> QED BY <1>2, <2>1, <2>2
<1>3. ASSUME NEW q \in Questions, InsertActivity(Row(q)) PROVE NoOrphans'
  BY <1>3 DEF InsertActivity
<1>4. CASE UNCHANGED vars
  BY <1>1, <1>4 DEF vars
<1> QED BY <1>1, <1>2, <1>3, <1>4, CallChanges, QuestionChanges DEF Next

\* Whatever is deleted while rows are being added, the foreign keys and their
\* cascades leave no row without what it belongs to.
THEOREM OrphansTheorem == Spec => []NoOrphans
<1>1. Init => NoOrphans
  BY DEF Init, WorkspaceInit, NoOrphans
<1> QED BY <1>1, OrphansStep, TablesInvariant, PTL DEF Spec

-----------------------------------------------------------------------------
\* What is gone stays gone.

Gone ==
  /\ live' \subseteq live
  /\ opened \subseteq opened'
  /\ \A s \in opened \ sessions : s \notin sessions'

LEMMA GoneStaysGone ==
  ASSUME Tables, [Next]_vars
  PROVE  Gone
<1> USE DEF Gone
<1>1. CASE UNCHANGED tableVars
  BY <1>1 DEF tableVars
<1>2. ASSUME NEW c \in Calls, step[c] = "main", Insert(c) PROVE Gone
  <2>1. CASE OpenSession(c)
    <3>1. \A x : <<c, x>> \notin opened
      BY <1>2 DEF Tables, Responses
    <3> QED BY <2>1, <3>1 DEF OpenSession, InsertSession
  <2>2. CASE SaveBrief(c)
    BY <2>2 DEF SaveBrief, InsertBrief
  <2> QED BY <1>2, <2>1, <2>2 DEF Insert
<1>3. ASSUME NEW c \in Calls, Delete(c) PROVE Gone
  BY <1>3 DEF Delete, CloseSession, RemoveCollection, DeleteSession, DeleteCollection,
     RemoveSessions
<1>4. ASSUME NEW q \in Questions, InsertActivity(Row(q)) PROVE Gone
  BY <1>4 DEF InsertActivity
<1>5. CASE UNCHANGED vars
  BY <1>1, <1>5 DEF vars
<1> QED BY <1>1, <1>2, <1>3, <1>4, <1>5, CallChanges, QuestionChanges DEF Next

\* A request that looked for its target, or went to delete it, and found none.
NotFoundGone ==
  \A c \in Calls :
    /\ step[c] = "exists" => kind[c] \in ChecksFirst
    /\ step[c] = "notfound" =>
         \/ target[c] \in Collections /\ target[c] \notin live
         \/ target[c] \in opened \ sessions

LEMMA NotFoundStep ==
  ASSUME Tables, NotFoundGone, [Next]_vars
  PROVE  NotFoundGone'
<1>1. Gone
  BY GoneStaysGone
<1>2. ASSUME NEW c \in Calls, Call(c) PROVE NotFoundGone'
  <2>1. \A d \in Calls \ {c} : step'[d] = step[d] /\ target'[d] = target[d] /\ kind'[d] = kind[d]
    BY <1>2, CallMoves DEF Tables
  <2>2. ASSUME step'[c] = "exists" PROVE kind'[c] \in ChecksFirst
    BY <1>2, <2>2 DEF Call, CallStep, AcquireForCall, CheckTarget, GetSession, ListBriefs,
       ListSessions, ListSources, ListCollections, Readiness, Select, GetSource, Create,
       DeleteTarget, Fails, CommitUnseen, Respond, Send, Tables
  <2>3. ASSUME step'[c] = "notfound"
        PROVE  \/ target'[c] \in Collections /\ target'[c] \notin live'
               \/ target'[c] \in opened' \ sessions'
    <3>1. target' = target /\ step[c] \in {"acquire"} \cup Statements
      BY <1>2, <2>3, CallMoves
    <3>2. /\ UNCHANGED tableVars /\ ~ Exists(c)
          /\ kind[c] \in ChecksFirst \cup {"source", "close", "remove"}
      <4>1. CheckTarget(c) \/ GetSource(c) \/ DeleteTarget(c)
        BY <1>2, <2>3 DEF Call, CallStep, AcquireForCall, GetSession, ListBriefs, ListSessions,
           ListSources, ListCollections, Readiness, Select, Create, Fails, CommitUnseen,
           Respond, Send, Tables
      <4>2. CASE CheckTarget(c)
        BY <2>3, <4>2 DEF CheckTarget, NotFoundGone, Tables
      <4>3. CASE GetSource(c)
        BY <2>3, <4>3 DEF GetSource, Respond, Exists, OnSession, Tables
      <4>4. CASE DeleteTarget(c)
        BY <2>3, <4>4 DEF DeleteTarget, Respond, Tables
      <4> QED BY <4>1, <4>2, <4>3, <4>4
    <3>3. target[c] \in (IF kind[c] \in OnSession THEN opened ELSE Collections)
      BY <3>1, <3>2 DEF Tables, Named, ChecksFirst, OnNothing, Statements
    <3> QED BY <3>1, <3>2, <3>3 DEF Exists, tableVars
  <2> QED BY <1>1, <2>1, <2>2, <2>3 DEF NotFoundGone, Gone
<1>3. ASSUME NEW q \in Questions, Question(q) PROVE NotFoundGone'
  BY <1>1, <1>3, QuestionChanges DEF NotFoundGone, Gone, callVars
<1>4. CASE UNCHANGED vars
  BY <1>4 DEF vars, tableVars, callVars, NotFoundGone
<1> QED BY <1>2, <1>3, <1>4 DEF Next

\* A 404 is the truth and stays so: what a request did not find is gone, for
\* good.
THEOREM NotFoundTheorem == Spec => []NotFoundIsTrue
<1>1. Init => NotFoundGone
  BY DEF Init, SessionsInit, NotFoundGone
<1>2. Tables /\ NotFoundGone => NotFoundIsTrue
  <2> SUFFICES ASSUME Tables, NotFoundGone, NEW c \in Calls, step[c] = "notfound"
               PROVE  target[c] \notin live \cup sessions
    BY DEF NotFoundIsTrue
  <2> QED BY WorkspaceAssumption DEF Tables, NotFoundGone, Session
<1> QED BY <1>1, <1>2, NotFoundStep, TablesInvariant, PTL DEF Spec

-----------------------------------------------------------------------------
\* A brief that was confirmed is there as long as its session.

BriefKept ==
  \A c \in Calls :
    kind[c] = "save" /\ step[c] = "created" =>
      /\ target[c] \in opened
      /\ target[c] \in sessions => \E b \in briefs : b.by = c /\ b.session = target[c]

LEMMA BriefsStep ==
  ASSUME Tables, BriefKept, [Next]_vars
  PROVE  BriefKept'
<1>1. Gone
  BY GoneStaysGone
<1> DEFINE Stayed == \A b \in briefs : b.session \in sessions' => b \in briefs'
<1>2. Stayed
  <2>1. CASE UNCHANGED tableVars
    BY <2>1 DEF tableVars
  <2>2. ASSUME NEW c \in Calls, Insert(c) \/ Delete(c) PROVE Stayed
    BY <2>2 DEF Insert, OpenSession, SaveBrief, InsertSession, InsertBrief, Delete,
       CloseSession, RemoveCollection, DeleteSession, DeleteCollection, RemoveSessions
  <2>3. ASSUME NEW q \in Questions, InsertActivity(Row(q)) PROVE Stayed
    BY <2>3 DEF InsertActivity
  <2>4. CASE UNCHANGED vars
    BY <2>4 DEF vars, tableVars
  <2> QED BY <2>1, <2>2, <2>3, <2>4, CallChanges, QuestionChanges DEF Next
<1>3. ASSUME NEW c \in Calls, Call(c) PROVE BriefKept'
  <2>1. \A d \in Calls \ {c} : step'[d] = step[d] /\ target'[d] = target[d] /\ kind'[d] = kind[d]
    BY <1>3, CallMoves DEF Tables
  <2>2. ASSUME kind'[c] = "save", step'[c] = "created"
        PROVE  /\ target'[c] \in opened'
               /\ \E b \in briefs' : b.by = c /\ b.session = target'[c]
    <3>1. Create(c)
      BY <1>3, <2>2 DEF Call, CallStep, AcquireForCall, CheckTarget, GetSession, ListBriefs,
         ListSessions, ListSources, ListCollections, Readiness, Select, GetSource,
         DeleteTarget, Fails, CommitUnseen, Respond, Send, Tables
    <3>2. SaveBrief(c) /\ UNCHANGED <<kind, target>>
      BY <2>2, <3>1 DEF Create, Insert, OpenSession
    <3>3. [session |-> target[c], by |-> c] \in briefs' /\ target[c] \in sessions
      BY <3>2 DEF SaveBrief, InsertBrief
    <3> QED BY <1>1, <3>2, <3>3 DEF Tables, Gone
  <2>3. ASSUME NEW d \in Calls \ {c}, kind[d] = "save", step[d] = "created"
        PROVE  /\ target[d] \in opened'
               /\ target[d] \in sessions' => \E b \in briefs' : b.by = d /\ b.session = target[d]
    BY <1>1, <1>2, <2>3 DEF BriefKept, Gone
  <2> QED BY <2>1, <2>2, <2>3 DEF BriefKept
<1>4. ASSUME UNCHANGED callVars PROVE BriefKept'
  <2> SUFFICES ASSUME NEW d \in Calls, kind[d] = "save", step[d] = "created"
               PROVE  /\ target[d] \in opened'
                      /\ target[d] \in sessions' => \E b \in briefs' : b.by = d /\ b.session = target[d]
    BY <1>4 DEF callVars, BriefKept
  <2> QED BY <1>1, <1>2 DEF BriefKept, Gone
<1> QED BY <1>3, <1>4, QuestionChanges DEF Next, vars

\* Whoever got 201 for a brief finds it for as long as there is its session,
\* whatever else is saved, recorded or deleted.
THEOREM BriefsTheorem == Spec => []SavedBriefStays
<1>1. Init => BriefKept
  BY DEF Init, SessionsInit, BriefKept
<1>2. BriefKept => SavedBriefStays
  BY DEF BriefKept, SavedBriefStays
<1> QED BY <1>1, <1>2, BriefsStep, TablesInvariant, PTL DEF Spec

-----------------------------------------------------------------------------
\* The stream of a question: the frames follow the answer one by one, the
\* last frame comes before the connection is released, a frame of a failed
\* release after it, and a row is that of the whole answer.

TokenFrames == {TokenFrame(n) : n \in Tokens}
LastFrames ==
  {ErrorFrame(code) : code \in Codes}
    \cup {DoneFrame(extract_citations(text, chunks)) :
           text \in Seq(Tokens), chunks \in Rankings \cup {<<>>}}

Told(q) == [i \in 1..Len(answer[q]) |-> TokenFrame(answer[q][i])]
Done(q) == DoneFrame(extract_citations(answer[q], ranking[q]))
Failed == ErrorFrame("QA_SYN_001")
IsRecorded(q) == \E a \in activity : a.by = q

Ending == {"release", "closed"}

\* The client has the whole stream.
Ended(q) ==
  \E f \in LastFrames :
    /\ IsRecorded(q) => f = Done(q)
    /\ \/ sent[q] = Append(Told(q), f)
       \/ pc[q] = "closed" /\ sent[q] = Append(Append(Told(q), f), Failed)

Streaming(q) ==
  /\ pc[q] \in {"idle", "acquire", "validate", "exists", "embed", "retrieve"} =>
       answer[q] = <<>> /\ ~ IsRecorded(q)
  /\ IsRecorded(q) => pc[q] \in {"final"} \cup Ending
  /\ pc[q] = "idle" => q \notin gone
  /\ pc[q] \notin Ending => sent[q] \in Seq(TokenFrames) /\ (q \notin gone => sent[q] = Told(q))
  /\ pc[q] \in Ending => Ended(q) \/ (q \in gone /\ sent[q] \in Seq(TokenFrames))

Streams ==
  /\ pc \in [Questions -> {"idle", "acquire", "closed"} \cup Handling]
  /\ ranking \in [Questions -> Rankings \cup {<<>>}]
  /\ answer \in [Questions -> Seq(Tokens)]
  /\ sent \in [Questions -> Seq(TokenFrames \cup LastFrames)]
  /\ gone \subseteq Questions /\ unrecorded \subseteq Questions
  /\ \A q \in Questions : Streaming(q)
  /\ \A a \in activity :
       a.answer = answer[a.by] /\ a.citations = extract_citations(answer[a.by], ranking[a.by])

LEMMA InitStreams == Init => Streams
  BY DEF Init, WorkspaceInit, QuestionsInit, Streams, Streaming, Told, IsRecorded, Handling, Ending

\* Every question but q keeps its stream, and so does q if nothing happens to
\* it; rows may go at any time.
LEMMA StreamKept ==
  ASSUME Streams, NEW r \in Questions,
         pc'[r] = pc[r], answer'[r] = answer[r], ranking'[r] = ranking[r], sent'[r] = sent[r],
         r \in gone' <=> r \in gone,
         IsRecorded(r)' => IsRecorded(r)
  PROVE  Streaming(r)'
<1>1. Told(r)' = Told(r) /\ Done(r)' = Done(r)
  BY DEF Told, Done
<1>2. Ended(r) => Ended(r)'
  BY <1>1 DEF Ended
<1> QED BY <1>1, <1>2 DEF Streams, Streaming, Ending

\* There is a frame for each token.
LEMMA ToldFrames ==
  ASSUME Streams, NEW q \in Questions
  PROVE  /\ answer[q] \in Seq(Tokens) /\ Told(q) \in Seq(TokenFrames)
         /\ Len(Told(q)) = Len(answer[q])
<1>1. answer[q] \in Seq(Tokens)
  BY DEF Streams
<1>2. \A n \in Tokens : TokenFrame(n) \in TokenFrames
  BY DEF TokenFrames
<1> QED BY <1>1, <1>2 DEF Told

\* An answer grows by a token, and so do the frames of a client that stays.
LEMMA ToldOneMore ==
  ASSUME Streams, NEW q \in Questions, NEW n \in Tokens,
         answer' = [answer EXCEPT ![q] = Append(@, n)]
  PROVE  /\ answer' \in [Questions -> Seq(Tokens)]
         /\ Told(q)' = Append(Told(q), TokenFrame(n))
<1>1. answer[q] \in Seq(Tokens) /\ answer'[q] = Append(answer[q], n)
  BY DEF Streams
<1>2. answer'[q] \in Seq(Tokens)
  BY <1>1
<1>3. Len(answer'[q]) = Len(answer[q]) + 1 /\ Len(answer[q]) \in Nat
  BY <1>1
<1>4. Told(q) \in Seq(TokenFrames) /\ Len(Told(q)) = Len(answer[q])
  BY ToldFrames
<1>5. Told(q)' = Append(Told(q), TokenFrame(n))
  BY <1>1, <1>3, <1>4 DEF Told
<1> QED BY <1>2, <1>5 DEF Streams

\* The end of a stream, with a frame for a client that has stayed.
LEMMA StreamEnded ==
  ASSUME Streams, NEW q \in Questions, pc[q] \notin Ending, NEW f \in LastFrames, Tell(q, f),
         NEW next \in Ending, Goto(q, next),
         UNCHANGED <<answer, ranking, gone, activity>>,
         IsRecorded(q) => f = Done(q)
  PROVE  /\ Streaming(q)'
         /\ pc' \in [Questions -> {"idle", "acquire", "closed"} \cup Handling]
         /\ sent' \in [Questions -> Seq(TokenFrames \cup LastFrames)]
         /\ \A r \in Questions \ {q} : pc'[r] = pc[r] /\ sent'[r] = sent[r]
<1> USE DEF Tell, Goto, Deliver, Streams, Ending, Handling
<1>1. pc' = [pc EXCEPT ![q] = next]
  OBVIOUS
<1>2. CASE q \in gone
  BY <1>1, <1>2 DEF Streaming, IsRecorded
<1>3. CASE q \notin gone
  <2>1. sent' = [sent EXCEPT ![q] = Append(sent[q], f)]
    BY <1>3
  <2>2. sent'[q] = Append(Told(q), f) /\ sent'[q] \in Seq(TokenFrames \cup LastFrames)
    BY <1>3, <2>1 DEF Streaming
  <2>3. Told(q)' = Told(q) /\ Done(q)' = Done(q) /\ IsRecorded(q)' = IsRecorded(q)
    BY DEF Told, Done, IsRecorded
  <2>4. Ended(q)'
    BY <2>2, <2>3 DEF Ended
  <2> QED BY <1>1, <1>3, <2>1, <2>2, <2>3, <2>4 DEF Streaming
<1> QED BY <1>2, <1>3

\* The release of the connection, and a frame if it fails.
LEMMA StreamReleased ==
  ASSUME Tables, Streams, NEW q \in Questions, ReleaseConnection(q)
  PROVE  Streams'
<1> USE DEF Ending, Handling
<1>1. /\ pc[q] = "release" /\ pc' = [pc EXCEPT ![q] = "closed"]
      /\ UNCHANGED <<answer, ranking, gone, activity, unrecorded>>
  BY DEF ReleaseConnection, Close, Goto, tableVars
<1>2. CASE UNCHANGED sent
  <2>1. Told(q)' = Told(q) /\ Done(q)' = Done(q) /\ IsRecorded(q)' = IsRecorded(q)
    BY <1>1 DEF Told, Done, IsRecorded
  <2>2. Ended(q) => Ended(q)'
    BY <1>1, <1>2, <2>1 DEF Ended
  <2>3. Streaming(q)'
    BY <1>1, <1>2, <2>1, <2>2 DEF Streams, Streaming
  <2>4. \A r \in Questions \ {q} : Streaming(r)'
    BY <1>1, <1>2, StreamKept DEF IsRecorded, Streams
  <2> QED BY <1>1, <1>2, <2>3, <2>4 DEF Streams
<1>3. CASE q \notin gone /\ Deliver(q, Failed)
  <2>1. sent' = [sent EXCEPT ![q] = Append(sent[q], Failed)]
    BY <1>3 DEF Deliver
  <2>2. Failed \in LastFrames
    BY DEF Failed, LastFrames, Codes
  <2>3. sent' \in [Questions -> Seq(TokenFrames \cup LastFrames)]
    <3>1. sent[q] \in Seq(TokenFrames \cup LastFrames) /\ Failed \in TokenFrames \cup LastFrames
      BY <2>2 DEF Streams
    <3>2. Append(sent[q], Failed) \in Seq(TokenFrames \cup LastFrames)
      BY <3>1
    <3> QED BY <2>1, <3>2 DEF Streams
  <2>4. Told(q)' = Told(q) /\ Done(q)' = Done(q) /\ IsRecorded(q)' = IsRecorded(q)
    BY <1>1 DEF Told, Done, IsRecorded
  <2>5. PICK f \in LastFrames : sent[q] = Append(Told(q), f) /\ (IsRecorded(q) => f = Done(q))
    BY <1>1, <1>3 DEF Streams, Streaming, Ended
  <2>6. Ended(q)'
    <3>1. sent'[q] = Append(Append(Told(q), f), Failed) /\ pc'[q] = "closed"
      BY <1>1, <2>1, <2>5 DEF Streams
    <3> QED BY <2>4, <2>5, <3>1 DEF Ended, Failed
  <2>7. Streaming(q)'
    BY <1>1, <2>4, <2>6 DEF Streams, Streaming
  <2>8. \A r \in Questions \ {q} : Streaming(r)'
    BY <1>1, <2>1, StreamKept DEF IsRecorded, Streams
  <2> QED BY <1>1, <2>3, <2>7, <2>8 DEF Streams
<1> QED BY <1>2, <1>3 DEF ReleaseConnection, Tell, Failed

LEMMA QuestionStreams ==
  ASSUME Tables, Streams, NEW q \in Questions, Question(q)
  PROVE  Streams'
<1> USE DEF Ending
<1>1. ASSUME NEW code \in Codes, Ends(q, code), pc[q] \notin {"record", "final"} \cup Ending
      PROVE  Streams'
  <2>1. ErrorFrame(code) \in LastFrames /\ ~ IsRecorded(q)
    BY <1>1 DEF LastFrames, Streams, Streaming
  <2>2. /\ UNCHANGED <<answer, ranking, gone, activity, unrecorded>>
        /\ Tell(q, ErrorFrame(code)) /\ \E next \in Ending : Goto(q, next)
    BY <1>1 DEF Ends, Refuse, Report, Conclude, Close, tableVars
  <2>3. /\ Streaming(q)'
        /\ pc' \in [Questions -> {"idle", "acquire", "closed"} \cup Handling]
        /\ sent' \in [Questions -> Seq(TokenFrames \cup LastFrames)]
        /\ \A r \in Questions \ {q} : pc'[r] = pc[r] /\ sent'[r] = sent[r]
    BY <1>1, <2>1, <2>2, StreamEnded
  <2>4. \A r \in Questions \ {q} : Streaming(r)'
    BY <2>2, <2>3, StreamKept DEF IsRecorded
  <2> QED BY <2>2, <2>3, <2>4 DEF Streams
\* The handler goes on without a frame.
<1>2. ASSUME NEW next \in {"acquire"} \cup Handling, Goto(q, next),
             UNCHANGED <<answer, ranking, sent, gone, activity>>,
             unrecorded' \in SUBSET Questions,
             pc[q] \in {"idle", "acquire", "validate", "exists", "embed"}
               => next \in {"acquire", "validate", "exists", "embed", "retrieve"},
             pc[q] \in {"retrieve", "stream", "record"}
               => next \in {"stream", "record", "final"} /\ (pc[q] = "record" => next = "final"),
             pc[q] \notin {"final"} \cup Ending
      PROVE  Streams'
  <2>1. \A r \in Questions \ {q} : Streaming(r)'
    BY <1>2, StreamKept DEF IsRecorded, Streams, Goto
  <2>2. Streaming(q)'
    BY <1>2 DEF Streams, Streaming, Told, Done, Goto, IsRecorded, Handling
  <2> QED BY <1>2, <2>1, <2>2 DEF Streams, Goto, Handling
<1>3. ASSUME NEW chunks \in Rankings, ranking' = [ranking EXCEPT ![q] = chunks],
             pc[q] = "retrieve", Goto(q, "stream"),
             UNCHANGED <<answer, sent, gone, unrecorded, activity>>
      PROVE  Streams'
  <2>1. ~ IsRecorded(q)
    BY <1>3 DEF Streams, Streaming
  <2>2. \A r \in Questions \ {q} : Streaming(r)'
    BY <1>3, StreamKept DEF IsRecorded, Streams, Goto
  <2>3. Streaming(q)'
    BY <1>3, <2>1 DEF Streams, Streaming, Told, Goto, IsRecorded
  <2>4. \A a \in activity : a.by # q
    BY <2>1 DEF IsRecorded
  <2>5. \A a \in activity : a.by \in Questions
    BY DEF Tables
  <2> QED BY <1>3, <2>2, <2>3, <2>4, <2>5 DEF Streams, Goto, Handling
<1>4. CASE StreamToken(q)
  <2>1. PICK n \in Tokens :
          \/ /\ q \notin gone
             /\ Deliver(q, TokenFrame(n))
             /\ answer' = [answer EXCEPT ![q] = Append(@, n)]
             /\ UNCHANGED <<pc, holding>>
          \/ /\ q \in gone
             /\ answer' = [answer EXCEPT ![q] = Append(@, n)]
             /\ UNCHANGED <<pc, holding, sent>>
          \/ q \in gone /\ Close(q) /\ UNCHANGED <<answer, sent>>
    BY <1>4 DEF StreamToken
  <2>2. /\ UNCHANGED <<tableVars, ranking, gone, unrecorded>>
        /\ pc[q] = "stream" /\ ~ IsRecorded(q)
    BY <1>4 DEF StreamToken, Streams, Streaming
  <2>3. \A a \in activity : a.by \in Questions \ {q}
    BY <2>2 DEF Tables, IsRecorded
  <2>4. CASE answer' = [answer EXCEPT ![q] = Append(@, n)] /\ UNCHANGED pc
    <3>1. /\ answer' \in [Questions -> Seq(Tokens)]
          /\ Told(q)' = Append(Told(q), TokenFrame(n))
      BY <2>4, ToldOneMore
    <3>2. q \notin gone => sent' = [sent EXCEPT ![q] = Append(sent[q], TokenFrame(n))]
      BY <2>1 DEF Deliver, Close, Goto, Streams
    <3>3. q \in gone => sent' = sent
      BY <2>1
    <3>4. TokenFrame(n) \in TokenFrames
      BY DEF TokenFrames
    <3>5. sent' \in [Questions -> Seq(TokenFrames \cup LastFrames)]
      <4>1. /\ sent \in [Questions -> Seq(TokenFrames \cup LastFrames)]
            /\ sent[q] \in Seq(TokenFrames \cup LastFrames)
            /\ TokenFrame(n) \in TokenFrames \cup LastFrames
        BY <3>4 DEF Streams
      <4>2. Append(sent[q], TokenFrame(n)) \in Seq(TokenFrames \cup LastFrames)
        BY <4>1
      <4> QED BY <3>2, <3>3, <4>1, <4>2
    <3>6. Streaming(q)'
      <4>1. sent[q] \in Seq(TokenFrames) /\ (q \notin gone => sent[q] = Told(q))
        BY <2>2 DEF Streams, Streaming
      <4>2. Append(sent[q], TokenFrame(n)) \in Seq(TokenFrames)
        BY <3>4, <4>1
      <4>3. pc'[q] = "stream" /\ (q \in gone' <=> q \in gone) /\ ~ IsRecorded(q)'
        BY <2>2, <2>4 DEF IsRecorded, tableVars
      <4>4. sent'[q] \in Seq(TokenFrames) /\ (q \notin gone => sent'[q] = Told(q)')
        BY <3>1, <3>2, <3>3, <4>1, <4>2 DEF Streams
      <4> QED BY <4>3, <4>4 DEF Streaming
    <3>7. \A r \in Questions \ {q} : answer'[r] = answer[r] /\ sent'[r] = sent[r]
      BY <2>4, <3>2, <3>3 DEF Streams
    <3>8. \A r \in Questions \ {q} : Streaming(r)'
      BY <2>2, <2>4, <3>7, StreamKept DEF IsRecorded, tableVars
    <3>9. \A a \in activity' :
            a.answer = answer'[a.by] /\ a.citations = extract_citations(answer'[a.by], ranking'[a.by])
      BY <2>2, <2>3, <3>7 DEF Streams, tableVars
    <3>10. \A r \in Questions : Streaming(r)'
      BY <3>6, <3>8
    <3> QED BY <2>2, <2>4, <3>1, <3>5, <3>9, <3>10 DEF Streams
  <2>5. CASE q \in gone /\ Close(q) /\ UNCHANGED <<answer, sent>>
    <3>1. \A r \in Questions \ {q} : Streaming(r)'
      BY <2>2, <2>5, StreamKept DEF IsRecorded, tableVars, Streams, Close, Goto
    <3>2. Streaming(q)'
      BY <2>2, <2>5 DEF Streams, Streaming, Close, Goto, IsRecorded, tableVars
    <3> QED BY <2>2, <2>5, <3>1, <3>2 DEF Streams, Close, Goto, tableVars
  <2> QED BY <2>1, <2>4, <2>5
<1>5. CASE Record(q)
  <2>1. /\ pc[q] = "record" /\ Goto(q, "final") /\ activity' = activity \cup {Row(q)}
        /\ UNCHANGED <<ask, ranking, answer, sent, gone, unrecorded>>
    BY <1>5 DEF Record, InsertActivity
  <2>2. Row(q).by = q
    BY DEF Row
  <2>3. \A r \in Questions \ {q} : Streaming(r)'
    BY <2>1, <2>2, StreamKept DEF IsRecorded, Streams, Goto
  <2>4. Streaming(q)'
    <3>1. sent[q] \in Seq(TokenFrames) /\ (q \notin gone => sent[q] = Told(q))
      BY <2>1 DEF Streams, Streaming
    <3>2. pc'[q] = "final" /\ Told(q)' = Told(q)
      BY <2>1 DEF Streams, Told, Goto
    <3> QED BY <2>1, <3>1, <3>2 DEF Streaming
  <2>5. \A a \in activity' : /\ a.answer = answer[a.by]
                            /\ a.citations = extract_citations(answer[a.by], ranking[a.by])
    BY <2>1 DEF Streams, Row
  <2> QED BY <2>1, <2>3, <2>4, <2>5 DEF Streams, Goto, Handling
<1>6. CASE SendDone(q)
  <2>1. /\ pc[q] = "final" /\ Tell(q, Done(q)) /\ Goto(q, "release")
        /\ UNCHANGED <<answer, ranking, gone, activity, unrecorded>>
    BY <1>6 DEF SendDone, Conclude, Done, tableVars
  <2>2. Done(q) \in LastFrames
    BY DEF Done, LastFrames, Streams
  <2>3. /\ Streaming(q)'
        /\ pc' \in [Questions -> {"idle", "acquire", "closed"} \cup Handling]
        /\ sent' \in [Questions -> Seq(TokenFrames \cup LastFrames)]
        /\ \A r \in Questions \ {q} : pc'[r] = pc[r] /\ sent'[r] = sent[r]
    BY <2>1, <2>2, StreamEnded
  <2>4. \A r \in Questions \ {q} : Streaming(r)'
    BY <2>1, <2>3, StreamKept DEF IsRecorded
  <2> QED BY <2>1, <2>3, <2>4 DEF Streams
<1>7. CASE Leave(q)
  <2>1. /\ pc[q] \notin {"idle", "closed"} /\ q \notin gone /\ gone' = gone \cup {q}
        /\ UNCHANGED <<pc, ranking, answer, sent, activity, unrecorded>>
    BY <1>7 DEF Leave, Handling, tableVars
  <2>2. Told(q) \in Seq(TokenFrames)
    BY ToldFrames
  <2>3. Streaming(q)'
    <3>1. Told(q)' = Told(q) /\ Done(q)' = Done(q) /\ IsRecorded(q)' = IsRecorded(q)
      BY <2>1 DEF Told, Done, IsRecorded
    <3>2. Ended(q) => Ended(q)'
      BY <2>1, <3>1 DEF Ended
    <3> QED BY <2>1, <3>1, <3>2 DEF Streams, Streaming
  <2>4. \A r \in Questions \ {q} : Streaming(r)'
    BY <2>1, StreamKept DEF IsRecorded
  <2> QED BY <2>1, <2>3, <2>4 DEF Streams
<1>8. CASE Receive(q)
  BY <1>2, <1>8 DEF Receive, tableVars, Handling, Streams
<1>9. CASE Reject(q)
  BY <1>1, <1>9 DEF Reject, Ends, Codes
<1>10. CASE AcquireForQuestion(q)
  BY <1>2, <1>10 DEF AcquireForQuestion, tableVars, Handling, Streams
<1>11. CASE Validate(q) \/ Embed(q)
  BY <1>1, <1>2, <1>11 DEF Validate, Embed, tableVars, Handling, Streams, Ends, Codes
<1>12. CASE CheckCollection(q)
  <2>1. CASE Report(q, "QA_COL_001")
    BY <1>1, <1>12, <2>1 DEF CheckCollection, Ends, Codes
  <2>2. CASE ~ Report(q, "QA_COL_001")
    <3>1. /\ pc[q] = "exists" /\ Goto(q, "embed")
          /\ UNCHANGED <<tableVars, answer, ranking, sent, gone, unrecorded>>
      BY <1>12, <2>2 DEF CheckCollection
    <3> QED BY <1>2, <3>1 DEF tableVars, Handling, Streams
  <2> QED BY <2>1, <2>2
<1>13. CASE Retrieve(q)
  BY <1>1, <1>3, <1>13 DEF Retrieve, tableVars, Ends, Codes
<1>14. CASE Breaks(q)
  BY <1>1, <1>14 DEF Breaks, Ends, Codes
<1>15. CASE StreamEnds(q)
  <2>1. AfterStream(q) \in {"record", "final"}
    BY DEF AfterStream
  <2> QED BY <1>2, <1>15, <2>1 DEF StreamEnds, tableVars, Handling, Streams
<1>16. CASE RecordFails(q)
  BY <1>2, <1>16 DEF RecordFails, tableVars, Handling, Streams
<1>17. CASE ReleaseConnection(q)
  BY <1>17, StreamReleased
<1> QED BY <1>4, <1>5, <1>6, <1>7, <1>8, <1>9, <1>10, <1>11, <1>12, <1>13, <1>14, <1>15,
     <1>16, <1>17 DEF Question, QuestionStep

LEMMA StreamsStep ==
  ASSUME Tables, Streams, [Next]_vars
  PROVE  Streams'
<1>1. ASSUME UNCHANGED questionVars, activity' \subseteq activity PROVE Streams'
  <2>1. \A r \in Questions : Streaming(r)'
    BY <1>1, StreamKept DEF questionVars, IsRecorded
  <2> QED BY <1>1, <2>1 DEF Streams, questionVars
<1>2. ASSUME NEW c \in Calls, Call(c) PROVE activity' \subseteq activity
  BY <1>2, CallChanges DEF tableVars, Insert, OpenSession, SaveBrief, InsertSession,
     InsertBrief, Delete, CloseSession, RemoveCollection, DeleteSession, DeleteCollection,
     RemoveSessions
<1>3. CASE UNCHANGED vars
  BY <1>1, <1>3 DEF vars, tableVars
<1> QED BY <1>1, <1>2, <1>3, CallChanges, QuestionStreams DEF Next

LEMMA StreamsInvariant == Spec => [](Tables /\ Streams)
BY InitStreams, StreamsStep, TablesInvariant, PTL DEF Spec

\* A stream is tokens, then one done or one error frame, and only when the
\* release of the connection fails another error frame; a client that stays
\* gets the first of them before its handler returns.
THEOREM StreamsTheorem == Spec => []StreamsEnd
<1>1. Streams => StreamsEnd
  <2> SUFFICES ASSUME Streams, NEW q \in Questions
               PROVE  /\ \A i \in DOMAIN sent[q] : sent[q][i].type # "token" =>
                           \/ i = Len(sent[q]) /\ pc[q] \in Ending
                           \/ /\ i = Len(sent[q]) - 1 /\ pc[q] = "closed"
                              /\ Last(sent[q]) = Failed
                      /\ pc[q] \in Ending /\ q \notin gone =>
                           sent[q] # <<>> /\ Last(sent[q]).type # "token"
    BY DEF StreamsEnd, Ending, Failed
  <2>1. \A frame \in TokenFrames : frame.type = "token"
    BY DEF TokenFrames, TokenFrame
  <2>2. \A frame \in LastFrames \cup {Failed} : frame.type # "token"
    BY DEF LastFrames, ErrorFrame, DoneFrame, Failed
  <2>3. Told(q) \in Seq(TokenFrames)
    BY ToldFrames
  <2>4. CASE sent[q] \in Seq(TokenFrames) /\ (pc[q] \notin Ending \/ q \in gone)
    BY <2>1, <2>4
  <2>5. CASE pc[q] \in Ending /\ Ended(q)
    <3>1. PICK f \in LastFrames :
            \/ sent[q] = Append(Told(q), f)
            \/ pc[q] = "closed" /\ sent[q] = Append(Append(Told(q), f), Failed)
      BY <2>5 DEF Ended
    <3>2. \A i \in 1..Len(Told(q)) : Told(q)[i].type = "token"
      BY <2>1, <2>3
    <3>3. CASE sent[q] = Append(Told(q), f)
      <4>1. Len(sent[q]) = Len(Told(q)) + 1 /\ DOMAIN sent[q] = 1..(Len(Told(q)) + 1)
        BY <2>3, <3>3
      <4>2. /\ \A i \in 1..Len(Told(q)) : sent[q][i].type = "token"
            /\ sent[q][Len(sent[q])] = f
        BY <2>3, <3>2, <3>3
      <4>3. sent[q] # <<>> /\ Last(sent[q]) = f
        BY <2>3, <3>3, <4>1, <4>2 DEF Last
      <4>4. \A i \in 1..(Len(Told(q)) + 1) : i \in 1..Len(Told(q)) \/ i = Len(Told(q)) + 1
        BY <2>3
      <4> QED BY <2>2, <2>5, <4>1, <4>2, <4>3, <4>4
    <3>4. CASE pc[q] = "closed" /\ sent[q] = Append(Append(Told(q), f), Failed)
      <4> DEFINE n == Len(Told(q))
      <4>1. n \in Nat /\ Len(sent[q]) = n + 2 /\ DOMAIN sent[q] = 1..(n + 2)
        BY <2>3, <3>4
      <4>2. /\ \A i \in 1..n : sent[q][i].type = "token"
            /\ sent[q][n + 1] = f /\ sent[q][n + 2] = Failed
        BY <2>3, <3>2, <3>4
      <4>3. sent[q] # <<>> /\ Last(sent[q]) = Failed
        BY <4>1, <4>2 DEF Last
      <4>4. \A i \in 1..(n + 2) : i \in 1..n \/ i = Len(sent[q]) - 1 \/ i = Len(sent[q])
        BY <4>1
      <4>5. \A i \in DOMAIN sent[q] :
              sent[q][i].type # "token" => i = Len(sent[q]) - 1 \/ i = Len(sent[q])
        BY <4>1, <4>2, <4>4
      <4>6. pc[q] \in Ending /\ Last(sent[q]).type # "token"
        BY <2>2, <2>5, <4>3
      <4> QED BY <3>4, <4>3, <4>5, <4>6
    <3> QED BY <3>1, <3>3, <3>4
  <2> QED BY <2>4, <2>5 DEF Streams, Streaming
<1> QED BY <1>1, StreamsInvariant, PTL

\* What is recorded of a question is its whole answer, token for token as the
\* client got it, with the citations of the done frame that follows it.
THEOREM RecordedTheorem == Spec => []RecordedIsDelivered
<1>1. Tables /\ Streams => RecordedIsDelivered
  <2> SUFFICES ASSUME Tables, Streams, NEW a \in activity
               PROVE  /\ a.answer = answer[a.by] /\ pc[a.by] \in {"final"} \cup Ending
                      /\ a.by \notin gone /\ pc[a.by] \in Ending =>
                           /\ Len(a.answer) < Len(sent[a.by])
                           /\ sent[a.by][Len(a.answer) + 1] = DoneFrame(a.citations)
                           /\ \A i \in 1..Len(a.answer) :
                                sent[a.by][i] = TokenFrame(a.answer[i])
    BY DEF RecordedIsDelivered, Ending
  <2> DEFINE q == a.by
             n == Len(answer[q])
  <2>1. q \in Questions /\ IsRecorded(q)
    BY DEF Tables, IsRecorded
  <2>2. a.answer = answer[q] /\ pc[q] \in {"final"} \cup Ending
    BY <2>1 DEF Streams, Streaming
  <2>3. ASSUME q \notin gone, pc[q] \in Ending
        PROVE  /\ n < Len(sent[q]) /\ sent[q][n + 1] = DoneFrame(a.citations)
               /\ \A i \in 1..n : sent[q][i] = TokenFrame(answer[q][i])
    <3>1. \/ sent[q] = Append(Told(q), Done(q))
          \/ sent[q] = Append(Append(Told(q), Done(q)), Failed)
      BY <2>1, <2>3 DEF Streams, Streaming, Ended
    <3>2. n \in Nat /\ Told(q) \in Seq(TokenFrames) /\ Len(Told(q)) = n
      BY <2>1, ToldFrames
    <3>3. n < Len(sent[q]) /\ sent[q][n + 1] = Done(q) /\ \A i \in 1..n : sent[q][i] = Told(q)[i]
      <4>1. CASE sent[q] = Append(Told(q), Done(q))
        BY <3>2, <4>1
      <4>2. CASE sent[q] = Append(Append(Told(q), Done(q)), Failed)
        BY <3>2, <4>2
      <4> QED BY <3>1, <4>1, <4>2
    <3>4. Done(q) = DoneFrame(a.citations)
      BY <2>2 DEF Done, Streams
    <3>5. \A i \in 1..n : Told(q)[i] = TokenFrame(answer[q][i])
      BY DEF Told
    <3> QED BY <3>3, <3>4, <3>5
  <2> QED BY <2>2, <2>3
<1> QED BY <1>1, StreamsInvariant, PTL

-----------------------------------------------------------------------------
\* The pool.

Holders == {c \in Calls : step[c] \in Statements} \cup {q \in Questions : pc[q] \in Handling}

Pool ==
  /\ holding = Holders
  /\ IsFiniteSet(holding) /\ Cardinality(holding) <= PoolSize
  /\ \A q \in Questions : Len(answer[q]) <= MaxTokens

\* Who takes a connection found one, and all others let go of theirs only.
LEMMA PoolCounts ==
  ASSUME IsFiniteSet(holding), Cardinality(holding) <= PoolSize, NEW who,
         \/ holding' = holding
         \/ Available /\ holding' = holding \cup {who}
         \/ holding' = holding \ {who}
  PROVE  IsFiniteSet(holding') /\ Cardinality(holding') <= PoolSize
<1>1. CASE holding' = holding
  BY <1>1
<1>2. CASE Available /\ holding' = holding \cup {who}
  BY <1>2, FS_AddElement, FS_CardinalityType, WorkspaceAssumption DEF Available
<1>3. CASE holding' = holding \ {who}
  BY <1>3, FS_RemoveElement, FS_CardinalityType, WorkspaceAssumption
<1> QED BY <1>1, <1>2, <1>3

\* A request holds its connection from its first statement to its answer.
LEMMA CallHolds ==
  ASSUME Tables, NEW c \in Calls, Call(c)
  PROVE  \/ step'[c] \in Statements /\ Available /\ holding' = holding \cup {c}
         \/ (step[c] \in Statements <=> step'[c] \in Statements) /\ holding' = holding
         \/ step'[c] \notin Statements /\ holding' = holding \ {c}
<1> USE DEF Tables, Respond, Release, Acquire, Statements
<1>1. CASE \E k \in Kinds : \E t \in Targets(k) : Send(c, k, t, Known(k, t))
  BY <1>1 DEF Send
<1>2. CASE CommitUnseen(c)
  BY <1>2 DEF CommitUnseen
<1>3. CASE Create(c)
  BY <1>3 DEF Create
<1>4. CASE DeleteTarget(c)
  BY <1>4 DEF DeleteTarget
<1>5. CASE AcquireForCall(c)
  BY <1>5 DEF AcquireForCall
<1>6. CASE CheckTarget(c)
  BY <1>6 DEF CheckTarget
<1>7. CASE GetSource(c)
  BY <1>7 DEF GetSource
<1>8. CASE Fails(c)
  BY <1>8 DEF Fails
<1>9. CASE Reads(c)
  BY <1>9, ReadsFindRows DEF Select
<1> QED BY <1>1, <1>2, <1>3, <1>4, <1>5, <1>6, <1>7, <1>8, <1>9 DEF Call, CallStep, Reads

\* A question holds its own from its acceptance to the close.
Moves(q) ==
  /\ \A r \in Questions \ {q} : pc'[r] = pc[r]
  /\ \/ pc'[q] \in Handling /\ Available /\ holding' = holding \cup {q}
     \/ (pc[q] \in Handling <=> pc'[q] \in Handling) /\ holding' = holding
     \/ pc'[q] \notin Handling /\ holding' = holding \ {q}

LEMMA QuestionHolds ==
  ASSUME Tables, Streams, NEW q \in Questions, Question(q)
  PROVE  Moves(q)
<1>1. ASSUME Close(q) PROVE Moves(q)
  BY <1>1 DEF Close, Goto, Release, Handling, Streams, Moves
<1>2. ASSUME NEW frame, Conclude(q, frame), pc[q] \in Handling PROVE Moves(q)
  BY <1>2 DEF Conclude, Goto, Handling, Streams, Moves
<1>3. ASSUME NEW code, Refuse(q, code) \/ (Report(q, code) /\ pc[q] \in Handling) PROVE Moves(q)
  BY <1>1, <1>2, <1>3 DEF Refuse, Report
<1>4. ASSUME NEW next \in {"acquire"} \cup Handling, Goto(q, next), UNCHANGED holding,
             pc[q] \in Handling <=> next \in Handling
      PROVE  Moves(q)
  BY <1>4 DEF Goto, Streams, Moves
<1>5. CASE Receive(q)
  BY <1>4, <1>5 DEF Receive, Handling
<1>6. CASE Reject(q)
  BY <1>3, <1>6 DEF Reject
<1>7. CASE AcquireForQuestion(q)
  BY <1>7 DEF AcquireForQuestion, Acquire, Goto, Handling, Streams, Moves
<1>8. CASE Validate(q)
  BY <1>3, <1>4, <1>8 DEF Validate, Handling
<1>9. CASE Embed(q)
  BY <1>4, <1>9 DEF Embed, Handling
<1>10. CASE CheckCollection(q)
  <2>1. CASE Report(q, "QA_COL_001")
    BY <1>3, <1>10, <2>1 DEF CheckCollection, Handling
  <2>2. CASE ~ Report(q, "QA_COL_001")
    <3>1. pc[q] = "exists" /\ Goto(q, "embed") /\ UNCHANGED holding
      BY <1>10, <2>2 DEF CheckCollection
    <3> QED BY <1>4, <3>1 DEF Handling
  <2> QED BY <2>1, <2>2
<1>11. CASE Retrieve(q)
  <2>1. CASE Report(q, "QA_CTX_001")
    BY <1>3, <1>11, <2>1 DEF Retrieve, Handling
  <2>2. CASE ~ Report(q, "QA_CTX_001")
    <3>1. pc[q] = "retrieve" /\ Goto(q, "stream") /\ UNCHANGED holding
      BY <1>11, <2>2 DEF Retrieve
    <3> QED BY <1>4, <3>1 DEF Handling
  <2> QED BY <2>1, <2>2
<1>12. CASE Breaks(q)
  BY <1>3, <1>12 DEF Breaks, Handling
<1>13. CASE StreamToken(q)
  <2>1. CASE Close(q)
    BY <1>1, <2>1
  <2>2. CASE UNCHANGED <<pc, holding>>
    BY <2>2 DEF Moves
  <2> QED BY <1>13, <2>1, <2>2 DEF StreamToken
<1>14. CASE StreamEnds(q)
  BY <1>4, <1>14 DEF StreamEnds, AfterStream, Handling
<1>15. CASE Record(q) \/ RecordFails(q)
  BY <1>4, <1>15 DEF Record, RecordFails, Handling
<1>16. CASE SendDone(q)
  BY <1>2, <1>16 DEF SendDone, Handling
<1>17. CASE Leave(q)
  BY <1>17 DEF Leave, Moves
<1>18. CASE ReleaseConnection(q)
  BY <1>1, <1>18 DEF ReleaseConnection
<1> QED BY <1>5, <1>6, <1>7, <1>8, <1>9, <1>10, <1>11, <1>12, <1>13, <1>14, <1>15, <1>16,
     <1>17, <1>18 DEF Question, QuestionStep

LEMMA QuestionAnswers ==
  ASSUME Tables, Streams, NEW q \in Questions, Question(q), Pool
  PROVE  \A r \in Questions : Len(answer'[r]) <= MaxTokens
<1>1. CASE UNCHANGED answer
  BY <1>1 DEF Pool
<1>2. CASE StreamToken(q)
  <2>1. CASE \E n \in Tokens : answer' = [answer EXCEPT ![q] = Append(@, n)]
    <3>1. PICK n \in Tokens : answer' = [answer EXCEPT ![q] = Append(answer[q], n)]
      BY <2>1
    <3>2. answer[q] \in Seq(Tokens) /\ Len(answer[q]) < MaxTokens /\ MaxTokens \in Nat
      BY <1>2, QuestionsAssumption DEF StreamToken, Streams
    <3>3. Len(Append(answer[q], n)) <= MaxTokens
      BY <3>2
    <3> QED BY <3>1, <3>3 DEF Pool, Streams
  <2> QED BY <1>1, <1>2, <2>1 DEF StreamToken
<1>3. ASSUME ~ StreamToken(q) PROVE UNCHANGED answer
  BY <1>3 DEF Question, QuestionStep, Receive, Reject, Refuse, Report, Leave, AcquireForQuestion,
     Validate, CheckCollection, Embed, Retrieve, Breaks, StreamEnds, Record, RecordFails, SendDone,
     ReleaseConnection
<1> QED BY <1>1, <1>2, <1>3

LEMMA PoolStep ==
  ASSUME Tables, Streams, Pool, [Next]_vars
  PROVE  Pool'
<1>1. ASSUME NEW c \in Calls, Call(c) PROVE Pool'
  <2>1. UNCHANGED questionVars /\ \A d \in Calls \ {c} : step'[d] = step[d]
    BY <1>1, CallChanges, CallMoves
  <2>2. c \notin Questions
    BY WorkspaceAssumption
  <2>3. holding' = Holders'
    BY <1>1, <2>1, <2>2, CallHolds DEF Pool, Holders, questionVars
  <2>4. IsFiniteSet(holding') /\ Cardinality(holding') <= PoolSize
    BY <1>1, CallHolds, PoolCounts DEF Pool
  <2> QED BY <2>1, <2>3, <2>4 DEF Pool, questionVars
<1>2. ASSUME NEW q \in Questions, Question(q) PROVE Pool'
  <2>1. UNCHANGED callVars /\ \A r \in Questions \ {q} : pc'[r] = pc[r]
    BY <1>2, QuestionChanges, QuestionHolds DEF Moves
  <2>2. q \notin Calls
    BY WorkspaceAssumption
  <2>3. holding' = Holders'
    BY <1>2, <2>1, <2>2, QuestionHolds DEF Pool, Holders, callVars, Moves
  <2>4. IsFiniteSet(holding') /\ Cardinality(holding') <= PoolSize
    BY <1>2, QuestionHolds, PoolCounts DEF Pool, Moves
  <2> QED BY <1>2, <2>3, <2>4, QuestionAnswers DEF Pool
<1>3. CASE UNCHANGED vars
  BY <1>3 DEF vars, callVars, questionVars, Pool, Holders
<1> QED BY <1>1, <1>2, <1>3 DEF Next

LEMMA PoolInvariant == Spec => [](Tables /\ Streams /\ Pool)
<1>1. Init => Pool
  <2> SUFFICES ASSUME Init PROVE Pool
    OBVIOUS
  <2>1. holding = {} /\ Holders = {}
    BY DEF Init, WorkspaceInit, SessionsInit, QuestionsInit, Holders, Statements, Handling
  <2>2. \A q \in Questions : Len(answer[q]) = 0
    BY DEF Init, QuestionsInit
  <2> QED BY <2>1, <2>2, FS_EmptySet, WorkspaceAssumption, QuestionsAssumption DEF Pool
<1> QED BY <1>1, PoolStep, StreamsInvariant, PTL DEF Spec

\* The variables keep to their types: a connection is held exactly by what is
\* between its acquire and its answer, and never more than the pool has.
THEOREM ResearchTypeCorrect == Spec => []TypeOK
<1>1. Tables /\ Streams /\ Pool => TypeOK
  <2> SUFFICES ASSUME Tables, Streams, Pool PROVE TypeOK
    OBVIOUS
  <2>1. \A c \in Calls : step[c] # "idle" =>
          kind[c] \in Kinds /\ target[c] \in (IF kind[c] \in OnSession THEN Session
                                               ELSE Collections \cup {NoTarget})
    BY DEF Tables, Named
  <2>2. \A q \in Questions : Range(answer[q]) \subseteq Tokens
    BY DEF Streams, Range
  <2> QED BY <2>1, <2>2 DEF Tables, Streams, Pool, Holders, TypeOK, Unanswered
<1> QED BY <1>1, PoolInvariant, PTL

\* An exhausted pool is one that a holder is about to return to, or all of it
\* is held by questions that wait for a second connection (qa/router.py).
THEOREM PoolTheorem == Spec => []PoolIsReturned
<1>1. Pool => PoolIsReturned
  <2> SUFFICES ASSUME Pool, ~Available, Unhindered = {}
               PROVE  Cardinality({q \in Questions : pc[q] \in Nested}) = PoolSize
    BY DEF PoolIsReturned
  <2>1. holding = {q \in Questions : pc[q] \in Nested}
    BY DEF Pool, Holders, Unhindered, Handling, Nested
  <2>2. Cardinality(holding) \in Nat
    BY FS_CardinalityType DEF Pool
  <2>3. Cardinality(holding) = PoolSize
    BY <2>2, WorkspaceAssumption DEF Pool, Available
  <2> QED BY <2>1, <2>3
<1> QED BY <1>1, PoolInvariant, PTL

\* With fewer questions than connections a pool is never exhausted without
\* somebody about to return one: the deadlock takes PoolSize questions.
THEOREM FewQuestionsTheorem ==
  ASSUME IsFiniteSet(Questions), Cardinality(Questions) < PoolSize
  PROVE  Spec => [](~Available => Unhindered # {})
<1>1. PoolIsReturned => (~Available => Unhindered # {})
  <2>1. /\ IsFiniteSet({q \in Questions : pc[q] \in Nested})
        /\ Cardinality({q \in Questions : pc[q] \in Nested}) <= Cardinality(Questions)
    BY FS_Subset
  <2>2. /\ Cardinality({q \in Questions : pc[q] \in Nested}) \in Nat
        /\ Cardinality(Questions) \in Nat
    BY <2>1, FS_CardinalityType
  <2>3. Cardinality({q \in Questions : pc[q] \in Nested}) # PoolSize
    BY <2>1, <2>2, WorkspaceAssumption
  <2> QED BY <2>3 DEF PoolIsReturned
<1> QED BY <1>1, PoolTheorem, PTL

-----------------------------------------------------------------------------
\* What a handler has still to do.

\* The statements before the answer of a request.
CallLeft(c) ==
  CASE step[c] = "acquire" -> 3
    [] step[c] = "exists"  -> 2
    [] step[c] = "main"    -> 1
    [] OTHER               -> 0

\* The stages of a question before its handler closes, and the tokens that the
\* model may still stream.
StagesLeft(stage) ==
  CASE stage = "acquire"  -> 9
    [] stage = "validate" -> 8
    [] stage = "exists"   -> 7
    [] stage = "embed"    -> 6
    [] stage = "retrieve" -> 5
    [] stage = "stream"   -> 4
    [] stage = "record"   -> 3
    [] stage = "final"    -> 2
    [] stage = "release"  -> 1
    [] OTHER              -> 0

QuestionLeft(q) == StagesLeft(pc[q]) + (MaxTokens - Len(answer[q]))

\* A step of anybody leaves a handler that has begun as it is, or with less to
\* do: nothing is retried, and no failure or deletion sends a handler back.
CallAdvances(c) ==
  step[c] # "idle" =>
    step'[c] = step[c] \/ (CallLeft(c)' \in Nat /\ CallLeft(c)' < CallLeft(c))

QuestionAdvances(q) ==
  pc[q] # "idle" =>
    \/ pc'[q] = pc[q] /\ answer'[q] = answer[q]
    \/ QuestionLeft(q)' \in Nat /\ QuestionLeft(q)' < QuestionLeft(q)

HandlersAdvance ==
  [][/\ \A c \in Calls : CallAdvances(c)
     /\ \A q \in Questions : QuestionAdvances(q)]_vars

LEMMA CallSteps ==
  ASSUME Tables, NEW c \in Calls, Call(c)
  PROVE  CallAdvances(c)
<1> USE DEF Tables, Respond, CallAdvances, CallLeft, Statements
<1>1. CASE \E k \in Kinds : \E t \in Targets(k) : Send(c, k, t, Known(k, t))
  BY <1>1 DEF Send
<1>2. CASE CommitUnseen(c) \/ Create(c) \/ DeleteTarget(c) \/ GetSource(c)
  BY <1>2 DEF CommitUnseen, Create, DeleteTarget, GetSource
<1>3. CASE AcquireForCall(c) \/ CheckTarget(c)
  BY <1>3 DEF AcquireForCall, CheckTarget
<1>4. CASE Fails(c)
  BY <1>4 DEF Fails
<1>5. CASE Reads(c)
  BY <1>5, ReadsFindRows DEF Select
<1> QED BY <1>1, <1>2, <1>3, <1>4, <1>5 DEF Call, CallStep, Reads

LEMMA QuestionSteps ==
  ASSUME Tables, Streams, Pool, NEW q \in Questions, Question(q)
  PROVE  QuestionAdvances(q)
<1>1. Len(answer[q]) \in Nat /\ Len(answer[q]) <= MaxTokens /\ MaxTokens \in Nat
  BY QuestionsAssumption DEF Streams, Pool
\* A step to a later stage is one, whatever else it does, if it adds no token.
<1>2. ASSUME NEW next, Goto(q, next), UNCHANGED answer,
             StagesLeft(next) \in Nat, StagesLeft(next) < StagesLeft(pc[q]), StagesLeft(pc[q]) \in Nat
      PROVE  QuestionAdvances(q)
  <2>1. pc'[q] = next
    BY <1>2 DEF Goto, Streams
  <2> QED BY <1>1, <1>2, <2>1 DEF QuestionAdvances, QuestionLeft
<1>3. ASSUME Close(q), UNCHANGED answer, pc[q] \in {"acquire"} \cup Handling
      PROVE  QuestionAdvances(q)
  BY <1>2, <1>3 DEF Close, StagesLeft, Handling
<1>4. ASSUME NEW frame, Conclude(q, frame), UNCHANGED answer, pc[q] \in Handling \ {"release"}
      PROVE  QuestionAdvances(q)
  BY <1>2, <1>4 DEF Conclude, StagesLeft, Handling
<1>5. ASSUME NEW code, \/ Refuse(q, code) /\ pc[q] \in {"acquire"} \cup Handling
                       \/ Report(q, code) /\ pc[q] \in Handling \ {"release"}
      PROVE  QuestionAdvances(q)
  BY <1>3, <1>4, <1>5 DEF Refuse, Report
<1>6. CASE Receive(q) \/ Reject(q)
  BY <1>6 DEF Receive, Reject, QuestionAdvances
<1>7. CASE AcquireForQuestion(q)
  BY <1>2, <1>7 DEF AcquireForQuestion, StagesLeft
<1>8. CASE Validate(q)
  <2>1. CASE Goto(q, "exists") /\ UNCHANGED answer
    BY <1>2, <1>8, <2>1 DEF Validate, StagesLeft
  <2> QED BY <1>5, <1>8, <2>1 DEF Validate, Handling
<1>9. CASE CheckCollection(q)
  <2>1. CASE Goto(q, "embed") /\ UNCHANGED answer
    BY <1>2, <1>9, <2>1 DEF CheckCollection, StagesLeft
  <2> QED BY <1>5, <1>9, <2>1 DEF CheckCollection, Handling
<1>10. CASE Embed(q)
  BY <1>2, <1>10 DEF Embed, StagesLeft
<1>11. CASE Retrieve(q)
  <2>1. CASE Goto(q, "stream") /\ UNCHANGED answer
    BY <1>2, <1>11, <2>1 DEF Retrieve, StagesLeft
  <2> QED BY <1>5, <1>11, <2>1 DEF Retrieve, Handling
<1>12. CASE Breaks(q)
  BY <1>5, <1>12 DEF Breaks, Handling
<1>13. CASE StreamToken(q)
  <2>1. CASE Close(q) /\ UNCHANGED answer
    BY <1>3, <1>13, <2>1 DEF StreamToken, Handling
  <2>2. CASE UNCHANGED pc /\ \E n \in Tokens : answer' = [answer EXCEPT ![q] = Append(@, n)]
    <3>1. PICK n \in Tokens : answer' = [answer EXCEPT ![q] = Append(answer[q], n)]
      BY <2>2
    <3>2. answer[q] \in Seq(Tokens) /\ Len(answer[q]) < MaxTokens /\ pc[q] = "stream"
      BY <1>13 DEF StreamToken, Streams
    <3>3. answer'[q] = Append(answer[q], n)
      BY <3>1 DEF Streams
    <3>4. Len(answer'[q]) = Len(answer[q]) + 1
      BY <3>2, <3>3
    <3>5. StagesLeft(pc[q]) = 4 /\ pc' = pc
      BY <2>2, <3>2 DEF StagesLeft
    <3> QED BY <1>1, <3>2, <3>4, <3>5 DEF QuestionAdvances, QuestionLeft
  <2> QED BY <1>13, <2>1, <2>2 DEF StreamToken
<1>14. CASE StreamEnds(q)
  BY <1>2, <1>14 DEF StreamEnds, AfterStream, StagesLeft
<1>15. CASE Record(q) \/ RecordFails(q)
  BY <1>2, <1>15 DEF Record, RecordFails, StagesLeft
<1>16. CASE SendDone(q)
  BY <1>4, <1>16 DEF SendDone, Handling
<1>17. CASE Leave(q)
  BY <1>17 DEF Leave, QuestionAdvances
<1>18. CASE ReleaseConnection(q)
  BY <1>3, <1>18 DEF ReleaseConnection, Handling
<1> QED BY <1>6, <1>7, <1>8, <1>9, <1>10, <1>11, <1>12, <1>13, <1>14, <1>15, <1>16, <1>17,
     <1>18 DEF Question, QuestionStep

\* A question that is asked leaves the answers of the others alone.
LEMMA AnswersOfOthers ==
  ASSUME Streams, NEW q \in Questions, Question(q)
  PROVE  \A r \in Questions \ {q} : answer'[r] = answer[r]
BY DEF Streams, Question, QuestionStep, Receive, Reject, Refuse, Report, Leave,
   AcquireForQuestion, Validate, CheckCollection, Embed, Retrieve, Breaks, StreamToken, StreamEnds,
   Record, RecordFails, SendDone, ReleaseConnection

\* The handlers of requests and questions go one way, to their answer: with
\* PoolTheorem and the fairness of FairSpec this is why they get there.
THEOREM AdvanceTheorem == Spec => HandlersAdvance
<1>1. Tables /\ Streams /\ Pool /\ [Next]_vars =>
        [/\ \A c \in Calls : CallAdvances(c)
         /\ \A q \in Questions : QuestionAdvances(q)]_vars
  <2> SUFFICES ASSUME Tables, Streams, Pool, Next
               PROVE  /\ \A c \in Calls : CallAdvances(c)
                      /\ \A q \in Questions : QuestionAdvances(q)
    OBVIOUS
  <2>1. ASSUME NEW c \in Calls, Call(c)
        PROVE  /\ \A d \in Calls : CallAdvances(d)
               /\ \A q \in Questions : QuestionAdvances(q)
    <3>1. UNCHANGED questionVars /\ \A d \in Calls \ {c} : step'[d] = step[d]
      BY <2>1, CallChanges, CallMoves
    <3>2. CallAdvances(c)
      BY <2>1, CallSteps
    <3> QED BY <3>1, <3>2 DEF questionVars, CallAdvances, QuestionAdvances
  <2>2. ASSUME NEW q \in Questions, Question(q)
        PROVE  /\ \A c \in Calls : CallAdvances(c)
               /\ \A r \in Questions : QuestionAdvances(r)
    <3>1. UNCHANGED callVars /\ \A r \in Questions \ {q} : pc'[r] = pc[r]
      BY <2>2, QuestionChanges, QuestionHolds DEF Moves
    <3>2. QuestionAdvances(q)
      BY <2>2, QuestionSteps
    <3> QED BY <2>2, <3>1, <3>2, AnswersOfOthers DEF callVars, CallAdvances, QuestionAdvances
  <2> QED BY <2>1, <2>2 DEF Next
<1> QED BY <1>1, PoolInvariant, PTL DEF Spec, HandlersAdvance

-----------------------------------------------------------------------------
\* What a client knows to be there.

Present(k, t) ==
  CASE k = "get"      -> {a.by : a \in {x \in activity : x.session = t}}
    [] k = "briefs"   -> {b.by : b \in {x \in briefs : x.session = t}}
    [] k = "sessions" -> {s[1] : s \in {x \in sessions : x[2] = t}}
    [] OTHER          -> {}

Lost == unrecorded \cup {s[1] : s \in opened \ sessions}
HasDone(q) == \E i \in DOMAIN sent[q] : sent[q][i].type = "done"

\* A question of a session that was answered has its row, unless that is lost.
Accounted(q) ==
  \/ ask[q].session = NoSession \/ ask[q].session \in opened \ sessions
  \/ q \in unrecorded
  \/ \E a \in activity : a.by = q /\ a.session = ask[q].session

\* What a client knows is there when its request is read, and so it was read.
Reading(c) ==
  (kind[c] \in OnSession => target[c] \in sessions) =>
    /\ step[c] \in {"acquire"} \cup Statements =>
         known[c] \subseteq Present(kind[c], target[c]) \cup Lost
    /\ step[c] = "ok" => known[c] \subseteq rows[c] \cup Lost

Readers ==
  /\ \A q \in Questions : /\ ask[q].session \in opened \cup {NoSession}
                          /\ pc[q] = "final" \/ HasDone(q) => Accounted(q)
  /\ \A c \in Calls : kind[c] = "open" /\ step[c] = "created" => <<c, target[c]>> \in opened
  /\ \A c \in Calls : Reading(c)

\* There is no done frame before the end.
LEMMA DoneComesLast ==
  ASSUME Streams, NEW q \in Questions, HasDone(q)
  PROVE  pc[q] \in Ending
<1>1. \A frame \in TokenFrames : frame.type # "done"
  BY DEF TokenFrames, TokenFrame
<1>2. sent[q] \in Seq(TokenFrames) \/ pc[q] \in Ending
  BY DEF Streams, Streaming
<1> QED BY <1>1, <1>2 DEF HasDone

\* What is there stays as long as its session; what is lost stays lost.
LEMMA PresentStays ==
  ASSUME Tables, Streams, [Next]_vars
  PROVE  /\ Lost \subseteq Lost'
         /\ \A k, t : (k \in OnSession => t \in sessions') =>
              Present(k, t) \subseteq Present(k, t)' \cup Lost'
         /\ \A a \in activity : a.session \in sessions' => a \in activity'
<1>1. Gone
  BY GoneStaysGone
<1> DEFINE Stayed == /\ \A a \in activity : a.session \in sessions' => a \in activity'
                  /\ \A b \in briefs : b.session \in sessions' => b \in briefs'
<1>2. Stayed
  <2>1. CASE UNCHANGED tableVars
    BY <2>1 DEF tableVars
  <2>2. ASSUME NEW c \in Calls, Insert(c) \/ Delete(c) PROVE Stayed
    BY <2>2 DEF Insert, OpenSession, SaveBrief, InsertSession, InsertBrief, Delete,
       CloseSession, RemoveCollection, DeleteSession, DeleteCollection, RemoveSessions
  <2>3. ASSUME NEW q \in Questions, InsertActivity(Row(q)) PROVE Stayed
    BY <2>3 DEF InsertActivity
  <2>4. CASE UNCHANGED vars
    BY <2>1, <2>4 DEF vars
  <2> QED BY <2>1, <2>2, <2>3, <2>4, CallChanges, QuestionChanges DEF Next
<1>3. unrecorded \subseteq unrecorded'
  <2>1. ASSUME NEW q \in Questions, Question(q) PROVE unrecorded \subseteq unrecorded'
    BY <2>1 DEF Question, QuestionStep, Receive, Reject, Refuse, Report, Leave, AcquireForQuestion,
       Validate, CheckCollection, Embed, Retrieve, Breaks, StreamToken, StreamEnds, Record,
       RecordFails, SendDone, ReleaseConnection
  <2> QED BY <2>1, CallChanges DEF Next, vars, questionVars
<1>4. Lost \subseteq Lost'
  BY <1>1, <1>3 DEF Gone, Lost
<1>5. ASSUME NEW k, NEW t, k \in OnSession => t \in sessions'
      PROVE  Present(k, t) \subseteq Present(k, t)' \cup Lost'
  <2>1. CASE k = "get" \/ k = "briefs"
    BY <1>2, <1>5, <2>1 DEF Present, OnSession
  <2>2. CASE k = "sessions"
    <3>1. ASSUME NEW s \in sessions, s \notin sessions' PROVE s[1] \in Lost'
      <4>1. s \in opened' \ sessions'
        BY <1>1, <3>1 DEF Gone, Tables
      <4>2. s[1] \in {x[1] : x \in opened' \ sessions'}
        BY <4>1
      <4> QED BY <4>2 DEF Lost
    <3>2. \A s \in sessions' : s[2] = t => s[1] \in Present(k, t)'
      BY <2>2 DEF Present
    <3>3. \A x \in Present(k, t) : \E s \in sessions : s[2] = t /\ x = s[1]
      BY <2>2 DEF Present
    <3> QED BY <3>1, <3>2, <3>3
  <2>3. CASE k \notin {"get", "briefs", "sessions"}
    BY <2>3 DEF Present
  <2> QED BY <2>1, <2>2, <2>3
<1> QED BY <1>2, <1>4, <1>5

\* A request that is answered with rows has just read those there are.
LEMMA ReadsThePresent ==
  ASSUME Tables, NEW c \in Calls, Call(c), step'[c] = "ok"
  PROVE  /\ step[c] = "main" /\ UNCHANGED tableVars
         /\ rows'[c] = Present(kind[c], target[c]) \/ Present(kind[c], target[c]) = {}
<1>1. GetSource(c) \/ Reads(c)
  BY DEF Call, CallStep, Reads, AcquireForCall, CheckTarget, Create, DeleteTarget, Fails,
     CommitUnseen, Respond, Send, Tables
<1>2. CASE GetSource(c)
  BY <1>2 DEF GetSource, Present
<1>3. CASE GetSession(c)
  BY <1>3 DEF GetSession, Select, Present, Tables
<1>4. CASE ListBriefs(c)
  BY <1>4 DEF ListBriefs, Select, Present, Tables
<1>5. CASE ListSessions(c)
  BY <1>5 DEF ListSessions, Select, Present, Tables
<1>6. CASE ListSources(c) \/ ListCollections(c) \/ Readiness(c)
  BY <1>6 DEF ListSources, ListCollections, Readiness, Select, Present
<1> QED BY <1>1, <1>2, <1>3, <1>4, <1>5, <1>6 DEF Reads

\* What a client knows as it sends a request is there or lost.
LEMMA KnownIsPresent ==
  ASSUME Tables, Streams, BriefKept, Readers,
         NEW k \in Kinds, NEW t \in Targets(k), k \in OnSession => t \in sessions
  PROVE  Known(k, t) \subseteq Present(k, t) \cup Lost
<1>1. CASE k = "get"
  <2> SUFFICES ASSUME NEW q \in Questions, ask[q].session = t, HasDone(q)
               PROVE  q \in Present(k, t) \cup Lost
    BY <1>1 DEF Known, HasDone
  <2>1. t \in sessions /\ t \in Session
    BY <1>1 DEF OnSession, Tables
  <2>2. t # NoSession
    <3>1. PICK c \in Calls, x \in Collections : t = <<c, x>>
      BY <2>1 DEF Session
    <3>2. <<c, x>> # <<>>
      OBVIOUS
    <3> QED BY <3>1, <3>2 DEF NoSession
  <2>3. q \in unrecorded \/ \E a \in activity : a.by = q /\ a.session = t
    BY <2>1, <2>2 DEF Readers, Accounted
  <2> QED BY <1>1, <2>3 DEF Present, Lost
<1>2. CASE k = "briefs"
  BY <1>2 DEF Known, Present, OnSession, BriefKept
<1>3. CASE k = "sessions"
  <2> SUFFICES ASSUME NEW c \in Calls, kind[c] = "open", target[c] = t, step[c] = "created"
               PROVE  c \in Present(k, t) \cup Lost
    BY <1>3 DEF Known
  <2>1. <<c, t>> \in opened
    BY DEF Readers
  <2> QED BY <1>3, <2>1 DEF Present, Lost
<1>4. CASE k \notin {"get", "briefs", "sessions"}
  BY <1>4 DEF Known
<1> QED BY <1>1, <1>2, <1>3, <1>4

\* A request other than the one that takes a step.
LEMMA ReadingStays ==
  ASSUME Tables, Streams, Readers, [Next]_vars, NEW c \in Calls,
         kind'[c] = kind[c], target'[c] = target[c], known'[c] = known[c],
         step'[c] = step[c], rows'[c] = rows[c]
  PROVE  Reading(c)'
<1>1. kind[c] \in OnSession /\ target[c] \in sessions' /\ step[c] # "idle" => target[c] \in sessions
  BY GoneStaysGone DEF Gone, Tables, Named
<1>2. CASE step[c] \in {"acquire"} \cup Statements \cup {"ok"}
  BY <1>1, <1>2, PresentStays DEF Reading, Readers, Statements
<1> QED BY <1>2 DEF Reading

LEMMA CallReading ==
  ASSUME Tables, Streams, BriefKept, Readers, [Next]_vars, NEW c \in Calls, Call(c)
  PROVE  Reading(c)'
<1>1. CASE step[c] = "idle"
  <2>1. PICK k \in Kinds : \E t \in Targets(k) : Send(c, k, t, Known(k, t))
    BY <1>1, CallMoves DEF Call, CallStep, AcquireForCall, CheckTarget, GetSession, ListBriefs,
       ListSessions, ListSources, ListCollections, Readiness, Select, GetSource, Create,
       DeleteTarget, Fails, CommitUnseen, Statements
  <2>2. PICK t \in Targets(k) : Send(c, k, t, Known(k, t))
    BY <2>1
  <2>3. /\ kind'[c] = k /\ target'[c] = t /\ known'[c] = Known(k, t) /\ step'[c] = "acquire"
        /\ UNCHANGED <<tableVars, questionVars>>
    BY <2>2, CallChanges DEF Send, Tables
  <2>4. Present(k, t)' = Present(k, t) /\ Lost' = Lost /\ sessions' = sessions
    BY <2>3 DEF Present, Lost, tableVars, questionVars
  <2> QED BY <2>3, <2>4, KnownIsPresent DEF Reading
<1>2. CASE step[c] # "idle"
  <2>1. step[c] \in {"acquire"} \cup Statements /\ UNCHANGED <<kind, target, known>>
    BY <1>2, CallMoves
  <2>2. kind[c] \in OnSession /\ target[c] \in sessions' => target[c] \in sessions
    BY <1>2, GoneStaysGone DEF Gone, Tables, Named
  <2>3. ASSUME kind[c] \in OnSession => target[c] \in sessions'
        PROVE  known[c] \subseteq Present(kind[c], target[c])' \cup Lost'
    BY <2>1, <2>2, <2>3, PresentStays DEF Readers, Reading
  <2>4. ASSUME kind[c] \in OnSession => target[c] \in sessions', step'[c] = "ok"
        PROVE  known[c] \subseteq rows'[c] \cup Lost'
    <3>1. known[c] \subseteq Present(kind[c], target[c]) \cup Lost
      BY <2>1, <2>2, <2>4 DEF Readers, Reading
    <3> QED BY <2>4, <3>1, ReadsThePresent, PresentStays
  <2> QED BY <2>1, <2>3, <2>4 DEF Reading
<1> QED BY <1>1, <1>2

LEMMA AccountedStays ==
  ASSUME Tables, Streams, Readers, [Next]_vars, NEW q \in Questions, Accounted(q),
         ask'[q] = ask[q]
  PROVE  Accounted(q)'
<1>1. Gone /\ unrecorded \subseteq unrecorded'
  <2>1. ASSUME NEW r \in Questions, Question(r) PROVE unrecorded \subseteq unrecorded'
    BY <2>1 DEF Question, QuestionStep, Receive, Reject, Refuse, Report, Leave, AcquireForQuestion,
       Validate, CheckCollection, Embed, Retrieve, Breaks, StreamToken, StreamEnds, Record,
       RecordFails, SendDone, ReleaseConnection
  <2> QED BY <2>1, CallChanges, GoneStaysGone DEF Next, vars, questionVars
<1>2. ask[q].session \in opened \cup {NoSession}
  BY DEF Readers
<1> QED BY <1>1, <1>2, PresentStays DEF Accounted, Gone

\* The step of a question itself.
Accounts(q) ==
  /\ ask'[q].session \in opened \cup {NoSession}
  /\ pc'[q] = "final" \/ HasDone(q)' => Accounted(q)' \/ (Accounted(q) /\ ask'[q] = ask[q])

LEMMA QuestionAccounts ==
  ASSUME Tables, Streams, Readers, NEW q \in Questions, Question(q)
  PROVE  /\ \A r \in Questions \ {q} :
              ask'[r] = ask[r] /\ pc'[r] = pc[r] /\ sent'[r] = sent[r]
         /\ Accounts(q)
<1> USE DEF Streams
<1> DEFINE Others == \A r \in Questions \ {q} :
                       ask'[r] = ask[r] /\ pc'[r] = pc[r] /\ sent'[r] = sent[r]
<1>1. Others
  <2>1. UNCHANGED ask \/ Receive(q)
    BY DEF Question, QuestionStep, Reject, Refuse, Report, Leave, AcquireForQuestion,
       Validate, CheckCollection, Embed, Retrieve, Breaks, StreamToken, StreamEnds, Record,
       RecordFails, SendDone, ReleaseConnection
  <2>2. \A r \in Questions \ {q} : ask'[r] = ask[r]
    BY <2>1 DEF Receive, Tables
  <2>3. UNCHANGED sent \/ \E frame : Deliver(q, frame)
    BY DEF Question, QuestionStep, Receive, Reject, Refuse, Report, Conclude, Tell, Leave,
       AcquireForQuestion, Validate, CheckCollection, Embed, Retrieve, Breaks, StreamToken,
       StreamEnds, Record, RecordFails, SendDone, ReleaseConnection
  <2>4. \A r \in Questions \ {q} : sent'[r] = sent[r]
    BY <2>3 DEF Deliver
  <2> QED BY <2>2, <2>4, QuestionHolds DEF Moves
<1> SUFFICES Accounts(q)
  BY <1>1
<1>2. HasDone(q) => Accounted(q)
  BY DEF Readers
<1>3. CASE Receive(q)
  <2>1. ~ HasDone(q)
    BY <1>3, DoneComesLast DEF Receive, Ending
  <2>2. ask'[q].session \in opened \cup {NoSession} /\ pc'[q] = "acquire"
    BY <1>3 DEF Receive, Goto, Tables
  <2> QED BY <1>3, <2>1, <2>2 DEF Receive, HasDone, Accounts
<1>4. ASSUME NEW frame \in TokenFrames \cup LastFrames, frame.type # "done",
             Deliver(q, frame) \/ UNCHANGED sent
      PROVE  HasDone(q)' => HasDone(q)
  <2>1. CASE UNCHANGED sent
    BY <2>1 DEF HasDone
  <2>2. CASE Deliver(q, frame)
    <3>1. sent'[q] = Append(sent[q], frame) /\ sent[q] \in Seq(TokenFrames \cup LastFrames)
      BY <2>2 DEF Deliver
    <3> QED BY <1>4, <3>1 DEF HasDone
  <2> QED BY <1>4, <2>1, <2>2
<1>5. ask[q].session \in opened \cup {NoSession}
  BY DEF Readers
<1>6. ASSUME NEW code \in Codes, Tell(q, ErrorFrame(code)), UNCHANGED ask, pc'[q] # "final"
      PROVE  Accounts(q)
  <2>1. ErrorFrame(code) \in LastFrames /\ ErrorFrame(code).type # "done"
    BY DEF LastFrames, ErrorFrame
  <2> QED BY <1>2, <1>4, <1>5, <1>6, <2>1 DEF Tell, Accounts
<1>7. ASSUME UNCHANGED <<ask, sent>>, pc'[q] # "final" \/ Accounted(q)
      PROVE  Accounts(q)
  BY <1>2, <1>5, <1>7 DEF HasDone, Accounts
<1>8. ASSUME NEW code \in Codes, Ends(q, code)
      PROVE  Accounts(q)
  BY <1>6, <1>8 DEF Ends, Refuse, Report, Conclude, Close, Goto
<1>9. CASE AcquireForQuestion(q) \/ Embed(q)
  BY <1>7, <1>9 DEF AcquireForQuestion, Embed, Goto
<1>10. CASE Reject(q) \/ Breaks(q)
  BY <1>8, <1>10 DEF Reject, Breaks, Ends, Codes
<1>11. CASE Validate(q)
  BY <1>7, <1>8, <1>11 DEF Validate, Goto, Ends, Codes
<1>12. CASE CheckCollection(q)
  BY <1>7, <1>8, <1>12 DEF CheckCollection, Goto, Ends, Codes
<1>13. CASE Retrieve(q)
  BY <1>7, <1>8, <1>13 DEF Retrieve, Goto, Ends, Codes
<1>14. CASE StreamToken(q)
  <2>1. UNCHANGED ask /\ pc'[q] # "final"
    BY <1>14 DEF StreamToken, Close, Goto
  <2>2. PICK n \in Tokens : Deliver(q, TokenFrame(n)) \/ UNCHANGED sent
    BY <1>14 DEF StreamToken
  <2>3. TokenFrame(n) \in TokenFrames /\ TokenFrame(n).type # "done"
    BY DEF TokenFrames, TokenFrame
  <2> QED BY <1>2, <1>4, <1>5, <2>1, <2>2, <2>3 DEF Accounts
<1>15. CASE StreamEnds(q)
  <2>1. pc'[q] # "final" \/ Accounted(q)
    BY <1>15 DEF StreamEnds, AfterStream, Goto, Accounted
  <2> QED BY <1>7, <1>15, <2>1 DEF StreamEnds
<1>16. CASE Record(q)
  <2>1. /\ Row(q) \in activity' /\ Row(q).by = q /\ Row(q).session = ask[q].session
        /\ UNCHANGED <<ask, opened>>
    BY <1>16 DEF Record, InsertActivity, Row
  <2>2. Accounted(q)'
    BY <2>1 DEF Accounted
  <2> QED BY <1>5, <2>1, <2>2 DEF Accounts
<1>17. CASE RecordFails(q)
  <2>1. UNCHANGED ask /\ Accounted(q)'
    BY <1>17 DEF RecordFails, Accounted
  <2> QED BY <1>5, <2>1 DEF Accounts
<1>18. CASE SendDone(q)
  BY <1>5, <1>18 DEF SendDone, Readers, Accounts
<1>19. CASE Leave(q)
  BY <1>7, <1>19 DEF Leave, Readers
<1>20. CASE ReleaseConnection(q)
  <2>1. UNCHANGED ask /\ pc'[q] # "final"
    BY <1>20 DEF ReleaseConnection, Close, Goto
  <2> QED BY <1>6, <1>7, <1>20, <2>1 DEF ReleaseConnection, Codes
<1> QED BY <1>3, <1>9, <1>10, <1>11, <1>12, <1>13, <1>14, <1>15, <1>16, <1>17, <1>18,
     <1>19, <1>20 DEF Question, QuestionStep

LEMMA ReadersStep ==
  ASSUME Tables, Streams, BriefKept, Readers, [Next]_vars
  PROVE  Readers'
<1>1. Gone
  BY GoneStaysGone
<1>2. ASSUME NEW c \in Calls, Call(c) PROVE Readers'
  <2>1. UNCHANGED questionVars
    BY <1>2, CallChanges
  <2>2. \A d \in Calls \ {c} : /\ kind'[d] = kind[d] /\ target'[d] = target[d]
                              /\ known'[d] = known[d] /\ step'[d] = step[d] /\ rows'[d] = rows[d]
    BY <1>2, CallMoves DEF Tables
  <2>3. \A d \in Calls : Reading(d)'
    BY <1>2, <2>2, CallReading, ReadingStays
  <2>4. \A q \in Questions : Accounted(q) => Accounted(q)'
    BY <2>1, AccountedStays DEF questionVars
  <2>5. ASSUME kind'[c] = "open", step'[c] = "created" PROVE <<c, target'[c]>> \in opened'
    <3>1. Create(c)
      BY <1>2, <2>5 DEF Call, CallStep, AcquireForCall, CheckTarget, GetSession, ListBriefs,
         ListSessions, ListSources, ListCollections, Readiness, Select, GetSource,
         DeleteTarget, Fails, CommitUnseen, Respond, Send, Tables
    <3> QED BY <2>5, <3>1 DEF Create, Insert, OpenSession, SaveBrief, InsertSession
  <2> QED BY <1>1, <2>1, <2>2, <2>3, <2>4, <2>5 DEF Readers, Gone, questionVars, HasDone
<1>3. ASSUME UNCHANGED callVars PROVE \A d \in Calls : Reading(d)'
  BY <1>3, ReadingStays DEF callVars
<1>4. ASSUME NEW q \in Questions, Question(q) PROVE Readers'
  <2>1. UNCHANGED callVars
    BY <1>4, QuestionChanges
  <2>2. ASSUME NEW r \in Questions \ {q}
        PROVE  /\ ask'[r].session \in opened' \cup {NoSession}
               /\ pc'[r] = "final" \/ HasDone(r)' => Accounted(r)'
    <3>1. ask'[r] = ask[r] /\ pc'[r] = pc[r] /\ sent'[r] = sent[r]
      BY <1>4, QuestionAccounts
    <3> QED BY <1>1, <3>1, AccountedStays DEF Readers, Gone, HasDone
  <2>3. /\ ask'[q].session \in opened' \cup {NoSession}
        /\ pc'[q] = "final" \/ HasDone(q)' => Accounted(q)'
    BY <1>1, <1>4, QuestionAccounts, AccountedStays DEF Accounts, Gone
  <2> QED BY <1>1, <1>3, <2>1, <2>2, <2>3 DEF Readers, Gone, callVars
<1>5. CASE UNCHANGED vars
  BY <1>5 DEF vars, callVars, questionVars, tableVars, Readers, Reading, Accounted, HasDone,
     Present, Lost
<1> QED BY <1>2, <1>4, <1>5 DEF Next

\* A client reads what it knows: who has seen the done frame of a question
\* finds its row, and who got 201 finds what was made, unless it is lost with
\* what it belongs to or its recording failed.
THEOREM ReadersTheorem == Spec => []ReadsWhatIsKnown
<1>1. Init => BriefKept /\ Readers
  BY DEF Init, WorkspaceInit, SessionsInit, QuestionsInit, BriefKept, Readers, Reading, HasDone,
     Statements
<1>2. Readers => ReadsWhatIsKnown
  BY DEF Readers, Reading, ReadsWhatIsKnown, Lost
<1> QED BY <1>1, <1>2, BriefsStep, ReadersStep, StreamsInvariant, PTL DEF Spec

=============================================================================
