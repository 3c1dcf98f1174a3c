---------------------------- MODULE SearchProofs ----------------------------
(***************************************************************************)
(* What TLAPS proves of Search, for any searches, collections, queries and *)
(* sources and any bounds.                                                 *)
(***************************************************************************)
EXTENDS Search, TLAPS

Entry == [found : SUBSET Chunk, at : 0..MaxChanges, set : 0..MaxChanges]
Task == [by : Searches, event : 1..MaxChanges, coll : Collections,
         left : SUBSET Queries, found : SUBSET Queries]

\* The steps that leave the tables, or the requests, or the cache alone.
SourceStep(s) == BecomeReady(s) \/ PublishReady(s) \/ LoseEvent(s) \/ Reingest(s)
RequestStep(r) == Send(r) \/ SearchStep(r)
TaskStep(t) == Invalidate(t) \/ InvalidationFails(t)

-----------------------------------------------------------------------------
\* Types.

Types ==
  /\ cache \in [Keys -> Entry \cup {NoEntry}]
  /\ tasks \subseteq Task /\ \A t \in tasks : t.left \cup t.found # {}
  /\ live \subseteq Collections /\ ready \subseteq Sources /\ unpublished \subseteq Sources
  /\ uninvalidated \subseteq Collections
  /\ readyAt \in [Sources -> 0..MaxChanges] /\ changes \in 0..MaxChanges
  /\ \A s \in Sources :
       /\ readyAt[s] <= changes
       /\ s \in unpublished => readyAt[s] > 0
  /\ subscribers \subseteq Searches
  /\ pc \in [Searches -> {"idle"} \cup InFlight \cup Answers]
  /\ ask \in [Searches -> Ask] /\ rows \in [Searches -> Result]

LEMMA InitTypes == Init => Types
  BY SearchAssumption
  DEF Init, CacheInit, Types, Entry, InFlight, Answers, Result

LEMMA NearestIsFound ==
  ASSUME Types, NEW c \in Collections, NEW k \in TopKs
  PROVE  /\ Nearest(c, k) \subseteq Chunk
         /\ \A x \in Nearest(c, k) : CollectionOf[x.src] = c
<1> SUFFICES ASSUME NEW x \in Nearest(c, k)
             PROVE  x \in Chunk /\ CollectionOf[x.src] = c
  OBVIOUS
<1>1. PICK s \in VisibleSources(c) : x = [src |-> s, at |-> readyAt[s]]
  BY DEF Nearest
<1>2. s \in Sources /\ s \in ready /\ CollectionOf[s] = c
  BY <1>1 DEF VisibleSources, Types
<1>3. readyAt[s] \in 0..MaxChanges
  BY <1>2, SearchAssumption DEF Types
<1> QED BY <1>1, <1>2, <1>3 DEF Chunk

LEMMA SourceTypes ==
  ASSUME Types, NEW s \in Sources, SourceStep(s)
  PROVE  Types'
<1> USE SearchAssumption DEF Types, cacheVars, searchVars
<1>1. CASE BecomeReady(s)
  <2>1. changes' \in 0..MaxChanges /\ readyAt' \in [Sources -> 0..MaxChanges]
    BY <1>1 DEF BecomeReady
  <2>2. ASSUME NEW x \in Sources
        PROVE  /\ readyAt'[x] <= changes'
               /\ x \in unpublished' => readyAt'[x] > 0
    <3>1. CASE x = s
      BY <1>1, <3>1 DEF BecomeReady
    <3>2. CASE x # s
      <4>1. /\ readyAt'[x] = readyAt[x]
            /\ x \in unpublished' => x \in unpublished
        BY <1>1, <3>2 DEF BecomeReady
      <4> QED BY <1>1, <4>1 DEF BecomeReady
    <3> QED BY <3>1, <3>2
  <2> QED BY <1>1, <2>1, <2>2 DEF BecomeReady
<1>2. CASE PublishReady(s)
  <2>1. \A r \in subscribers :
          /\ NewTask(r, CollectionOf[s], readyAt[s]) \in Task
          /\ NewTask(r, CollectionOf[s], readyAt[s]).left # {}
    BY <1>2 DEF PublishReady, Handlers, NewTask, Task, Ask
  <2>2. tasks' \subseteq Task /\ \A t \in tasks' : t.left \cup t.found # {}
    BY <1>2, <2>1 DEF PublishReady, Handlers
  <2> QED BY <1>2, <2>2 DEF PublishReady, Handlers
<1>3. CASE LoseEvent(s) \/ Reingest(s)
  BY <1>3 DEF LoseEvent, Reingest
<1> QED BY <1>1, <1>2, <1>3 DEF SourceStep

LEMMA RequestTypes ==
  ASSUME Types, NEW r \in Searches, RequestStep(r)
  PROVE  Types'
<1> USE SearchAssumption DEF Types, cacheVars, dbVars, Goto, InFlight, Answers
<1>1. Key(r) \in Keys
  BY DEF Key, make_cache_key, Keys, Ask
<1>2. CASE Send(r) \/ CheckCollection(r) \/ CacheMiss(r) \/ Embed(r)
  BY <1>2 DEF Send, Subscribe, CheckCollection, CacheMiss, Embed, FirstCall
<1>3. CASE CacheHit(r)
  <2>1. cache[Key(r)] \in Entry
    BY <1>1, <1>3 DEF CacheHit, Cached
  <2>2. [found |-> cache[Key(r)].found, at |-> cache[Key(r)].at] \in Result
    BY <2>1 DEF Entry, Result
  <2> QED BY <1>3, <2>2 DEF CacheHit
<1>4. CASE QueryChunks(r)
  <2>1. [found |-> Nearest(ask[r].coll, ask[r].top_k), at |-> changes] \in Result
    BY NearestIsFound DEF Ask, Result
  <2> QED BY <1>4, <2>1 DEF QueryChunks
<1>5. CASE Store(r)
  <2>1. [found |-> rows[r].found, at |-> rows[r].at, set |-> changes] \in Entry
    BY DEF Entry, Result
  <2> QED BY <1>1, <1>5, <2>1 DEF Store, CacheSet
<1> QED BY <1>2, <1>3, <1>4, <1>5 DEF RequestStep, SearchStep

LEMMA TaskTypes ==
  ASSUME Types, NEW t \in tasks, TaskStep(t)
  PROVE  Types'
<1> USE DEF Types, dbVars, searchVars
<1>1. CASE Scan(t) /\ UNCHANGED <<dbVars, searchVars>>
  <2>1. PICK visited \in SUBSET t.left \ {{}} :
          LET found == {q \in visited : Cached(make_cache_key(t.coll, q))}
              after == [t EXCEPT !.left = @ \ visited, !.found = found]
          IN  tasks' = (tasks \ {t}) \cup
                (IF after.left = {} /\ found = {} THEN {} ELSE {after})
    BY <1>1 DEF Scan
  <2> DEFINE found == {q \in visited : Cached(make_cache_key(t.coll, q))}
             after == [t EXCEPT !.left = @ \ visited, !.found = found]
  <2>2. /\ after \in Task
        /\ after.left = t.left \ visited /\ after.found = found
    BY DEF Task
  <2>3. /\ tasks' \subseteq tasks \cup {after}
        /\ after \in tasks' => after \in tasks \/ after.left \cup after.found # {}
    BY <2>1, <2>2
  <2> HIDE DEF after, found
  <2>4. tasks' \subseteq Task /\ \A u \in tasks' : u.left \cup u.found # {}
    BY <2>2, <2>3
  <2> QED BY <1>1, <2>4 DEF Scan
<1>2. CASE Del(t) /\ UNCHANGED <<dbVars, searchVars>>
  BY <1>2 DEF Del, Task
<1>3. CASE InvalidationFails(t)
  BY <1>3 DEF InvalidationFails, GiveUp, Task
<1> QED BY <1>1, <1>2, <1>3 DEF TaskStep, Invalidate

LEMMA OtherTypes ==
  ASSUME Types,
         \/ \E c \in Collections : DeleteCollection(c)
         \/ \E k \in Keys : Ttl(k)
         \/ ApiRestart
  PROVE  Types'
<1> USE DEF Types, cacheVars, dbVars, searchVars
<1>1. CASE \E c \in Collections : DeleteCollection(c)
  BY <1>1 DEF DeleteCollection
<1>2. CASE \E k \in Keys : Ttl(k)
  BY <1>2 DEF Ttl, Expire
<1>3. CASE ApiRestart
  BY <1>3 DEF ApiRestart, InFlight, Answers
<1> QED BY <1>1, <1>2, <1>3

LEMMA NextTypes == Types /\ [Next]_vars => Types'
<1> SUFFICES ASSUME Types, [Next]_vars PROVE Types'
  OBVIOUS
<1>1. CASE Next
  BY <1>1, SourceTypes, RequestTypes, TaskTypes, OtherTypes
  DEF Next, SourceStep, RequestStep, TaskStep
<1>2. CASE UNCHANGED vars
  BY <1>2 DEF vars, cacheVars, dbVars, searchVars, Types
<1> QED BY <1>1, <1>2

LEMMA TypesInvariant == Spec => []Types
  BY InitTypes, NextTypes, PTL DEF Spec

\* The variables keep to their types in every state the search reaches.
THEOREM SearchTypeCorrect == Spec => []TypeOK
<1>1. Types => TypeOK
  BY DEF Types, TypeOK, Task, Entry
<1> QED BY <1>1, TypesInvariant, PTL

-----------------------------------------------------------------------------
\* A search keeps to its collection: the entries of a key are of the key's
\* collection, and so are the results read from the table or from an entry.

Scoped ==
  /\ \A r \in Searches : \A x \in rows[r].found : CollectionOf[x.src] = ask[r].coll
  /\ \A k \in Keys : Cached(k) => \A x \in cache[k].found : CollectionOf[x.src] = k[1]

\* Every step but a search's leaves the results alone, and stores no entry.
LEMMA OthersOnlyRemove ==
  ASSUME Types,
         \/ \E s \in Sources : SourceStep(s)
         \/ \E t \in tasks : TaskStep(t)
         \/ \E c \in Collections : DeleteCollection(c)
         \/ \E k \in Keys : Ttl(k)
         \/ ApiRestart
  PROVE  /\ ask' = ask /\ rows' = rows
         /\ \A k \in Keys : Cached(k)' => Cached(k) /\ cache'[k] = cache[k]
<1> USE DEF Types, cacheVars, dbVars, searchVars, Cached
<1>1. CASE \E s \in Sources : SourceStep(s)
  BY <1>1 DEF SourceStep, BecomeReady, PublishReady, Handlers, LoseEvent, Reingest
<1>2. CASE \E t \in tasks : TaskStep(t)
  BY <1>2 DEF TaskStep, Invalidate, InvalidationFails, Scan, Del, GiveUp
<1>3. CASE \E c \in Collections : DeleteCollection(c)
  BY <1>3 DEF DeleteCollection
<1>4. CASE \E k \in Keys : Ttl(k)
  BY <1>4 DEF Ttl, Expire
<1>5. CASE ApiRestart
  BY <1>5 DEF ApiRestart
<1> QED BY <1>1, <1>2, <1>3, <1>4, <1>5

LEMMA RequestScoped ==
  ASSUME Types, Scoped, NEW r \in Searches, RequestStep(r)
  PROVE  Scoped'
<1> USE DEF Types, Scoped, cacheVars, dbVars, Goto, Cached
<1>1. Key(r) \in Keys /\ Key(r)[1] = ask[r].coll
  BY DEF Key, make_cache_key, Keys, Ask
<1>2. CASE Send(r) \/ CheckCollection(r) \/ CacheMiss(r) \/ Embed(r)
  BY <1>2 DEF Send, Subscribe, CheckCollection, CacheMiss, Embed
<1>3. CASE CacheHit(r)
  BY <1>1, <1>3 DEF CacheHit
<1>4. CASE QueryChunks(r)
  <2>1. \A x \in Nearest(ask[r].coll, ask[r].top_k) : CollectionOf[x.src] = ask[r].coll
    BY NearestIsFound DEF Ask
  <2> QED BY <1>4, <2>1 DEF QueryChunks
<1>5. CASE Store(r)
  BY <1>1, <1>5 DEF Store, CacheSet
<1> QED BY <1>2, <1>3, <1>4, <1>5 DEF RequestStep, SearchStep

LEMMA ScopedInvariant == Spec => []Scoped
<1>1. Init => Scoped
  BY DEF Init, CacheInit, Scoped, Cached
<1>2. Types /\ Scoped /\ [Next]_vars => Scoped'
  <2> SUFFICES ASSUME Types, Scoped, [Next]_vars PROVE Scoped'
    OBVIOUS
  <2>1. CASE \E r \in Searches : RequestStep(r)
    BY <2>1, RequestScoped
  <2>2. CASE Next /\ ~ \E r \in Searches : RequestStep(r)
    <3>1. /\ ask' = ask /\ rows' = rows
          /\ \A k \in Keys : Cached(k)' => Cached(k) /\ cache'[k] = cache[k]
      BY <2>2, OthersOnlyRemove DEF Next, SourceStep, RequestStep, TaskStep
    <3> QED BY <3>1 DEF Scoped
  <2>3. CASE UNCHANGED vars
    BY <2>3 DEF vars, cacheVars, dbVars, searchVars, Scoped, Cached
  <2> QED BY <2>1, <2>2, <2>3
<1> QED BY <1>1, <1>2, TypesInvariant, PTL DEF Spec

\* An answer holds chunks of the collection that was searched, whichever
\* search stored the entry it was read from.
THEOREM CollectionTheorem == Spec => []AnswersStayInCollection
<1>1. Scoped => AnswersStayInCollection
  BY DEF Scoped, AnswersStayInCollection
<1> QED BY <1>1, ScopedInvariant, PTL

-----------------------------------------------------------------------------
\* A search sent after the deletion never gets beyond the first check.

Refused ==
  /\ late \subseteq Searches
  /\ \A r \in late :
       pc[r] \in {"exists", "notfound", "unavailable"} /\ ask[r].coll \notin live

LEMMA RefusedInvariant == Spec => []Refused
<1>1. Init => Refused
  BY DEF Init, Refused
<1>2. Types /\ Refused /\ [Next]_vars => Refused'
  <2> SUFFICES ASSUME Types, Refused, [Next]_vars PROVE Refused'
    OBVIOUS
  <2> USE DEF Types, Refused, cacheVars, dbVars, searchVars
  <2>1. ASSUME NEW s \in Sources, SourceStep(s) PROVE Refused'
    BY <2>1 DEF SourceStep, BecomeReady, PublishReady, Handlers, LoseEvent, Reingest
  <2>2. ASSUME NEW r \in Searches, RequestStep(r) PROVE Refused'
    <3> USE DEF Goto
    <3>1. CASE Send(r) \/ CheckCollection(r)
      BY <3>1 DEF Send, Subscribe, CheckCollection, FirstCall
    <3>2. CASE CacheHit(r) \/ CacheMiss(r) \/ Embed(r) \/ QueryChunks(r) \/ Store(r)
      BY <3>2 DEF CacheHit, CacheMiss, Embed, QueryChunks, Store
    <3> QED BY <2>2, <3>1, <3>2 DEF RequestStep, SearchStep
  <2>3. ASSUME NEW t \in tasks, TaskStep(t) PROVE Refused'
    BY <2>3 DEF TaskStep, Invalidate, InvalidationFails
  <2>4. ASSUME NEW c \in Collections, DeleteCollection(c) PROVE Refused'
    BY <2>4 DEF DeleteCollection
  <2>5. ASSUME NEW k \in Keys, Ttl(k) PROVE Refused'
    BY <2>5 DEF Ttl
  <2>6. CASE ApiRestart
    BY <2>6 DEF ApiRestart, InFlight
  <2>7. CASE UNCHANGED vars
    BY <2>7 DEF vars
  <2> QED BY <2>1, <2>2, <2>3, <2>4, <2>5, <2>6, <2>7
          DEF Next, SourceStep, RequestStep, TaskStep
<1> QED BY <1>1, <1>2, TypesInvariant, PTL DEF Spec

\* Entries outlive their collection; a search sent after the deletion is not
\* answered from them.
THEOREM DeletedTheorem == Spec => []DeletedIsNotFound
<1>1. Refused => DeletedIsNotFound
  BY DEF Refused, DeletedIsNotFound
<1> QED BY <1>1, RefusedInvariant, PTL

-----------------------------------------------------------------------------
\* An event finds a subscriber wherever an entry may be stored: a search in
\* flight is subscribed, and an entry without a subscriber dates from before
\* a restart of the API.

Subscribed ==
  /\ \A r \in Searches : pc[r] \in InFlight => r \in subscribers
  /\ \A k \in Keys : Cached(k) => subscribers # {} \/ uninvalidated = Collections

\* An invalidation for the event is on its way to the entry.
OnItsWay(k, s, t) ==
  t.coll = k[1] /\ t.event = readyAt[s] /\ k[2] \in t.left \cup t.found

Reached == Subscribed /\ InvalidationReachesEntries

LEMMA SourceReached ==
  ASSUME Types, Reached, NEW s \in Sources, SourceStep(s)
  PROVE  Reached'
<1> USE DEF Types, cacheVars, searchVars, Cached
<1>1. Subscribed'
  <2>1. /\ UNCHANGED <<cache, searchVars>>
        /\ uninvalidated' = uninvalidated \/ uninvalidated' = uninvalidated \cup {CollectionOf[s]}
    BY DEF SourceStep, BecomeReady, PublishReady, Handlers, LoseEvent, Reingest
  <2>2. CollectionOf[s] \in Collections
    BY SearchAssumption
  <2> QED BY <2>1, <2>2 DEF Reached, Subscribed
<1>2. SUFFICES ASSUME SharedLoop, NEW k \in Keys,
                      NEW x \in VisibleSources(k[1])', x \notin unpublished',
                      Cached(k)', cache'[k].set < readyAt'[x],
                      k[1] \notin uninvalidated'
               PROVE  \E t \in tasks' : OnItsWay(k, x, t)'
  BY <1>1 DEF Reached, InvalidationReachesEntries, OnItsWay
<1>3. k[1] \in Collections /\ k[2] \in Queries
  BY DEF Keys
<1>4. CASE BecomeReady(s)
  <2>1. x # s /\ readyAt'[x] = readyAt[x] /\ x \in VisibleSources(k[1]) /\ x \notin unpublished
    BY <1>2, <1>4 DEF BecomeReady, VisibleSources
  <2>2. /\ tasks' = tasks /\ cache' = cache /\ uninvalidated' = uninvalidated
    BY <1>4 DEF BecomeReady
  <2> QED BY <1>2, <2>1, <2>2 DEF Reached, InvalidationReachesEntries, OnItsWay
<1>5. CASE PublishReady(s)
  <2>1. /\ readyAt' = readyAt /\ cache' = cache /\ uninvalidated' = uninvalidated
        /\ x \in VisibleSources(k[1]) /\ tasks \subseteq tasks'
    BY <1>2, <1>5 DEF PublishReady, Handlers, VisibleSources
  <2>2. CASE x = s
    <3>1. PICK r \in subscribers : TRUE
      <4>1. Cached(k) /\ uninvalidated # Collections
        BY <1>2, <1>3, <2>1
      <4> QED BY <4>1 DEF Reached, Subscribed
    <3>2. NewTask(r, CollectionOf[s], readyAt[s]) \in tasks'
      BY <1>2, <1>5, <3>1 DEF PublishReady, Handlers
    <3>3. \A t : t = NewTask(r, CollectionOf[s], readyAt[s]) => OnItsWay(k, x, t)'
      BY <1>3, <2>1, <2>2 DEF OnItsWay, NewTask, VisibleSources
    <3> QED BY <3>2, <3>3
  <2>3. CASE x # s
    <3>1. x \notin unpublished
      BY <1>2, <1>5, <2>3 DEF PublishReady, Handlers
    <3> QED BY <1>2, <2>1, <3>1 DEF Reached, InvalidationReachesEntries, OnItsWay
  <2> QED BY <2>2, <2>3
<1>6. CASE LoseEvent(s)
  <2>1. /\ x \in VisibleSources(k[1]) /\ readyAt' = readyAt /\ cache' = cache /\ tasks' = tasks
        /\ k[1] \notin uninvalidated /\ (x \notin unpublished \/ x = s)
    BY <1>2, <1>6 DEF LoseEvent, VisibleSources
  <2>2. x # s
    BY <1>2, <1>6 DEF LoseEvent, VisibleSources
  <2> QED BY <1>2, <2>1, <2>2 DEF Reached, InvalidationReachesEntries, OnItsWay
<1>7. CASE Reingest(s)
  <2>1. /\ x \in VisibleSources(k[1]) /\ readyAt' = readyAt /\ cache' = cache /\ tasks' = tasks
        /\ k[1] \notin uninvalidated /\ x \notin unpublished
    BY <1>2, <1>7 DEF Reingest, VisibleSources
  <2> QED BY <1>2, <2>1 DEF Reached, InvalidationReachesEntries, OnItsWay
<1> QED BY <1>4, <1>5, <1>6, <1>7 DEF SourceStep

\* A search stores its entry as of the latest change, so that no event that
\* has been published already is owed to it.
LEMMA RequestReached ==
  ASSUME Types, Reached, NEW r \in Searches, RequestStep(r)
  PROVE  Reached'
<1> USE DEF Types, cacheVars, dbVars, Cached, Goto
<1>1. Key(r) \in Keys
  BY DEF Key, make_cache_key, Keys, Ask
<1>2. CASE Store(r)
  <2>1. r \in subscribers
    BY <1>2 DEF Store, InFlight, Reached, Subscribed
  <2>2. Subscribed'
    BY <1>2, <2>1 DEF Store, InFlight, Reached, Subscribed
  <2>3. \A k \in Keys : cache'[k] # cache[k] => cache'[k].set = changes
    BY <1>1, <1>2 DEF Store, CacheSet
  <2>4. \A s \in Sources : readyAt[s] <= changes /\ readyAt[s] \in 0..MaxChanges
    OBVIOUS
  <2>5. /\ readyAt' = readyAt /\ tasks' = tasks /\ uninvalidated' = uninvalidated
        /\ unpublished' = unpublished /\ ready' = ready
    BY <1>2 DEF Store
  <2>6. changes \in 0..MaxChanges /\ MaxChanges \in Nat
    BY SearchAssumption
  <2>7. ASSUME SharedLoop, NEW k \in Keys, NEW s \in VisibleSources(k[1]), s \notin unpublished,
               Cached(k)', cache'[k].set < readyAt[s]
        PROVE  Cached(k) /\ cache[k].set < readyAt[s]
    BY <2>3, <2>4, <2>6, <2>7 DEF VisibleSources
  <2> QED BY <2>2, <2>5, <2>7 DEF Reached, InvalidationReachesEntries, VisibleSources
<1>3. CASE ~ Store(r)
  <2>1. /\ cache' = cache /\ tasks' = tasks
        /\ UNCHANGED dbVars
    BY <1>3 DEF RequestStep, SearchStep, Send, Subscribe, CheckCollection, CacheHit, CacheMiss, Embed,
                QueryChunks
  <2>2. Subscribed'
    BY <1>3 DEF RequestStep, SearchStep, Send, Subscribe, CheckCollection, CacheHit, CacheMiss, Embed,
                QueryChunks, InFlight, Reached, Subscribed, FirstCall
  <2> QED BY <2>1, <2>2 DEF Reached, InvalidationReachesEntries, VisibleSources
<1> QED BY <1>2, <1>3

LEMMA TaskReached ==
  ASSUME Types, Reached, NEW t \in tasks, TaskStep(t)
  PROVE  Reached'
<1> USE DEF Types, dbVars, searchVars, Cached
<1>1. /\ subscribers' = subscribers /\ pc' = pc
      /\ uninvalidated \subseteq uninvalidated' /\ uninvalidated' \subseteq Collections
      /\ readyAt' = readyAt /\ unpublished' = unpublished /\ ready' = ready
      /\ \A k \in Keys : Cached(k)' => Cached(k) /\ cache'[k] = cache[k]
  BY DEF TaskStep, Invalidate, InvalidationFails, Scan, Del, GiveUp, Task
<1>2. Subscribed'
  BY <1>1 DEF Reached, Subscribed
<1>3. SUFFICES ASSUME SharedLoop, NEW k \in Keys,
                      NEW s \in VisibleSources(k[1]), s \notin unpublished,
                      Cached(k)', cache'[k].set < readyAt[s],
                      k[1] \notin uninvalidated'
               PROVE  \E u \in tasks' : OnItsWay(k, s, u)
  BY <1>1, <1>2 DEF Reached, InvalidationReachesEntries, OnItsWay, VisibleSources
<1>4. PICK u \in tasks : OnItsWay(k, s, u)
  BY <1>1, <1>3 DEF Reached, InvalidationReachesEntries, OnItsWay
<1>5. k = make_cache_key(k[1], k[2])
  BY DEF Keys, make_cache_key
<1>6. CASE u # t
  BY <1>4, <1>6 DEF TaskStep, Invalidate, InvalidationFails, Scan, Del, GiveUp
<1>7. CASE u = t /\ Scan(t)
  <2>1. PICK visited \in SUBSET t.left \ {{}} :
          LET found == {q \in visited : Cached(make_cache_key(t.coll, q))}
              after == [t EXCEPT !.left = @ \ visited, !.found = found]
          IN  tasks' = (tasks \ {t}) \cup
                (IF after.left = {} /\ found = {} THEN {} ELSE {after})
    BY <1>7 DEF Scan
  <2> DEFINE found == {q \in visited : Cached(make_cache_key(t.coll, q))}
             after == [t EXCEPT !.left = @ \ visited, !.found = found]
  <2>2. /\ after.left = t.left \ visited /\ after.found = found
        /\ after.coll = t.coll /\ after.event = t.event
    BY DEF Task
  <2>3. k[2] \in t.left /\ t.coll = k[1] /\ Cached(k)
    BY <1>1, <1>3, <1>4, <1>7 DEF Scan, OnItsWay
  <2>4. k[2] \in visited => k[2] \in found
    BY <1>5, <2>3
  <2>5. k[2] \in after.left \cup after.found
    BY <2>2, <2>3, <2>4
  <2>6. after \in tasks'
    BY <2>1, <2>2, <2>5
  <2>7. OnItsWay(k, s, after)
    BY <1>4, <1>7, <2>2, <2>5 DEF OnItsWay
  <2> QED BY <2>6, <2>7
<1>8. CASE u = t /\ Del(t)
  <2>1. k[2] \notin t.found /\ k[2] \in t.left
    BY <1>3, <1>4, <1>8 DEF Del, OnItsWay
  <2> DEFINE after == [t EXCEPT !.found = {}]
  <2>2. after \in tasks'
    BY <1>8, <2>1 DEF Del
  <2>3. OnItsWay(k, s, after)
    BY <1>4, <1>8, <2>1 DEF OnItsWay, Task
  <2> QED BY <2>2, <2>3
<1>9. CASE u = t /\ InvalidationFails(t)
  BY <1>3, <1>4, <1>9 DEF InvalidationFails, OnItsWay
<1> QED BY <1>6, <1>7, <1>8, <1>9 DEF TaskStep, Invalidate

LEMMA OtherReached ==
  ASSUME Types, Reached,
         \/ \E c \in Collections : DeleteCollection(c)
         \/ \E k \in Keys : Ttl(k)
         \/ ApiRestart
  PROVE  Reached'
<1> USE DEF Types, cacheVars, dbVars, searchVars, Cached
<1>1. CASE \E c \in Collections : DeleteCollection(c)
  <2>1. /\ UNCHANGED <<cacheVars, searchVars, readyAt, unpublished, uninvalidated>>
        /\ ready' \subseteq ready
    BY <1>1 DEF DeleteCollection
  <2> QED BY <2>1 DEF Reached, Subscribed, InvalidationReachesEntries, VisibleSources
<1>2. CASE \E k \in Keys : Ttl(k)
  <2>1. /\ UNCHANGED <<tasks, dbVars, searchVars>>
        /\ \A k \in Keys : Cached(k)' => Cached(k) /\ cache'[k] = cache[k]
    BY <1>2 DEF Ttl, Expire
  <2> QED BY <2>1 DEF Reached, Subscribed, InvalidationReachesEntries, VisibleSources
<1>3. CASE ApiRestart
  <2>1. \A k \in Keys : k[1] \in Collections
    BY DEF Keys
  <2>2. InvalidationReachesEntries'
    BY <1>3, <2>1 DEF ApiRestart, InvalidationReachesEntries
  <2>3. Subscribed'
    BY <1>3 DEF ApiRestart, Subscribed, InFlight
  <2> QED BY <2>2, <2>3 DEF Reached
<1> QED BY <1>1, <1>2, <1>3

LEMMA ReachedInvariant == Spec => []Reached
<1>1. Init => Reached
  BY DEF Init, CacheInit, Reached, Subscribed, InvalidationReachesEntries, Cached, InFlight
<1>2. Types /\ Reached /\ [Next]_vars => Reached'
  <2> SUFFICES ASSUME Types, Reached, [Next]_vars PROVE Reached'
    OBVIOUS
  <2>1. CASE Next
    BY <2>1, SourceReached, RequestReached, TaskReached, OtherReached
    DEF Next, SourceStep, RequestStep, TaskStep
  <2>2. CASE UNCHANGED vars
    BY <2>2 DEF vars, cacheVars, dbVars, searchVars, Reached, Subscribed,
                InvalidationReachesEntries, VisibleSources, Cached
  <2> QED BY <2>1, <2>2
<1> QED BY <1>1, <1>2, TypesInvariant, PTL DEF Spec

\* Where worker and API share their bus, an entry from before a source became
\* ready outlives the event only until the invalidation gets to it, or if one
\* was lost or failed: however many searches, batches of keys and restarts.
THEOREM ReachTheorem == Spec => []InvalidationReachesEntries
<1>1. Reached => InvalidationReachesEntries
  BY DEF Reached
<1> QED BY <1>1, ReachedInvariant, PTL

=============================================================================
