------------------------------- MODULE Search -------------------------------
(***************************************************************************)
(* SearchService.search over the tables and the cache, with sources that   *)
(* become ready, are re-ingested and are deleted meanwhile.  Each request  *)
(* builds a service of its own, whose constructor subscribes it to         *)
(* source.ready on the bus of the API process.                             *)
(***************************************************************************)
EXTENDS SearchCache, FiniteSetsExt

CONSTANTS
  Sources,       \* naturals: source n holds the n-th nearest chunk to any query
  Older,         \* those of them that were ready before the first search
  CollectionOf,  \* the collection of each source
  TopKs,         \* the values of top_k
  SharedLoop,    \* whether worker and API are one process, with one event bus
  MaxChanges     \* bound on how often a source becomes ready

ASSUME SearchAssumption ==
  /\ Sources \subseteq Nat /\ Older \subseteq Sources
  /\ CollectionOf \in [Sources -> Collections]
  /\ TopKs \subseteq Nat \ {0}
  /\ SharedLoop \in BOOLEAN
  /\ MaxChanges \in Nat

VARIABLES
  live,         \* the collections that exist
  ready,        \* the sources whose status is ready
  changes,      \* how often a source has become ready
  readyAt,      \* per source, which of these changes was its last, or 0
  unpublished,  \* sources made ready whose event the worker has yet to publish
  subscribers,  \* the searches whose service is on the API's bus
  pc,           \* what a search does next, or how it was answered
  ask,          \* its collection, query and top_k
  rows,         \* the results it holds, and as of which change
  late,         \* history: searches sent for a collection already deleted
  sentAt,       \* history: the last event for its collection dealt with by then
  uninvalidated \* history: collections an invalidation failed for

dbVars == <<live, ready, changes, readyAt, unpublished, uninvalidated>>
searchVars == <<subscribers, pc, ask, rows, late, sentAt>>
vars == <<cacheVars, dbVars, searchVars>>

\* Chunk ids are never reused: reprocessing a source gives it new chunks.
Chunk == [src : Sources, at : 0..MaxChanges]
Result == [found : SUBSET Chunk, at : 0..MaxChanges]
Ask == [coll : Collections, query : Queries, top_k : TopKs]
InFlight == {"exists", "get", "embed", "query", "set"}
Answers == {"ok", "notfound", "unavailable"}

Init ==
  /\ CacheInit
  /\ live = Collections
  /\ ready = Older
  /\ changes = 0
  /\ readyAt = [s \in Sources |-> 0]
  /\ unpublished = {}
  /\ subscribers = {}
  /\ pc = [r \in Searches |-> "idle"]
  /\ ask \in [Searches -> Ask]
  /\ rows = [r \in Searches |-> [found |-> {}, at |-> 0]]
  /\ late = {}
  /\ sentAt = [r \in Searches |-> 0]
  /\ uninvalidated = {}

-----------------------------------------------------------------------------
\* The tables, and the worker's events.

\* WHERE s.collection_id = c AND s.status = 'ready'
VisibleSources(c) == {s \in ready : CollectionOf[s] = c}

\* ORDER BY distance LIMIT k
Nearest(c, k) ==
  {[src |-> s, at |-> readyAt[s]] :
     s \in {s \in VisibleSources(c) : Cardinality({n \in VisibleSources(c) : n < s}) < k}}

\* The worker's set_ready commits, with the new chunks in place.
BecomeReady(s) ==
  /\ changes < MaxChanges
  /\ CollectionOf[s] \in live /\ s \notin ready
  /\ ready' = ready \cup {s}
  /\ changes' = changes + 1
  /\ readyAt' = [readyAt EXCEPT ![s] = changes + 1]
  /\ unpublished' = unpublished \cup {s}
  /\ UNCHANGED <<live, uninvalidated, cacheVars, searchVars>>

\* The handlers on the worker's bus.  In a process of its own it has none.
Handlers == IF SharedLoop THEN subscribers ELSE {}

\* _on_source_ready: each subscribed service schedules an invalidation.
PublishReady(s) ==
  /\ s \in unpublished
  /\ unpublished' = unpublished \ {s}
  /\ tasks' = tasks \cup
       {NewTask(r, CollectionOf[s], readyAt[s]) : r \in Handlers}
  /\ UNCHANGED <<cache, live, ready, changes, readyAt, uninvalidated, searchVars>>

\* The worker gets no further: it dies between the two, or set_ready has
\* committed and raises, so that set_failed overwrites the status (Reingest
\* then takes the source out of sight).  Or the event is lost with the API.
LoseEvent(s) ==
  /\ s \in unpublished
  /\ unpublished' = unpublished \ {s}
  /\ uninvalidated' = uninvalidated \cup {CollectionOf[s]}
  /\ UNCHANGED <<live, ready, changes, readyAt, cacheVars, searchVars>>

\* A re-ingest: the source is pending again and its chunks are deleted.
Reingest(s) ==
  /\ s \in ready /\ s \notin unpublished
  /\ ready' = ready \ {s}
  /\ UNCHANGED <<live, changes, readyAt, unpublished, uninvalidated, cacheVars, searchVars>>

DeleteCollection(c) ==
  /\ c \in live
  /\ live' = live \ {c}
  /\ ready' = ready \ VisibleSources(c)
  /\ UNCHANGED <<changes, readyAt, unpublished, uninvalidated, cacheVars, searchVars>>

-----------------------------------------------------------------------------
\* A request.

Goto(r, next) == pc' = [pc EXCEPT ![r] = next]

\* Mutant: the cache is looked up before the collection.
CacheFirst == "get"

FirstCall == "exists"

\* The visible sources whose events have been published and handled.
Settled(c) ==
  {s \in VisibleSources(c) \ unpublished : \A t \in tasks : t.event # readyAt[s]}

\* The constructor of the service, which nobody unsubscribes again.
Subscribe(r) == subscribers' = subscribers \cup {r}

Send(r) ==
  /\ pc[r] = "idle"
  /\ Subscribe(r)
  /\ sentAt' = [sentAt EXCEPT ![r] =
                  Max({0} \cup {readyAt[s] : s \in Settled(ask[r].coll)})]
  /\ late' = IF ask[r].coll \in live THEN late ELSE late \cup {r}
  /\ Goto(r, FirstCall)
  /\ UNCHANGED <<cacheVars, dbVars, ask, rows>>

CheckCollection(r) ==
  /\ pc[r] = "exists"
  /\ Goto(r, IF ask[r].coll \in live THEN "get" ELSE "notfound")
  /\ UNCHANGED <<cacheVars, dbVars, subscribers, ask, rows, late, sentAt>>

Key(r) == make_cache_key(ask[r].coll, ask[r].query)

CacheHit(r) ==
  /\ pc[r] = "get"
  /\ Cached(Key(r))
  /\ rows' = [rows EXCEPT ![r] = [found |-> cache[Key(r)].found, at |-> cache[Key(r)].at]]
  /\ Goto(r, "ok")
  /\ UNCHANGED <<cacheVars, dbVars, subscribers, ask, late, sentAt>>

\* No entry, or Redis fails.
CacheMiss(r) ==
  /\ pc[r] = "get"
  /\ Goto(r, "embed")
  /\ UNCHANGED <<cacheVars, dbVars, subscribers, ask, rows, late, sentAt>>

\* The model that embeds the query may fail, and so may the database.
Embed(r) ==
  /\ pc[r] = "embed"
  /\ Goto(r, "query") \/ Goto(r, "unavailable")
  /\ UNCHANGED <<cacheVars, dbVars, subscribers, ask, rows, late, sentAt>>

QueryChunks(r) ==
  /\ pc[r] = "query"
  /\ \/ /\ rows' = [rows EXCEPT ![r] =
                      [found |-> Nearest(ask[r].coll, ask[r].top_k), at |-> changes]]
        /\ Goto(r, "set")
     \/ Goto(r, "unavailable") /\ UNCHANGED rows
  /\ UNCHANGED <<cacheVars, dbVars, subscribers, ask, late, sentAt>>

\* The results as they were read, whatever has happened since, under a key
\* that does not tell how many were asked for.
Store(r) ==
  /\ pc[r] = "set"
  /\ \/ CacheSet(Key(r), [found |-> rows[r].found, at |-> rows[r].at, set |-> changes])
     \/ UNCHANGED cache
  /\ Goto(r, "ok")
  /\ UNCHANGED <<tasks, dbVars, subscribers, ask, rows, late, sentAt>>

-----------------------------------------------------------------------------
\* Invalidation tasks, and what ends them before their time.

Invalidate(t) ==
  /\ Scan(t) \/ Del(t)
  /\ UNCHANGED <<dbVars, searchVars>>

InvalidationFails(t) ==
  /\ GiveUp(t)
  /\ uninvalidated' = uninvalidated \cup {t.coll}
  /\ UNCHANGED <<live, ready, changes, readyAt, unpublished, searchVars>>

\* The API process starts anew: its searches are broken off, its tasks and
\* its subscribers are gone, and the entries in Redis are still there.
ApiRestart ==
  /\ subscribers # {}
  /\ subscribers' = {}
  /\ tasks' = {}
  /\ pc' = [r \in Searches |-> IF pc[r] \in InFlight THEN "unavailable" ELSE pc[r]]
  /\ uninvalidated' = Collections
  /\ UNCHANGED <<cache, live, ready, changes, readyAt, unpublished, ask, rows, late, sentAt>>

SearchStep(r) ==
  \/ CheckCollection(r)
  \/ CacheHit(r)
  \/ CacheMiss(r)
  \/ Embed(r)
  \/ QueryChunks(r)
  \/ Store(r)

Ttl(k) == Expire(k) /\ UNCHANGED <<dbVars, searchVars>>

Next ==
  \/ \E s \in Sources : BecomeReady(s) \/ PublishReady(s) \/ LoseEvent(s) \/ Reingest(s)
  \/ \E c \in Collections : DeleteCollection(c)
  \/ \E r \in Searches : Send(r) \/ SearchStep(r)
  \/ \E t \in tasks : Invalidate(t) \/ InvalidationFails(t)
  \/ \E k \in Keys : Ttl(k)
  \/ ApiRestart

Spec == Init /\ [][Next]_vars

-----------------------------------------------------------------------------
\* Properties.

\* The variables keep to their types, and no invalidation task outlives its
\* work.
TypeOK ==
  /\ cache \in [Keys -> [found : SUBSET Chunk, at : 0..MaxChanges, set : 0..MaxChanges]
                          \cup {NoEntry}]
  /\ \A t \in tasks :
       /\ t.by \in Searches /\ t.event \in 1..MaxChanges /\ t.coll \in Collections
       /\ t.left \subseteq Queries /\ t.found \subseteq Queries
       /\ t.left \cup t.found # {}
  /\ live \subseteq Collections /\ ready \subseteq Sources /\ unpublished \subseteq Sources
  /\ readyAt \in [Sources -> 0..MaxChanges] /\ changes \in 0..MaxChanges
  /\ subscribers \subseteq Searches
  /\ pc \in [Searches -> {"idle"} \cup InFlight \cup Answers]
  /\ ask \in [Searches -> Ask] /\ rows \in [Searches -> Result]

\* docs/adr/0001: an answer holds chunks of the collection that was searched,
\* whether it comes from the table or from an entry another search stored.
AnswersStayInCollection ==
  \A r \in Searches : \A c \in rows[r].found : CollectionOf[c.src] = ask[r].coll

\* Entries outlive their collection.  A search sent after the deletion is
\* refused all the same.
DeletedIsNotFound == \A r \in late : pc[r] # "ok"

\* With one event bus for worker and API: an entry stored before a source
\* became ready survives the event only as long as an invalidation has yet
\* to visit or delete it, unless one was lost or failed.
InvalidationReachesEntries ==
  SharedLoop =>
    \A k \in Keys : \A s \in VisibleSources(k[1]) \ unpublished :
      Cached(k) /\ cache[k].set < readyAt[s] =>
        \/ k[1] \in uninvalidated
        \/ \E t \in tasks : /\ t.coll = k[1] /\ t.event = readyAt[s]
                              /\ k[2] \in t.left \cup t.found

-----------------------------------------------------------------------------
\* What documents say, and the code does not do.

\* search/service.py:17-19, README.md:50: source.ready invalidates at once,
\* so that the next search sees the content.  Here a search sent with the
\* event published and no invalidation at work any more.
NextSearchSeesReady ==
  \A r \in Searches :
    pc[r] = "ok" /\ ask[r].coll \notin uninvalidated => rows[r].at >= sentAt[r]

=============================================================================
