---------------------------- MODULE SearchCache ----------------------------
(***************************************************************************)
(* The Redis cache of search results (search/cache.py) and the tasks that  *)
(* invalidate a collection.  Every operation swallows its errors: a failed *)
(* get is a miss, a failed set stores nothing, a failed invalidation stops *)
(* where it is.                                                            *)
(***************************************************************************)
EXTENDS Naturals, FiniteSets

CONSTANTS
  Searches,     \* the search requests that may ever be made
  Collections,
  Queries,      \* query texts, trimmed and lowercased
  NoEntry       \* a key that is not in the cache

VARIABLES
  cache,  \* per key, the entry
  tasks   \* the invalidation tasks on the event loop

cacheVars == <<cache, tasks>>

\* Mutant: the collection is left out of the key.
UnscopedKey(c, q) == <<CHOOSE any \in Collections : TRUE, q>>

make_cache_key(c, q) == <<c, q>>

Keys == Collections \X Queries

CacheInit ==
  /\ cache = [k \in Keys |-> NoEntry]
  /\ tasks = {}

Cached(k) == cache[k] # NoEntry

\* SET with ex: an entry overwrites the one before it.
CacheSet(k, entry) == cache' = [cache EXCEPT ![k] = entry]

\* The entry's TTL is over.
Expire(k) ==
  /\ Cached(k)
  /\ cache' = [cache EXCEPT ![k] = NoEntry]
  /\ UNCHANGED tasks

-----------------------------------------------------------------------------
\* invalidate_collection: a loop of SCAN and DEL over the keys of c.  A task
\* is named by the search whose service runs it and the event it answers.

NewTask(r, c, n) == [by |-> r, event |-> n, coll |-> c, left |-> Queries, found |-> {}]

\* SCAN returns what is there of the part of the keyspace it visits, which is
\* all of the rest at the last turn.
Scan(t) ==
  /\ t.left # {} /\ t.found = {}
  /\ \E visited \in SUBSET t.left \ {{}} :
       LET found == {q \in visited : Cached(make_cache_key(t.coll, q))}
           after == [t EXCEPT !.left = @ \ visited, !.found = found]
       IN  tasks' = (tasks \ {t}) \cup
             (IF after.left = {} /\ found = {} THEN {} ELSE {after})
  /\ UNCHANGED cache

\* Mutant: one batch is taken for all of them.
DelOnce(t) ==
  /\ t.found # {}
  /\ cache' = [k \in Keys |-> IF k[1] = t.coll /\ k[2] \in t.found THEN NoEntry ELSE cache[k]]
  /\ tasks' = tasks \ {t}

\* Mutant: the loop goes on after the last batch.
DelForEver(t) ==
  /\ t.found # {}
  /\ cache' = [k \in Keys |-> IF k[1] = t.coll /\ k[2] \in t.found THEN NoEntry ELSE cache[k]]
  /\ tasks' = (tasks \ {t}) \cup {[t EXCEPT !.found = {}]}

\* DEL of the keys found, and the loop goes on while the cursor is not 0.
Del(t) ==
  /\ t.found # {}
  /\ cache' = [k \in Keys |-> IF k[1] = t.coll /\ k[2] \in t.found THEN NoEntry ELSE cache[k]]
  /\ tasks' = (tasks \ {t}) \cup
       (IF t.left = {} THEN {} ELSE {[t EXCEPT !.found = {}]})

\* Redis fails: the task logs it and ends.
GiveUp(t) ==
  /\ tasks' = tasks \ {t}
  /\ UNCHANGED cache

=============================================================================
