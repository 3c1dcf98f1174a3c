# Scout API: a TLA+ model of ingest, search, questions and sessions

Scout API (`src/`, Python) turns URLs and files into searchable chunks for AI
agents. A FastAPI process answers requests, an arq worker processes sources,
and they share a PostgreSQL database and Redis. This directory holds TLA+
modules translated from that code, TLC configurations that check them on small
instances, and proofs, checked by TLAPS, that hold for every instance.

## The system

| Part | State | Operations | Modules |
|---|---|---|---|
| Source store: tables `collections`, `sources`, `chunks` (`migrations/`, `sources/repository.py`, `sources/processing_repository.py`, `collections/`) | rows | create/delete collection, upsert source, set status, delete/insert chunks | `SourceStore` |
| Job queue (arq on Redis, `sources/queue.py`) | jobs, attempts | enqueue, dequeue, retry, give up | `JobQueue` (arq itself is external) |
| Ingest service (`sources/service.py`, `sources/router.py`) | a request's progress, stored uploads | ingest a URL, ingest a file | `IngestService` |
| Worker (`worker.py`) | a run's progress | `process_source`, its failure path, timeout, crash | `Worker` |
| Chunker (`sources/chunker.py`) | loop variables | `split` | `Chunker` |
| Search (`search/`), its Redis cache, the event bus (`events.py`) | cache entries, subscribers, invalidation tasks | search, invalidate | `SearchCache`, `Search` |
| Sessions, briefs, listings and the readiness probe (`sessions/`, `briefs/`, `collections/router.py`, `sources/router.py`, `health.py`) | rows, a request's progress | open, list, get, close, save, remove, probe | `Workspace`, `Sessions` |
| Questions (`qa/`) and the connection pool (`db.py`) | a stream's progress, held connections, activity rows | ask over the WebSocket | `Workspace`, `Questions` |
| Startup (`docker/entrypoint.sh`, `scripts/migrate.py`, the lifespan of `main.py`) | applied and recorded migrations | migrate, serve, die, restart | `Migrate` |
| MCP tools (`sources/mcp.py`, `search/mcp.py`, `qa/mcp.py`) | a call's pool | ask, search, ingest, each on a pool of its own | `McpTools` |
| PostgreSQL as a server (external) | open connections | connect, refuse, close | `PostgresServer` |
| Models, errors, tracing, adapters, wiring | | | not modelled, see below |

Interaction. A client posts a URL or a file; the service upserts the source
row, deletes its old chunks when the row existed, uploads a file, and enqueues
`process_source(source_id)`. The worker deletes the chunks again, marks the row
`processing`, fetches, splits, embeds and inserts chunk by chunk, marks it
`ready` (or `failed`) and publishes a domain event on the bus of its own
process. Searches and questions read the chunks of ready sources; a question
may be recorded in a session. Nothing holds a lock and no transaction spans two
statements, so every statement is a point at which any other request or job may
act.

What is hard: two requests for the same origin create two jobs, and arq runs
ten jobs at once; requests and jobs die between two statements; arq runs a job
again after a crash but not after a timeout or an exception; a collection can
be deleted under all of it; the cache, the events and the pool couple parts
that the tests only exercise one at a time. `PROJECT.json` lists these hazards
line by line.

What makes each part correct:

- *Ingest pipeline*: no source is left unfinished without anybody having been
  told; a source all of whose work succeeded holds a whole document; work in
  flight cannot bring back what a deletion removed; every begun request and
  job ends.
- *Chunker*: every non-blank position of the text is in some chunk, what is
  close together stays together, chunks are bounded, the loop ends.
- *Search*: answers stay within the collection; deleted means not found; an
  invalidation reaches what was there before it.
- *Questions*: every question is answered or refused; what is recorded is the
  whole answer; citations name retrieved sources only.
- *Sessions and briefs*: rows never outlive what they belong to; a `404` means
  the thing had gone; what was confirmed can be read.
- *Startup*: recorded means applied, in order, however many starts run and die
  at once; an API that serves has its schema; every start serves in the end.
- *MCP tools*: a call is answered, and one that succeeded gives its connection
  back.

## The modules

```
SourceStore <- JobQueue <- IngestService <-+
                   ^------- Worker <-------+- SourcePipeline <- MCSourcePipeline
                                                  |  ^--------- SourcePipelineProofs
                            SourceLifecycle <-----+                  ^
                                                        SourceLifecycleProofs
Chunker <- MCChunker, ChunkerProofs
SearchCache <- Search <- MCSearch, SearchProofs
Workspace <- Sessions <--+
     ^------ Questions <-+- Research <- MCResearch, ResearchProofs
                               |                        ^  ^
             AnswerStream <----+       AnswerStreamProofs  CitationProofs
PostgresServer <- Migrate <---+
     ^----------- McpTools <--+- Deployment <- MCDeployment, DeploymentProofs
                                    |
            SchemaHistory <---------+
```

An operator marked *Mutant* is a plausible bug. No specification uses it; each
stands beside the definition it would replace, to show that the property named
with it in `PROJECT.json` would notice.

**SourceStore.** One action per SQL statement. A source row is named by the
request that inserted it: ids are serial and never reused, and a request
inserts at most one row. `reason` is `failed_reason`, reduced to the step that
raised. A chunk row is marked with the job, the attempt and the position that
wrote it, so that two identical texts can be told apart. The foreign keys are
guards: `InsertChunk` of a source that is gone is not possible, and the caller
then takes its failure path.

**JobQueue.** `step[r]` is where the job of request `r` is, `tries[r]` how often
it was started. arq is modelled from its use: jobs carry no id, so none is
deduplicated; an attempt beyond `MaxTries` ends the job; cancellation by
`job_timeout` ends it; a crash or a shutdown puts it back.

**IngestService.** `pc[r]` is the next call of the request: check, upsert, delete
the old chunks (only for a refresh), upload (only for a file), enqueue. `Abort`
is a call that raises, times out or dies without effect, `EnqueueReplyLost` one
whose effect stays.

**Worker.** `step` moves through the awaits of `process_source`. Statements before its
`try` fail into `raised`, those inside into `setfailed`, which itself may fail into
`unmarked`. `MarkProcessingUnseen` and `MarkReadyUnseen` are the two status updates that
commit and raise all the same (in the reply, or in the release of the connection): since
`set_ready` lies inside the `try`, the run then marks the source it has made `ready` as
`failed`, with `unseen` as the cause. The events are advisory and have no subscriber in
the worker's process; publishing them is part of the step it follows. `overlapped` is a
history variable: the sources on which two jobs have been running.

**SourcePipeline** composes them with the creation and deletion of collections.

**SourceLifecycle** is what the pipeline promises of a source, without queue,
worker or crash: each request has a *ticket*, which is opened as it resets the
source to `pending`, begins (`processing`), is reported (`ready` or `failed`) and
closed, or is refused, lost or missed. A ticket reports once each time it is begun, with
one exception, which the code makes: who has reported `ready` and does not know it
(`Doubt`) reports `failed` on top (`Retract`). `SourcePipeline!Lifecycle` maps a request
and its job to a ticket (`Ticket`): a job that a crash put back is an open ticket
again, and every way to end without a report is a lost one.

**Chunker** is the loop of `_token_split` and `_char_split` (the same loop, with
sizes times four). A text is a length and the set of its blank positions;
`strip` takes the blanks off both ends of a window, and a window of blanks only
gives no chunk. In the token loop a position is a token, blank when it decodes
to white space.

**SearchCache, Search.** An entry holds chunks and, as history, the change of the tables
that it reflects. Source `n` has the `n`-th nearest chunk, so that LIMIT is a rank; the
key leaves `top_k` out, as the code's does; `Older` are the sources that are ready
before the first search. Each search builds a service that subscribes to the bus of the
API process and is never unsubscribed. `SharedLoop` says whether the worker publishes on
that same bus (the comment in `search/service.py:186`) or on that of a process of its
own (`docker-compose.yml`). `Handlers` are the subscribed services, one more with each
search. An invalidation is a task that alternates SCAN, over any part of the keys it has
not visited, and DEL. A request finds an entry until it expires, misses at will, and
stores at will: the cache swallows its errors.

**Workspace, Sessions, Questions, Research.** `holding` is who holds a connection
of the API's pool. An HTTP request acquires one, runs one or two statements and
releases it as it is answered: `kind[c]` is its endpoint, `step[c]` its next
statement or its answer. There is no transaction, so what `CheckTarget` found may
be gone at the next statement; the foreign keys then refuse an insert, and the
client sees an error. In the same way `EnqueueReplyLost`, the worker's `EffectUnseen` and
the handler's `ReleaseConnection` are effects that are there while their call raises.
`CommitUnseen` is a statement that times out after it was
committed. `rows` is what a request has read and `known`, a history variable, whose
rows its client knew to be there as it sent it.

The question handler acquires a connection, keeps it until it closes, and needs
another *available* for each statement of `QARepository`, which was given the pool
(`qa/dependencies.py:46`). An answer is a sequence of tokens, `n > 0` being the
marker `[n]`; the numbering of `build_prompt` and the markers of `extract_citations` are
both loops that keep first uses (`Kept`, a function of the number of turns). A failed
recording is swallowed, a client may leave at any time and is noticed at the next
send, and then only perhaps. The connection is released before the socket is closed,
inside the handler's outer `try` (`qa/router.py:101`, 144): `ReleaseConnection` may raise,
and then `QA_SYN_001` follows whatever was sent last.

**AnswerStream** is the protocol of a question as docs/api/QA.md describes it:
tokens, a `done` or an `error` frame, and a record that is the whole answer of a
question whose tokens `done` follows. What the document leaves out is in it too: after
either of these the server may stumble once, and send an error frame (`Stumble`).
`Research!Stream` maps the handler's `pc` to five phases, a frame to
its type and token, and the rows of `session_activity` to a set of answers.

**PostgresServer, Migrate, McpTools, Deployment.** `conns` counts the connections of
each client of the server, `Open` is the set of all of them, and one too many is
refused at once. A start goes from
`entrypoint.sh` through `migrate.py` (connect, read what is recorded, then execute and
record, migration by migration, without a transaction) to the pool of the API, and
is started again whenever it exits. Images may know more or fewer migrations
(`Files`). The migrations are `IF NOT EXISTS`, so executing one again changes
nothing; the second of two runs that record one fails on the primary key. A tool
call opens a pool of one connection, which `ask` holds for the whole of its run while
the others acquire it per statement; it closes the pool on the way to a result, if it
is not a search, and leaves it to the driver's 300 s otherwise.

**SchemaHistory** is what the startup promises of a database, without runs, connections
or faults: two counts, of the migrations executed and of those recorded, the first at
most one ahead, and the set of starts that serve, each of which came up on a record
that had reached its image. `Deployment!History` maps `applied` and `recorded` to their
sizes.

## What the runs check

| Run | Instance | What it shows |
|---|---|---|
| `pipeline` | 2 requests for one URL, 2 attempts each, documents of 0 to 2 chunks, 1 collection | `NoSilentStranding`, `SettledIsComplete`, `ReadyOnceIsComplete`, `DuplicatesNeedOverlap`, `DeletedStaysDeleted`, `ReadyFailsOnlyByOverlap`, `ImplementsLifecycle` |
| `liveness` | 2 requests for one file, 3 attempts each, documents of 0 or 1 chunk, with fairness | `PendingSettles`, `JobsEnd`; `JobsFindUploadStored` |
| `chunker` | every size up to 4 and overlap below it, in tokens and characters, every text of up to 9 positions with any blanks | `ContextKept`, `ChunksFit`, `NoneTooMany`, `Returns` |
| `search` | 2 searches with a `top_k` of 1, 2 queries, 2 collections, 2 sources of the first, one of which is ready from the start, 1 change, one bus | `AnswersStayInCollection`, `DeletedIsNotFound`, `InvalidationReachesEntries` |
| `research` | 3 requests of the 7 kinds on sessions, briefs and collections that read or change rows, 1 question of up to 2 tokens, rankings of no chunk or of 3 from 2 sources, 2 connections | `NoOrphans`, `NotFoundIsTrue`, `SavedBriefStays`, `ReadsWhatIsKnown`, `StreamsEnd`, `RecordedIsDelivered`, `CitationsMatchAnswer`, `PoolIsReturned` |
| `research_live` | 2 requests of any of the 11 kinds, 1 question of up to 2 tokens, 2 connections, with fairness | `CallsAreAnswered`, `QuestionsAreAnswered`, `ImplementsStream` |
| `deployment` | 2 starts with 1 and 2 migrations, 1 call of each kind of tool, room for 2 connections, 2 faults, with fairness | `AppliedInOrder`, `ServingHasSchema`, `LeftByFailuresAndSearches`, `ImplementsHistory`, `EveryStartServes`, `ToolCallsAreAnswered` |

The modules state each property in words above its definition. `pipeline` has 1.5 million
distinct states, `search` 0.7 and `research` 2.8, `liveness` 89 thousand and `research_live`
280 thousand; each takes a few minutes at most. The other runs
are the divergences below. Each module's type invariant is checked along.

**Bounds.** Two requests for one origin are the smallest case with a re-ingest
and with two jobs at once; two attempts the smallest with a rerun; two chunks
the smallest with a part of a document. `liveness` has the re-ingest as well, of a file,
so that the upload and its timeout lie between the reset and the job, and jobs that run
up to three times; it has no loop over chunks, whose end is that of a finite document and
is part of `WearTheorem`. The invariants of `pipeline` are proved
without any of these bounds. Sizes up to 4 and texts up to 9 give windows that
end before, at and after the end of the text, with up to nine of them; these
invariants are proved too. In `search` one change of the tables suffices for an
entry to be outdated, and with a source ready before it for a LIMIT of one
to leave one out; how many a search asks for makes no difference to an invalidation;
two queries for a scan in two parts, two collections for answers to mix.
In `research` three requests are a session opened and two more
at work on it, and two tokens a repeated marker, a foreign one, or one after
another. In `deployment` the second start is one of a newer image beside an older
one that applies the same first migration; two connections are just enough for both
APIs, so that a tool call can keep a start from its own. `MaxFaults` bounds the
failures and deaths, after which starts succeed; three tool calls end by themselves.
Requests are finite in number, and all is quiet when the last is answered: that is
why deadlock is not checked, except in `deployment`, whose APIs go on serving.

**Fairness.** In the pipeline, weak fairness for what has a timeout: the upload and the
enqueue of a request (10 s each) and a job (300 s), after which they are done or raise;
and arq polls for ever. The statements of a request have none: its repository acquires
from the API's pool without one (`sources/dependencies.py:108`), and `question_pool`
shows that this can take for ever. So a request may stop before any of its statements,
and `PendingSettles` says what that means: a source that is reset to `pending` settles,
or somebody gave up on it who was told, or a re-ingest is at its `DELETE` and waits. No
fault has to happen and nobody has to send a request. `JobsEnd` holds although a worker
may crash for ever, because attempts are counted. In `Research` the fairness of requests
is strong: `acquire` serves its waiters in their order, so a connection that keeps
becoming free is obtained in the end. In `Deployment`, weak fairness for each start,
which Docker restarts (`restart: unless-stopped`), and for each tool call that was made,
whose calls all have timeouts, the driver's closing of what it left among them. Nothing
assumes that an invalidation or an event is ever delivered.

## Where documents and code disagree

| Run | Shows | Document |
|---|---|---|
| `duplicates` | two accepted requests whose jobs overlap leave every chunk twice | README.md:61 |
| `ready_incomplete` | a re-ingest that fails after deleting chunks of a run in flight leaves a ready source without them | docs/api/SOURCES.md:174 |
| `upload_lost` | an upload is stored under its S3 key, the worker opens the path in its `file://` origin | docs/api/SOURCES.md:57 |
| `search_separate` | the worker's `source.ready` reaches no search service, since they are separate processes | README.md:50 |
| `question_pool` | with as many questions as connections all wait for a second connection, for ever | docs/api/QA.md:54 |

`question_pool` and the rest of `Questions` start at the handler's first line.
Its dependencies take a `Request`, which FastAPI passes to HTTP routes only, and
the tests override both of them; how they are resolved is outside the model.

Even on one event loop a search may store rows it read before an invalidation:
`InvalidationReachesEntries` speaks of entries stored before the event, and only
the TTL bounds the others.

Some disagreements have no run of their own, as they follow from one place in the code:

- `top_k` is the maximum number of results (`search/models.py:21` and 35,
  `search/contracts.py:53`, `search/mcp.py:114`), but the key of the cache leaves it out
  (`search/service.py:97`): an answer from the cache may have more results than its search
  asked for, or fewer than there are. No property speaks of the number of results.
- `docs/api/SESSIONS.md:161` and `search/service.py:13` say that a search with a
  `session_id` is recorded; the router drops the field, and nothing records a search.
- `worker.py:233` says that a failed run does not raise again, and line 263 raises.
  The model follows the code: arq sees the job fail, and does not run it again.
- `docker-compose.yml:106` runs `postgres:16-alpine`, which has no pgvector, and the first
  migration creates that extension: it would fail on every start. `Deployment` assumes an
  image that has it.
- `docker-compose.yml:187` gives the worker's container a `command`, which
  `entrypoint.sh` ignores: it starts another API. The pipeline assumes a worker.
- docs/api/QA.md has a `done` frame at the end of an answer, or an `error` frame. That an
  error frame may follow either of them, for a connection that could not be released, it
  does not say. `StreamsEnd` has it as the one exception.

Three properties draw the line beside the divergences. `ReadyOnceIsComplete`: the chunks
of a ready source that was ingested by one request only are all there, so
`ready_incomplete` takes a second request. `ReadyFailsOnlyByOverlap`: a ready source turns
into a failed one by a job that overlapped another, or by the very run that made it ready and
did not see that. `PoolIsReturned`: an exhausted pool has a
holder that returns its connection without needing another, unless questions that wait
for a second one hold all of it, so `question_pool` takes as many questions as there are
connections.

## What is proved

All theorems hold for every value of the constants, from the named assumptions in the
modules. Those say what type a constant has, and beyond that: for the chunker, sizes of
at least one and overlaps below them (other settings are not proved about); for
`Workspace`, that calls are no questions and a collection's id is no session's id, so
that "gone" is said of the right one; for `Questions`, that a ranking is a sequence; for
`PostgresServer`, that starts are no tool calls.

*SourcePipelineProofs*: `TypeCorrect`, `StrandingTheorem`, `SettledTheorem`,
`OnceTheorem`, `DuplicatesTheorem`, `DeletedTheorem`, `ReadyTheorem`, `UploadTheorem`,
`WearTheorem`. None of the invariants is inductive by itself. The strengthening is

- `Basics`: the types; a request has a source exactly from its upsert on, only an
  accepted or a broken one has a job, a run has been counted, and it has inserted
  nothing before its insert loop;
- `UnsettledOrWhole`, for `SettledIsComplete`: every source has a request or job
  that has not succeeded yet or never will (`Unsettled`), or a run that has opened
  with its `DELETE` and lost none of its chunks since (`Whole`); a later `DELETE`
  belongs to a request, which then has not succeeded yet, or opens a run, which
  then has nothing to lose;
- `LoneRun`, for `ReadyOnceIsComplete`: a source with one request has one job, whose
  `DELETE` is the only one that can take its chunks, and its row says `ready` only from
  the end of one run to the mark of the next;
- `OneRun`, for `DuplicatesNeedOverlap`: without overlap the chunks of a source
  are those of at most one run, and once a job inserts they are its own;
- `NoOrphans`, for `DeletedStaysDeleted`: the source of every chunk has a row;
- `ReadyIsSettled`, for `ReadyFailsOnlyByOverlap`: while a source is ready and was
  never overlapped, no job of it is where it could mark it failed, but one that has made
  it ready unseen;
- `Stored`, for `JobsFindUploadStored`: a request that is about to enqueue an upload
  has stored it.

Each action is one step of the induction and most conjuncts are untouched by it.
`WearTheorem` is the safety half of `JobsEnd`: every step of a job takes an attempt of
the finitely many, or brings it nearer to the end of the one it has, in stages
(`Distance`) or in chunks, and no step of anybody else changes where it is.

*ChunkerProofs*: `SplitTypeCorrect`, `ContextTheorem`, `FitTheorem`, `BreakTheorem`,
`CountTheorem`, `TurnsTheorem`, by an invariant with `KeptSoFar` (positions at most an
overlap apart, the first of them before the next window, are together in a chunk),
`StridesTaken` (each chunk was followed by a stride) and `Unstarted` (nothing has been
cut before `Begin`). The step of `Slide` is the arithmetic: the next window begins an
overlap before the end of this one. `BreaksInTime` (no window starts in what the one
before has seen all of) and `TurnsShorten` (every turn leaves less to do, the safety
half of `Returns`) are proved and in no run.

*SourceLifecycleProofs*: `LifecycleTheorem`, the refinement: initial states map to
initial states, and under `Basics` every step of a request, a job or a collection maps
to one step of `SourceLifecycle` or to none. A step moves the ticket of one request
only (`OthersKeepTickets`), so each action is a comparison of one ticket before and
after.

*SearchProofs*: `SearchTypeCorrect`, `CollectionTheorem`, `DeletedTheorem`,
`ReachTheorem`. The invariants are `Types`; `Scoped`, that entries and what a search has
found belong to its collection; `Refused`, that a search sent after a deletion can only
be refused; and `Reached`, the property of `ReachTheorem` itself with `Subscribed`: a
search in flight is subscribed, so that an entry stored now has at least one subscriber
whose task will visit it; an entry without any dates from before a restart of the API,
and no collection counts as invalidated then.

*ResearchProofs*: `OrphansTheorem`, `NotFoundTheorem`, `BriefsTheorem`,
`ReadersTheorem`, `StreamsTheorem`, `RecordedTheorem`, `ResearchTypeCorrect`,
`PoolTheorem`, `FewQuestionsTheorem`, `AdvanceTheorem`, from

- `Tables`: the types, and that every session is that of a request that has been
  answered: without it a session could be opened again, and what is gone would not stay
  gone (`GoneStaysGone`);
- `NotFoundGone`, `BriefKept`: what a 404 or a 201 says was so when it was written, and
  has stayed so;
- `Streams`: the frames so far are the tokens of the answer so far until the handler
  has told the end, which one `done` or `error` frame follows then, and one more error
  frame at most when it closes; and a row is that of the whole answer;
- `Readers`: an answered question of a session that is there has its row or is in
  `unrecorded`, and what a client knew when it sent a request is there or lost when it
  is read; `PresentStays` carries it over the steps of everybody else;
- `Pool`: `holding` is what is between its acquire and its answer, is finite, and fits
  the pool.

`PoolTheorem`, `FewQuestionsTheorem` and `AdvanceTheorem` are the safety half of
`CallsAreAnswered` and `QuestionsAreAnswered`: with fewer questions than connections an
exhausted pool has a holder that needs no other connection, and every step of a handler
brings it nearer to its answer, by stages and tokens, while nobody else moves it.

*CitationProofs*: `CitationsTheorem`. What the loops of `Kept` return is proved by
induction on their turns: an induction theorem that takes a property cannot be applied
here, so `InductionOnNat` takes a set instead, from the least number of the
counterexamples (`LeastNumber`, by the well-foundedness of `<`). `KeptExists` and
`KeptEquation` give the recursive function its equation, `TurnKeeps` is the step, and
`FirstUsesHolds` the result: each member of the sequence that is wanted, once, in the
order of first places. From there `SourcesAreNumbered` and `ExtractedMatch` are about the
prompt and the markers, and the invariant `Cited` says that every done frame was made by
`extract_citations` from the answer and the ranking its question still has.

*AnswerStreamProofs*: `StreamTheorem`, the refinement of `AnswerStream` under `Tables`
and `Streams`. A deletion that takes rows along is `Forget`; that a question has at
most one answer in its rows (`OneRecord`) makes a second record the same as the first.

*DeploymentProofs*: `RecordedTheorem`, `OrderTheorem`, `SchemaTheorem`, `LeftTheorem`,
`TypeTheorem`, `ToolsTheorem`, `HistoryTheorem`.
`SchemaInv` has `RunKeepsTrack`: of what an image knows, what is not pending in a run
is recorded, and what the run has executed and not recorded is its next migration. That
any number of runs may interleave makes no difference, as `applied` and `recorded` only
grow. `Holding` says what each start and tool call has open in its phase, and
`ServerKeepsBound` that all of it fits the server; with connections named, `Open` grows
by one element or shrinks, so that no sum is needed. `ToolsNeverWait` follows: a tool call
that runs has the connection its service takes. For `HistoryTheorem`, `Aligned` says
that the record is `1..k` and the schema that or `1..(k + 1)`, so that their sizes
determine them; executing a migration again is a stutter.

**Only model-checked**: the liveness properties, `PendingSettles`, `JobsEnd`, `Returns`,
`CallsAreAnswered`, `QuestionsAreAnswered`, `EveryStartServes` and
`ToolCallsAreAnswered`, since fairness and `ENABLED` are out of the prover's reach. The
safety they rest on is proved for five of them, as said above; for `PendingSettles` it is
`StrandingTheorem`, that a pending source has somebody who settles it or is told, and for
`EveryStartServes` there is no variant yet. Every invariant and action property of the
passing runs is proved.

## What is not modelled, and why

- Contents: text, vectors, names, wording of errors, traces and logs. `observability.py`
  and the `models.py` and `errors.py` of each part have no state.
- HTTP, S3, embedding and language models: calls that return or raise.
- The MCP tools beyond their pools: the services they call are those of the routes.
  `main.py` does not mount the MCP apps, so that a tool call is a client of the server
  with a pool of its own, and never one of the API's. The Redis client that a search
  opens is not followed.
- A second API process (`APP_WORKERS`): pools, buses and subscribers are per process, and
  the modules have one.
- `migrate.py --status` and `--rollback`, which change no table. The entry point and the
  script are taken at their word: the `Dockerfile` copies neither `scripts/` nor
  `migrations/`, and the entry point names `src.main`; an image that is built otherwise
  is assumed.
- `REDIS_URL` unset: the queue is then a list in memory, new for each request
  (`InMemoryQueueAdapter`), and no worker reads it: the source stays pending.
  Redis evicting a queued job when its memory is full is not modelled either.
- The history, the wildcard handlers and the lock of the event bus: nothing reads the
  history, nobody subscribes to `*`, and no publication of the program waits in the lock.
- The rows that the listings of sources and collections return; the liveness probe.
- Chunker settings that `__init__` does not refuse though they make no sense: a
  negative overlap, or a size below one.
- `.pipeline/prototype/`, a forerunner that nothing imports.

## What could be added

1. A variant for `EveryStartServes`: how often a start can still fail, by the faults,
   the migrations others record before it and the room that tool calls leave it.
2. Two API processes on one Redis and one database server.
