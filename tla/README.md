# A verification project for abyss-backend

TLA+ models of `abyss-backend` (`src/crates/abyss-backend`), the TLC runs that check
them on small instances and the TLAPS proofs that hold for every instance. Paths below are
relative to `src/crates/abyss-backend/src/` unless they say otherwise.

## 1. The system

The backend stores what collectors report about LLM traffic: *events* (a request or a
response), the *session* and the *device* they belong to, image attachments and diagnostic
captures. It serves usage summaries, session lists, the *structure* of a session (which
request continues which conversation) and full-text search. It is built in one of two
profiles: `postgres-es` (PostgreSQL and Elasticsearch, several replicas) and `sqlite` (one
process, full-text index in the same file).

### 1.1 Components

| Component | State | Operations | What makes it correct |
|---|---|---|---|
| **PostgreSQL ingestion** (`storage/postgres/repository.rs`, `session_titles.rs`, `usage/persistence.rs`, `usage/diagnostics.rs`) | tables `devices`, `agent_sessions`, `llm_usage_events`, attachments, stream facts, `session_titles`, `search_outbox`, captures and their links | `ingest_events`: one transaction per request; reads in repeatable-read snapshots | `event_id` is idempotent over resends and races; an answered batch is stored; committed events are complete and spanned by session and device; the title is the earliest request's |
| **Search outbox and indexer** (`storage/postgres/search/outbox.rs`, `worker.rs`, `elasticsearch.rs`) | `search_outbox` rows (claim, attempts, settled), worker memory (`index_ready`, `backfill_complete`, the batch), the index | backfill, claim, load, bulk request, record, poll, shutdown | at-least-once delivery, leases, bounded retries, dead letters, a sound backfill |
| **Session structure** (`usage/streams.rs` and `usage/streams/`) | none: computed from a session's events per request | exchanges, bases, turns, segments, timelines | independent of the order of delivery; every exchange is in one segment; no cycle among bases; a turn starts where a person speaks |
| **SQLite storage** (`storage/sqlite/`) | the same tables in one file, and the text index: `search_texts`, its trigrams, references of events to texts | `ingest_events` in one immediate transaction of the single writer; reads in transactions of their own | what PostgreSQL ingestion promises; a session's row spans, counts and titles its events in any order of arrival; the index holds the stored texts and nothing else |
| **Matching and ranking** (`search/matching/`) | none | folding, trigrams, pieces, ranges, fragments, order and pages of hits | a hit is a piece that holds the folded query, and every such piece is a hit; each shown with itself around it. Only the SQLite profile uses it so far (`search/mod.rs`) |
| **Search** (`storage/sqlite/search/`, `storage/postgres/search/`, `search/`) | none | session search, search within a session | the index finds what a scan finds; a hit opens |
| **Reads of usage** (`usage/mod.rs`, `storage/*/repository.rs`, `session_list.rs`, `comparison.rs`, `day_offsets.rs`, `usage/time_zone.rs`) | none | pages of events and sessions, headers, summaries, charts and their options | both profiles answer the same, ties at the limit of a summary aside; totals add up; pages lose nothing |
| **Attachments and previews** (`usage/attachments.rs`, `preview.rs`, `segments.rs`) | images of an event | validation, windows of entries, cut texts | a window shows what it asks for, once, and counts the rest |
| **HTTP API, identity** (`api.rs`, `identity.rs`, `error.rs`) | none | routing, token checks, error mapping | the owner of a request is the authenticated one |
| **Start and stop** (`main.rs`, `config.rs`, `db/`) | configuration | migrations, readiness, shutdown | shutdown lets the worker finish or aborts it |

### 1.2 How they interact

* A collector's POST is one call of `ingest_events` on a pooled connection. The
  transaction that inserts an event inserts its outbox row too.
* Each replica runs one indexer task. Replicas meet only in the database (rows of
  `search_outbox`, row locks) and in the index.
* `main.rs` signals shutdown over a watch channel and waits 15 seconds for the task, then
  aborts it (`storage/postgres.rs`, `shutdown`).
* Every read opens its own transaction (a snapshot in PostgreSQL, a read transaction of the
  write-ahead log in SQLite), except a chart, whose rows and options are two statements, and a
  search through Elasticsearch, which asks the index first and the database afterwards. Nothing is cached.

### 1.3 What is hard here

Statements of concurrent transactions interleave under READ COMMITTED with row locks that
depend on the batches' order; a collector that got no answer sends again; a replica may die
or be aborted anywhere, keep working after its lease has run out, or record half of a batch;
Elasticsearch may apply a request and not answer; events arrive late and out of order, also between
the pages of a list or between the steps of a search. The SQLite text index shares a text among all
events that hold it, and finds it by trigrams that short queries and NUL do not have. Two sets of SQL
statements have to answer the same. The list, line by line, is `hazards` in `PROJECT.json`.

## 2. Modules

| Module | Models | Uses |
|---|---|---|
| `SearchProjection` | abstract: every stored event is written to the index at least once or given up after `MaxAttempts` recorded failures | |
| `SearchOutbox` | outbox rows, workers, index, crashes, clock | implements `SearchProjection` |
| `MCSearchOutbox` | symmetry for TLC | `SearchOutbox` |
| `SearchOutboxProofs` | theorems about `SearchOutbox` | `SearchOutbox`, TLAPS |
| `EventStore` | abstract: batches are stored atomically, identifiers once, contents never change | |
| `PgIngest` | ingest transactions, statement by statement, with row locks and deadlocks | implements `EventStore` |
| `MCPgIngest` | four requests of two owners | `PgIngest` |
| `PgIngestProofs` | theorems about `PgIngest`; its last part about captures and titles | `PgIngest`, TLAPS |
| `StreamFacts` | the facts ingest reads from one event (`facts.rs`) | |
| `StreamBase` | session order, exchanges and their bases (`base.rs`) | `StreamFacts` |
| `StreamSegments` | turns, groups, side exchanges, segments (`turns.rs`, `segmentation.rs`) | `StreamBase` |
| `StreamTimeline` | the segment list, the turn view, runs and locations (`timeline.rs`, `streams.rs`) | `StreamSegments` |
| `SessionStreams` | an agent, the delivery of its events, and the structure derived at every moment | `StreamTimeline` |
| `MCSessionStreams` | eight clients | `SessionStreams` |
| `StreamProofs` | theorems about the segments, the turn view and all other views of any session | `SessionStreams`, `DataProofs` |
| `Matching` | folding, trigrams, occurrences, fragments, ranking (`search/matching/`) | |
| `Tables` | the tables, and what SQLite writes for one event and one capture | `Matching` |
| `SqliteStore` | the writer's transactions | `Tables`, implements `EventStore` |
| `MCSqliteStore` | three requests of two owners | `SqliteStore` |
| `DataProofs` | lemmas about data of any kind (flattened sequences, places in an order, sorted sets, pages, sums over finite sets, the first rows of a weak order, iterations and recursion along a measure) | TLAPS |
| `TablesProofs` | lemmas about what ingestion writes, and about matching, fragments and ranking of what a search reads | `Tables`, `DataProofs` |
| `SqliteStoreProofs` | theorems about `SqliteStore` | `SqliteStore`, `TablesProofs` |
| `Previews` | windows of a conversation (`preview.rs`) | `Matching` |
| `Reads` | validation, order, locations and responses that the profiles share (`usage/mod.rs`, `event_locations.rs`) | `Tables`, `Previews` |
| `SqliteReads`, `PgReads` | every read of a profile, query by query | `Reads` |
| `Queries` | a database that grows and readers that take several steps | `Reads`, instances of both profiles |
| `MCQueries` | four events of two owners, and their queries | `Queries` |
| `QueriesProofs` | theorems about walks through pages, about charts and their options, that summaries and charts add up, and that both searches through the index find what a scan finds | `Queries`, `TablesProofs` |
| `ProfilesProofs` | the theorem that both profiles answer the same, but for ties at the limit of a summary | `QueriesProofs` |

Operators named as mutants in their comment are variants of the definition that follows
them, each with a plausible bug; every property of a passing run has one that violates it
(`mutants` in `PROJECT.json`).

### 2.1 SearchOutbox

One autocommit SQL statement is one action, with two exceptions that are split: the
backfill's `INSERT ... SELECT` (snapshot, then insert) and the claiming `UPDATE` (rows locked
`FOR UPDATE SKIP LOCKED`, then commit), since a statement of another replica can fall in
between. A worker's program counter walks through `process_iteration`:

`top` (`ensure_index_ready`) → `backfill`, `backfillInsert`, `backfillCheck`
(`advance_backfill_batch`) → `claim`, `claiming`, `load` (`claim_and_prepare`) → `apply`
(`apply_bulk`, `apply_tasks`) → `record` (one step per row of `record_results`) → `top` after a
full batch or `idle` (`wait_for_next_poll`). Every statement can fail (`BackfillFails`,
`ClaimFails`, `RecordFails`), every bulk request can fail as a whole after any part of it was
applied, every item can fail; a replica can be asked to stop, crash anywhere, and start again
with empty memory. `Tick` is the database's clock; it runs leases out and makes retries
available. A crashed or aborted worker loses its batch, and its rows stay leased.

Abstractions. An outbox row is named by its event, since `(event_pk, operation)` is unique and
no code queues a `delete`. `ORDER BY id LIMIT n` is any choice of `n` rows, which includes the
code's. The clocks of a backend and of PostgreSQL are one clock. Events are immutable, so a
document is there or not, and a late bulk request only adds what the index may hold anyway.
`claimed_by` is written and never read by the code; the model reads it in properties only.

### 2.2 PgIngest

A table is a function from its unique key to a row. `cur` is the newest version of each row,
`base` the committed one, `lock` the open transaction that wrote it. An upsert or an
`ON CONFLICT` insert waits for the lock, then works on the newest version, as PostgreSQL does in READ
COMMITTED; a plain SELECT sees its own writes and the committed rows (`Visible`). The steps of
a request are those of `ingest_one_event` and `ingest_one_diagnostic_capture`: `CheckExists`,
`UpsertDevice`, `UpsertSession`, `InsertEvent` or `EventConflict`, `InsertChildren`, then
`InsertCapture`, `CaptureConflict` or `RejectCapture` for each capture, and `Commit`. Any
statement may fail (`Fail`, also a dying backend), the answer of a committed request may be lost
and the request sent again, and a transaction on a cycle of waits is aborted (`AbortDeadlock`).

Abstractions. The child rows of an event are one field (`whole`) of its row and the title is kept in
the session's row: both are written by the transaction that holds the parent row's lock.
Primary keys are any unused numbers, since UUIDs of several replicas follow no order. Versions
of agents and operating systems (refreshed with `coalesce`) are left out, as are key-share
locks of foreign keys, which conflict with no statement of ingestion. Rows are not deleted.
A resend that overlaps its first attempt is another member of `Requests` with the same batch.
Identifiers of captures are compared as sent by `validate_batch` and stored trimmed, so one request
can name one stored capture twice.

### 2.3 The structure of a session

`StreamFacts` to `StreamTimeline` are pure: `Structure(events)` is
`SessionStructure::derive` on the events `stream_events` reads. Facts are those of
`RequestFacts::read` and `ResponseFacts::read`; `Exchanges` is `group_exchanges`; `FindBase`,
`TellApart` and `FindBases` are the functions of those names; `Turns` is `Turns::assign`; `Groups`,
`Sides`, `HeadOf`, `ParentOf` and `Kind` are the passes of `Segmentation::cut`, where a segment is
named by its first exchange. Loops over `HashMap`s became sets; the loop of `Turns::assign`, whose
result depends on the order, is a recursive function of the position. `StreamTimeline` adds what
is shown of a structure: `StreamsOf` is `session_streams`, `SessionTurns` is `session_turns` with its nodes and
executors, `StartedFirst` is the stack of `started_first` (executors in passes, first those without a starter, then those
on a circle), `SegmentRun` and `EventPosition` are the functions of those names.

What the traffic means is not in the code, so `SessionStreams` writes it down: an agent starts contexts,
forks, goes back, retries, resends what it was told (`resend`), drops the words around calls
(`trim`), names the response it continues (`pointer`) or sends only results (`results`); its client
may declare turns and sub-agents for all or some exchanges, and have a clock that is behind, and it may wait until what was said is stored. The backend stores the
events in any order (`Store`); in every state `Derived` is compared with the agent's own record (`from`,
`TrueTurn`). The agent is external: nothing is proved of it, and the properties say under which of its habits the
derivation is right. `UniqueWordsFindTrueBases` and `ContinuationsAreFound` hold at every moment, whatever is missing;
`RepeatsAreToldApart` and the undeclared half of `TurnsAreTrue` need the complete session, since a reply that has not arrived cannot
be recognised. `TimelineShowsEverySegmentOnce`, `StartersComeFirst` and `ViewsAgree` are about what is shown, at every moment and whatever
parents the sub-agents declare. `SegmentsFormForest` has `EveryGroupHasAMainLine` for its first half.

Abstractions. A text is empty, blank or one of a few words, and its digest is the text. Identifiers of an agent's calls are
unique. Equal times on one side are ordered by the exchange's number, in place of the primary key.

### 2.4 Ingestion into SQLite

A request is `Send` (validation before any transaction), `Begin` (`BEGIN IMMEDIATE`, which waits for
the writer) or `Busy` (the `busy_timeout` is over), one `IngestEvent` per event, one
`IngestDiagnosticCapture` or a `RejectCapture` per capture, and `Commit`; `Fail` is a failed statement or
the death of the process, after which the log is rolled back. `db` is the committed database, `work` the
writer's, `pos` how far a request is, `reply` what its collector knows; a commit whose answer is lost
leaves `"error"`, and the collector sends again. What is written for one event is `Tables!IngestOne`, the
composition of the code's calls in their order: `UpsertDevice`, `UpsertSession`, `InsertEvent`,
`InsertImages`, `IndexEvent` (new texts with their folded trigrams, then a reference per piece),
`CaptureTitle`. The statements of one event are one step, since nobody sees the writer's version before
the commit and a failure rolls all of it back.

Abstractions. A text is a sequence of characters, and positions in it count characters where the code
counts bytes. An image's digest stands for its content. The lower case of a character is a constant;
FTS5 is the set of folded texts with their trigrams, and as the tokenizer does it finds no trigram with a NUL.

### 2.5 Reads

A read of one transaction is an operator on the committed database, an owner and a query; `SqliteReads`
and `PgReads` translate the SQL of each profile on its own, joins and filters and order included, and
`Reads` what they share. `Queries` lets the database grow event by event (what ingestion commits in
batches, by 2.4 and the refinement) and has one reader who may be in the middle of a read of several steps:
a walk through pages, from the first to the last (`WalkEvents`, `NextEvents`, `WalkSessions`, `NextSessions`), a chart
(`ReadChart`, then `ReadOptions`) or a search (`AskElasticsearch`, then `AnswerSearch`). More readers would not
interact: reads change nothing.

Abstractions. Elasticsearch answers with any hits in any order that pass the request's filters, and those of
any part of the stored events, since the index lags; its analysis and relevance are outside. A time zone is a
function from seconds to offsets, as the time zone database would be asked, defined wherever a day with events needs it;
its offset changes at most once a day (`ZoneConstants`), which `day_offsets.rs:12` says of every zone and relies on. A structure is represented by the ordered events it is derived
from (2.3 models the derivation), and the turn of a place in it is any function of both, `TurnOf`, under which many events may share a turn
and some have none. Primary keys are numbers, as in `PgIngest`. The user of a summary may name any users,
and the answer is limited to the caller's.

A summary is the set of all answers that SQL allows. `SummaryOrder` is the ORDER BY of the profile: tokens, then agent, then day, NULL
first in SQLite and last in PostgreSQL, the names of agents compared as bytes in one (`Binary`) and by the database's collation in the
other (`Collation`); `Limited` takes every sequence of as many rows as the limit that respects this order. PostgreSQL's third key, the
email, is that of one owner. NULL agents never meet others, since `agent_name` is NOT NULL and a column that is not grouped by is NULL
in every row; the same holds of days.

## 3. Runs

| Run | Question | Bounds |
|---|---|---|
| `outbox_batches` | can two replicas work on one row, a path forget a claimed row, a row get the result of another, or a replica end its backfill too early? | 2 replicas, 3 historical events, batches of 2, lease 1, 1 attempt, 1 stop |
| `outbox_faults` | what do crashes, failures, overruns and half recorded batches do to rows? | 2 replicas, 1 removable event, lease 1, 3 attempts, 2 stops, 1 failed statement |
| `outbox_liveness` | is everything settled in the end? | 2 replicas, 1 event, 2 attempts, 1 stop, 1 failed statement; every bulk request may fail |
| `outbox_dead_letters` (violation) | are dead letters terminal? | 2 replicas, 1 event |
| `pg_races` | what does any interleaving of overlapping batches commit? | 4 requests of 2 owners, 3 events, each sent up to twice |
| `pg_liveness` | does every transaction end? | 2 requests that deadlock |
| `pg_orphans` (violation) | can a session be committed without events? | 2 requests |
| `pg_devices` (violation) | does a session name its latest device? | 1 request |
| `stream_sessions` | does every moment's structure say what the agent did, and does every view show it once? | 8 clients; 3 exchanges with all replies and modes, 4 with forks of forks, 5 with nested and circular declarations |
| `stream_repeats` (violation) | is every base the exchange that is continued? | 3 exchanges of one client |
| `sqlite_store` | do sessions, titles and the text index stay exact, and batches whole, whatever fails? | 3 requests of 2 owners with 3 identifiers, each sent up to twice |
| `queries` | do both profiles answer the same and the truth at every moment, and do reads of several steps miss anything? | 4 events of 2 owners in 3 sessions, in every order; one reader; pages of 1 |

Why the bounds are enough to be interesting. Two replicas suffice for every pairwise race over a row,
and a lease shorter than a batch's life lets a worker be overrun by another one that claims,
retries and settles the row before the first answers. Two attempts put both sides of the
limit within reach. In `outbox_batches` three events over batches of two make a full batch, a part of one, and
a backfill that inserts less than a batch because another replica was faster; a batch of two also has one result of each kind, so that
`ProcessedIsApplied` would find them exchanged. In `outbox_faults` the event may be removed between the writing of its document and a
retry, which `StaleDocumentIsRemoved` is about. In `pg_races` two batches share an event, a session, a device and a capture's
events, take the devices in opposite orders (a deadlock), a third of another owner reuses an
`event_id`, and a fourth is rejected by validation; two requests of the session happened at the
same time, so that the title is decided by primary keys. In `stream_sessions` three exchanges make
two emitters of one text and a request that has to choose, a reply without an identity between two others, and a base whose
clock is later; the fourth exchange makes a group that is beside the main line of another turn, and five declared
sub-agents make a tree of two levels, a circle, and one that started itself; four more put a sub-agent that a circle leads to before the circle. In `sqlite_store` one text occurs twice in an event, in two
events and with two owners; two requests happened at the same time; two owners use one `event_id` and one capture identifier.
In `queries` the characters are a NUL, a letter in both cases and one of two UTF-16 code units; the queries have a
trigram, are too short for one, or have only one with a NUL; windows touch, overlap and lie beyond the end, and cut a
text inside a character; two events stand next to a change of the zone's offset, which changes back a day later; limits and pages of one row are exceeded.
Two summaries have a limit of one row and a tie at it: two agents whose names the profiles order differently, and two devices that no
order tells apart. An answer shares the turn of the request before it, and has none while that request has not arrived.

Fairness (`FairSpec`). `SearchOutbox`: tokio runs a ready task in the end (weak fairness of the
worker's steps and of its stop), time passes, a stopped replica is started again by its
supervisor, and an index check that is tried for ever succeeds at some time (strong fairness of
`EnsureIndex`). Nothing is assumed of bulk requests. Crashes and failed statements are bounded by
`MaxStops` and `MaxDbErrors`; without a bound a replica could crash at every claim. `PgIngest`:
a transaction that is not blocked takes its next statement and PostgreSQL's detector breaks
deadlocks. Deadlock checking is on where the system cannot stop and off in the ingest
runs, whose collectors stop when all requests are answered.

## 4. What is proved

`SearchOutboxProofs` proves for any number of events, replicas, retries and faults that the
inductive invariant `IInv` holds, and from it `TypeOK`, `ProcessedIsApplied`, `StaleDocumentIsRemoved`, `OneWorkerPerLease`,
`NoLeakedLease`, `DeadLetterIsEarned`, `AttemptsCountFailures`, `SettledOneWay`, `BackfillCompleteIsSound` and
that `SearchOutbox` implements `SearchProjection`. The properties are not inductive alone:
that a row is worked on by one replica rests on two claiming statements never holding the same
row (`LocksAreExclusive`), tasks existing only between claim and record (`TasksBelongToBatch`), and an
overrun being noticed when the lease ends (`OverrunIsSeen`); that a processed row was applied rests on
`ResultsAreTrue`, which follows the operations from `Load` to `record`; that no stale document is kept rests on the same, and on nobody else
working on the row within its lease; dead letters rest on
`CountsAreEarned`: a snapshot of `attempt_count` may be stale but never above the failures recorded.

`PgIngestProofs` proves for any requests, sharing rows in any way, `TypeOK`, `WritesAreIsolated`,
`AcceptedOnce`, `AckedIsStored`, `EventsAreWhole`, `RevisionAdvances` and that `PgIngest` implements `EventStore`.
The argument: a step of one transaction disturbs neither the locks nor the rows nor the place of
another (`Isolation`); rows are written under a lock and released together (`LocksAreHeld`); a locked
event is one its transaction inserted, and was not stored before (`LockedIsFresh`); what a
transaction has dealt with stays visible to it (`DoneIsVisible`), so at the commit its whole batch is;
upserts only widen (`UpsertsWiden`), and an uncommitted event refers to a session and a device its own
transaction holds, which already span it (`ItemIsBacked`, `NewEventsAreBacked`).

Its last part adds `CaptureIsWhole` and `TitleIsEarliestRequest`. The invariant says of the newest and of the
committed version of every row alike that a capture fits the events it names (`CaptureFits`) and a title
the complete requests of its session (`TitleFits`); it carries over a commit or a rollback because
an uncommitted event and the row of its session are held by one transaction, which moves both together. A
capture's transaction has read its events as committed or its own, so they are in the version its row is in (`CaptureIsSeen`).

`SqliteStoreProofs` proves, for any requests with any events and failures at any step, that `SqliteStore`
implements `EventStore`, that the rows and titles of sessions are true of their events (`SessionRowIsTrue`, with counts
of finite sets), and that what an answered request sent stays stored (`AnsweredIsStored`). The argument: an open transaction
only adds events of its own request (`OnlyInserts`), has stored all those it has passed (`DoneIsStored`),
and one event changes a session as the definition of the truth does: bounds that widen, a
count that grows by one, the earlier of two requests. Devices, images, captures and the text index are
written beside these tables (`WritesBeside`). And it proves `IndexIsExact`. The invariant `IndexTrue` says of each
version of the database that an owner's texts are there once, each with the folded trigrams of its characters, and that
the references of an event number its pieces, in order, with texts that read as they do. Writing an event has to keep all three: texts that were
there keep their numbers (`TextsGrow`), new ones get numbers nobody has, each text one, also when it occurs twice in
the event (`NumbersAreFresh`, `NewTextsAreFirst`), and each piece then finds its text (`TextIdFinds`). The pieces of
an event are a flattened sequence of sequences, which the model defines as a fold; that it is what it should be is shown by a least
counterexample (`FlattenIsDefined`, `FlattenIsASequence`), where an induction over data is out of reach.

`StreamProofs` is about any clients, any number of exchanges and any part of their events. Its invariant `SInv` says that what is
stored are requests and responses of the session, so that the structure is one derived from such events (`StructureIsDerived`); the rest
holds of every such structure (`IsDerived`), whatever the bases are. For both halves of `SegmentsFormForest` the passes
of the derivation are put together (`CutIsCut`): both searches for a base find an exchange or none (`FindBasesAreBases`); the first
exchange of a segment is not after any of its exchanges (`HeadIsFirst`), and a base counts for the parent
only if it is earlier, so that the parent's first exchange is earlier still (`ParentsComeBefore`).

`TimelineShowsEverySegmentOnce` and `StartersComeFirst` are about `started_first`, whose walks with a stack have to place every executor
once, below its starter, whatever the sub-agents declare. A walk ends, since every step places an executor or shortens the stack
(`StepGoesDown`, `WalkEnds`). The invariant of a walk, `Arranged`, says of the order so far and the stack together: nobody stands twice; between an executor
and its starter stand only descendants of the starter (`Follows`); what is on the stack was started by somebody placed, and those placed after that
starter descend from it; an executor before its starter was entered where a circle made it necessary (`Entered`). `PlacingKeeps` and
`PassingOverKeeps` carry it over one step, `DescendantsArePlaced` says that a walk leaves no descendant behind, and `PassArranges` puts the walks of both
passes together. Ancestors are the smallest closed set (`Above`), a circle is found by counting (`CircleExists`), and since the property
speaks of the executors as shown, all of this is moved along the permutation from the sorted to the shown order (`StartersMove`,
`AncestorsAreAbove`, `FollowsMoves`). Sorting needs that the order of executors tells any two apart (`ExecutorOrderIsOrder`, `ExecutorsInOrder`).

`ViewsAgree` relates five functions of `streams.rs` that walk the structure in their own ways: an exchange's turn is that of its segment's first one
(`HeadsShareTurn`), a run is the rest of a segment in order (`RunIs`), entry and head of a segment tell the same (`EntryAgrees`), and the counts of a
header are sums over nodes that show every exchange and every turn once (`EveryExchangeIsShown`, `EveryTurnIsShown`, `CountsAgree`).

`QueriesProofs` proves `OptionsCoverChart` and `WalkSeesEverything` for any events, queries and sizes of pages, from one
invariant, `QueriesInv`. For a chart: ingestion keeps every event and every device, so the events a chart was drawn from
(`RowsShowCharted`) are among those its options are read from later (`ChartedStays`). For a walk: every page is a part of
the whole list in its order (`PageShows`, `ListPageShows`), in which an event's place is the number of events ahead of it. What is due is
either seen or stands at or behind the place the walk has reached. An ingested event can only push it further
back (`RankGrows`), since the events ahead of it stay and keep their order; the next page then shows whatever stands
before its end. Sessions move: an active one jumps to the front, and out of the due, but one that was not active only loses its
place to others (`ListGrows`, `SessionsWalkStays`).

Its last part proves `TotalsAgree` for any database that ingestion reaches, any limit and any buckets. The model adds with folds
over finite sets; that they add (`FoldAdds`) and that a sum is the sum of the sums of its parts (`SumOfParts`) is shown by
least counterexamples in `DataProofs`. The rows of a summary divide the events it selects by
their groups, although the SQL aggregates by group and session first and by group afterwards (`SummaryIsDivided`); the turns of a row are counted
per session, and are the distinct ones its events have when each is located alone, since a structure holds every event of its session once
(`StreamIsWhole`, `TurnsAreFound`, `TurnsAreCounted`). Rows as many as the limit that
come first by a weak order exist (`AreFirst`, `FirstsExist`), and none that is left out has more tokens than
one of them, so that an event that is left out belongs to a row that no shown row falls short of (`LimitedIsTop`). The
buckets of a chart follow one another (`BucketsFollow`), so every event in its span falls in one (`OneBucket`), and the sums of the
rows are the sum of what was charted (`ChartAddsUp`).

`SearchIsScan` is proved there too. A search of the SQLite profile asks FTS5 for the trigrams of a query, or scans the folded texts if there are none, keeps the
texts that hold the query, and joins them with references, events and sessions; what it answers has to be true of the pieces of the events themselves. The invariant is `Searchable`: the
index is exact (`IndexTrue`, as in `SqliteStoreProofs`) and every event has a conversation. A text that holds the query has each trigram of it,
also where a NUL stands (`MatchesAreCandidates`), so the texts a search keeps are exactly those that match (`MatchingTexts`), and its hits mirror those of the scan:
each stands for a piece with the same text, event, entry and time, and the other way round (`HitsMirrorScan`, with
`Mirrors`). Ranking looks at nothing else (`SameRanking`), so both rank alike although their texts have different names. The rest is about the ranking itself: what is sorted is there once, in order; a page is a part
of the whole (`PageIsRanked`); the pages of a session's matches and its new ones are those of the scan
(`PageAnswers`); and a fragment is text of the piece around its first occurrence, with a match in it, whatever the cuts at
its ends (`FragmentsMatch`). Nothing is lost when the page is turned into an answer, since every row it names is in the snapshot it was read from (`ResponseIsWhole`).

`InSessionSearchIsScan` rests on the same invariant and mirror. The texts a session's search finds are those of its own references, so its hits are the session's part
of a search everywhere (`HitsHereFind`); no two of them share an event, an entry and a field, so they are as many as the pieces of the scan
(`MirrorsCount`), their order is total, and the query's limit leaves the first `MaxInSessionHits + 1` of it (`HitsAreSorted`, `HitsHereAreListed`): one more than is
answered, which tells whether there are more. A hit must also open. The preview of the one entry it names is that entry (`OneEntryIsShown`), and a text cut to the end of a
match, in UTF-16 units and never inside a character, still holds the match at the offset that was answered (`CutHolds`, from `BeginningHolds`:
neither a character's units nor its folded form depend on what follows it).

`ProfilesProofs` proves `ProfilesAgree`, of every read, query, zone and database that ingestion reaches. The hard part is the
day of an event, which PostgreSQL computes and SQLite looks up in a table that `utc_offset_changes` builds by walking the zone a day at a
time and bisecting every day whose ends differ. A day has one change at most (`OffsetChangesOnce`), so the bisection, whose recursive
definition is solved along the length of its span (`NarrowedIsSolved`), ends at it (`NarrowedFinds`); the table then tells the offset of every
second from the first event to the last (`WalkedOffsetsTell`, `DayIsTold`). The rest compares SQL with SQL: a summary grouped in two steps
with one grouped at once (`SqliteSummaryIsGrouped`, `PostgresSummaryIsGrouped`), the first rows by one order with the first rows by another, which are as many and differ in ties only,
since both put more tokens first (`OrdersAreWeak`, `BothShowTop`, `SummariesAgree`); buckets that are joined with buckets that are assigned
(`ChartsAgree`), titles that are joined through their request with titles that are read alone (`TitlesAgree`). The last is true only because a title
is registered for a stored request of its own session, which the invariant `AnswersInv` adds to `QueriesInv` (`Backed`).

The assumptions are those of the modules: limits are positive numbers, tables have keys and rows of their
own, batches are sequences of submissions, entries are named texts, agents have places in both orders of names, a session's identifier and the bounds of new entries are numbers, the queries of lists, searches and charts are valid
(`QueryConstants`; event pages and summaries are also asked for kinds that are refused), a zone changes its offset at most once a day
and is defined where events are, a stored row is not the mark of an absent one (`RowsArePresent`), a client's
script is a sequence, and an absent identifier is not a number (`StreamConstants`). TLC checks each inductive invariant's parts as far as
they are properties of a run, and evaluates the assumptions in every run.

Only model-checked. Liveness (`EverySettles`, `EveryRequestAnswered`), since fairness and ENABLED are beyond the prover.
Of `SessionStreams`, `UniqueWordsFindTrueBases`, `RepeatsAreToldApart`, `ContinuationsAreFound` and `TurnsAreTrue` compare what is derived with
what an external agent did; they hold of the clients of the run and not of any, so there is no theorem for every value of the constants.
Of `Queries`, `ShownOpens`: it asks for previews of every kind, and what the runs of a window merge into is a fold over ranges; what such a
recursion computes for every input needs an induction over data. (The window of `InSessionSearchIsScan` has one run.)

## 5. Where the repository says something else

* *Dead letters are terminal* (`migrations/.../up.sql:157`). `record_results` updates rows by identifier
  alone, without asking whether the claim is still its worker's. A worker that outlives its lease
  writes over a dead letter. The same lack of a fence lets a stale worker lower
  `attempt_count` (`outbox.rs:40`); no count is ever invented (`DeadLetterIsEarned` is proved).
* *The hierarchy cannot be created without its events* (`repository.rs:154`). A request that loses
  the race for an `event_id` to another owner keeps the session it upserted. Such a session has no
  event: the session list, which joins from the sessions, finds it, and since asking its structure answers 404, so does the page that shows it.
* *The device reference follows the most recently observed device* (`up.sql:36`). It follows the event
  inserted last; a late event moves the session to an older device.

* *Every request has at most one base, the exchange whose output its context continues* (`usage/streams.rs:4`).
  An agent that answers "ok", is continued by a pointer and answers "ok" again has its third request, which resends both
  answers, linked to the first: `RequestFacts::read` skips repeats of the last identity, finds nothing before it, and
  `tell_apart` keeps the emitter that said it first, without context. `RepeatsAreToldApart` shows that only contexts
  that hold the words twice are misled.

*Aggregate rows ordered by token usage and stable tie-breakers* (`usage/mod.rs:245`) has no run: rows of a summary that differ in device,
provider, model or event type only have no tie-breaker (`storage/postgres/repository.rs:140`, `storage/sqlite/repository.rs:1059`). With as
many tokens they come in any order, and a limit may keep any of them. The profiles order ties differently too, agents' names as bytes or by
the database's collation. `ProfilesAgree` therefore says of a summary that both profiles answer as many rows, and the same ones unless the
limit cuts between rows with as many tokens; it says nothing of their order, and nothing of which of the tied rows are shown.

*A cycle ... is entered at its earliest member in the second pass* (`timeline.rs:217`) has no run either: that pass walks the executors that are left in
order, and an executor that merely descends from a circle may come before the circle's members. It then stands before its starter. `StartersComeFirst`
states what the code does, and is proved.

Two more passages of the repository's `README.md` describe an older derivation and have no run: lines 123-126 count every
request with `starts_turn` as a turn, while `turns.rs:38-50` ignores those that continue no context after the first
(a sub-agent's task); lines 183-184 call a text of several exchanges ambiguous, while `tell_apart` chooses among them.

## 6. Not modelled, and why

* The HTTP API, identity and error mapping are stateless; their effect here is the owner of a request, a
  constant. Configuration and migrations run once before the listener starts; the limits they set are constants.
* A power loss. With `synchronous = NORMAL` (`connection.rs:26`) SQLite may then lose committed transactions of the log; how
  many depends on the operating system. A crash of the process, which loses none of them, is `Fail`.
* Elasticsearch's analysis and relevance, FTS5's storage, base64, hashes and image decoding: libraries. The outbox's
  index is a set of documents; its mapping and its HTTP errors are outcomes of `ApplyBulk`.
* A blank `event_type`. The PostgreSQL summary rejects it (`storage/postgres/repository.rs:1399`), where SQLite ignores it;
  A wrong one is refused by both, but SQLite first looks whether the user filter leaves anything, and answers with an empty summary if
  not (`storage/sqlite/repository.rs:886`). `ProfilesAgree` excludes both from summaries (`Comparable`) and says nothing about which is meant.
* Deletion of sessions or events: no code does it; the outbox treats a removed event as an outside intervention.
* Key-share locks of foreign keys and the statements of agents' and systems' versions (2.2).
