---------------------------- MODULE SearchOutbox ----------------------------
(***************************************************************************)
(* The projection of stored events into the search index: the outbox table *)
(* of the PostgreSQL profile (storage/postgres/search/outbox.rs) and the    *)
(* indexer workers of the backend replicas that drain it into               *)
(* Elasticsearch (search/worker.rs, search/elasticsearch.rs).               *)
(*                                                                         *)
(* One autocommit SQL statement is one step.  Two statements are split in   *)
(* two, because another replica's statement can run between the snapshot    *)
(* (or the row locks) they take and their commit: the INSERT ... SELECT of  *)
(* the backfill and the claiming UPDATE.  An outbox row is named by its     *)
(* event: (event_pk, 'upsert') is unique and nothing queues a 'delete'.     *)
(***************************************************************************)
EXTENDS Integers, FiniteSets

CONSTANTS
  Events,         \* primary keys of usage events
  Historical,     \* events stored before the outbox existed: they have no row
  Removable,      \* events an operator may delete from the database by hand
  Workers,        \* indexer workers, one per backend replica
  NoWorker,       \* the NULL of claimed_by
  BatchSize,      \* ABYSS_BACKEND_SEARCH_BATCH_SIZE
  LeaseSeconds,   \* OUTBOX_LEASE_SECONDS
  MaxAttempts,    \* MAX_OUTBOX_ATTEMPTS
  MaxRetryDelay,  \* MAX_RETRY_DELAY_SECONDS
  MaxStops,       \* bound: crashes and shutdowns of replicas
  MaxDbErrors     \* bound: statements that PostgreSQL fails

ASSUME OutboxConstants ==
  /\ Historical \subseteq Events
  /\ Removable \subseteq Events
  /\ NoWorker \notin Workers
  /\ BatchSize \in Nat \ {0}
  /\ LeaseSeconds \in Nat
  /\ MaxAttempts \in Nat \ {0}
  /\ MaxRetryDelay \in Nat
  /\ MaxStops \in Nat
  /\ MaxDbErrors \in Nat

VARIABLES
  (* The database. *)
  events,     \* rows of llm_usage_events
  removed,    \* events that were stored and have been deleted by hand
  queued,     \* rows of search_outbox, by event
  attempt,    \* attempt_count
  wait,       \* seconds until available_at
  owner,      \* claimed_by
  age,        \* seconds since claimed_at, up to one more than the lease
  processed,  \* rows with processed_at set
  dead,       \* rows with dead_lettered_at set
  (* Elasticsearch. *)
  docs,       \* documents of the search index
  (* The memory of each worker. *)
  pc,         \* where its loop stands
  ready,      \* workers with index_ready set
  complete,   \* workers with backfill_complete set
  stopping,   \* workers whose shutdown channel holds true
  picked,     \* rows its statement, or the batch it works on, selected
  tasks,      \* rows of its batch whose result is not recorded yet
  snap,       \* attempt_count of each task when it was claimed
  deletes,    \* tasks whose operation is Delete
  failed,     \* tasks whose result is an error
  (* History, read by properties only. *)
  failures,   \* failures recorded for a row
  overrun,    \* rows whose claim expired while its worker still worked on them
  abandoned,  \* rows leased to a worker that lost them to a crash or an error
  stops,      \* crashes and shutdowns so far
  dbErrors    \* failed statements so far

rowVars    == <<attempt, wait, owner, age, processed, dead>>
sourceVars == <<events, removed>>
batchVars  == <<tasks, snap, deletes, failed>>
memoryVars == <<ready, complete, stopping>>
boundVars  == <<stops, dbErrors>>
vars == <<sourceVars, queued, rowVars, docs, pc, memoryVars, picked, batchVars,
          failures, overrun, abandoned, boundVars>>

Locations == {"top", "backfill", "backfillInsert", "backfillCheck", "claim",
              "claiming", "load", "apply", "record", "idle", "stopped"}

-----------------------------------------------------------------------------
(* Helpers. *)

AtMost(n, S) == IF Cardinality(S) < n THEN Cardinality(S) ELSE n

\* The sets "... ORDER BY id LIMIT n" can select out of S: which rows have the
\* smallest identifiers is left open.
Limited(S, n) == {T \in SUBSET S : Cardinality(T) = AtMost(n, S)}

PowersOfTwo == <<2, 4, 8, 16, 32, 64, 128, 256>>

\* Seconds before a task that has failed n times is available again.
RetryDelay(n) ==
  LET exponent == IF n < 1 THEN 1 ELSE IF n > 8 THEN 8 ELSE n
      delay    == PowersOfTwo[exponent]
  IN  IF delay < MaxRetryDelay THEN delay ELSE MaxRetryDelay

\* Rows a claiming UPDATE holds FOR UPDATE until it commits.
Locked == UNION {picked[w] : w \in {v \in Workers : pc[v] = "claiming"}}

LeaseExpired(e) == owner[e] # NoWorker /\ age[e] > LeaseSeconds

\* Mutant: a row is claimed whether or not its lease has run out.
ClaimableWhileLeased ==
  {e \in queued \ (processed \cup dead) : wait[e] = 0}

\* Mutant: a claimed row is left to its worker for ever.
ClaimableWhenFree ==
  {e \in queued \ (processed \cup dead) : wait[e] = 0 /\ owner[e] = NoWorker}

\* Mutant: dead letters are claimed again.
ClaimableWhenDead ==
  {e \in queued \ processed :
     wait[e] = 0 /\ (owner[e] = NoWorker \/ LeaseExpired(e))}

Claimable ==
  {e \in queued \ (processed \cup dead) :
     wait[e] = 0 /\ (owner[e] = NoWorker \/ LeaseExpired(e))}

\* Events without an outbox row.
Missing == events \ queued

Init ==
  /\ events = Historical /\ removed = {} /\ queued = {}
  /\ attempt = [e \in Events |-> 0]
  /\ wait = [e \in Events |-> 0]
  /\ owner = [e \in Events |-> NoWorker]
  /\ age = [e \in Events |-> 0]
  /\ processed = {} /\ dead = {} /\ docs = {}
  /\ pc = [w \in Workers |-> "top"]
  /\ ready = {} /\ complete = {} /\ stopping = {}
  /\ picked = [w \in Workers |-> {}]
  /\ tasks = [w \in Workers |-> {}]
  /\ snap = [w \in Workers |-> [e \in Events |-> 0]]
  /\ deletes = [w \in Workers |-> {}]
  /\ failed = [w \in Workers |-> {}]
  /\ failures = [e \in Events |-> 0]
  /\ overrun = {} /\ abandoned = {}
  /\ stops = 0 /\ dbErrors = 0

-----------------------------------------------------------------------------
(* The rest of the backend, and the world around it. *)

\* An ingest transaction commits a new event together with its outbox row.
Ingest(e) ==
  /\ e \notin events \cup removed
  /\ events' = events \cup {e}
  /\ queued' = queued \cup {e}
  /\ UNCHANGED <<removed, rowVars, docs, pc, memoryVars, picked, batchVars,
                 failures, overrun, abandoned, boundVars>>

\* An operator deletes an event row; its outbox row survives (no foreign key).
RemoveEvent(e) ==
  /\ e \in events \cap Removable
  /\ events' = events \ {e}
  /\ removed' = removed \cup {e}
  /\ UNCHANGED <<queued, rowVars, docs, pc, memoryVars, picked, batchVars,
                 failures, overrun, abandoned, boundVars>>

\* A second passes: retries come due, and leases run out.
Tick ==
  /\ wait' = [e \in Events |-> IF wait[e] > 0 THEN wait[e] - 1 ELSE 0]
  /\ age' = [e \in Events |->
               IF owner[e] # NoWorker /\ age[e] <= LeaseSeconds
               THEN age[e] + 1 ELSE age[e]]
  /\ overrun' = overrun \cup {e \in Events : /\ owner[e] # NoWorker
                                            /\ age'[e] > LeaseSeconds
                                            /\ e \in tasks[owner[e]]}
  /\ UNCHANGED <<sourceVars, queued, attempt, owner, processed, dead, docs, pc,
                 memoryVars, picked, batchVars, failures, abandoned, boundVars>>

-----------------------------------------------------------------------------
(* One iteration of a worker. *)

Goto(w, there) == pc' = [pc EXCEPT ![w] = there]

\* A statement of the worker fails: the iteration ends, and so does what the
\* worker knew about its batch.
DbError(w) ==
  /\ dbErrors < MaxDbErrors
  /\ dbErrors' = dbErrors + 1
  /\ Goto(w, "idle")
  /\ picked' = [picked EXCEPT ![w] = {}]

DropBatch(w) ==
  /\ tasks' = [tasks EXCEPT ![w] = {}]
  /\ snap' = [snap EXCEPT ![w] = [e \in Events |-> 0]]
  /\ deletes' = [deletes EXCEPT ![w] = {}]
  /\ failed' = [failed EXCEPT ![w] = {}]
  /\ abandoned' = abandoned \cup {e \in tasks[w] : owner[e] = w}

\* The index is known to exist, exists, or can be created.
EnsureIndex(w) ==
  /\ pc[w] = "top" /\ w \notin stopping
  /\ ready' = ready \cup {w}
  /\ Goto(w, IF w \in complete THEN "claim" ELSE "backfill")
  /\ UNCHANGED <<sourceVars, queued, rowVars, docs, complete, stopping, picked,
                 batchVars, failures, overrun, abandoned, boundVars>>

EnsureIndexFails(w) ==
  /\ pc[w] = "top" /\ w \notin stopping
  /\ w \notin ready
  /\ Goto(w, "idle")
  /\ UNCHANGED <<sourceVars, queued, rowVars, docs, memoryVars, picked,
                 batchVars, failures, overrun, abandoned, boundVars>>

\* The INSERT ... SELECT of the backfill reads its snapshot.
BackfillSelect(w) ==
  /\ pc[w] = "backfill"
  /\ \E S \in Limited(Missing, BatchSize) : picked' = [picked EXCEPT ![w] = S]
  /\ Goto(w, "backfillInsert")
  /\ UNCHANGED <<sourceVars, queued, rowVars, docs, memoryVars, batchVars,
                 failures, overrun, abandoned, boundVars>>

\* Mutant: an insert of less than a batch is taken for the end of the backfill.
BackfillEndsOnShortInsert(w) ==
  /\ pc[w] = "backfillInsert"
  /\ queued' = queued \cup picked[w]
  /\ complete' = IF Cardinality(picked[w] \ queued) < BatchSize
                 THEN complete \cup {w} ELSE complete
  /\ Goto(w, "claim")
  /\ picked' = [picked EXCEPT ![w] = {}]
  /\ UNCHANGED <<sourceVars, rowVars, docs, ready, stopping, batchVars, failures,
                 overrun, abandoned, boundVars>>

\* It inserts what no other replica has inserted since (ON CONFLICT DO NOTHING).
BackfillInsert(w) ==
  /\ pc[w] = "backfillInsert"
  /\ queued' = queued \cup picked[w]
  /\ Goto(w, IF Cardinality(picked[w] \ queued) >= BatchSize
             THEN "claim" ELSE "backfillCheck")
  /\ picked' = [picked EXCEPT ![w] = {}]
  /\ UNCHANGED <<sourceVars, rowVars, docs, memoryVars, batchVars, failures,
                 overrun, abandoned, boundVars>>

\* A second statement decides whether any event is left without a row.
BackfillCheck(w) ==
  /\ pc[w] = "backfillCheck"
  /\ complete' = IF Missing = {} THEN complete \cup {w} ELSE complete
  /\ Goto(w, "claim")
  /\ UNCHANGED <<sourceVars, queued, rowVars, docs, ready, stopping, picked,
                 batchVars, failures, overrun, abandoned, boundVars>>

BackfillFails(w) ==
  /\ pc[w] \in {"backfill", "backfillInsert", "backfillCheck"}
  /\ DbError(w)
  /\ UNCHANGED <<sourceVars, queued, rowVars, docs, memoryVars, batchVars,
                 failures, overrun, abandoned, stops>>

\* The claiming statement locks claimable rows, skipping locked ones.
ClaimSelect(w) ==
  /\ pc[w] = "claim"
  /\ Claimable \ Locked # {}
  /\ \E S \in Limited(Claimable \ Locked, BatchSize) :
       picked' = [picked EXCEPT ![w] = S]
  /\ Goto(w, "claiming")
  /\ UNCHANGED <<sourceVars, queued, rowVars, docs, memoryVars, batchVars,
                 failures, overrun, abandoned, boundVars>>

ClaimNothing(w) ==
  /\ pc[w] = "claim"
  /\ Claimable \ Locked = {}
  /\ Goto(w, "idle")
  /\ UNCHANGED <<sourceVars, queued, rowVars, docs, memoryVars, picked,
                 batchVars, failures, overrun, abandoned, boundVars>>

\* It commits: the rows are leased, and returned with their attempt_count.
ClaimCommit(w) ==
  /\ pc[w] = "claiming"
  /\ owner' = [e \in Events |-> IF e \in picked[w] THEN w ELSE owner[e]]
  /\ age' = [e \in Events |-> IF e \in picked[w] THEN 0 ELSE age[e]]
  /\ tasks' = [tasks EXCEPT ![w] = picked[w]]
  /\ snap' = [snap EXCEPT ![w] = [e \in Events |->
                 IF e \in picked[w] THEN attempt[e] ELSE 0]]
  /\ abandoned' = abandoned \ picked[w]
  /\ Goto(w, "load")
  /\ UNCHANGED <<sourceVars, queued, attempt, wait, processed, dead, docs,
                 memoryVars, picked, deletes, failed, failures, overrun, boundVars>>

\* The events of the claimed rows are loaded; a missing one becomes a Delete.
Load(w) ==
  /\ pc[w] = "load"
  /\ deletes' = [deletes EXCEPT ![w] = tasks[w] \ events]
  /\ Goto(w, "apply")
  /\ UNCHANGED <<sourceVars, queued, rowVars, docs, memoryVars, picked, tasks,
                 snap, failed, failures, overrun, abandoned, boundVars>>

\* Claiming or loading fails; after the commit the rows stay leased.
ClaimFails(w) ==
  /\ pc[w] \in {"claim", "claiming", "load"}
  /\ DbError(w)
  /\ DropBatch(w)
  /\ UNCHANGED <<sourceVars, queued, rowVars, docs, memoryVars, failures,
                 overrun, stops>>

\* Mutant: the operation of an event that is gone is left out of the request.
AppliedWithoutDeletes(w, done) == docs \cup (done \ deletes[w])

\* What the index holds once the operations of the tasks in done are applied.
Applied(w, done) == (docs \cup (done \ deletes[w])) \ (done \cap deletes[w])

\* Mutant: results are paired with tasks without counting them; tasks beyond a
\* short response are dropped.
BulkResponseTruncated(w) ==
  /\ pc[w] = "apply"
  /\ \E kept \in SUBSET tasks[w] :
       /\ tasks' = [tasks EXCEPT ![w] = kept]
       /\ docs' = Applied(w, kept)
       /\ deletes' = [deletes EXCEPT ![w] = @ \cap kept]
  /\ failed' = [failed EXCEPT ![w] = {}]
  /\ Goto(w, "record")
  /\ UNCHANGED <<sourceVars, queued, rowVars, memoryVars, picked, snap, failures,
                 overrun, abandoned, boundVars>>

\* Mutant: results are paired with tasks in another order.
BulkResponseShuffled(w) ==
  /\ pc[w] = "apply"
  /\ \E bad, others \in SUBSET tasks[w] :
       /\ Cardinality(others) = Cardinality(bad)
       /\ docs' = Applied(w, tasks[w] \ bad)
       /\ failed' = [failed EXCEPT ![w] = others]
       /\ ready' = IF bad # {} THEN ready \ {w} ELSE ready
  /\ Goto(w, "record")
  /\ UNCHANGED <<sourceVars, queued, rowVars, complete, stopping, picked, tasks,
                 snap, deletes, failures, overrun, abandoned, boundVars>>

\* A bulk response carries one result per item.
BulkResponse(w) ==
  /\ pc[w] = "apply"
  /\ \E bad \in SUBSET tasks[w] :
       /\ docs' = Applied(w, tasks[w] \ bad)
       /\ failed' = [failed EXCEPT ![w] = bad]
       /\ ready' = IF bad # {} THEN ready \ {w} ELSE ready
  /\ Goto(w, "record")
  /\ UNCHANGED <<sourceVars, queued, rowVars, complete, stopping, picked, tasks,
                 snap, deletes, failures, overrun, abandoned, boundVars>>

\* Mutant: a request that fails as a whole leaves no task marked as failed.
BulkErrorForgotten(w) ==
  /\ pc[w] = "apply"
  /\ \E done \in SUBSET tasks[w] : docs' = Applied(w, done)
  /\ Goto(w, "record")
  /\ UNCHANGED <<sourceVars, queued, rowVars, memoryVars, picked, batchVars,
                 failures, overrun, abandoned, boundVars>>

\* A transport error, a timeout, an error status or a malformed response: any
\* part of the operations may have been applied, and every task failed.
BulkError(w) ==
  /\ pc[w] = "apply"
  /\ \E done \in SUBSET tasks[w] : docs' = Applied(w, done)
  /\ failed' = [failed EXCEPT ![w] = tasks[w]]
  /\ ready' = ready \ {w}
  /\ Goto(w, "record")
  /\ UNCHANGED <<sourceVars, queued, rowVars, complete, stopping, picked, tasks,
                 snap, deletes, failures, overrun, abandoned, boundVars>>

\* The update of a row is done with its task; it waits for a claim's row lock.
Recorded(w, e) ==
  /\ pc[w] = "record"
  /\ e \in tasks[w] \ Locked
  /\ tasks' = [tasks EXCEPT ![w] = @ \ {e}]
  /\ snap' = [snap EXCEPT ![w][e] = 0]
  /\ deletes' = [deletes EXCEPT ![w] = @ \ {e}]
  /\ failed' = [failed EXCEPT ![w] = @ \ {e}]
  /\ owner' = [owner EXCEPT ![e] = NoWorker]
  /\ age' = [age EXCEPT ![e] = 0]
  /\ abandoned' = abandoned \ {e}

RecordSuccess(w, e) ==
  /\ Recorded(w, e)
  /\ e \notin failed[w]
  /\ processed' = processed \cup {e}
  /\ UNCHANGED <<sourceVars, queued, attempt, wait, dead, docs, pc, memoryVars,
                 picked, failures, overrun, boundVars>>

\* Mutant: a retry waits, but does not count.
RecordRetryUncounted(w, e) ==
  /\ Recorded(w, e)
  /\ e \in failed[w]
  /\ snap[w][e] + 1 < MaxAttempts
  /\ wait' = [wait EXCEPT ![e] = RetryDelay(snap[w][e] + 1)]
  /\ failures' = [failures EXCEPT ![e] = @ + 1]
  /\ UNCHANGED <<sourceVars, queued, attempt, processed, dead, docs, pc,
                 memoryVars, picked, overrun, boundVars>>

\* Mutant: a retry waits for two to the power of its attempts, however many.
RecordRetryUncapped(w, e) ==
  /\ Recorded(w, e)
  /\ e \in failed[w]
  /\ snap[w][e] + 1 < MaxAttempts
  /\ attempt' = [attempt EXCEPT ![e] = snap[w][e] + 1]
  /\ wait' = [wait EXCEPT ![e] = 2 ^ (snap[w][e] + 1)]
  /\ failures' = [failures EXCEPT ![e] = @ + 1]
  /\ UNCHANGED <<sourceVars, queued, processed, dead, docs, pc, memoryVars,
                 picked, overrun, boundVars>>

RecordRetry(w, e) ==
  /\ Recorded(w, e)
  /\ e \in failed[w]
  /\ snap[w][e] + 1 < MaxAttempts
  /\ attempt' = [attempt EXCEPT ![e] = snap[w][e] + 1]
  /\ wait' = [wait EXCEPT ![e] = RetryDelay(snap[w][e] + 1)]
  /\ failures' = [failures EXCEPT ![e] = @ + 1]
  /\ UNCHANGED <<sourceVars, queued, processed, dead, docs, pc, memoryVars,
                 picked, overrun, boundVars>>

\* Mutant: a task is given up one attempt early.
RecordDeadLetterEarly(w, e) ==
  /\ Recorded(w, e)
  /\ e \in failed[w]
  /\ snap[w][e] + 2 >= MaxAttempts
  /\ attempt' = [attempt EXCEPT ![e] = snap[w][e] + 1]
  /\ dead' = dead \cup {e}
  /\ failures' = [failures EXCEPT ![e] = @ + 1]
  /\ UNCHANGED <<sourceVars, queued, wait, processed, docs, pc, memoryVars,
                 picked, overrun, boundVars>>

RecordDeadLetter(w, e) ==
  /\ Recorded(w, e)
  /\ e \in failed[w]
  /\ snap[w][e] + 1 >= MaxAttempts
  /\ attempt' = [attempt EXCEPT ![e] = snap[w][e] + 1]
  /\ dead' = dead \cup {e}
  /\ failures' = [failures EXCEPT ![e] = @ + 1]
  /\ UNCHANGED <<sourceVars, queued, wait, processed, docs, pc, memoryVars,
                 picked, overrun, boundVars>>

\* Every row of the batch is recorded: a full batch is followed by the next
\* iteration at once, a smaller one by the poll interval.
BatchDone(w) ==
  /\ pc[w] = "record" /\ tasks[w] = {}
  /\ Goto(w, IF Cardinality(picked[w]) >= BatchSize THEN "top" ELSE "idle")
  /\ picked' = [picked EXCEPT ![w] = {}]
  /\ UNCHANGED <<sourceVars, queued, rowVars, docs, memoryVars, batchVars,
                 failures, overrun, abandoned, boundVars>>

\* Recording fails half way: the error is logged, the other rows stay leased.
RecordFails(w) ==
  /\ pc[w] = "record" /\ tasks[w] # {}
  /\ dbErrors < MaxDbErrors
  /\ dbErrors' = dbErrors + 1
  /\ Goto(w, IF Cardinality(picked[w]) >= BatchSize THEN "top" ELSE "idle")
  /\ picked' = [picked EXCEPT ![w] = {}]
  /\ DropBatch(w)
  /\ UNCHANGED <<sourceVars, queued, rowVars, docs, memoryVars, failures,
                 overrun, stops>>

\* The poll interval has elapsed.
WakeUp(w) ==
  /\ pc[w] = "idle" /\ w \notin stopping
  /\ Goto(w, "top")
  /\ UNCHANGED <<sourceVars, queued, rowVars, docs, memoryVars, picked,
                 batchVars, failures, overrun, abandoned, boundVars>>

-----------------------------------------------------------------------------
(* Shutdown, crash and restart of a replica. *)

RequestShutdown(w) ==
  /\ pc[w] # "stopped" /\ w \notin stopping
  /\ stops < MaxStops
  /\ stops' = stops + 1
  /\ stopping' = stopping \cup {w}
  /\ UNCHANGED <<sourceVars, queued, rowVars, docs, pc, ready, complete, picked,
                 batchVars, failures, overrun, abandoned, dbErrors>>

\* The loop sees the request at its top or while it waits for the next poll.
StopGracefully(w) ==
  /\ pc[w] \in {"top", "idle"} /\ w \in stopping
  /\ Goto(w, "stopped")
  /\ UNCHANGED <<sourceVars, queued, rowVars, docs, memoryVars, picked,
                 batchVars, failures, overrun, abandoned, boundVars>>

\* The process dies, or shutdown aborts the task after its fifteen seconds; a
\* claim that has not committed is rolled back, a committed one stays leased.
Crash(w) ==
  /\ pc[w] # "stopped"
  /\ \/ stops < MaxStops /\ stops' = stops + 1 /\ UNCHANGED stopping
     \/ w \in stopping /\ UNCHANGED <<stops, stopping>>
  /\ Goto(w, "stopped")
  /\ picked' = [picked EXCEPT ![w] = {}]
  /\ DropBatch(w)
  /\ UNCHANGED <<sourceVars, queued, rowVars, docs, ready, complete, failures,
                 overrun, dbErrors>>

\* A new process: nothing of the old worker's memory survives.
Start(w) ==
  /\ pc[w] = "stopped"
  /\ ready' = ready \ {w}
  /\ complete' = complete \ {w}
  /\ stopping' = stopping \ {w}
  /\ Goto(w, "top")
  /\ UNCHANGED <<sourceVars, queued, rowVars, docs, picked, batchVars, failures,
                 overrun, abandoned, boundVars>>

-----------------------------------------------------------------------------

Record(w) == \E e \in Events : RecordSuccess(w, e) \/ RecordRetry(w, e)
                                                  \/ RecordDeadLetter(w, e)

\* What a worker does by itself when nothing goes wrong in PostgreSQL.
Work(w) ==
  \/ BackfillSelect(w) \/ BackfillInsert(w) \/ BackfillCheck(w)
  \/ ClaimSelect(w) \/ ClaimNothing(w) \/ ClaimCommit(w) \/ Load(w)
  \/ BulkResponse(w) \/ BulkError(w)
  \/ Record(w) \/ BatchDone(w) \/ WakeUp(w)

Worker(w) ==
  \/ EnsureIndex(w) \/ EnsureIndexFails(w)
  \/ Work(w)
  \/ BackfillFails(w) \/ ClaimFails(w) \/ RecordFails(w)
  \/ RequestShutdown(w) \/ StopGracefully(w) \/ Crash(w) \/ Start(w)

Next ==
  \/ \E e \in Events : Ingest(e) \/ RemoveEvent(e)
  \/ Tick
  \/ \E w \in Workers : Worker(w)

Spec == Init /\ [][Next]_vars

(***************************************************************************)
(* Tokio keeps running a worker's task (weak fairness), time passes, a      *)
(* replica that stopped is started again, and an index check that is        *)
(* repeated for ever succeeds in the end.  Nothing is assumed of the bulk   *)
(* requests: every one of them may fail.                                    *)
(***************************************************************************)
Fairness ==
  /\ WF_vars(Tick)
  /\ \A w \in Workers :
       /\ WF_vars(Work(w))
       /\ SF_vars(EnsureIndex(w))
       /\ WF_vars(StopGracefully(w))
       /\ WF_vars(Start(w))

FairSpec == Spec /\ Fairness

-----------------------------------------------------------------------------
(* Properties. *)

\* The types: among them that no row waits longer than the longest back-off, and that no
\* clock of a lease runs on after it.
TypeOK ==
  /\ events \subseteq Events /\ removed \subseteq Events
  /\ queued \subseteq Events
  /\ attempt \in [Events -> Nat]
  /\ wait \in [Events -> 0..MaxRetryDelay]
  /\ owner \in [Events -> Workers \cup {NoWorker}]
  /\ age \in [Events -> 0..(LeaseSeconds + 1)]
  /\ processed \subseteq Events /\ dead \subseteq Events
  /\ docs \subseteq Events
  /\ pc \in [Workers -> Locations]
  /\ ready \subseteq Workers /\ complete \subseteq Workers
  /\ stopping \subseteq Workers
  /\ picked \in [Workers -> SUBSET Events]
  /\ tasks \in [Workers -> SUBSET Events]
  /\ snap \in [Workers -> [Events -> Nat]]
  /\ deletes \in [Workers -> SUBSET Events]
  /\ failed \in [Workers -> SUBSET Events]
  /\ failures \in [Events -> Nat]
  /\ overrun \subseteq Events /\ abandoned \subseteq Events
  /\ stops \in 0..MaxStops /\ dbErrors \in 0..MaxDbErrors

\* A row is marked processed only when the index holds its event's document or
\* the event itself is gone: whatever replicas overlap, crash or answer late, no
\* event is declared searchable that was never written.
ProcessedIsApplied == \A e \in processed : e \in docs \/ e \in removed

\* A row whose event was gone when it was loaded is recorded as done only when the index
\* has no document of it: what an earlier attempt wrote, that failed as a whole or whose
\* result was lost, is removed.  A worker that outlived the lease can write it again.
StaleDocumentIsRemoved ==
  \A w \in Workers : pc[w] = "record" =>
    ((tasks[w] \cap deletes[w]) \ (failed[w] \cup overrun)) \cap docs = {}

\* A worker that ended its backfill can rely on it: every event of the database
\* has an outbox row, also when several replicas backfill at once and each of
\* them inserts less than a batch because the others were faster.
BackfillCompleteIsSound == complete # {} => Missing = {}

\* As long as no worker outlives the lease of a row, at most one worker works on
\* it, and it is the one the row names: SKIP LOCKED, the lease and crash recovery
\* never hand one task to two replicas.
OneWorkerPerLease ==
  \A w \in Workers : \A e \in tasks[w] \ overrun : owner[e] = w

\* A row stays leased without a worker behind it only when a crash or a failed
\* statement took the worker's batch away: no path of an iteration forgets a task.
NoLeakedLease ==
  \A e \in Events : owner[e] # NoWorker => e \in tasks[owner[e]] \cup abandoned

\* A row becomes a dead letter only after MaxAttempts failures were recorded for
\* it; an overlap of replicas can lose counts, never invent them.
DeadLetterIsEarned == \A e \in dead : failures[e] >= MaxAttempts

\* Without an overrun attempt_count is the number of recorded failures.
AttemptsCountFailures ==
  \A e \in Events \ overrun : attempt[e] = failures[e]

\* Without an overrun a row is settled one way only, processed or dead.
SettledOneWay == processed \cap dead \subseteq overrun

\* The schema's comment on the table: dead letters are terminal.  Once dead, a
\* row is never changed again.
DeadLettersAreTerminal ==
  [][\A e \in dead : /\ attempt'[e] = attempt[e] /\ wait'[e] = wait[e]
                     /\ (e \in processed' <=> e \in processed)]_vars

\* Every stored event is written or given up in the end, however often its
\* replicas crash and Elasticsearch fails: leases of dead workers run out, and
\* retries come due.
EverySettles ==
  \A e \in Events : (e \in events) ~> (e \in processed \cup dead)

\* The workers and their leases implement the abstract projection.
Projection == INSTANCE SearchProjection WITH
  Stored <- Historical, source <- events, deleted <- removed, index <- docs,
  tries <- failures, delivered <- processed, gaveUp <- dead

ImplementsProjection == Projection!PSpec

-----------------------------------------------------------------------------
(* The parts of the inductive invariant behind these properties. *)

\* Rows that two claiming statements hold locked are disjoint, unsettled, and
\* free or past their lease.
LocksAreExclusive ==
  \A w \in Workers : pc[w] = "claiming" =>
    /\ picked[w] \cap (processed \cup dead) = {}
    /\ \A e \in picked[w] : owner[e] = NoWorker \/ age[e] > LeaseSeconds
    /\ \A v \in Workers \ {w} : pc[v] = "claiming" => picked[w] \cap picked[v] = {}

\* A worker has tasks only between its claim and the end of recording.
TasksBelongToBatch ==
  \A w \in Workers : tasks[w] # {} => pc[w] \in {"load", "apply", "record"}

\* Rows, selections and tasks name stored events.
RowsHaveEvents ==
  /\ events \cap removed = {}
  /\ queued \subseteq events \cup removed
  /\ \A w \in Workers : picked[w] \cup tasks[w] \subseteq events \cup removed

\* A Delete is prepared for events that are gone only, and a task that has not
\* failed when its batch is recorded has been applied.
ResultsAreTrue ==
  \A w \in Workers :
    /\ pc[w] = "apply" => deletes[w] \subseteq removed
    /\ pc[w] = "record" => tasks[w] \ failed[w] \subseteq docs \cup removed

\* A row that outlived its lease in the hands of its worker is marked.
OverrunIsSeen ==
  \A e \in Events :
    owner[e] # NoWorker /\ age[e] > LeaseSeconds /\ e \in tasks[owner[e]]
      => e \in overrun

\* No count is above the failures recorded.
CountsAreEarned ==
  \A e \in Events :
    /\ attempt[e] <= failures[e]
    /\ \A w \in Workers : snap[w][e] <= failures[e]
    /\ e \in dead => failures[e] >= MaxAttempts

\* Without an overrun a task's snapshot is current and its row is unsettled.
SnapshotsAreCurrent ==
  \A w \in Workers : \A e \in tasks[w] \ overrun :
    /\ snap[w][e] = attempt[e]
    /\ e \notin processed \cup dead

IInv ==
  /\ TypeOK
  /\ LocksAreExclusive /\ TasksBelongToBatch /\ RowsHaveEvents /\ ResultsAreTrue
  /\ OverrunIsSeen /\ OneWorkerPerLease /\ NoLeakedLease
  /\ CountsAreEarned /\ SnapshotsAreCurrent /\ AttemptsCountFailures
  /\ SettledOneWay /\ ProcessedIsApplied /\ BackfillCompleteIsSound
=============================================================================
