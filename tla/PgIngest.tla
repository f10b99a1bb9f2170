------------------------------ MODULE PgIngest ------------------------------
(***************************************************************************)
(* Ingestion in the PostgreSQL profile (storage/postgres/repository.rs,     *)
(* session_titles.rs): concurrent requests, each one READ COMMITTED         *)
(* transaction over all its events and then all its diagnostic captures,    *)
(* statement by statement, with the row locks PostgreSQL takes.             *)
(*                                                                         *)
(* A table is a function from its unique key to a row.  cur holds every     *)
(* row's newest version, base the committed one; an upsert of a key waits   *)
(* until no other open transaction has written it, and lock says which one  *)
(* has.  The title of a session is kept in the session's row, whose lock a  *)
(* transaction holds whenever it writes the title; the child rows of an     *)
(* event (attachments, stream facts, outbox row) are its field whole.       *)
(***************************************************************************)
EXTENDS Integers, Sequences

CONSTANTS
  Requests,     \* ingest requests of the collectors
  Batch,        \* of each request: its events, a sequence of submissions
  Captures,     \* of each request: its diagnostic captures, a sequence
  UserOf,       \* of each request: the authenticated owner
  Devices,      \* keys (user_id, host_name, platform)
  Sessions,     \* keys (user_id, agent_name, session_id)
  EventIds,     \* keys event_id, global to all owners
  CaptureIds,   \* keys (user_id, capture_id)
  Pks,          \* UUIDs of event rows, in any order
  NoRow,        \* an absent row
  Nobody,       \* an unlocked row
  MaxBatchSize, \* ABYSS_BACKEND_MAX_INGEST_BATCH_SIZE
  MaxSends      \* bound: how often a collector sends one request

Keys == Devices \cup Sessions \cup EventIds \cup CaptureIds

\* One event of a request, as far as storage acts on it.
Submissions ==
  [id : EventIds, session : Sessions, device : Devices, at : Nat,
   kind : {"request", "response"}]

\* One capture: its identifier as it is stored, trimmed, and as it was sent.
CaptureSubmissions ==
  [id : CaptureIds, text : STRING, events : SUBSET EventIds]

(* The rows of the tables. *)
Users == {UserOf[r] : r \in Requests}

EventRows ==
  [user : Users, session : Sessions, device : Devices, at : Nat,
   kind : {"request", "response"}, pk : Pks, whole : BOOLEAN]

DeviceRows == [first : Nat, last : Nat]

Anchors == [at : Nat, pk : Pks]

SessionRows ==
  [device : Devices, started : Nat, ended : Nat, revision : Nat,
   title : Anchors \cup {NoRow}]

CaptureRows ==
  [user : Users, session : Sessions, device : Devices, events : SUBSET EventIds]

ASSUME IngestConstants ==
  /\ Pks \subseteq Nat
  /\ Nobody \notin Requests
  /\ MaxBatchSize \in Nat /\ MaxSends \in Nat

\* Each table has its own keys, and no row is the absent row.
ASSUME TablesAreApart ==
  /\ Devices \cap Sessions = {} /\ Devices \cap EventIds = {}
  /\ Devices \cap CaptureIds = {} /\ Sessions \cap EventIds = {}
  /\ Sessions \cap CaptureIds = {} /\ EventIds \cap CaptureIds = {}
  /\ NoRow \notin EventRows /\ NoRow \notin DeviceRows
  /\ NoRow \notin SessionRows /\ NoRow \notin CaptureRows
  /\ NoRow \notin Anchors

ASSUME RequestsAreSubmissions ==
  /\ Batch \in [Requests -> Seq(Submissions)]
  /\ Captures \in [Requests -> Seq(CaptureSubmissions)]

VARIABLES
  cur,     \* newest version of every row, committed or not
  base,    \* committed version of every row
  lock,    \* the transaction that has written a row and is still open
  pc,      \* of each request: the statement that comes next
  pos,     \* of each request: the event or capture it works on
  fresh,   \* of each request: the identifiers it has inserted itself
  reply,   \* of each request: what its collector knows
  sends,   \* of each request: how often it was sent
  counted  \* history: committed transactions that counted an event as accepted

vars == <<cur, base, lock, pc, pos, fresh, reply, sends, counted>>

Statements == {"exists", "device", "session", "event", "children", "capture", "commit"}

-----------------------------------------------------------------------------
(* Helpers. *)

Ids(r) == {Batch[r][i].id : i \in DOMAIN Batch[r]}

Lesser(a, b)  == IF b < a THEN b ELSE a
Greater(a, b) == IF b > a THEN b ELSE a

\* persistence.rs validate_batch and diagnostics.rs validate_event_correlation.
Valid(r) ==
  /\ Len(Batch[r]) <= MaxBatchSize
  /\ Len(Captures[r]) <= MaxBatchSize
  /\ \A i, j \in DOMAIN Captures[r] :
       /\ Captures[r][i].events # {}
       /\ Captures[r][i].events \subseteq Ids(r)
       /\ i # j => Captures[r][i].text # Captures[r][j].text

\* What a statement of r reads of a row: its own writes and what is committed.
Visible(r, k) == IF lock[k] = r THEN cur[k] ELSE base[k]

CanWrite(r, k) == lock[k] \in {r, Nobody}

Write(r, k, row) ==
  /\ cur' = [cur EXCEPT ![k] = row]
  /\ lock' = [lock EXCEPT ![k] = r]

Submission(r) == Batch[r][pos[r]]

Goto(r, there) == pc' = [pc EXCEPT ![r] = there]

\* The statement that starts item i of r: an event, a capture, or the commit.
Opening(r, i) ==
  IF i <= Len(Batch[r]) THEN "exists"
  ELSE IF i <= Len(Batch[r]) + Len(Captures[r]) THEN "capture" ELSE "commit"

NextItem(r) ==
  /\ pos' = [pos EXCEPT ![r] = @ + 1]
  /\ Goto(r, Opening(r, pos[r] + 1))

Earlier(a, b) == a.at < b.at \/ (a.at = b.at /\ a.pk < b.pk)

Init ==
  /\ cur = [k \in Keys |-> NoRow] /\ base = cur
  /\ lock = [k \in Keys |-> Nobody]
  /\ pc = [r \in Requests |-> "idle"]
  /\ pos = [r \in Requests |-> 0]
  /\ fresh = [r \in Requests |-> {}]
  /\ reply = [r \in Requests |-> "none"]
  /\ sends = [r \in Requests |-> 0]
  /\ counted = [e \in EventIds |-> 0]

-----------------------------------------------------------------------------
(* The statements of one transaction. *)

\* A collector sends the request, again when it did not get an answer.
Send(r) ==
  /\ pc[r] = "idle" /\ reply[r] \in {"none", "error"}
  /\ sends[r] < MaxSends
  /\ sends' = [sends EXCEPT ![r] = @ + 1]
  /\ IF Valid(r)
     THEN /\ pos' = [pos EXCEPT ![r] = 1]
          /\ Goto(r, Opening(r, 1))
          /\ UNCHANGED reply
     ELSE reply' = [reply EXCEPT ![r] = "rejected"] /\ UNCHANGED <<pc, pos>>
  /\ UNCHANGED <<cur, base, lock, fresh, counted>>

\* SELECT the event by event_id, without a lock: a stored one is a duplicate.
CheckExists(r) ==
  /\ pc[r] = "exists"
  /\ IF Visible(r, Submission(r).id) # NoRow
     THEN NextItem(r)
     ELSE Goto(r, "device") /\ UNCHANGED pos
  /\ UNCHANGED <<cur, base, lock, fresh, reply, sends, counted>>

\* Mutant: a new device has not been seen last at any time.
UpsertDeviceUnseen(r) ==
  /\ pc[r] = "device"
  /\ LET s == Submission(r) IN
       /\ CanWrite(r, s.device)
       /\ Write(r, s.device, [first |-> s.at, last |-> NoRow])
  /\ Goto(r, "session")
  /\ UNCHANGED <<base, pos, fresh, reply, sends, counted>>

UpsertDevice(r) ==
  /\ pc[r] = "device"
  /\ LET s == Submission(r)
         old == cur[s.device]
     IN  /\ CanWrite(r, s.device)
         /\ Write(r, s.device,
              IF old = NoRow THEN [first |-> s.at, last |-> s.at]
              ELSE [first |-> Lesser(old.first, s.at),
                    last |-> Greater(old.last, s.at)])
  /\ Goto(r, "session")
  /\ UNCHANGED <<base, pos, fresh, reply, sends, counted>>

\* Mutant: the arriving event replaces the times of the session.
UpsertSessionReplacing(r) ==
  /\ pc[r] = "session"
  /\ LET s == Submission(r)
         old == cur[s.session]
     IN  /\ CanWrite(r, s.session)
         /\ Write(r, s.session,
              [device |-> s.device, started |-> s.at, ended |-> s.at,
               revision |-> IF old = NoRow THEN 1 ELSE old.revision + 1,
               title |-> IF old = NoRow THEN NoRow ELSE old.title])
  /\ Goto(r, "event")
  /\ UNCHANGED <<base, pos, fresh, reply, sends, counted>>

\* Mutant: only the insert sets the revision.
UpsertSessionSameRevision(r) ==
  /\ pc[r] = "session"
  /\ LET s == Submission(r)
         old == cur[s.session]
     IN  /\ CanWrite(r, s.session)
         /\ Write(r, s.session,
              IF old = NoRow
              THEN [device |-> s.device, started |-> s.at, ended |-> s.at,
                    revision |-> 1, title |-> NoRow]
              ELSE [old EXCEPT !.device = s.device,
                               !.started = Lesser(@, s.at),
                               !.ended = Greater(@, s.at)])
  /\ Goto(r, "event")
  /\ UNCHANGED <<base, pos, fresh, reply, sends, counted>>

UpsertSession(r) ==
  /\ pc[r] = "session"
  /\ LET s == Submission(r)
         old == cur[s.session]
     IN  /\ CanWrite(r, s.session)
         /\ Write(r, s.session,
              IF old = NoRow
              THEN [device |-> s.device, started |-> s.at, ended |-> s.at,
                    revision |-> 1, title |-> NoRow]
              ELSE [old EXCEPT !.device = s.device,
                               !.started = Lesser(@, s.at),
                               !.ended = Greater(@, s.at),
                               !.revision = @ + 1])
  /\ Goto(r, "event")
  /\ UNCHANGED <<base, pos, fresh, reply, sends, counted>>

FreePks == Pks \ {cur[e].pk : e \in {f \in EventIds : cur[f] # NoRow}}

EventRow(r, pk) ==
  LET s == Submission(r) IN
    [user |-> UserOf[r], session |-> s.session, device |-> s.device, at |-> s.at,
     kind |-> s.kind, pk |-> pk, whole |-> FALSE]

\* Mutant: ON CONFLICT (event_id) DO UPDATE.
InsertEventOverwrites(r) ==
  /\ pc[r] = "event"
  /\ CanWrite(r, Submission(r).id)
  /\ \E pk \in FreePks : Write(r, Submission(r).id, EventRow(r, pk))
  /\ fresh' = [fresh EXCEPT ![r] = @ \cup {Submission(r).id}]
  /\ Goto(r, "children")
  /\ UNCHANGED <<base, pos, reply, sends, counted>>

\* INSERT ... ON CONFLICT (event_id) DO NOTHING inserts the event, after waiting
\* for an open transaction that has inserted the identifier ...
InsertEvent(r) ==
  /\ pc[r] = "event"
  /\ CanWrite(r, Submission(r).id)
  /\ cur[Submission(r).id] = NoRow
  /\ \E pk \in FreePks : Write(r, Submission(r).id, EventRow(r, pk))
  /\ fresh' = [fresh EXCEPT ![r] = @ \cup {Submission(r).id}]
  /\ Goto(r, "children")
  /\ UNCHANGED <<base, pos, reply, sends, counted>>

\* Mutant: a row that an open transaction has inserted counts as a duplicate.
ConflictUnlocked(r) ==
  /\ pc[r] = "event"
  /\ cur[Submission(r).id] # NoRow
  /\ NextItem(r)
  /\ UNCHANGED <<cur, base, lock, fresh, reply, sends, counted>>

\* ... and nothing when that transaction has committed.
EventConflict(r) ==
  /\ pc[r] = "event"
  /\ CanWrite(r, Submission(r).id)
  /\ cur[Submission(r).id] # NoRow
  /\ NextItem(r)
  /\ UNCHANGED <<cur, base, lock, fresh, reply, sends, counted>>

\* Mutant: the title follows the request that arrived last.
InsertChildrenLastTitle(r) ==
  /\ pc[r] = "children"
  /\ LET s == Submission(r) IN
       cur' = [cur EXCEPT
         ![s.id].whole = TRUE,
         ![s.session].title =
           IF s.kind = "request" THEN [at |-> s.at, pk |-> cur[s.id].pk] ELSE @]
  /\ NextItem(r)
  /\ UNCHANGED <<base, lock, fresh, reply, sends, counted>>

\* Attachments, stream facts, the outbox row and, for a request, the title.
InsertChildren(r) ==
  /\ pc[r] = "children"
  /\ LET s == Submission(r)
         anchor == [at |-> s.at, pk |-> cur[s.id].pk]
         title == cur[s.session].title
     IN  cur' = [cur EXCEPT
           ![s.id].whole = TRUE,
           ![s.session].title =
             IF s.kind = "request" /\ (title = NoRow \/ Earlier(anchor, title))
             THEN anchor ELSE title]
  /\ NextItem(r)
  /\ UNCHANGED <<base, lock, fresh, reply, sends, counted>>

CaptureOf(r) == Captures[r][pos[r] - Len(Batch[r])]

\* Mutant: the owner of the reloaded events is not compared.
ReloadedOfAnyone(r, c) == {e \in c.events : Visible(r, e) # NoRow}

\* The rows a capture's events are reloaded as: those of the owner.
Reloaded(r, c) ==
  {e \in c.events : Visible(r, e) # NoRow /\ Visible(r, e).user = UserOf[r]}

Correlated(r, c) ==
  /\ Reloaded(r, c) = c.events
  /\ \A e, f \in c.events : /\ Visible(r, e).session = Visible(r, f).session
                            /\ Visible(r, e).device = Visible(r, f).device

CaptureRow(r, c, e) ==
  [user |-> UserOf[r], session |-> Visible(r, e).session,
   device |-> Visible(r, e).device, events |-> c.events]

\* The capture and its links, once for each (user_id, capture_id).
InsertCapture(r) ==
  LET c == CaptureOf(r) IN
    /\ pc[r] = "capture"
    /\ Correlated(r, c)
    /\ CanWrite(r, c.id)
    /\ cur[c.id] = NoRow
    /\ \E e \in c.events : Write(r, c.id, CaptureRow(r, c, e))
    /\ NextItem(r)
    /\ UNCHANGED <<base, fresh, reply, sends, counted>>

CaptureConflict(r) ==
  LET c == CaptureOf(r) IN
    /\ pc[r] = "capture"
    /\ Correlated(r, c)
    /\ CanWrite(r, c.id)
    /\ cur[c.id] # NoRow
    /\ NextItem(r)
    /\ UNCHANGED <<cur, base, lock, fresh, reply, sends, counted>>

\* The end of a transaction: its writes become the newest, or the only, version.
Held(r) == {k \in Keys : lock[k] = r}

\* Mutant: what one attempt inserted is counted by the next one too.
CloseKeepsCounts(r) ==
  /\ lock' = [k \in Keys |-> IF k \in Held(r) THEN Nobody ELSE lock[k]]
  /\ pos' = [pos EXCEPT ![r] = 0]
  /\ Goto(r, "idle")
  /\ UNCHANGED fresh

\* Mutant: the connection goes back to the pool with its transaction open.
CloseKeepsLocks(r) ==
  /\ fresh' = [fresh EXCEPT ![r] = {}]
  /\ pos' = [pos EXCEPT ![r] = 0]
  /\ Goto(r, "idle")
  /\ UNCHANGED lock

Close(r) ==
  /\ lock' = [k \in Keys |-> IF k \in Held(r) THEN Nobody ELSE lock[k]]
  /\ fresh' = [fresh EXCEPT ![r] = {}]
  /\ pos' = [pos EXCEPT ![r] = 0]
  /\ Goto(r, "idle")

\* Mutant: the batch is not a transaction; a failed one keeps what it wrote.
RollbackKeepsRows(r) ==
  /\ Close(r)
  /\ UNCHANGED <<cur, base, sends, counted>>

Rollback(r) ==
  /\ Close(r)
  /\ cur' = [k \in Keys |-> IF k \in Held(r) THEN base[k] ELSE cur[k]]
  /\ UNCHANGED <<base, sends, counted>>

\* The answer may be lost although the transaction committed.
Commit(r) ==
  /\ pc[r] = "commit"
  /\ Close(r)
  /\ base' = [k \in Keys |-> IF k \in Held(r) THEN cur[k] ELSE base[k]]
  /\ counted' = [e \in EventIds |-> IF e \in fresh[r] THEN counted[e] + 1
                                    ELSE counted[e]]
  /\ \E answer \in {"ok", "error"} : reply' = [reply EXCEPT ![r] = answer]
  /\ UNCHANGED <<cur, sends>>

\* A capture whose events are another owner's, or of several sessions or devices,
\* is a validation error: the whole batch is rolled back.
RejectCapture(r) ==
  /\ pc[r] = "capture" /\ ~Correlated(r, CaptureOf(r))
  /\ Rollback(r)
  /\ reply' = [reply EXCEPT ![r] = "rejected"]

\* A statement fails, or the backend dies, at any point.
Fail(r) ==
  /\ pc[r] \in Statements
  /\ Rollback(r)
  /\ reply' = [reply EXCEPT ![r] = "error"]

\* The row the next statement of r has to write.
Wants(r) ==
  CASE pc[r] = "device"  -> {Submission(r).device}
    [] pc[r] = "session" -> {Submission(r).session}
    [] pc[r] = "event"   -> {Submission(r).id}
    [] pc[r] = "capture" -> {CaptureOf(r).id}
    [] OTHER -> {}

WaitsFor(r) == {lock[k] : k \in Wants(r)} \ {r, Nobody}

\* r is on a cycle of transactions that wait for each other.
Deadlocked(r) ==
  \E C \in SUBSET Requests :
    /\ r \in C
    /\ C \subseteq UNION {WaitsFor(q) : q \in C}
    /\ \A q \in C : WaitsFor(q) \cap C # {}

\* PostgreSQL's deadlock detector aborts one transaction of the cycle.
AbortDeadlock(r) ==
  /\ Deadlocked(r)
  /\ Rollback(r)
  /\ reply' = [reply EXCEPT ![r] = "error"]

Statement(r) ==
  \/ CheckExists(r) \/ UpsertDevice(r) \/ UpsertSession(r)
  \/ InsertEvent(r) \/ EventConflict(r) \/ InsertChildren(r)
  \/ InsertCapture(r) \/ CaptureConflict(r) \/ RejectCapture(r)
  \/ Commit(r)

Next ==
  \E r \in Requests : Send(r) \/ Statement(r) \/ Fail(r) \/ AbortDeadlock(r)

Spec == Init /\ [][Next]_vars

\* A transaction runs its next statement when it can, and a deadlock is broken.
Fairness ==
  \A r \in Requests : WF_vars(Statement(r)) /\ WF_vars(AbortDeadlock(r))

FairSpec == Spec /\ Fairness

-----------------------------------------------------------------------------
(* Properties. *)

Stored == {e \in EventIds : base[e] # NoRow}

EventsOf(s) == {e \in Stored : base[e].session = s}

TypedTable(table) ==
  /\ DOMAIN table = Keys
  /\ \A k \in Keys : table[k] # NoRow =>
       /\ k \in EventIds   => table[k] \in EventRows
       /\ k \in Devices    => table[k] \in DeviceRows
       /\ k \in Sessions   => table[k] \in SessionRows
       /\ k \in CaptureIds => table[k] \in CaptureRows

\* Every table, lock and program counter has its type.
TypeOK ==
  /\ TypedTable(cur) /\ TypedTable(base)
  /\ lock \in [Keys -> Requests \cup {Nobody}]
  /\ pc \in [Requests -> Statements \cup {"idle"}]
  /\ pos \in [Requests -> Nat]
  /\ fresh \in [Requests -> SUBSET EventIds]
  /\ reply \in [Requests -> {"none", "ok", "rejected", "error"}]
  /\ sends \in [Requests -> 0..MaxSends]
  /\ counted \in [EventIds -> Nat]

\* A collector that got its answer may drop its batch: all of the batch is
\* stored, whichever of several racing transactions stored it (ingest_events).
AckedIsStored ==
  \A r \in Requests : reply[r] = "ok" =>
    /\ Ids(r) \subseteq Stored
    /\ \A i \in DOMAIN Captures[r] : base[Captures[r][i].id] # NoRow

\* Over all requests, resends, lost answers and rollbacks, an event is counted as
\* accepted by exactly one committed transaction (the idempotency of event_id).
AcceptedOnce ==
  \A e \in EventIds : counted[e] = IF e \in Stored THEN 1 ELSE 0

\* A committed event has its attachments, its stream facts and its outbox row,
\* and the session and the device it refers to are committed and span its time
\* (upsert_device, upsert_session: least and greatest over racing upserts).
EventsAreWhole ==
  \A e \in Stored :
    LET s == base[base[e].session]
        d == base[base[e].device]
    IN  /\ base[e].whole
        /\ s # NoRow /\ s.started <= base[e].at /\ base[e].at <= s.ended
        /\ d # NoRow /\ d.first <= base[e].at /\ base[e].at <= d.last

\* The title of a session is anchored at the earliest of its requests, in
\* whatever order concurrent batches delivered them (session_titles::capture).
TitleIsEarliestRequest ==
  \A s \in {k \in Sessions : base[k] # NoRow} :
    LET asked == {[at |-> base[e].at, pk |-> base[e].pk] :
                    e \in {f \in EventsOf(s) : base[f].kind = "request"}}
        title == base[s].title
    IN  IF asked = {} THEN title = NoRow
        ELSE title \in asked /\ \A a \in asked : a = title \/ Earlier(title, a)

\* A committed capture is linked to stored events only, all of one owner, one
\* session and one device (ingest_one_diagnostic_capture).
CaptureIsWhole ==
  \A c \in {k \in CaptureIds : base[k] # NoRow} :
    /\ base[c].events # {} /\ base[c].events \subseteq Stored
    /\ \A e \in base[c].events :
         /\ base[e].user = base[c].user
         /\ base[e].session = base[c].session
         /\ base[e].device = base[c].device

\* A row that two transactions want is written by one of them at a time, and
\* a transaction that is over has left nothing behind.
WritesAreIsolated ==
  \A k \in Keys : cur[k] # base[k] => lock[k] # Nobody /\ pc[lock[k]] # "idle"

\* The revision of a session grows whenever its set of events does, however the
\* transactions that add to it overlap (up.sql: "Advances on event ingestion so
\* derived stream caches share one revision").
RevisionAdvances ==
  [][\A s \in Sessions : EventsOf(s)' # EventsOf(s) =>
       \/ base[s] = NoRow
       \/ base'[s].revision > base[s].revision]_vars

\* Whatever the interleaving of the statements, the committed events change
\* batch by batch, each identifier once (module EventStore).
EventStoreOf ==
  INSTANCE EventStore WITH
    Submitted <- [r \in Requests |-> Ids(r)],
    Absent    <- NoRow,
    content   <- [e \in EventIds |-> base[e]]

ImplementsEventStore == EventStoreOf!ESpec

\* Every transaction ends: none waits for ever on rows the others have written.
EveryRequestAnswered ==
  \A r \in Requests : pc[r] # "idle" ~> pc[r] = "idle"

-----------------------------------------------------------------------------
(* What the repository says and the code does not do. *)

\* repository.rs, ingest_events: "Process the batch atomically so the
\* device/session hierarchy cannot be partially created without its
\* corresponding usage events."  A request that loses the race for an event_id
\* has upserted its own session before it notices.
HierarchyHasEvents ==
  \A s \in Sessions : base[s] # NoRow => EventsOf(s) # {}

\* up.sql: "The device reference follows the most recently observed device for
\* that session."  upsert_session stores the device of whichever event arrives.
SessionFollowsLatestDevice ==
  \A s \in Sessions : EventsOf(s) # {} =>
    \E e \in EventsOf(s) :
      /\ base[s].device = base[e].device
      /\ \A f \in EventsOf(s) : base[f].at <= base[e].at

-----------------------------------------------------------------------------
(* The parts of the inductive invariant behind these properties. *)

Spans(first, at, last) == first <= at /\ at <= last

\* A row is written under a lock that an open transaction holds, and exists then.
LocksAreHeld ==
  \A k \in Keys :
    IF lock[k] = Nobody THEN cur[k] = base[k]
    ELSE pc[lock[k]] # "idle" /\ cur[k] # NoRow

\* A locked event is one that its transaction inserted and nobody stored before.
LockedIsFresh ==
  /\ \A r \in Requests : fresh[r] = Held(r) \cap EventIds
  /\ \A e \in EventIds : lock[e] # Nobody => base[e] = NoRow

\* A request inserts the events it brought.
FreshIsSubmitted == \A r \in Requests : fresh[r] \subseteq Ids(r)

\* The statement a transaction stands at belongs to the item it works on.
PlaceMatchesItem ==
  \A r \in Requests :
    /\ pc[r] = "idle" <=> pos[r] = 0
    /\ pc[r] \in {"exists", "device", "session", "event", "children"}
         => pos[r] \in DOMAIN Batch[r]
    /\ pc[r] = "capture" => pos[r] - Len(Batch[r]) \in DOMAIN Captures[r]
    /\ pc[r] = "commit" => pos[r] > Len(Batch[r]) + Len(Captures[r])

\* A transaction sees everything it has dealt with so far.
DoneIsVisible ==
  \A r \in Requests :
    /\ \A i \in DOMAIN Batch[r] :
         i < pos[r] => Visible(r, Batch[r][i].id) # NoRow
    /\ \A i \in DOMAIN Captures[r] :
         Len(Batch[r]) + i < pos[r] => Visible(r, Captures[r][i].id) # NoRow

\* Upserts only widen the times of a row, and advance a session's revision.
UpsertsWiden ==
  /\ \A d \in Devices : base[d] # NoRow =>
       cur[d].first <= base[d].first /\ base[d].last <= cur[d].last
  /\ \A s \in Sessions : base[s] # NoRow =>
       /\ cur[s].started <= base[s].started /\ base[s].ended <= cur[s].ended
       /\ lock[s] # Nobody => cur[s].revision > base[s].revision

\* What a transaction has upserted for the event it works on is still its own.
ItemIsBacked ==
  \A r \in Requests :
    LET s == Submission(r) IN
      /\ pc[r] \in {"session", "event", "children"} =>
           /\ lock[s.device] = r
           /\ Spans(cur[s.device].first, s.at, cur[s.device].last)
      /\ pc[r] \in {"event", "children"} =>
           /\ lock[s.session] = r
           /\ Spans(cur[s.session].started, s.at, cur[s.session].ended)
      /\ pc[r] = "children" => lock[s.id] = r /\ cur[s.id].session = s.session

\* An uncommitted event refers to rows that its own transaction holds.
NewEventsAreBacked ==
  \A e \in EventIds : lock[e] # Nobody =>
    LET r == lock[e]
        s == cur[e].session
        d == cur[e].device
    IN  /\ lock[s] = r /\ Spans(cur[s].started, cur[e].at, cur[s].ended)
        /\ lock[d] = r /\ Spans(cur[d].first, cur[e].at, cur[d].last)
        /\ cur[e].whole \/ (pc[r] = "children" /\ Submission(r).id = e)

IInv ==
  /\ TypeOK
  /\ LocksAreHeld /\ LockedIsFresh /\ FreshIsSubmitted
  /\ PlaceMatchesItem /\ DoneIsVisible
  /\ UpsertsWiden /\ ItemIsBacked /\ NewEventsAreBacked
  /\ AcceptedOnce /\ AckedIsStored /\ EventsAreWhole
=============================================================================
