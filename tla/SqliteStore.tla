---------------------------- MODULE SqliteStore ----------------------------
(***************************************************************************)
(* Ingestion in the SQLite profile (storage/sqlite/repository.rs,           *)
(* search/index.rs, session_titles.rs): concurrent requests of one process,  *)
(* each one immediate transaction of the single writer, and readers that     *)
(* see the last commit.  db is the committed database and work the writer's  *)
(* own version of it; a table is a function from its key to a row, or the    *)
(* set of its rows.                                                          *)
(***************************************************************************)
EXTENDS Tables

CONSTANTS
  Requests,     \* ingest requests of the collectors
  UserOf,       \* of each request: the authenticated owner
  Batch,        \* of each request: its events, a sequence of submissions
  Captures,     \* of each request: its diagnostic captures, a sequence
  Nobody,       \* no writer
  MaxBatchSize, \* ABYSS_BACKEND_MAX_INGEST_BATCH_SIZE
  MaxSends      \* bound: how often a collector sends one request

ASSUME StoreConstants ==
  /\ Nobody \notin Requests
  /\ UserOf \in [Requests -> Users]
  /\ DOMAIN Batch = Requests /\ DOMAIN Captures = Requests

\* Batches and captures are sequences; an event belongs to a session and a device of
\* its request's owner.
ASSUME BatchesAreSubmissions ==
  \A r \in Requests :
    /\ Batch[r] \in Seq(Range(Batch[r])) /\ Captures[r] \in Seq(Range(Captures[r]))
    /\ \A i \in DOMAIN Batch[r] :
         /\ Batch[r][i].id \in EventIds
         /\ Batch[r][i].session \in Sessions /\ Batch[r][i].device \in Devices
         /\ SessionKey[Batch[r][i].session].user = UserOf[r]
         /\ DeviceKey[Batch[r][i].device].user = UserOf[r]
         /\ Batch[r][i].at \in Int /\ Batch[r][i].kind \in {"request", "response"}
         /\ Batch[r][i].entries \in Seq(Range(Batch[r][i].entries))

\* No row is the absent row.
ASSUME RowsArePresent ==
  /\ NoRow \notin [pk : Nat, device : Devices, started : Int, ended : Int, revision : Nat]
  /\ NoRow \notin [at : Int, pk : Nat]
  /\ \A r \in Requests : \A i \in DOMAIN Batch[r], pk \in Pks :
       EventRow(UserOf[r], Batch[r][i], pk) # NoRow

VARIABLES
  db,      \* the committed database
  work,    \* the database as the open transaction sees it
  writer,  \* the request whose transaction is open
  pos,     \* of each request: the event or capture it works on, 0 between sends
  reply,   \* of each request: what its collector knows
  sends    \* of each request: how often it was sent

vars == <<db, work, writer, pos, reply, sends>>

-----------------------------------------------------------------------------
(* Validation, before a transaction is opened. *)

Ids(r) == {Batch[r][i].id : i \in DOMAIN Batch[r]}

Valid(r) ==
  /\ Len(Batch[r]) <= MaxBatchSize
  /\ Len(Captures[r]) <= MaxBatchSize
  /\ \A i \in DOMAIN Batch[r] : ValidImages(Batch[r][i].images)
  /\ \A i, j \in DOMAIN Captures[r] :
       /\ Captures[r][i].events # {}
       /\ Captures[r][i].events \subseteq Ids(r)
       /\ i # j => Captures[r][i].text # Captures[r][j].text

-----------------------------------------------------------------------------
(* The transaction of a request. *)

Init ==
  /\ db = Empty /\ work = Empty
  /\ writer = Nobody
  /\ pos = [r \in Requests |-> 0]
  /\ reply = [r \in Requests |-> "none"]
  /\ sends = [r \in Requests |-> 0]

LastItem(r) == Len(Batch[r]) + Len(Captures[r])

\* The handler validates the batch and asks for the writer.
Send(r) ==
  /\ pos[r] = 0 /\ reply[r] \in {"none", "error"} /\ sends[r] < MaxSends
  /\ sends' = [sends EXCEPT ![r] = @ + 1]
  /\ IF Valid(r) THEN pos' = [pos EXCEPT ![r] = 1] /\ UNCHANGED reply
     ELSE reply' = [reply EXCEPT ![r] = "rejected"] /\ UNCHANGED pos
  /\ UNCHANGED <<db, work, writer>>

\* BEGIN IMMEDIATE: one transaction writes at a time.
Begin(r) ==
  /\ pos[r] = 1 /\ writer = Nobody
  /\ writer' = r /\ work' = db
  /\ UNCHANGED <<db, pos, reply, sends>>

\* busy_timeout: the writer was not free for five seconds.
Busy(r) ==
  /\ pos[r] = 1 /\ writer \notin {r, Nobody}
  /\ pos' = [pos EXCEPT ![r] = 0]
  /\ reply' = [reply EXCEPT ![r] = "error"]
  /\ UNCHANGED <<db, work, writer, sends>>

UsedPks(d) == {d.events[e].pk : e \in {f \in EventIds : d.events[f] # NoRow}}

IngestEvent(r) ==
  /\ writer = r /\ pos[r] \in DOMAIN Batch[r]
  /\ \E pk \in Pks \ UsedPks(work) :
       work' = IngestOne(work, UserOf[r], Batch[r][pos[r]], pk)
  /\ pos' = [pos EXCEPT ![r] = @ + 1]
  /\ UNCHANGED <<db, writer, reply, sends>>

CaptureAt(r) == Captures[r][pos[r] - Len(Batch[r])]

IngestDiagnosticCapture(r) ==
  /\ writer = r /\ pos[r] > Len(Batch[r]) /\ pos[r] <= LastItem(r)
  /\ Correlated(work, UserOf[r], CaptureAt(r).events)
  /\ work' = IngestCapture(work, UserOf[r], CaptureAt(r))
  /\ pos' = [pos EXCEPT ![r] = @ + 1]
  /\ UNCHANGED <<db, writer, reply, sends>>

\* The end of a transaction, with what its collector learns.
End(r, answer) ==
  /\ writer' = Nobody /\ work' = db'
  /\ pos' = [pos EXCEPT ![r] = 0]
  /\ reply' = [reply EXCEPT ![r] = answer]
  /\ UNCHANGED sends

\* The answer may be lost although the transaction committed.
Commit(r) ==
  /\ writer = r /\ pos[r] > LastItem(r)
  /\ db' = work
  /\ \E answer \in {"ok", "error"} : End(r, answer)

\* Mutant: a failed transaction leaves what it wrote.
FailKeepsRows(r) == writer = r /\ db' = work /\ End(r, "error")

\* A statement fails, or the process dies, and the write-ahead log is rolled back.
Fail(r) == writer = r /\ UNCHANGED db /\ End(r, "error")

RejectCapture(r) ==
  /\ writer = r /\ pos[r] > Len(Batch[r]) /\ pos[r] <= LastItem(r)
  /\ ~Correlated(work, UserOf[r], CaptureAt(r).events)
  /\ UNCHANGED db /\ End(r, "rejected")

Next ==
  \E r \in Requests :
    \/ Send(r) \/ Begin(r) \/ Busy(r) \/ IngestEvent(r)
    \/ IngestDiagnosticCapture(r) \/ RejectCapture(r) \/ Commit(r) \/ Fail(r)

Spec == Init /\ [][Next]_vars

-----------------------------------------------------------------------------
(* Properties. *)

\* Whatever fails and however often a request is sent, the committed events change
\* batch by batch, each identifier once (module EventStore).
EventStoreOf ==
  INSTANCE EventStore WITH
    Submitted <- [r \in Requests |-> Ids(r)],
    Absent    <- NoRow,
    content   <- db.events

ImplementsEventStore == EventStoreOf!ESpec

Of(d, s) == {d.events[e] : e \in {f \in EventIds : d.events[f] # NoRow /\ d.events[f].session = s}}

\* Whatever the order in which its events arrive, a session's row exists with its
\* first event, spans them, counts them and is titled by its earliest request.
SessionRowIsTrue ==
  \A s \in Sessions :
    LET events   == Of(db, s)
        row      == db.sessions[s]
        requests == {e \in events : e.kind = "request"}
        title    == db.titles[s]
    IN  /\ row = NoRow <=> events = {}
        /\ row # NoRow =>
             /\ row.started = Min({e.at : e \in events})
             /\ row.ended = Max({e.at : e \in events})
             /\ row.revision = Cardinality(events)
             /\ \E e \in events : e.device = row.device
        /\ title = NoRow <=> requests = {}
        /\ title # NoRow =>
             /\ \E e \in requests : e.at = title.at /\ e.pk = title.pk
             /\ \A e \in requests : title.at < e.at \/ (title.at = e.at /\ title.pk <= e.pk)

\* The text index holds each text of an owner once, with its own trigrams, and the
\* pieces of every stored event refer to it; nothing else is in it.
IndexIsExact ==
  LET stored == {db.events[e] : e \in {f \in EventIds : db.events[f] # NoRow}}
      TextOf(id) == CHOOSE t \in db.texts : t.id = id
  IN  /\ \A t, u \in db.texts : t.id = u.id \/ (t.user = u.user /\ t.text = u.text) => t = u
      /\ db.trigrams = {[rowid |-> t.id, folded |-> Fold(t.text)] : t \in db.texts}
      /\ \A ref \in db.refs : ref.text \in {t.id : t \in db.texts}
      /\ {<<r.event, TextOf(r.text).user, r.entry, r.field, TextOf(r.text).text>> : r \in db.refs}
           = UNION {{<<e.pk, e.user, p.entry, p.field, p.text>> : p \in Range(Pieces(e.entries))}
                      : e \in stored}
      /\ {t.id : t \in db.texts} = {r.text : r \in db.refs}

=============================================================================
