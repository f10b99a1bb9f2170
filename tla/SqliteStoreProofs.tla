------------------------- MODULE SqliteStoreProofs -------------------------
(***************************************************************************)
(* Proofs about ingestion in the SQLite profile, for any requests that share *)
(* events, sessions and texts in any way.                                   *)
(***************************************************************************)
EXTENDS SqliteStore, TablesProofs

-----------------------------------------------------------------------------
(* The inductive invariant. *)

\* State and tables have their types.
Types ==
  /\ IsDatabase(db) /\ IsDatabase(work)
  /\ writer \in Requests \cup {Nobody}
  /\ pos \in [Requests -> Nat]
  /\ reply \in [Requests -> {"none", "ok", "error", "rejected"}]

\* The open transaction has only added events of its request to the committed ones, ...
OnlyInserts ==
  writer # Nobody => \A e \in EventIds :
    work.events[e] # db.events[e] => db.events[e] = NoRow /\ e \in Ids(writer)

\* ... and has stored those before the one it works on.
DoneIsStored ==
  writer # Nobody =>
    /\ pos[writer] # 0
    /\ \A i \in DOMAIN Batch[writer] : i < pos[writer] => work.events[Batch[writer][i].id] # NoRow

\* What an answered request sent is stored: no failure, whoever meets it, takes it away.
AnsweredIsStored ==
  \A r \in Requests : reply[r] = "ok" => \A e \in Ids(r) : db.events[e] # NoRow

IInv == Types /\ OnlyInserts /\ DoneIsStored /\ AnsweredIsStored

\* The positions of a batch, and what is submitted there.
LEMMA BatchTypes ==
  ASSUME NEW r \in Requests
  PROVE  /\ Len(Batch[r]) \in Nat /\ Len(Captures[r]) \in Nat
         /\ DOMAIN Batch[r] = 1..Len(Batch[r])
         /\ \A i \in DOMAIN Batch[r] :
              /\ Batch[r][i].id \in EventIds /\ Batch[r][i].id \in Ids(r)
              /\ Batch[r][i].session \in Sessions /\ Batch[r][i].device \in Devices
              /\ Batch[r][i].at \in Int /\ Batch[r][i].kind \in {"request", "response"}
         /\ Ids(r) \subseteq EventIds
<1>1. Batch[r] \in Seq(Range(Batch[r])) /\ Captures[r] \in Seq(Range(Captures[r]))
  BY BatchesAreSubmissions
<1>2. /\ Len(Batch[r]) \in Nat /\ Len(Captures[r]) \in Nat
      /\ DOMAIN Batch[r] = 1..Len(Batch[r])
  BY <1>1
<1> QED
  BY <1>2, BatchesAreSubmissions DEF Ids

\* The invariant holds at first ...
LEMMA InitIsSafe == Init => IInv
<1> SUFFICES ASSUME Init PROVE IInv
  OBVIOUS
<1>1. Types
  BY EmptyIsDatabase DEF Init, Types
<1> QED
  BY <1>1, StoreConstants DEF Init, IInv, OnlyInserts, DoneIsStored, AnsweredIsStored

\* One event in a transaction: it is stored, and no other event changes.
LEMMA IngestEventStores ==
  ASSUME IInv, NEW r \in Requests, IngestEvent(r)
  PROVE  LET id == Batch[r][pos[r]].id
         IN  /\ IsDatabase(work') /\ id \in Ids(r) /\ id \in EventIds
             /\ work'.events[id] # NoRow
             /\ work.events[id] # NoRow => work' = work
             /\ \A e \in EventIds \ {id} : work'.events[e] = work.events[e]
<1>0. PICK s : s = Batch[r][pos[r]]
  OBVIOUS
<1>1. pos[r] \in DOMAIN Batch[r] /\ IsDatabase(work)
  BY DEF IngestEvent, IInv, Types
<1>2. s.id \in Ids(r) /\ s.id \in EventIds /\ s.session \in Sessions /\ s.device \in Devices
  BY <1>0, <1>1, BatchTypes
<1>3. PICK pk \in Pks \ UsedPks(work) : work' = IngestOne(work, UserOf[r], s, pk)
  BY <1>0 DEF IngestEvent
<1>4. EventRow(UserOf[r], s, pk) # NoRow
  BY <1>0, <1>1, RowsArePresent
<1>5. CASE work.events[s.id] # NoRow
  <2>1. work' = work
    BY <1>3, <1>5 DEF IngestOne
  <2> QED
    BY <1>0, <1>1, <1>2, <1>5, <2>1
<1>6. CASE work.events[s.id] = NoRow
  <2>1. /\ IsDatabase(work') /\ work'.events[s.id] = EventRow(UserOf[r], s, pk)
        /\ \A e \in EventIds \ {s.id} : work'.events[e] = work.events[e]
    BY <1>1, <1>2, <1>3, <1>6, IngestOneWrites
  <2> QED
    BY <1>0, <1>2, <1>4, <1>6, <2>1
<1> QED
  BY <1>5, <1>6

\* A capture leaves the events alone.
LEMMA CaptureKeeps ==
  ASSUME IInv, NEW r \in Requests, IngestDiagnosticCapture(r)
  PROVE  SameTables(work, work') /\ IsDatabase(work')
<1>1. IsDatabase(work)
  BY DEF IInv, Types
<1>2. work' = IngestCapture(work, UserOf[r], CaptureAt(r))
  BY DEF IngestDiagnosticCapture
<1> QED
  BY <1>1, <1>2, WritesBeside, SameDatabase

\* Once stored, an event is stored in every later database.
LEMMA EventsStay ==
  ASSUME IInv, [Next]_vars, NEW e \in EventIds, db.events[e] # NoRow
  PROVE  db'.events[e] = db.events[e]
<1>1. CASE UNCHANGED db
  BY <1>1
<1>2. ASSUME NEW r \in Requests, Commit(r) PROVE db'.events[e] = db.events[e]
  BY <1>2, StoreConstants DEF Commit, IInv, OnlyInserts
<1> QED
  BY <1>1, <1>2 DEF Next, vars, Send, Begin, Busy, IngestEvent, IngestDiagnosticCapture,
                    RejectCapture, Fail

\* A transaction that commits has stored its whole batch.
LEMMA CommitStoresAll ==
  ASSUME IInv, NEW r \in Requests, Commit(r)
  PROVE  \A e \in Ids(r) : db'.events[e] # NoRow
<1>1. /\ writer = r /\ r # Nobody /\ db' = work
      /\ pos[r] > Len(Batch[r]) + Len(Captures[r]) /\ pos[r] \in Nat
  BY StoreConstants DEF Commit, LastItem, IInv, Types
<1>2. \A i \in DOMAIN Batch[r] : i < pos[r]
  <2> DEFINE m == Len(Batch[r])
             n == Len(Captures[r])
  <2>1. m \in Nat /\ n \in Nat /\ pos[r] \in Nat /\ pos[r] > m + n /\ DOMAIN Batch[r] = 1..m
    BY <1>1, BatchTypes
  <2> HIDE DEF m, n
  <2> QED
    BY <2>1
<1> QED
  BY <1>1, <1>2 DEF IInv, DoneIsStored, Ids

\* The end of a transaction leaves nothing to be kept but the answers.
LEMMA EndIsSafe ==
  ASSUME IInv, [Next]_vars, NEW r \in Requests, NEW answer \in {"ok", "error", "rejected"},
         End(r, answer), IsDatabase(db'),
         answer = "ok" => \A e \in Ids(r) : db'.events[e] # NoRow
  PROVE  IInv'
<1>1. Types'
  BY DEF IInv, Types, End
<1>2. \A q \in Requests : reply'[q] = "ok" => \A e \in Ids(q) : db'.events[e] # NoRow
  <2> SUFFICES ASSUME NEW q \in Requests, reply'[q] = "ok", NEW e \in Ids(q)
               PROVE  db'.events[e] # NoRow
    OBVIOUS
  <2>1. CASE q = r
    BY <2>1 DEF End, IInv, Types
  <2>2. CASE q # r
    <3>1. db.events[e] # NoRow
      BY <2>2 DEF End, IInv, Types, AnsweredIsStored
    <3> QED
      BY <3>1, EventsStay, BatchTypes
  <2> QED
    BY <2>1, <2>2
<1>3. AnsweredIsStored'
  BY <1>2 DEF AnsweredIsStored, Ids
<1> QED
  BY <1>1, <1>3 DEF End, IInv, OnlyInserts, DoneIsStored

\* ... and is kept by every step.
LEMMA StepIsSafe == IInv /\ [Next]_vars => IInv'
<1> SUFFICES ASSUME IInv, [Next]_vars PROVE IInv'
  OBVIOUS
<1> USE StoreConstants
<1>1. CASE UNCHANGED vars
  BY <1>1 DEF vars, IInv, Types, OnlyInserts, DoneIsStored, AnsweredIsStored, Ids
<1>2. ASSUME NEW r \in Requests, Send(r) PROVE IInv'
  <2>1. Types'
    BY <1>2 DEF Send, IInv, Types
  <2>2. OnlyInserts'
    BY <1>2 DEF Send, IInv, OnlyInserts, Ids
  <2>3. writer # Nobody => pos'[writer] = pos[writer]
    BY <1>2 DEF Send, IInv, Types, DoneIsStored
  <2>4. DoneIsStored'
    BY <1>2, <2>3 DEF Send, IInv, DoneIsStored
  <2>5. AnsweredIsStored'
    BY <1>2 DEF Send, IInv, Types, AnsweredIsStored, Ids
  <2> QED
    BY <2>1, <2>2, <2>4, <2>5 DEF IInv
<1>3. ASSUME NEW r \in Requests, Begin(r) PROVE IInv'
  <2>1. \A i \in DOMAIN Batch[r] : ~(i < 1)
    BY BatchTypes
  <2>2. Types' /\ OnlyInserts' /\ AnsweredIsStored'
    BY <1>3 DEF Begin, IInv, Types, OnlyInserts, AnsweredIsStored, Ids
  <2>3. DoneIsStored'
    BY <1>3, <2>1 DEF Begin, DoneIsStored
  <2> QED
    BY <2>2, <2>3 DEF IInv
<1>4. ASSUME NEW r \in Requests, Busy(r) PROVE IInv'
  <2>1. Types' /\ OnlyInserts' /\ AnsweredIsStored'
    BY <1>4 DEF Busy, IInv, Types, OnlyInserts, AnsweredIsStored, Ids
  <2>2. writer # Nobody => pos'[writer] = pos[writer]
    BY <1>4 DEF Busy, IInv, Types
  <2>3. DoneIsStored'
    BY <1>4, <2>2 DEF Busy, IInv, DoneIsStored
  <2> QED
    BY <2>1, <2>3 DEF IInv
<1>5. ASSUME NEW r \in Requests, IngestEvent(r) PROVE IInv'
  <2> DEFINE id == Batch[r][pos[r]].id
  <2>1. /\ IsDatabase(work') /\ id \in Ids(r) /\ id \in EventIds /\ work'.events[id] # NoRow
        /\ work.events[id] # NoRow => work' = work
        /\ \A e \in EventIds \ {id} : work'.events[e] = work.events[e]
    BY <1>5, IngestEventStores
  <2>2. /\ writer = r /\ r # Nobody /\ writer' = r /\ db' = db /\ reply' = reply
        /\ pos[r] \in Nat /\ pos'[r] = pos[r] + 1 /\ pos' \in [Requests -> Nat]
    BY <1>5 DEF IngestEvent, IInv, Types
  <2> HIDE DEF id
  <2>3. Types' /\ AnsweredIsStored'
    BY <2>1, <2>2 DEF IInv, Types, AnsweredIsStored, Ids
  <2>4. OnlyInserts'
    BY <2>1, <2>2 DEF IInv, OnlyInserts, Ids
  <2>5. DoneIsStored'
    <3> SUFFICES ASSUME NEW i \in DOMAIN Batch[r], i < pos[r] + 1
                 PROVE  work'.events[Batch[r][i].id] # NoRow
      BY <2>2 DEF DoneIsStored
    <3>1. i \in Nat /\ Batch[r][i].id \in EventIds
      BY BatchTypes
    <3>2. CASE i = pos[r]
      BY <3>2, <2>1 DEF id
    <3>3. CASE i < pos[r]
      BY <3>1, <3>3, <2>1, <2>2 DEF IInv, DoneIsStored
    <3> QED
      BY <3>1, <3>2, <3>3, <2>2
  <2> QED
    BY <2>3, <2>4, <2>5 DEF IInv
<1>6. ASSUME NEW r \in Requests, IngestDiagnosticCapture(r) PROVE IInv'
  <2>1. IsDatabase(work') /\ work'.events = work.events
    BY <1>6, CaptureKeeps DEF SameTables
  <2>2. /\ writer = r /\ r # Nobody /\ writer' = r /\ db' = db /\ reply' = reply
        /\ pos[r] \in Nat /\ pos[r] > Len(Batch[r]) /\ pos'[r] = pos[r] + 1
        /\ pos' \in [Requests -> Nat]
    BY <1>6 DEF IngestDiagnosticCapture, IInv, Types
  <2>3. Types' /\ AnsweredIsStored' /\ OnlyInserts'
    BY <2>1, <2>2 DEF IInv, Types, AnsweredIsStored, OnlyInserts, Ids
  <2>4. \A i \in DOMAIN Batch[r] : i < pos[r]
    BY <2>2, BatchTypes
  <2>5. DoneIsStored'
    BY <2>1, <2>2, <2>4 DEF IInv, DoneIsStored
  <2> QED
    BY <2>3, <2>5 DEF IInv
<1>7. ASSUME NEW r \in Requests, RejectCapture(r) \/ Fail(r) PROVE IInv'
  BY <1>7, EndIsSafe DEF RejectCapture, Fail, IInv, Types
<1>8. ASSUME NEW r \in Requests, Commit(r) PROVE IInv'
  <2>1. IsDatabase(db')
    BY <1>8 DEF Commit, IInv, Types
  <2> QED
    BY <1>8, <2>1, CommitStoresAll, EndIsSafe DEF Commit
<1> QED
  BY <1>1, <1>2, <1>3, <1>4, <1>5, <1>6, <1>7, <1>8 DEF Next

\* The inductive invariant holds in every state, for any requests.
THEOREM Invariance == Spec => []IInv
  BY InitIsSafe, StepIsSafe, PTL DEF Spec

\* Whatever fails afterwards, and whoever sends the same events again, what was answered
\* is stored.
THEOREM AnsweredIsStoredHolds == Spec => []AnsweredIsStored
<1>1. IInv => AnsweredIsStored
  BY DEF IInv
<1> QED
  BY <1>1, Invariance, PTL

-----------------------------------------------------------------------------
(* The store implements EventStore. *)

\* At first nothing is stored, ...
LEMMA InitRefines == Init => EventStoreOf!EInit
<1> SUFFICES ASSUME Init PROVE EventStoreOf!EInit
  OBVIOUS
<1>1. db.events = [e \in EventIds |-> db.events[e]]
  BY EmptyIsDatabase DEF Init, IsDatabase
<1> QED
  BY <1>1, EmptyIsDatabase DEF Init, EventStoreOf!EInit

\* ... and of all steps only a commit changes what is: it stores one request's events.
LEMMA NextRefines == IInv /\ [Next]_vars => [EventStoreOf!ENext]_(db.events)
<1> SUFFICES ASSUME IInv, [Next]_vars PROVE EventStoreOf!ENext \/ db'.events = db.events
  OBVIOUS
<1>1. CASE UNCHANGED db
  BY <1>1
<1>2. ASSUME NEW r \in Requests, Commit(r) PROVE EventStoreOf!IngestBatch(r)
  <2>1. writer = r /\ r # Nobody /\ db' = work
    BY <1>2, StoreConstants DEF Commit
  <2>2. \A e \in EventIds : db'.events[e] # db.events[e] => db.events[e] = NoRow /\ e \in Ids(r)
    BY <2>1 DEF IInv, OnlyInserts
  <2>3. DOMAIN db'.events = EventIds
    BY <2>1 DEF IInv, Types, IsDatabase
  <2> QED
    BY <1>2, <2>2, <2>3, CommitStoresAll DEF EventStoreOf!IngestBatch, EventStoreOf!Stored
<1> QED
  BY <1>1, <1>2 DEF Next, vars, Send, Begin, Busy, IngestEvent, IngestDiagnosticCapture,
                    RejectCapture, Fail, EventStoreOf!ENext

\* Whatever fails and however often they are sent, requests are stored batch by batch,
\* each event once, and what is stored never changes.
THEOREM SqliteImplementsEventStore == Spec => ImplementsEventStore
  BY InitRefines, NextRefines, Invariance, PTL
  DEF Spec, ImplementsEventStore, EventStoreOf!ESpec

-----------------------------------------------------------------------------
(* The rows of sessions and their titles. *)

SessionRecords == [pk : Nat, device : Devices, started : Int, ended : Int, revision : Nat]

\* A row tells the truth of the events S: it spans and counts them, and its bounds and
\* its device are those of some of them.
SessionTrue(row, S) ==
  /\ IsFiniteSet(S)
  /\ row = NoRow <=> S = {}
  /\ row # NoRow =>
       /\ row \in SessionRecords
       /\ \A e \in S : row.started <= e.at /\ e.at <= row.ended
       /\ \E e \in S : e.at = row.started
       /\ \E e \in S : e.at = row.ended
       /\ \E e \in S : e.device = row.device
       /\ row.revision = Cardinality(S)

\* A title is that of the earliest request of S.
TitleTrue(title, S) ==
  /\ title = NoRow <=> \A e \in S : e.kind # "request"
  /\ title # NoRow =>
       /\ title \in [at : Int, pk : Nat]
       /\ \E e \in S : e.kind = "request" /\ e.at = title.at /\ e.pk = title.pk
       /\ \A e \in S : e.kind = "request" =>
            title.at < e.at \/ (title.at = e.at /\ title.pk <= e.pk)

RowTyped(e) == e.at \in Int /\ e.pk \in Nat /\ e.device \in Devices /\ e.kind \in {"request", "response"}

Truth(d) ==
  /\ \A e \in EventIds : d.events[e] # NoRow => RowTyped(d.events[e])
  /\ IsFiniteSet(Existing(d))
  /\ \A s \in Sessions : SessionTrue(d.sessions[s], Of(d, s)) /\ TitleTrue(d.titles[s], Of(d, s))

\* One more event keeps a session's row true ...
LEMMA SessionStaysTrue ==
  ASSUME NEW old, NEW S, SessionTrue(old, S), NEW x, x \notin S, RowTyped(x),
         \A e \in S : RowTyped(e),
         NEW s, x.at = s.at, x.device = s.device, NEW count \in Nat,
         NEW row, row = SessionAfter(old, s, count)
  PROVE  SessionTrue(row, S \cup {x}) /\ row # NoRow
<1>1. /\ IsFiniteSet(S) /\ IsFiniteSet(S \cup {x})
      /\ Cardinality(S) \in Nat /\ Cardinality(S \cup {x}) = Cardinality(S) + 1
  BY FS_AddElement, FS_CardinalityType DEF SessionTrue
<1>2. s.at \in Int /\ s.device \in Devices
  BY DEF RowTyped
<1>3. CASE old = NoRow
  <2>1. S = {} /\ Cardinality(S) = 0
    BY <1>3, FS_EmptySet DEF SessionTrue
  <2>2. row = [pk |-> count, device |-> s.device, started |-> s.at, ended |-> s.at, revision |-> 1]
    BY <1>3 DEF SessionAfter
  <2>3. row \in SessionRecords
    BY <1>2, <2>2 DEF SessionRecords
  <2>4. row # NoRow
    BY <2>3, RowsArePresent DEF SessionRecords
  <2>5. S \cup {x} = {x} /\ Cardinality({x}) = 1
    BY <1>1, <2>1
  <2>6. row.started = s.at /\ row.ended = s.at /\ row.device = s.device /\ row.revision = 1
    BY <2>2
  <2>7. \A e \in {x} : /\ row.started <= e.at /\ e.at <= row.ended
                       /\ e.at = row.started /\ e.at = row.ended /\ e.device = row.device
    BY <1>2, <2>6
  <2> QED
    BY <1>1, <2>3, <2>4, <2>5, <2>6, <2>7 DEF SessionTrue
<1>4. CASE old # NoRow
  <2>1. old \in SessionRecords
    BY <1>4 DEF SessionTrue
  <2>2. row = [old EXCEPT !.device = s.device, !.started = AtMost(@, s.at),
                          !.ended = AtLeast(@, s.at), !.revision = @ + 1]
    BY <1>4 DEF SessionAfter
  <2>3. /\ row.device = s.device /\ row.started = AtMost(old.started, s.at)
        /\ row.ended = AtLeast(old.ended, s.at) /\ row.revision = old.revision + 1
        /\ old.started \in Int /\ old.ended \in Int
    BY <2>1, <2>2 DEF SessionRecords
  <2>4. row \in SessionRecords
    <3>1. AtMost(old.started, s.at) \in Int /\ AtLeast(old.ended, s.at) \in Int
      BY <1>2, <2>3 DEF AtMost, AtLeast
    <3>2. old.revision + 1 \in Nat
      BY <2>1 DEF SessionRecords
    <3> QED
      BY <1>2, <2>1, <2>2, <3>1, <3>2 DEF SessionRecords
  <2>5. row # NoRow
    BY <2>4, RowsArePresent DEF SessionRecords
  <2>6. \A e \in S \cup {x} : row.started <= e.at /\ e.at <= row.ended
    BY <1>2, <1>4, <2>3 DEF SessionTrue, AtMost, AtLeast, RowTyped
  <2>7. /\ \E e \in S \cup {x} : e.at = row.started
        /\ \E e \in S \cup {x} : e.at = row.ended
        /\ \E e \in S \cup {x} : e.device = row.device
    BY <1>2, <1>4, <2>3 DEF SessionTrue, AtMost, AtLeast
  <2>8. row.revision = Cardinality(S \cup {x})
    BY <1>1, <1>4, <2>3 DEF SessionTrue
  <2> QED
    BY <1>1, <2>4, <2>5, <2>6, <2>7, <2>8 DEF SessionTrue
<1> QED
  BY <1>3, <1>4

\* ... and its title.
LEMMA TitleStaysTrue ==
  ASSUME NEW old, NEW S, TitleTrue(old, S), NEW x, RowTyped(x), \A e \in S : RowTyped(e),
         NEW s, NEW pk, x.at = s.at, x.kind = s.kind, x.pk = pk,
         NEW title, title = TitleAfter(old, s, pk)
  PROVE  TitleTrue(title, S \cup {x})
<1>1. s.at \in Int /\ pk \in Nat /\ s.kind \in {"request", "response"}
  BY DEF RowTyped
<1>2. CASE s.kind = "response"
  <2>1. title = old /\ x.kind # "request"
    BY <1>2 DEF TitleAfter
  <2> QED
    BY <2>1 DEF TitleTrue
<1>3. CASE s.kind = "request" /\ old # NoRow /\ (old.at < s.at \/ (old.at = s.at /\ old.pk <= pk))
  <2>1. title = old
    BY <1>3 DEF TitleAfter
  <2> QED
    BY <1>3, <2>1 DEF TitleTrue
<1>4. CASE s.kind = "request" /\ ~(old # NoRow /\ (old.at < s.at \/ (old.at = s.at /\ old.pk <= pk)))
  <2>1. title = [at |-> s.at, pk |-> pk]
    BY <1>4 DEF TitleAfter
  <2>2. title \in [at : Int, pk : Nat] /\ title # NoRow /\ title.at = s.at /\ title.pk = pk
    BY <1>1, <2>1, RowsArePresent
  <2>3. \A e \in S : e.kind = "request" => title.at < e.at \/ (title.at = e.at /\ title.pk <= e.pk)
    BY <1>1, <1>4, <2>2 DEF TitleTrue, RowTyped
  <2> QED
    BY <1>1, <1>4, <2>2, <2>3 DEF TitleTrue
<1> QED
  BY <1>1, <1>2, <1>3, <1>4

\* The events of each session after one more event.
LEMMA EventsOfSession ==
  ASSUME NEW d, NEW n, NEW id \in EventIds, NEW x, x # NoRow,
         d.events[id] = NoRow, n.events[id] = x,
         \A e \in EventIds \ {id} : n.events[e] = d.events[e]
  PROVE  /\ Of(n, x.session) = Of(d, x.session) \cup {x}
         /\ \A t \in Sessions : t # x.session => Of(n, t) = Of(d, t)
BY DEF Of

\* Storing one new event keeps the rows of all sessions true.
LEMMA IngestKeepsTruth ==
  ASSUME NEW d, IsDatabase(d), Truth(d), NEW user, NEW s, NEW pk \in Nat \ UsedPks(d),
         s.id \in EventIds, s.session \in Sessions, s.device \in Devices, s.at \in Int,
         s.kind \in {"request", "response"},
         d.events[s.id] = NoRow, EventRow(user, s, pk) # NoRow,
         NEW n, n = IngestOne(d, user, s, pk)
  PROVE  Truth(n)
<1>1. PICK x : x = EventRow(user, s, pk)
  OBVIOUS
<1>2. /\ x.session = s.session /\ x.at = s.at /\ x.kind = s.kind /\ x.pk = pk
      /\ x.device = s.device /\ RowTyped(x) /\ x # NoRow
  BY <1>1 DEF EventRow, RowTyped
<1>3. /\ IsDatabase(n) /\ n.events[s.id] = x
      /\ \A e \in EventIds \ {s.id} : n.events[e] = d.events[e]
      /\ n.sessions[s.session] =
           SessionAfter(d.sessions[s.session], s, 1 + Cardinality(Existing(d)))
      /\ n.titles[s.session] = TitleAfter(d.titles[s.session], s, pk)
      /\ \A t \in Sessions \ {s.session} :
           n.sessions[t] = d.sessions[t] /\ n.titles[t] = d.titles[t]
  BY <1>1, IngestOneWrites
<1>4. \A e \in EventIds : n.events[e] # NoRow => RowTyped(n.events[e])
  BY <1>2, <1>3 DEF Truth
<1>5. /\ Of(n, s.session) = Of(d, s.session) \cup {x}
      /\ \A t \in Sessions : t # s.session => Of(n, t) = Of(d, t)
  BY <1>2, <1>3, EventsOfSession
<1>6. \A e \in Of(d, s.session) : RowTyped(e) /\ e.pk \in UsedPks(d)
  BY DEF Of, Truth, UsedPks
<1>7. x \notin Of(d, s.session)
  BY <1>2, <1>6
<1>8. Cardinality(Existing(d)) \in Nat
  BY FS_CardinalityType DEF Truth
<1>9. SessionTrue(n.sessions[s.session], Of(n, s.session)) /\ n.sessions[s.session] # NoRow
  BY <1>2, <1>3, <1>5, <1>6, <1>7, <1>8, SessionStaysTrue DEF Truth
<1>10. TitleTrue(n.titles[s.session], Of(n, s.session))
  <2>1. TitleTrue(d.titles[s.session], Of(d, s.session))
    BY DEF Truth
  <2>2. \A e \in Of(d, s.session) : RowTyped(e)
    BY <1>6
  <2>3. ASSUME NEW title, title = TitleAfter(d.titles[s.session], s, pk)
        PROVE  TitleTrue(title, Of(d, s.session) \cup {x})
    <3>1. RowTyped(x) /\ x.at = s.at /\ x.kind = s.kind /\ x.pk = pk
      BY <1>2
    <3> QED
      BY <2>1, <2>2, <2>3, <3>1, TitleStaysTrue
  <2> QED
    BY <1>3, <1>5, <2>3
<1>11. IsFiniteSet(Existing(n))
  <2>1. Existing(n) = Existing(d) \cup {s.session}
    BY <1>3, <1>9 DEF Existing
  <2> QED
    BY <2>1, FS_AddElement DEF Truth
<1>12. \A t \in Sessions : SessionTrue(n.sessions[t], Of(n, t)) /\ TitleTrue(n.titles[t], Of(n, t))
  <2> SUFFICES ASSUME NEW t \in Sessions, t # s.session
               PROVE  SessionTrue(n.sessions[t], Of(n, t)) /\ TitleTrue(n.titles[t], Of(n, t))
    BY <1>9, <1>10
  <2> QED
    BY <1>3, <1>5 DEF Truth
<1> QED
  BY <1>4, <1>11, <1>12 DEF Truth

\* Truth depends on the three tables only.
LEMMA SameTruth ==
  ASSUME NEW d, NEW n, SameTables(d, n), Truth(d)
  PROVE  Truth(n)
BY Zenon DEF SameTables, Truth, Of, Existing

\* No row and no event agree.
LEMMA EmptyIsTrue == Truth(Empty)
<1>1. Existing(Empty) = {} /\ \A s \in Sessions : Of(Empty, s) = {}
  BY EmptyIsDatabase DEF Existing, Of
<1> QED
  BY <1>1, EmptyIsDatabase, FS_EmptySet DEF Truth, SessionTrue, TitleTrue

RowsAreTrue == Truth(db) /\ Truth(work)

\* Every step keeps the committed and the uncommitted rows true.
LEMMA StepKeepsRowsTrue == IInv /\ RowsAreTrue /\ [Next]_vars => RowsAreTrue'
<1> SUFFICES ASSUME IInv, RowsAreTrue, [Next]_vars PROVE RowsAreTrue'
  OBVIOUS
<1>1. CASE UNCHANGED vars
  BY <1>1 DEF vars, RowsAreTrue
<1>2. ASSUME NEW r \in Requests, Send(r) \/ Begin(r) \/ Busy(r) \/ RejectCapture(r) \/ Commit(r) \/ Fail(r)
      PROVE  RowsAreTrue'
  <2>1. db' \in {db, work} /\ work' \in {work, db, db'}
    BY <1>2 DEF Send, Begin, Busy, RejectCapture, Commit, Fail, End
  <2> QED
    BY <2>1 DEF RowsAreTrue
<1>3. ASSUME NEW r \in Requests, IngestDiagnosticCapture(r) PROVE RowsAreTrue'
  <2>1. db' = db /\ SameTables(work, work')
    BY <1>3, CaptureKeeps DEF IngestDiagnosticCapture
  <2> QED
    BY <2>1, SameTruth DEF RowsAreTrue
<1>4. ASSUME NEW r \in Requests, IngestEvent(r) PROVE RowsAreTrue'
  <2>1. PICK s : s = Batch[r][pos[r]]
    OBVIOUS
  <2>2. /\ pos[r] \in DOMAIN Batch[r] /\ IsDatabase(work) /\ Truth(work) /\ db' = db
    BY <1>4 DEF IngestEvent, IInv, Types, RowsAreTrue
  <2>3. PICK pk \in Pks \ UsedPks(work) : work' = IngestOne(work, UserOf[r], s, pk)
    BY <1>4, <2>1 DEF IngestEvent
  <2>4. /\ s.id \in EventIds /\ s.session \in Sessions /\ s.device \in Devices /\ s.at \in Int
        /\ s.kind \in {"request", "response"} /\ pk \in Nat \ UsedPks(work)
        /\ EventRow(UserOf[r], s, pk) # NoRow
    BY <2>1, <2>2, <2>3, BatchTypes, RowsArePresent, TableConstants
  <2>5. CASE work.events[s.id] # NoRow
    BY <2>2, <2>3, <2>5 DEF IngestOne, RowsAreTrue
  <2>6. CASE work.events[s.id] = NoRow
    BY <2>2, <2>3, <2>4, <2>6, IngestKeepsTruth DEF RowsAreTrue
  <2> QED
    BY <2>5, <2>6
<1> QED
  BY <1>1, <1>2, <1>3, <1>4 DEF Next

\* True rows are the property's: the bounds of a set of numbers are its least and its
\* greatest member.
LEMMA TrueRowsSuffice == Truth(db) => SessionRowIsTrue
<1> SUFFICES ASSUME Truth(db), NEW s \in Sessions
             PROVE  LET events   == Of(db, s)
                        row      == db.sessions[s]
                        requests == {e \in events : e.kind = "request"}
                        title    == db.titles[s]
                    IN  /\ row = NoRow <=> events = {}
                        /\ row # NoRow =>
                             /\ row.started = Min({e.at : e \in events})
                             /\ row.ended = Max({e.at : e \in events})
                             /\ row.revision = Cardinality(events)
                             /\ \E e \in events : e.device = row.device
                        /\ title = NoRow <=> requests = {}
                        /\ title # NoRow =>
                             /\ \E e \in requests : e.at = title.at /\ e.pk = title.pk
                             /\ \A e \in requests : title.at < e.at \/ (title.at = e.at /\ title.pk <= e.pk)
  BY Zenon DEF SessionRowIsTrue
<1> DEFINE events == Of(db, s)
           row == db.sessions[s]
           times == {e.at : e \in events}
<1>1. SessionTrue(row, events) /\ TitleTrue(db.titles[s], events)
  BY DEF Truth
<1>2. \A e \in events : e.at \in Int
  BY DEF Truth, Of, RowTyped
<1> HIDE DEF events, row
<1>3. ASSUME row # NoRow PROVE row.started = Min(times) /\ row.ended = Max(times)
  <2>1. /\ row.started \in times /\ \A t \in times : row.started <= t
        /\ row.ended \in times /\ \A t \in times : t <= row.ended
    BY <1>1, <1>3 DEF SessionTrue
  <2>2. \A t \in times : t \in Int
    BY <1>2
  <2> HIDE DEF times
  <2>3. Min(times) \in times /\ \A t \in times : Min(times) <= t
    BY <2>1, <2>2 DEF Min
  <2>4. Max(times) \in times /\ \A t \in times : t <= Max(times)
    BY <2>1, <2>2 DEF Max
  <2> QED
    BY <2>1, <2>2, <2>3, <2>4
<1> QED
  BY <1>1, <1>3 DEF SessionTrue, TitleTrue, events, row

\* Whatever the order in which events arrive and whoever sends them, the row of a session
\* spans and counts its events, and its title is its earliest request.
THEOREM SessionRowIsTrueHolds == Spec => []SessionRowIsTrue
<1>1. Init => RowsAreTrue
  BY EmptyIsTrue DEF Init, RowsAreTrue
<1>2. RowsAreTrue => SessionRowIsTrue
  BY TrueRowsSuffice DEF RowsAreTrue
<1> QED
  BY <1>1, <1>2, StepKeepsRowsTrue, Invariance, PTL DEF Spec

-----------------------------------------------------------------------------
(* The text index. *)

IndexesAreTrue == IndexTrue(db) /\ IndexTrue(work)

\* Every step keeps the committed and the uncommitted index true.
LEMMA StepKeepsIndexesTrue == IInv /\ IndexesAreTrue /\ [Next]_vars => IndexesAreTrue'
<1> SUFFICES ASSUME IInv, IndexesAreTrue, [Next]_vars PROVE IndexesAreTrue'
  OBVIOUS
<1>1. CASE UNCHANGED vars
  BY <1>1 DEF vars, IndexesAreTrue
<1>2. ASSUME NEW r \in Requests, Send(r) \/ Begin(r) \/ Busy(r) \/ RejectCapture(r) \/ Commit(r) \/ Fail(r)
      PROVE  IndexesAreTrue'
  <2>1. db' \in {db, work} /\ work' \in {work, db, db'}
    BY <1>2 DEF Send, Begin, Busy, RejectCapture, Commit, Fail, End
  <2> QED
    BY <2>1 DEF IndexesAreTrue
<1>3. ASSUME NEW r \in Requests, IngestDiagnosticCapture(r) PROVE IndexesAreTrue'
  <2>1. db' = db /\ work'.events = work.events
    BY <1>3, CaptureKeeps DEF IngestDiagnosticCapture, SameTables
  <2>2. SameIndex(work, work')
    BY <1>3, WritesOutside DEF IngestDiagnosticCapture, IInv, Types
  <2> QED
    BY <2>1, <2>2, SameIndexIsTrue DEF IndexesAreTrue
<1>4. ASSUME NEW r \in Requests, IngestEvent(r) PROVE IndexesAreTrue'
  <2>1. PICK s : s = Batch[r][pos[r]]
    OBVIOUS
  <2>2. pos[r] \in DOMAIN Batch[r] /\ IsDatabase(work) /\ IndexTrue(work) /\ db' = db
    BY <1>4 DEF IngestEvent, IInv, Types, IndexesAreTrue
  <2>3. PICK pk \in Pks \ UsedPks(work) : work' = IngestOne(work, UserOf[r], s, pk)
    BY <1>4, <2>1 DEF IngestEvent
  <2>4. /\ s.id \in EventIds /\ s.session \in Sessions /\ s.device \in Devices
        /\ s.entries \in Seq(Range(s.entries)) /\ EventRow(UserOf[r], s, pk) # NoRow
    BY <2>1, <2>2, BatchTypes, BatchesAreSubmissions, RowsArePresent
  <2>5. CASE work.events[s.id] # NoRow
    BY <2>2, <2>3, <2>5 DEF IngestOne, IndexesAreTrue
  <2>6. CASE work.events[s.id] = NoRow
    BY <2>2, <2>3, <2>4, <2>6, IngestKeepsIndex DEF IndexesAreTrue
  <2> QED
    BY <2>5, <2>6
<1> QED
  BY <1>1, <1>2, <1>3, <1>4 DEF Next

\* A true index is the property's: the row a reference names is the only one it can name.
LEMMA TrueIndexSuffices == IndexTrue(db) => IndexIsExact
<1> DEFINE stored == {db.events[e] : e \in {f \in EventIds : db.events[f] # NoRow}}
           TextOf(id) == CHOOSE t \in db.texts : t.id = id
           told(r) == <<r.event, TextOf(r.text).user, r.entry, r.field, TextOf(r.text).text>>
           piece(e, p) == <<e.pk, e.user, p.entry, p.field, p.text>>
<1> SUFFICES ASSUME IndexTrue(db) PROVE IndexIsExact
  OBVIOUS
<1>1. \A r \in db.refs, t \in db.texts : r.text = t.id => TextOf(r.text) = t
  BY DEF IndexTrue, TextsTrue
<1>2. \A r \in db.refs, t \in db.texts : \A e, p :
        Tells(r, t, e.pk, e.user, p) => told(r) = piece(e, p)
  BY <1>1 DEF Tells
<1> HIDE DEF TextOf, told, piece
<1>3. ASSUME NEW r \in db.refs
      PROVE  \E e \in stored : \E p \in PiecesOf(e) : told(r) = piece(e, p)
  <2>1. PICK t \in db.texts : r.text = t.id
    BY DEF IndexTrue
  <2>2. PICK f \in EventIds : db.events[f] # NoRow
                 /\ \E p \in PiecesOf(db.events[f]) : Tells(r, t, db.events[f].pk, db.events[f].user, p)
    BY Zenon, <2>1 DEF IndexTrue
  <2>3. PICK p \in PiecesOf(db.events[f]) : Tells(r, t, db.events[f].pk, db.events[f].user, p)
    BY Zenon, <2>2
  <2>4. db.events[f] \in stored
    BY Zenon, <2>2
  <2>5. told(r) = piece(db.events[f], p)
    BY Zenon, <1>2, <2>3
  <2> QED
    BY Zenon, <2>3, <2>4, <2>5
<1>4. ASSUME NEW e \in stored, NEW p \in PiecesOf(e)
      PROVE  \E r \in db.refs : told(r) = piece(e, p)
  <2>1. PICK f \in EventIds : db.events[f] # NoRow /\ e = db.events[f]
    OBVIOUS
  <2>2. PICK r \in db.refs, t \in db.texts : Tells(r, t, e.pk, e.user, p)
    BY <1>4, <2>1 DEF IndexTrue
  <2> QED
    BY <1>2, <2>2
<1> HIDE DEF stored
<1>5. {told(r) : r \in db.refs} = UNION {{piece(e, p) : p \in PiecesOf(e)} : e \in stored}
  BY <1>3, <1>4
<1>6. {t.id : t \in db.texts} = {r.text : r \in db.refs}
  BY DEF IndexTrue
<1>7. /\ \A t, u \in db.texts : t.id = u.id \/ (t.user = u.user /\ t.text = u.text) => t = u
      /\ db.trigrams = {[rowid |-> t.id, folded |-> Fold(t.text)] : t \in db.texts}
  BY DEF IndexTrue, TextsTrue, Trigrams
<1>8. \A r \in db.refs : r.text \in {t.id : t \in db.texts}
  BY <1>6
<1> QED
  BY Zenon, <1>5, <1>6, <1>7, <1>8 DEF IndexIsExact, stored, told, piece, TextOf, PiecesOf

\* Whatever texts the events of all owners share, and however requests fail and are sent
\* again, the text index holds what is stored and nothing else.
THEOREM IndexIsExactHolds == Spec => []IndexIsExact
<1>1. Init => IndexesAreTrue
  BY EmptyIndexIsTrue DEF Init, IndexesAreTrue
<1>2. IndexesAreTrue => IndexIsExact
  BY TrueIndexSuffices DEF IndexesAreTrue
<1> QED
  BY <1>1, <1>2, StepKeepsIndexesTrue, Invariance, PTL DEF Spec
=============================================================================
