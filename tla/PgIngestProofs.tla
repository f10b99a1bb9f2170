--------------------------- MODULE PgIngestProofs ---------------------------
(***************************************************************************)
(* Proofs about ingestion in the PostgreSQL profile, for any requests that  *)
(* share any rows in any way.                                              *)
(***************************************************************************)
EXTENDS PgIngest, TLAPS

-----------------------------------------------------------------------------
(* Types. *)

\* The event a transaction works on is a submission.
LEMMA SubmissionType ==
  ASSUME NEW r \in Requests, TypeOK, PlaceMatchesItem,
         pc[r] \in {"exists", "device", "session", "event", "children"}
  PROVE  /\ Submission(r) \in Submissions
         /\ Submission(r).id \in EventIds /\ Submission(r).id \in Keys
         /\ Submission(r).session \in Sessions /\ Submission(r).session \in Keys
         /\ Submission(r).device \in Devices /\ Submission(r).device \in Keys
         /\ Submission(r).at \in Nat
<1>1. pos[r] \in DOMAIN Batch[r]
  BY DEF PlaceMatchesItem
<1>2. Batch[r] \in Seq(Submissions)
  BY RequestsAreSubmissions
<1>3. Submission(r) \in Submissions
  BY <1>1, <1>2 DEF Submission
<1> QED
  BY <1>3 DEF Submissions, Keys

\* The capture a transaction works on is one that was submitted.
LEMMA CaptureType ==
  ASSUME NEW r \in Requests, TypeOK, PlaceMatchesItem, pc[r] = "capture"
  PROVE  /\ CaptureOf(r) \in CaptureSubmissions
         /\ CaptureOf(r).id \in CaptureIds /\ CaptureOf(r).id \in Keys
         /\ CaptureOf(r).events \subseteq EventIds
<1>1. pos[r] - Len(Batch[r]) \in DOMAIN Captures[r]
  BY DEF PlaceMatchesItem
<1>2. Captures[r] \in Seq(CaptureSubmissions)
  BY RequestsAreSubmissions
<1>3. CaptureOf(r) \in CaptureSubmissions
  BY <1>1, <1>2 DEF CaptureOf
<1> QED
  BY <1>3 DEF CaptureSubmissions, Keys

\* Rows that exist have the type of their table.
LEMMA RowTypes ==
  ASSUME TypeOK
  PROVE  /\ \A d \in Devices : cur[d] # NoRow => cur[d] \in DeviceRows
         /\ \A s \in Sessions : cur[s] # NoRow => cur[s] \in SessionRows
         /\ \A e \in EventIds : cur[e] # NoRow => cur[e] \in EventRows
         /\ \A d \in Devices : base[d] # NoRow => base[d] \in DeviceRows
         /\ \A s \in Sessions : base[s] # NoRow => base[s] \in SessionRows
         /\ \A e \in EventIds : base[e] # NoRow => base[e] \in EventRows
BY DEF TypeOK, TypedTable, Keys

\* Where a transaction goes after an item, and where it starts.
LEMMA OpeningType ==
  ASSUME NEW r \in Requests, NEW i \in Nat
  PROVE  Opening(r, i) \in {"exists", "capture", "commit"}
BY DEF Opening

\* Moving on to the next item keeps the types.
LEMMA NextItemType ==
  ASSUME NEW r \in Requests, TypeOK, NextItem(r)
  PROVE  /\ pos' \in [Requests -> Nat]
         /\ pc' \in [Requests -> Statements \cup {"idle"}]
<1>1. Opening(r, pos[r] + 1) \in Statements
  BY OpeningType DEF TypeOK, Statements
<1> QED
  BY <1>1 DEF NextItem, Goto, TypeOK

-----------------------------------------------------------------------------
(* What each statement writes. *)

\* Only row k changes, under a lock of r.
Writes(r, k) ==
  /\ k \in Keys /\ lock[k] \in {r, Nobody} /\ lock' = [lock EXCEPT ![k] = r]
  /\ DOMAIN cur' = Keys /\ cur'[k] # NoRow
  /\ \A j \in Keys \ {k} : cur'[j] = cur[j]
  /\ base' = base

\* The device row exists afterwards, spans the event, and has only been widened.
DeviceWritten(r) ==
  LET s == Submission(r)
      d == Submission(r).device
  IN  /\ d \in Devices /\ Writes(r, d) /\ cur'[d] \in DeviceRows
      /\ Spans(cur'[d].first, s.at, cur'[d].last)
      /\ cur[d] # NoRow =>
           cur'[d].first <= cur[d].first /\ cur[d].last <= cur'[d].last

\* The upsert of a device does that.
LEMMA DeviceWrite ==
  ASSUME NEW r \in Requests, TypeOK, PlaceMatchesItem, UpsertDevice(r)
  PROVE  DeviceWritten(r)
<1> DEFINE s == Submission(r)
           old == cur[s.device]
           row == IF old = NoRow THEN [first |-> s.at, last |-> s.at]
                  ELSE [first |-> Lesser(old.first, s.at),
                        last |-> Greater(old.last, s.at)]
<1>1. s.device \in Devices /\ s.device \in Keys /\ s.at \in Nat
  BY SubmissionType DEF UpsertDevice
<1>2. cur' = [cur EXCEPT ![s.device] = row]
  BY DEF UpsertDevice, Write
<1>3. old # NoRow => old \in DeviceRows
  BY <1>1, RowTypes
<1>4. /\ row \in DeviceRows /\ Spans(row.first, s.at, row.last)
      /\ old # NoRow => row.first <= old.first /\ old.last <= row.last
  BY <1>1, <1>3 DEF DeviceRows, Lesser, Greater, Spans
<1>5. row # NoRow
  BY <1>4, TablesAreApart
<1> HIDE DEF row, old
<1>6. Writes(r, s.device) /\ cur'[s.device] = row
  BY <1>1, <1>2, <1>5 DEF UpsertDevice, Write, CanWrite, Writes, TypeOK, TypedTable
<1> QED
  BY <1>1, <1>4, <1>6 DEF old, DeviceWritten

\* So does the session row, whose revision advances.
SessionWritten(r) ==
  LET s == Submission(r)
      k == Submission(r).session
  IN  /\ k \in Sessions /\ Writes(r, k) /\ cur'[k] \in SessionRows
      /\ Spans(cur'[k].started, s.at, cur'[k].ended)
      /\ cur[k] # NoRow =>
           /\ cur'[k].started <= cur[k].started /\ cur[k].ended <= cur'[k].ended
           /\ cur'[k].revision > cur[k].revision

\* The upsert of a session does that.
LEMMA SessionWrite ==
  ASSUME NEW r \in Requests, TypeOK, PlaceMatchesItem, UpsertSession(r)
  PROVE  SessionWritten(r)
<1> DEFINE s == Submission(r)
           old == cur[s.session]
           row == IF old = NoRow
                  THEN [device |-> s.device, started |-> s.at, ended |-> s.at,
                        revision |-> 1, title |-> NoRow]
                  ELSE [old EXCEPT !.device = s.device,
                                   !.started = Lesser(@, s.at),
                                   !.ended = Greater(@, s.at),
                                   !.revision = @ + 1]
<1>1. /\ s.session \in Sessions /\ s.session \in Keys
      /\ s.device \in Devices /\ s.at \in Nat
  BY SubmissionType DEF UpsertSession
<1>2. cur' = [cur EXCEPT ![s.session] = row]
  BY DEF UpsertSession, Write
<1>3. old # NoRow => old \in SessionRows
  BY <1>1, RowTypes
<1>4. /\ row \in SessionRows /\ Spans(row.started, s.at, row.ended)
      /\ old # NoRow =>
           /\ row.started <= old.started /\ old.ended <= row.ended
           /\ row.revision > old.revision
  <2>1. CASE old = NoRow
    BY <1>1, <2>1 DEF SessionRows, Spans
  <2>2. CASE old # NoRow
    <3>1. /\ Lesser(old.started, s.at) \in Nat /\ Greater(old.ended, s.at) \in Nat
          /\ old.revision + 1 \in Nat /\ old.revision + 1 > old.revision
          /\ Lesser(old.started, s.at) <= s.at /\ s.at <= Greater(old.ended, s.at)
          /\ Lesser(old.started, s.at) <= old.started
          /\ old.ended <= Greater(old.ended, s.at)
      BY <1>1, <1>3, <2>2 DEF SessionRows, Lesser, Greater
    <3>2. row = [old EXCEPT !.device = s.device,
                            !.started = Lesser(old.started, s.at),
                            !.ended = Greater(old.ended, s.at),
                            !.revision = old.revision + 1]
      BY <2>2
    <3> HIDE DEF row, old
    <3> QED
      BY <1>1, <1>3, <2>2, <3>1, <3>2 DEF SessionRows, Spans
  <2> QED
    BY <2>1, <2>2
<1>5. row # NoRow
  BY <1>4, TablesAreApart
<1> HIDE DEF row, old
<1>6. Writes(r, s.session) /\ cur'[s.session] = row
  BY <1>1, <1>2, <1>5 DEF UpsertSession, Write, CanWrite, Writes, TypeOK, TypedTable
<1> QED
  BY <1>1, <1>4, <1>6 DEF old, SessionWritten

\* The event row is new, and as it was submitted.
EventWritten(r) ==
  LET s == Submission(r)
      e == Submission(r).id
  IN  /\ e \in EventIds /\ Writes(r, e) /\ cur[e] = NoRow
      /\ cur'[e] \in EventRows
      /\ cur'[e].session = s.session /\ cur'[e].device = s.device
      /\ cur'[e].at = s.at

\* The insert of an event does that.
LEMMA EventWrite ==
  ASSUME NEW r \in Requests, TypeOK, PlaceMatchesItem, InsertEvent(r)
  PROVE  EventWritten(r)
<1> DEFINE s == Submission(r)
<1>1. s \in Submissions /\ s.id \in EventIds /\ s.id \in Keys
  BY SubmissionType DEF InsertEvent
<1>2. PICK pk \in Pks : Write(r, s.id, EventRow(r, pk))
  BY DEF InsertEvent, FreePks
<1>3. EventRow(r, pk) \in EventRows
  BY <1>1, <1>2 DEF EventRow, EventRows, Users, Submissions
<1>4. EventRow(r, pk) # NoRow
  BY <1>3, TablesAreApart
<1>5. Writes(r, s.id) /\ cur'[s.id] = EventRow(r, pk)
  BY <1>1, <1>2, <1>4 DEF InsertEvent, Write, CanWrite, Writes, TypeOK, TypedTable
<1> QED
  BY <1>1, <1>3, <1>5 DEF InsertEvent, EventRow, EventWritten

\* The children complete the event and may move the title of its session.
ChildrenWritten(r) ==
  LET e == Submission(r).id
      k == Submission(r).session
  IN  /\ e \in EventIds /\ k \in Sessions /\ e \in Keys /\ k \in Keys
      /\ lock[e] = r /\ lock[k] = r /\ e # k
      /\ cur[e] \in EventRows /\ cur[k] \in SessionRows
      /\ cur'[e] = [cur[e] EXCEPT !.whole = TRUE]
      /\ \E title \in Anchors \cup {NoRow} :
           cur'[k] = [cur[k] EXCEPT !.title = title]
      /\ \A j \in Keys \ {e, k} : cur'[j] = cur[j]
      /\ DOMAIN cur' = Keys /\ base' = base /\ lock' = lock

\* The statements after the event's do that.
LEMMA ChildrenWrite ==
  ASSUME NEW r \in Requests, TypeOK, PlaceMatchesItem, LocksAreHeld, ItemIsBacked,
         InsertChildren(r)
  PROVE  ChildrenWritten(r)
<1> DEFINE s == Submission(r)
           anchor == [at |-> s.at, pk |-> cur[s.id].pk]
           title == cur[s.session].title
           new == IF s.kind = "request" /\ (title = NoRow \/ Earlier(anchor, title))
                  THEN anchor ELSE title
<1>1. /\ s.id \in EventIds /\ s.id \in Keys /\ s.at \in Nat
      /\ s.session \in Sessions /\ s.session \in Keys
  BY SubmissionType DEF InsertChildren
<1>2. /\ lock[s.id] = r /\ lock[s.session] = r
      /\ cur[s.id] \in EventRows /\ cur[s.session] \in SessionRows
  BY <1>1, RowTypes, IngestConstants DEF InsertChildren, ItemIsBacked, LocksAreHeld
<1>3. new \in Anchors \cup {NoRow}
  BY <1>1, <1>2 DEF EventRows, SessionRows, Anchors
<1>4. s.id # s.session
  BY <1>1, TablesAreApart
<1>5. cur' = [cur EXCEPT ![s.id] = [cur[s.id] EXCEPT !.whole = TRUE],
                         ![s.session] = [cur[s.session] EXCEPT !.title = new]]
  BY <1>1, <1>4 DEF InsertChildren
<1> HIDE DEF new
<1> QED
  BY <1>1, <1>2, <1>3, <1>4, <1>5 DEF InsertChildren, TypeOK, TypedTable, ChildrenWritten

\* The capture row is new.
CaptureWritten(r) ==
  LET c == CaptureOf(r).id
  IN  /\ c \in CaptureIds /\ Writes(r, c) /\ cur'[c] \in CaptureRows

\* The insert of a capture does that.
LEMMA CaptureWrite ==
  ASSUME NEW r \in Requests, TypeOK, PlaceMatchesItem, InsertCapture(r)
  PROVE  CaptureWritten(r)
<1> DEFINE c == CaptureOf(r)
<1>1. /\ c \in CaptureSubmissions /\ c.id \in CaptureIds /\ c.id \in Keys
      /\ c.events \subseteq EventIds
  BY CaptureType DEF InsertCapture
<1>2. PICK e \in c.events : Write(r, c.id, CaptureRow(r, c, e))
  BY DEF InsertCapture
<1>3. Visible(r, e) # NoRow
  BY <1>2 DEF InsertCapture, Correlated, Reloaded
<1>4. Visible(r, e) \in EventRows
  BY <1>1, <1>2, <1>3, RowTypes DEF Visible
<1>5. CaptureRow(r, c, e) \in CaptureRows
  BY <1>1, <1>4 DEF CaptureRow, EventRows, CaptureRows, Users
<1>6. CaptureRow(r, c, e) # NoRow
  BY <1>5, TablesAreApart
<1> QED
  BY <1>1, <1>2, <1>5, <1>6
  DEF InsertCapture, Write, CanWrite, Writes, CaptureWritten, TypeOK, TypedTable

-----------------------------------------------------------------------------
(* Types. *)

\* The type invariant holds initially, and every step keeps it.
LEMMA InitTypeOK == Init => TypeOK
BY IngestConstants DEF Init, TypeOK, TypedTable, Statements

\* Every statement writes a row of its table's type.
LEMMA NextTypeOK ==
  ASSUME TypeOK, LocksAreHeld, PlaceMatchesItem, ItemIsBacked, [Next]_vars
  PROVE  TypeOK'
<1>1. CASE UNCHANGED vars
  BY <1>1 DEF TypeOK, TypedTable, vars
<1>2. ASSUME NEW r \in Requests, Send(r)
      PROVE  TypeOK'
  BY <1>2, OpeningType, IngestConstants DEF Send, Goto, TypeOK, Statements, TypedTable
<1>3. ASSUME NEW r \in Requests, CheckExists(r)
      PROVE  TypeOK'
  BY <1>3, NextItemType DEF CheckExists, Goto, TypeOK, Statements, TypedTable
<1>4. ASSUME NEW r \in Requests, UpsertDevice(r)
      PROVE  TypeOK'
  <2>1. DeviceWritten(r)
    BY <1>4, DeviceWrite
  <2>2. TypedTable(cur)'
    BY <2>1, TablesAreApart DEF DeviceWritten, Writes, TypeOK, TypedTable
  <2> QED
    BY <1>4, <2>1, <2>2
    DEF UpsertDevice, DeviceWritten, Writes, Goto, TypeOK, Statements, TypedTable
<1>5. ASSUME NEW r \in Requests, UpsertSession(r)
      PROVE  TypeOK'
  <2>1. SessionWritten(r)
    BY <1>5, SessionWrite
  <2>2. TypedTable(cur)'
    BY <2>1, TablesAreApart DEF SessionWritten, Writes, TypeOK, TypedTable
  <2> QED
    BY <1>5, <2>1, <2>2
    DEF UpsertSession, SessionWritten, Writes, Goto, TypeOK, Statements, TypedTable
<1>6. ASSUME NEW r \in Requests, InsertEvent(r)
      PROVE  TypeOK'
  <2>1. EventWritten(r)
    BY <1>6, EventWrite
  <2>2. TypedTable(cur)'
    <3>1. /\ Submission(r).id \in EventIds /\ cur'[Submission(r).id] \in EventRows
          /\ DOMAIN cur' = Keys /\ \A j \in Keys \ {Submission(r).id} : cur'[j] = cur[j]
      BY <2>1 DEF EventWritten, Writes
    <3>2. TypedTable(cur)
      BY DEF TypeOK
    <3> QED
      BY <3>1, <3>2, TablesAreApart DEF TypedTable
  <2> QED
    BY <1>6, <2>1, <2>2
    DEF InsertEvent, EventWritten, Writes, Goto, TypeOK, Statements, TypedTable
<1>7. ASSUME NEW r \in Requests, InsertChildren(r)
      PROVE  TypeOK'
  <2> DEFINE e == Submission(r).id
             k == Submission(r).session
  <2>1. ChildrenWritten(r)
    BY <1>7, ChildrenWrite
  <2>2. cur'[e] \in EventRows
    BY <2>1 DEF ChildrenWritten, EventRows
  <2>3. cur'[k] \in SessionRows
    BY <2>1 DEF ChildrenWritten, SessionRows
  <2>4. TypedTable(cur)'
    BY <2>1, <2>2, <2>3, TablesAreApart DEF ChildrenWritten, TypeOK, TypedTable
  <2> QED
    BY <1>7, <2>1, <2>4, NextItemType
    DEF InsertChildren, ChildrenWritten, TypeOK, TypedTable
<1>8. ASSUME NEW r \in Requests, InsertCapture(r)
      PROVE  TypeOK'
  <2>1. CaptureWritten(r)
    BY <1>8, CaptureWrite
  <2>2. TypedTable(cur)'
    BY <2>1, TablesAreApart DEF CaptureWritten, Writes, TypeOK, TypedTable
  <2> QED
    BY <1>8, <2>1, <2>2, NextItemType
    DEF InsertCapture, CaptureWritten, Writes, TypeOK, Statements, TypedTable
<1>9. ASSUME NEW r \in Requests, Commit(r)
      PROVE  TypeOK'
  BY <1>9 DEF Commit, Close, Goto, TypeOK, Statements, TypedTable
<1>10. ASSUME NEW r \in Requests, Rollback(r),
              \E answer \in {"rejected", "error"} : reply' = [reply EXCEPT ![r] = answer]
       PROVE  TypeOK'
  BY <1>10 DEF Rollback, Close, Goto, TypeOK, Statements, TypedTable
<1>11. ASSUME NEW r \in Requests, EventConflict(r) \/ CaptureConflict(r)
       PROVE  TypeOK'
  BY <1>11, NextItemType DEF EventConflict, CaptureConflict, TypeOK, TypedTable
<1> QED
  BY <1>1, <1>2, <1>3, <1>4, <1>5, <1>6, <1>7, <1>8, <1>9, <1>10, <1>11
  DEF Next, Statement, RejectCapture, Fail, AbortDeadlock

-----------------------------------------------------------------------------
(* A step of one transaction changes neither what another one holds nor where *)
(* it stands.                                                                 *)

Step(r) == Send(r) \/ Statement(r) \/ Fail(r) \/ AbortDeadlock(r)

Undisturbed(q) ==
  /\ pc'[q] = pc[q] /\ pos'[q] = pos[q] /\ fresh'[q] = fresh[q]
  /\ reply'[q] = reply[q]
  /\ \A k \in Keys : lock'[k] = q <=> lock[k] = q
  /\ \A k \in Keys : lock[k] = q => cur'[k] = cur[k] /\ base'[k] = base[k]

\* Locks and program counters of the others are as they were, and so are the rows
\* they hold.
LEMMA Isolation ==
  ASSUME IInv, NEW r \in Requests, Step(r), NEW q \in Requests \ {r}
  PROVE  Undisturbed(q)
<1> USE IngestConstants DEF Undisturbed
<1>1. CASE Send(r)
  BY <1>1 DEF IInv, TypeOK, Send, Goto
<1>2. CASE CheckExists(r)
  BY <1>2 DEF IInv, TypeOK, CheckExists, NextItem, Goto
<1>3. CASE UpsertDevice(r)
  <2>1. DeviceWritten(r)
    BY <1>3, DeviceWrite DEF IInv
  <2> QED
    BY <1>3, <2>1 DEF IInv, TypeOK, UpsertDevice, DeviceWritten, Writes, Goto
<1>4. CASE UpsertSession(r)
  <2>1. SessionWritten(r)
    BY <1>4, SessionWrite DEF IInv
  <2> QED
    BY <1>4, <2>1 DEF IInv, TypeOK, UpsertSession, SessionWritten, Writes, Goto
<1>5. CASE InsertEvent(r)
  <2>1. EventWritten(r)
    BY <1>5, EventWrite DEF IInv
  <2> QED
    BY <1>5, <2>1 DEF IInv, TypeOK, InsertEvent, EventWritten, Writes, Goto
<1>6. CASE InsertChildren(r)
  <2>1. ChildrenWritten(r)
    BY <1>6, ChildrenWrite DEF IInv
  <2>2. NextItem(r) /\ UNCHANGED <<fresh, reply>>
    BY <1>6 DEF InsertChildren
  <2>3. pc'[q] = pc[q] /\ pos'[q] = pos[q] /\ fresh'[q] = fresh[q] /\ reply'[q] = reply[q]
    BY <2>2 DEF IInv, TypeOK, NextItem, Goto
  <2>4. \A k \in Keys : /\ lock'[k] = q <=> lock[k] = q
                        /\ lock[k] = q => cur'[k] = cur[k] /\ base'[k] = base[k]
    BY <2>1 DEF ChildrenWritten
  <2> QED
    BY <2>3, <2>4
<1>7. CASE InsertCapture(r)
  <2>1. CaptureWritten(r)
    BY <1>7, CaptureWrite DEF IInv
  <2> QED
    BY <1>7, <2>1 DEF IInv, TypeOK, InsertCapture, CaptureWritten, Writes, NextItem, Goto
<1>8. CASE Commit(r)
  BY <1>8 DEF IInv, TypeOK, TypedTable, Commit, Close, Held, Goto
<1>9. CASE Rollback(r) /\ \E a \in {"rejected", "error"} : reply' = [reply EXCEPT ![r] = a]
  BY <1>9 DEF IInv, TypeOK, TypedTable, Rollback, Close, Held, Goto
<1>10. CASE EventConflict(r) \/ CaptureConflict(r)
  BY <1>10 DEF IInv, TypeOK, EventConflict, CaptureConflict, NextItem, Goto
<1> QED
  BY <1>1, <1>2, <1>3, <1>4, <1>5, <1>6, <1>7, <1>8, <1>9, <1>10
  DEF Step, Statement, RejectCapture, Fail, AbortDeadlock

-----------------------------------------------------------------------------
(* Each part of the invariant is kept. *)

\* Rows are written under a lock, and an end of a transaction releases all of them.
LEMMA NextLocksAreHeld ==
  ASSUME IInv, TypeOK', NEW r \in Requests, Step(r)
  PROVE  LocksAreHeld'
<1> USE IngestConstants
<1> DEFINE HeldRight(k) ==
      IF lock'[k] = Nobody THEN cur'[k] = base'[k]
      ELSE pc'[lock'[k]] # "idle" /\ cur'[k] # NoRow
<1> SUFFICES ASSUME NEW k \in Keys PROVE HeldRight(k)
  BY DEF LocksAreHeld
<1>0. /\ IF lock[k] = Nobody THEN cur[k] = base[k]
         ELSE pc[lock[k]] # "idle" /\ cur[k] # NoRow
      /\ lock[k] \in Requests \cup {Nobody} /\ lock'[k] \in Requests \cup {Nobody}
  BY DEF IInv, LocksAreHeld, TypeOK
<1>1. ASSUME lock'[k] \notin {r, Nobody}
      PROVE  HeldRight(k)
  BY <1>0, <1>1, Isolation DEF Undisturbed
<1>2. ASSUME lock'[k] \in {r, Nobody}
      PROVE  HeldRight(k)
  <2>1. CASE Send(r)
    BY <1>0, <1>2, <2>1, OpeningType DEF IInv, TypeOK, Send, Goto
  <2>2. CASE CheckExists(r)
    BY <1>0, <1>2, <2>2, OpeningType DEF IInv, TypeOK, CheckExists, NextItem, Goto
  <2>3. CASE UpsertDevice(r)
    <3>1. DeviceWritten(r)
      BY <2>3, DeviceWrite DEF IInv
    <3> QED
      BY <1>0, <1>2, <2>3, <3>1 DEF IInv, TypeOK, UpsertDevice, DeviceWritten, Writes, Goto
  <2>4. CASE UpsertSession(r)
    <3>1. SessionWritten(r)
      BY <2>4, SessionWrite DEF IInv
    <3> QED
      BY <1>0, <1>2, <2>4, <3>1 DEF IInv, TypeOK, UpsertSession, SessionWritten, Writes, Goto
  <2>5. CASE InsertEvent(r)
    <3>1. EventWritten(r)
      BY <2>5, EventWrite DEF IInv
    <3> QED
      <4>1. /\ lock' = [lock EXCEPT ![Submission(r).id] = r] /\ base' = base
            /\ cur'[Submission(r).id] # NoRow
            /\ \A j \in Keys \ {Submission(r).id} : cur'[j] = cur[j]
        BY <3>1 DEF EventWritten, Writes
      <4>2. pc' = [pc EXCEPT ![r] = "children"]
        BY <2>5 DEF InsertEvent, Goto
      <4>3. DOMAIN pc = Requests /\ DOMAIN lock = Keys
        <5>1. TypeOK
          BY Zenon DEF IInv
        <5> QED
          BY <5>1 DEF TypeOK
      <4>4. pc'[r] = "children"
        BY <4>2, <4>3
      <4>5. CASE k = Submission(r).id
        BY <4>1, <4>3, <4>4, <4>5
      <4>6. CASE k # Submission(r).id
        <5>1. lock'[k] = lock[k] /\ cur'[k] = cur[k] /\ base'[k] = base[k]
          BY <4>1, <4>6
        <5> QED
          BY <1>0, <1>2, <4>4, <5>1
      <4> QED
        BY <4>5, <4>6
  <2>6. CASE InsertChildren(r)
    <3>1. ChildrenWritten(r)
      BY <2>6, ChildrenWrite DEF IInv
    <3>2. Opening(r, pos[r] + 1) # "idle"
      BY OpeningType DEF IInv, TypeOK
    <3>3. /\ cur'[Submission(r).id] \in EventRows
          /\ cur'[Submission(r).session] \in SessionRows
      BY <3>1 DEF ChildrenWritten, EventRows, SessionRows
    <3>4. k \in {Submission(r).id, Submission(r).session} => cur'[k] # NoRow
      BY <3>3, TablesAreApart
    <3>5. pc'[r] # "idle"
      <4>1. pc' = [pc EXCEPT ![r] = Opening(r, pos[r] + 1)]
        BY <2>6 DEF InsertChildren, NextItem, Goto
      <4> QED
        BY <3>2, <4>1 DEF IInv, TypeOK
    <3>6. /\ lock'[k] = lock[k] /\ base'[k] = base[k]
          /\ k \in {Submission(r).id, Submission(r).session} => lock[k] = r
      BY <3>1 DEF ChildrenWritten
    <3>7. k \notin {Submission(r).id, Submission(r).session} => cur'[k] = cur[k]
      BY <3>1 DEF ChildrenWritten
    <3> QED
      BY <1>0, <1>2, <3>4, <3>5, <3>6, <3>7
  <2>7. CASE InsertCapture(r)
    <3>1. CaptureWritten(r)
      BY <2>7, CaptureWrite DEF IInv
    <3> QED
      BY <1>0, <1>2, <2>7, <3>1, OpeningType DEF IInv, TypeOK, InsertCapture, CaptureWritten, Writes, NextItem, Goto
  <2>8. CASE EventConflict(r) \/ CaptureConflict(r)
    BY <1>0, <1>2, <2>8, OpeningType
    DEF IInv, TypeOK, EventConflict, CaptureConflict, NextItem, Goto
  <2>9. CASE Commit(r)
    BY <1>0, <1>2, <2>9 DEF IInv, TypeOK, TypedTable, Commit, Close, Held, Goto
  <2>10. CASE Rollback(r)
    BY <1>0, <1>2, <2>10 DEF IInv, TypeOK, TypedTable, Rollback, Close, Held, Goto
  <2> QED
    BY <2>1, <2>2, <2>3, <2>4, <2>5, <2>6, <2>7, <2>8, <2>9, <2>10
    DEF Step, Statement, RejectCapture, Fail, AbortDeadlock
<1> QED
  BY <1>1, <1>2

\* Steps that read only, or move on.
Quiet(r) == Send(r) \/ CheckExists(r) \/ EventConflict(r) \/ CaptureConflict(r)

Rejects(r) ==
  /\ Rollback(r)
  /\ \E answer \in {"rejected", "error"} : reply' = [reply EXCEPT ![r] = answer]

\* The kinds of steps.
LEMMA StepKinds ==
  ASSUME IInv, NEW r \in Requests, Step(r)
  PROVE  \/ Quiet(r)
         \/ UpsertDevice(r) /\ DeviceWritten(r)
         \/ UpsertSession(r) /\ SessionWritten(r)
         \/ InsertEvent(r) /\ EventWritten(r)
         \/ InsertChildren(r) /\ ChildrenWritten(r)
         \/ InsertCapture(r) /\ CaptureWritten(r)
         \/ Commit(r)
         \/ Rejects(r)
BY DeviceWrite, SessionWrite, EventWrite, ChildrenWrite, CaptureWrite
DEF IInv, Step, Statement, Quiet, Rejects, RejectCapture, Fail, AbortDeadlock

\* A quiet step changes no row.
LEMMA QuietKeepsRows ==
  ASSUME NEW r \in Requests, Quiet(r)
  PROVE  UNCHANGED <<cur, base, lock, fresh, counted>>
BY DEF Quiet, Send, CheckExists, EventConflict, CaptureConflict

\* A committed row stays.
LEMMA BaseGrows ==
  ASSUME IInv, NEW r \in Requests, Step(r), NEW k \in Keys, base[k] # NoRow
  PROVE  base'[k] # NoRow
<1>1. CASE Commit(r)
  BY <1>1, IngestConstants DEF IInv, LocksAreHeld, Commit, Held
<1>2. CASE ~Commit(r)
  BY <1>2, StepKinds, QuietKeepsRows
  DEF DeviceWritten, SessionWritten, EventWritten, ChildrenWritten, CaptureWritten,
      Writes, Rejects, Rollback
<1> QED
  BY <1>1, <1>2

\* What r sees of row k after a step.
VisibleNext(r, k) == IF lock'[k] = r THEN cur'[k] ELSE base'[k]

\* What a transaction sees it goes on seeing.
LEMMA VisibleStays ==
  ASSUME IInv, TypeOK', NEW r \in Requests, Step(r), NEW q \in Requests,
         pc'[q] # "idle", NEW k \in Keys, Visible(q, k) # NoRow
  PROVE  VisibleNext(q, k) # NoRow
<1>1. CASE q # r
  BY <1>1, Isolation, BaseGrows DEF Undisturbed, Visible, VisibleNext
<1>2. CASE q = r
  <2>1. CASE Quiet(r)
    BY <1>2, <2>1, QuietKeepsRows DEF Visible, VisibleNext
  <2>2. CASE DeviceWritten(r)
    BY <1>2, <2>2 DEF DeviceWritten, Writes, Visible, VisibleNext, IInv, TypeOK
  <2>3. CASE SessionWritten(r)
    BY <1>2, <2>3 DEF SessionWritten, Writes, Visible, VisibleNext, IInv, TypeOK
  <2>4. CASE EventWritten(r)
    BY <1>2, <2>4 DEF EventWritten, Writes, Visible, VisibleNext, IInv, TypeOK
  <2>5. CASE ChildrenWritten(r)
    <3>1. LocksAreHeld'
      BY NextLocksAreHeld
    <3> QED
      BY <1>2, <2>5, <3>1, IngestConstants DEF ChildrenWritten, Visible, VisibleNext, LocksAreHeld
  <2>6. CASE CaptureWritten(r)
    BY <1>2, <2>6 DEF CaptureWritten, Writes, Visible, VisibleNext, IInv, TypeOK
  <2>7. CASE Commit(r) \/ Rejects(r)
    BY <1>2, <2>7 DEF Commit, Rejects, Rollback, Close, Goto, IInv, TypeOK
  <2> QED
    BY <2>1, <2>2, <2>3, <2>4, <2>5, <2>6, <2>7, StepKinds
<1> QED
  BY <1>1, <1>2

\* An event's lock is taken by its insert, which finds no row, and by nothing else.
LEMMA NextLockedIsFresh ==
  ASSUME IInv, TypeOK', NEW r \in Requests, Step(r)
  PROVE  LockedIsFresh'
<1> USE IngestConstants
<1> SUFFICES ASSUME NEW e \in EventIds
             PROVE  /\ \A q \in Requests : e \in fresh'[q] <=> lock'[e] = q
                    /\ lock'[e] # Nobody => base'[e] = NoRow
  BY DEF LockedIsFresh, Held, TypeOK, Keys
<1>0. /\ e \in Keys
      /\ \A q \in Requests : e \in fresh[q] <=> lock[e] = q
      /\ lock[e] # Nobody => base[e] = NoRow
  BY DEF IInv, LockedIsFresh, Held, Keys
<1>1. CASE Quiet(r)
  BY <1>0, <1>1, QuietKeepsRows
<1>2. CASE UpsertDevice(r) /\ DeviceWritten(r)
  BY <1>0, <1>2, TablesAreApart DEF UpsertDevice, DeviceWritten, Writes, IInv, TypeOK
<1>3. CASE UpsertSession(r) /\ SessionWritten(r)
  BY <1>0, <1>3, TablesAreApart DEF UpsertSession, SessionWritten, Writes, IInv, TypeOK
<1>4. CASE InsertEvent(r) /\ EventWritten(r)
  BY <1>0, <1>4
  DEF InsertEvent, EventWritten, Writes, IInv, TypeOK, LocksAreHeld
<1>5. CASE InsertChildren(r) /\ ChildrenWritten(r)
  BY <1>0, <1>5 DEF InsertChildren, ChildrenWritten
<1>6. CASE InsertCapture(r) /\ CaptureWritten(r)
  BY <1>0, <1>6, TablesAreApart DEF InsertCapture, CaptureWritten, Writes, IInv, TypeOK
<1>7. CASE Commit(r)
  BY <1>0, <1>7 DEF Commit, Close, Held, IInv, TypeOK
<1>8. CASE Rejects(r)
  BY <1>0, <1>8 DEF Rejects, Rollback, Close, Held, IInv, TypeOK
<1> QED
  BY <1>1, <1>2, <1>3, <1>4, <1>5, <1>6, <1>7, <1>8, StepKinds

\* A commit counts what it inserted, which was not stored before.
LEMMA NextAcceptedOnce ==
  ASSUME IInv, NEW r \in Requests, Step(r)
  PROVE  AcceptedOnce'
<1>1. CASE Commit(r)
  BY <1>1, IngestConstants
  DEF IInv, TypeOK, AcceptedOnce, Stored, LockedIsFresh, LocksAreHeld, Commit, Held, Keys
<1>2. CASE ~Commit(r)
  <2>1. UNCHANGED <<base, counted>>
    BY <1>2, StepKinds, QuietKeepsRows
    DEF UpsertDevice, UpsertSession, InsertEvent, InsertChildren, InsertCapture,
        Rejects, Rollback
  <2> QED
    BY <2>1 DEF IInv, AcceptedOnce, Stored
<1> QED
  BY <1>1, <1>2

\* A request inserts what it brought only.
LEMMA NextFreshIsSubmitted ==
  ASSUME IInv, NEW r \in Requests, Step(r)
  PROVE  FreshIsSubmitted'
<1> SUFFICES ASSUME NEW q \in Requests PROVE fresh'[q] \subseteq Ids(q)
  BY DEF FreshIsSubmitted, Ids
<1>0. fresh[q] \subseteq Ids(q)
  BY DEF IInv, FreshIsSubmitted
<1>1. CASE q # r
  BY <1>0, <1>1, Isolation DEF Undisturbed
<1>2. CASE q = r /\ InsertEvent(r)
  <2>1. Submission(r).id \in Ids(r)
    BY <1>2 DEF InsertEvent, IInv, PlaceMatchesItem, Submission, Ids
  <2>2. fresh' = [fresh EXCEPT ![r] = @ \cup {Submission(r).id}]
    BY <1>2 DEF InsertEvent
  <2> QED
    BY <1>0, <1>2, <2>1, <2>2 DEF IInv, TypeOK
<1>3. CASE q = r /\ ~InsertEvent(r)
  <2>1. fresh'[r] \in {fresh[r], {}}
    BY <1>3, StepKinds, QuietKeepsRows
    DEF UpsertDevice, UpsertSession, InsertChildren, InsertCapture, Commit, Rejects,
        Rollback, Close, IInv, TypeOK
  <2> QED
    BY <1>0, <1>3, <2>1
<1> QED
  BY <1>1, <1>2, <1>3

\* Item i of a request is an event, a capture, or the commit.
PlaceAt(r, i, statement) ==
  /\ statement = "exists" => i \in DOMAIN Batch[r]
  /\ statement = "capture" => i - Len(Batch[r]) \in DOMAIN Captures[r]
  /\ statement = "commit" => i > Len(Batch[r]) + Len(Captures[r])

\* The next item is what its number says.
LEMMA OpeningPlace ==
  ASSUME NEW r \in Requests, NEW i \in Nat \ {0}
  PROVE  PlaceAt(r, i, Opening(r, i))
<1> DEFINE m == Len(Batch[r])
           n == Len(Captures[r])
<1>1. Batch[r] \in Seq(Submissions) /\ Captures[r] \in Seq(CaptureSubmissions)
  BY RequestsAreSubmissions
<1>2. DOMAIN Batch[r] = 1..m /\ m \in Nat /\ DOMAIN Captures[r] = 1..n /\ n \in Nat
  BY <1>1
<1>3. Opening(r, i) = IF i <= m THEN "exists"
                      ELSE IF i <= m + n THEN "capture" ELSE "commit"
  BY DEF Opening
<1>4. PlaceAt(r, i, Opening(r, i)) <=>
        /\ Opening(r, i) = "exists" => i \in 1..m
        /\ Opening(r, i) = "capture" => i - m \in 1..n
        /\ Opening(r, i) = "commit" => i > m + n
  BY <1>2 DEF PlaceAt
<1> HIDE DEF m, n
<1> QED
  BY <1>2, <1>3, <1>4

\* A transaction goes through its items in order.
LEMMA NextPlaceMatchesItem ==
  ASSUME IInv, TypeOK', NEW r \in Requests, Step(r)
  PROVE  PlaceMatchesItem'
<1> DEFINE Place(q) ==
      /\ pc'[q] = "idle" <=> pos'[q] = 0
      /\ pc'[q] \in {"exists", "device", "session", "event", "children"}
           => pos'[q] \in DOMAIN Batch[q]
      /\ pc'[q] = "capture" => pos'[q] - Len(Batch[q]) \in DOMAIN Captures[q]
      /\ pc'[q] = "commit" => pos'[q] > Len(Batch[q]) + Len(Captures[q])
<1> SUFFICES ASSUME NEW q \in Requests PROVE Place(q)
  BY DEF PlaceMatchesItem
<1>1. CASE q # r
  <2>1. Undisturbed(q)
    BY <1>1, Isolation
  <2> QED
    BY <2>1 DEF Undisturbed, IInv, PlaceMatchesItem
<1>2. CASE q = r
  <2>1. CASE pc[r] # "idle" /\ NextItem(r)
    <3>1. pos[r] + 1 \in Nat \ {0}
      BY <2>1 DEF IInv, TypeOK
    <3>2. pos'[r] = pos[r] + 1 /\ pc'[r] = Opening(r, pos[r] + 1)
      BY <2>1 DEF NextItem, Goto, IInv, TypeOK
    <3> QED
      BY <1>2, <3>1, <3>2, OpeningPlace, OpeningType DEF PlaceAt
  <2>2. CASE Send(r)
    <3>1. CASE Valid(r)
      <4>1. pos'[r] = 1 /\ pc'[r] = Opening(r, 1)
        BY <2>2, <3>1 DEF Send, Goto, IInv, TypeOK
      <4>2. PlaceAt(r, 1, Opening(r, 1)) /\ Opening(r, 1) \in {"exists", "capture", "commit"}
        BY OpeningPlace, OpeningType
      <4>3. PlaceAt(r, pos'[r], pc'[r]) /\ pc'[r] \in {"exists", "capture", "commit"}
        BY <4>1, <4>2
      <4>4. pos'[r] # 0
        BY <4>1
      <4> QED
        BY <1>2, <4>3, <4>4 DEF PlaceAt
    <3>2. CASE ~Valid(r)
      <4>1. pos'[q] = pos[q] /\ pc'[q] = pc[q]
        BY <2>2, <3>2 DEF Send
      <4> QED
        BY <4>1 DEF IInv, PlaceMatchesItem
    <3> QED
      BY <3>1, <3>2
  <2>3. CASE CheckExists(r) \/ UpsertDevice(r) \/ UpsertSession(r) \/ InsertEvent(r)
    <3>1. CASE NextItem(r)
      BY <2>1, <2>3, <3>1 DEF CheckExists, UpsertDevice, UpsertSession, InsertEvent
    <3>2. CASE ~NextItem(r)
      BY <1>2, <2>3, <3>2
      DEF CheckExists, UpsertDevice, UpsertSession, InsertEvent, Goto,
          IInv, TypeOK, PlaceMatchesItem
    <3> QED
      BY <3>1, <3>2
  <2>4. CASE Commit(r) \/ Rejects(r)
    BY <1>2, <2>4 DEF Commit, Rejects, Rollback, Close, Goto, IInv, TypeOK
  <2> QED
    BY <2>1, <2>2, <2>3, <2>4, StepKinds
    DEF Quiet, EventConflict, CaptureConflict, InsertChildren, InsertCapture
<1> QED
  BY <1>1, <1>2

\* The event a transaction is done with is visible to it.
LEMMA EventDone ==
  ASSUME IInv, TypeOK', NEW r \in Requests, Step(r), NextItem(r),
         CheckExists(r) \/ EventConflict(r) \/ InsertChildren(r)
  PROVE  Visible(r, Submission(r).id) # NoRow
<1>1. Submission(r).id \in Keys
  BY SubmissionType DEF IInv, CheckExists, EventConflict, InsertChildren
<1>2. CASE CheckExists(r)
  <2>1. Visible(r, Submission(r).id) # NoRow \/ pc' = [pc EXCEPT ![r] = "device"]
    BY <1>2 DEF CheckExists, Goto
  <2>2. pc' = [pc EXCEPT ![r] = Opening(r, pos[r] + 1)]
    BY DEF NextItem, Goto
  <2>3. Opening(r, pos[r] + 1) # "device"
    BY OpeningType DEF IInv, TypeOK
  <2> QED
    BY <2>1, <2>2, <2>3 DEF IInv, TypeOK
<1>3. CASE EventConflict(r)
  BY <1>1, <1>3, IngestConstants DEF EventConflict, CanWrite, Visible, IInv, LocksAreHeld
<1>4. CASE InsertChildren(r)
  <2>1. ChildrenWritten(r)
    BY <1>4, ChildrenWrite DEF IInv
  <2> QED
    BY <1>1, <2>1, IngestConstants DEF ChildrenWritten, Visible, IInv, LocksAreHeld
<1> QED
  BY <1>2, <1>3, <1>4

\* And so is the capture, once it is inserted or found.
LEMMA CaptureDone ==
  ASSUME IInv, NEW r \in Requests, InsertCapture(r) \/ CaptureConflict(r)
  PROVE  VisibleNext(r, CaptureOf(r).id) # NoRow
<1>1. CASE InsertCapture(r)
  <2>1. CaptureWritten(r)
    BY <1>1, CaptureWrite DEF IInv
  <2>2. lock'[CaptureOf(r).id] = r /\ cur'[CaptureOf(r).id] # NoRow
    BY <2>1 DEF CaptureWritten, Writes, IInv, TypeOK
  <2> QED
    BY <2>2 DEF VisibleNext
<1>2. CASE CaptureConflict(r)
  <2> DEFINE k == CaptureOf(r).id
  <2>1. k \in Keys
    BY <1>2, CaptureType DEF IInv, CaptureConflict
  <2>2. lock[k] \in {r, Nobody} /\ cur[k] # NoRow /\ UNCHANGED <<cur, base, lock>>
    BY <1>2 DEF CaptureConflict, CanWrite
  <2>3. lock[k] = Nobody => cur[k] = base[k]
    BY <2>1 DEF IInv, LocksAreHeld
  <2> HIDE DEF k
  <2>4. VisibleNext(r, k) # NoRow
    BY <2>2, <2>3 DEF VisibleNext
  <2> QED
    BY <2>4 DEF k
<1> QED
  BY <1>1, <1>2

\* The identifiers of a request are keys.
LEMMA ItemTypes ==
  ASSUME NEW r \in Requests
  PROVE  /\ Len(Batch[r]) \in Nat /\ DOMAIN Batch[r] = 1..Len(Batch[r])
         /\ Len(Captures[r]) \in Nat /\ DOMAIN Captures[r] = 1..Len(Captures[r])
         /\ \A i \in DOMAIN Batch[r] :
              Batch[r][i].id \in EventIds /\ Batch[r][i].id \in Keys
         /\ \A i \in DOMAIN Captures[r] :
              Captures[r][i].id \in CaptureIds /\ Captures[r][i].id \in Keys
<1>1. Batch[r] \in Seq(Submissions) /\ Captures[r] \in Seq(CaptureSubmissions)
  BY RequestsAreSubmissions
<1>2. /\ \A i \in DOMAIN Batch[r] : Batch[r][i] \in Submissions
      /\ \A i \in DOMAIN Captures[r] : Captures[r][i] \in CaptureSubmissions
  BY <1>1
<1> QED
  BY <1>1, <1>2 DEF Submissions, CaptureSubmissions, Keys

\* Only a commit answers, after the last item; everything it saw is then committed.
LEMMA NextAckedIsStored ==
  ASSUME IInv, TypeOK', NEW r \in Requests, Step(r)
  PROVE  AckedIsStored'
<1> SUFFICES ASSUME NEW q \in Requests, reply'[q] = "ok"
             PROVE  /\ \A i \in DOMAIN Batch[q] : base'[Batch[q][i].id] # NoRow
                    /\ \A i \in DOMAIN Captures[q] : base'[Captures[q][i].id] # NoRow
  BY ItemTypes DEF AckedIsStored, Ids, Stored
<1>1. CASE reply[q] = "ok"
  <2>1. /\ \A i \in DOMAIN Batch[q] : base[Batch[q][i].id] # NoRow
        /\ \A i \in DOMAIN Captures[q] : base[Captures[q][i].id] # NoRow
    BY <1>1 DEF IInv, AckedIsStored, Ids, Stored
  <2> QED
    BY <2>1, ItemTypes, BaseGrows
<1>2. CASE reply[q] # "ok"
  <2>1. q = r /\ Commit(r)
    <3>1. q = r
      BY <1>2, Isolation DEF Undisturbed
    <3>2. ~Commit(r) => reply'[r] # "ok"
      BY <1>2, <3>1, StepKinds
      DEF Quiet, Send, CheckExists, EventConflict, CaptureConflict, UpsertDevice,
          UpsertSession, InsertEvent, InsertChildren, InsertCapture, Rejects,
          IInv, TypeOK
    <3> QED
      BY <3>1, <3>2
  <2>2. \A k \in Keys : Visible(r, k) # NoRow => base'[k] # NoRow
    BY <2>1 DEF Commit, Held, Visible
  <2>3. pos[r] > Len(Batch[r]) + Len(Captures[r]) /\ pos[r] \in Nat
    BY <2>1 DEF Commit, IInv, TypeOK, PlaceMatchesItem
  <2>4. /\ \A i \in DOMAIN Batch[r] : i < pos[r]
        /\ \A i \in DOMAIN Captures[r] : Len(Batch[r]) + i < pos[r]
    <3> DEFINE m == Len(Batch[r])
               n == Len(Captures[r])
    <3>1. /\ m \in Nat /\ n \in Nat /\ pos[r] \in Nat /\ pos[r] > m + n
          /\ DOMAIN Batch[r] = 1..m /\ DOMAIN Captures[r] = 1..n
      BY <2>3, ItemTypes
    <3> HIDE DEF m, n
    <3>2. /\ \A i \in 1..m : i < pos[r]
          /\ \A i \in 1..n : m + i < pos[r]
      BY <3>1
    <3> QED
      BY <3>1, <3>2 DEF m
  <2>5. /\ \A i \in DOMAIN Batch[r] : Visible(r, Batch[r][i].id) # NoRow
        /\ \A i \in DOMAIN Captures[r] : Visible(r, Captures[r][i].id) # NoRow
    BY <2>4 DEF IInv, DoneIsVisible
  <2> QED
    BY <2>1, <2>2, <2>5, ItemTypes
<1> QED
  BY <1>1, <1>2

\* The statements that end an item.
LEMMA NextItemKinds ==
  ASSUME IInv, NEW r \in Requests, Step(r), pc[r] # "idle", NextItem(r)
  PROVE  IF pc[r] = "capture" THEN InsertCapture(r) \/ CaptureConflict(r)
         ELSE CheckExists(r) \/ EventConflict(r) \/ InsertChildren(r)
<1>1. pos[r] \in Nat /\ pos'[r] = pos[r] + 1
  BY DEF NextItem, IInv, TypeOK
<1>2. pos'[r] # pos[r] /\ pos'[r] # 0
  BY <1>1
<1>3. ~(UpsertDevice(r) \/ UpsertSession(r) \/ InsertEvent(r))
  BY <1>2 DEF UpsertDevice, UpsertSession, InsertEvent
<1>4. ~(Commit(r) \/ Rejects(r))
  BY <1>2 DEF Commit, Rejects, Rollback, Close, IInv, TypeOK
<1>5. ~Send(r)
  BY DEF Send
<1> QED
  BY <1>3, <1>4, <1>5, StepKinds
  DEF Quiet, CheckExists, EventConflict, CaptureConflict, InsertChildren, InsertCapture

\* Done items stay visible: an item is left when it is visible (a duplicate, an
\* insert, a conflict with a row nobody else has locked).
LEMMA NextDoneIsVisible ==
  ASSUME IInv, TypeOK', NEW r \in Requests, Step(r)
  PROVE  DoneIsVisible'
<1> DEFINE Sees(q) ==
      /\ \A i \in DOMAIN Batch[q] :
           i < pos'[q] => VisibleNext(q, Batch[q][i].id) # NoRow
      /\ \A i \in DOMAIN Captures[q] :
           Len(Batch[q]) + i < pos'[q] => VisibleNext(q, Captures[q][i].id) # NoRow
<1> SUFFICES ASSUME NEW q \in Requests PROVE Sees(q)
  BY DEF DoneIsVisible, Visible, VisibleNext
<1>1. CASE pos'[q] \in {0, 1}
  BY <1>1, ItemTypes
<1>2. CASE pc'[q] # "idle" /\ pos'[q] = pos[q]
  BY <1>2, ItemTypes, VisibleStays DEF IInv, DoneIsVisible
<1>3. CASE q = r /\ pc[r] # "idle" /\ NextItem(r)
  <2> DEFINE m == Len(Batch[r])
  <2>1. pos[r] \in Nat /\ pos'[r] = pos[r] + 1 /\ pc'[r] # "idle"
    BY <1>3, OpeningType DEF NextItem, Goto, IInv, TypeOK
  <2>2. /\ \A i \in DOMAIN Batch[r] : Batch[r][i].id \in Keys /\ i \in 1..m
        /\ \A i \in DOMAIN Captures[r] : Captures[r][i].id \in Keys /\ i \in Nat \ {0}
        /\ m \in Nat
    BY ItemTypes
  <2>3. /\ \A i \in DOMAIN Batch[r] :
             i < pos[r] => VisibleNext(r, Batch[r][i].id) # NoRow
        /\ \A i \in DOMAIN Captures[r] :
             m + i < pos[r] => VisibleNext(r, Captures[r][i].id) # NoRow
    BY <1>3, <2>1, <2>2, VisibleStays DEF IInv, DoneIsVisible
  <2>4. CASE pc[r] = "capture"
    <3>1. InsertCapture(r) \/ CaptureConflict(r)
      BY <1>3, <2>4, NextItemKinds
    <3>2. VisibleNext(r, Captures[r][pos[r] - m].id) # NoRow
      BY <3>1, CaptureDone DEF CaptureOf
    <3>3. pos[r] - m \in DOMAIN Captures[r]
      BY <2>4 DEF IInv, PlaceMatchesItem
    <3>4. pos[r] - m >= 1
      BY <2>2, <3>3
    <3> HIDE DEF m
    <3>5. \A i \in DOMAIN Batch[r] : i < pos'[r] => i < pos[r]
      BY <2>1, <2>2, <3>4
    <3>6. \A i \in DOMAIN Captures[r] :
            m + i < pos'[r] => m + i < pos[r] \/ i = pos[r] - m
      BY <2>1, <2>2
    <3>7. /\ \A i \in DOMAIN Batch[r] :
               i < pos'[r] => VisibleNext(r, Batch[r][i].id) # NoRow
          /\ \A i \in DOMAIN Captures[r] :
               m + i < pos'[r] => VisibleNext(r, Captures[r][i].id) # NoRow
      BY <2>3, <3>2, <3>5, <3>6
    <3> QED
      BY <1>3, <3>7 DEF m
  <2>5. CASE pc[r] # "capture"
    <3>1. CheckExists(r) \/ EventConflict(r) \/ InsertChildren(r)
      BY <1>3, <2>5, NextItemKinds
    <3>2. pos[r] \in DOMAIN Batch[r]
      BY <3>1 DEF CheckExists, EventConflict, InsertChildren, IInv, PlaceMatchesItem
    <3>3. Visible(r, Batch[r][pos[r]].id) # NoRow
      BY <1>3, <3>1, EventDone DEF Submission
    <3>4. VisibleNext(r, Batch[r][pos[r]].id) # NoRow
      <4> DEFINE k == Batch[r][pos[r]].id
      <4>1. k \in Keys /\ Visible(r, k) # NoRow
        BY <2>2, <3>2, <3>3
      <4>2. \A j \in Keys : Visible(r, j) # NoRow => VisibleNext(r, j) # NoRow
        BY <2>1, VisibleStays
      <4> QED
        BY <4>1, <4>2
    <3>5. pos[r] <= m
      BY <2>2, <3>2
    <3> HIDE DEF m
    <3>6. \A i \in DOMAIN Batch[r] : i < pos'[r] => i < pos[r] \/ i = pos[r]
      BY <2>1, <2>2
    <3>7. \A i \in DOMAIN Captures[r] : ~(m + i < pos'[r])
      BY <2>1, <2>2, <3>5
    <3>8. /\ \A i \in DOMAIN Batch[r] :
               i < pos'[r] => VisibleNext(r, Batch[r][i].id) # NoRow
          /\ \A i \in DOMAIN Captures[r] :
               m + i < pos'[r] => VisibleNext(r, Captures[r][i].id) # NoRow
      BY <2>3, <3>4, <3>6, <3>7
    <3> QED
      BY <1>3, <3>8 DEF m
  <2> QED
    BY <2>4, <2>5
<1>4. pos'[q] \in {0, 1} \/ (pc'[q] # "idle" /\ pos'[q] = pos[q])
        \/ (q = r /\ pc[r] # "idle" /\ NextItem(r))
  <2>1. PlaceMatchesItem'
    BY NextPlaceMatchesItem
  <2>2. CASE q # r
    <3>1. Undisturbed(q)
      BY <2>2, Isolation
    <3> QED
      BY <2>1, <3>1 DEF Undisturbed, PlaceMatchesItem
  <2>3. CASE q = r
    <3>1. pc'[r] = "idle" <=> pos'[r] = 0
      BY <2>1 DEF PlaceMatchesItem
    <3>2. pos \in [Requests -> Nat]
      BY DEF IInv, TypeOK
    <3>3. CASE Send(r)
      <4>1. pos' = pos \/ pos' = [pos EXCEPT ![r] = 1]
        BY <3>3 DEF Send
      <4> QED
        BY <2>3, <3>1, <3>2, <4>1
    <3>4. CASE CheckExists(r) \/ EventConflict(r) \/ InsertChildren(r)
               \/ CaptureConflict(r) \/ InsertCapture(r)
      <4>1. pc[r] # "idle" /\ (NextItem(r) \/ pos' = pos)
        BY <3>4 DEF CheckExists, EventConflict, InsertChildren, CaptureConflict, InsertCapture
      <4> QED
        BY <2>3, <3>1, <3>2, <4>1
    <3>5. CASE UpsertDevice(r) \/ UpsertSession(r) \/ InsertEvent(r)
      <4>1. pos' = pos
        BY <3>5 DEF UpsertDevice, UpsertSession, InsertEvent
      <4> QED
        BY <2>3, <3>1, <3>2, <4>1
    <3>6. CASE Commit(r) \/ Rejects(r)
      <4>1. pos' = [pos EXCEPT ![r] = 0]
        BY <3>6 DEF Commit, Rejects, Rollback, Close
      <4> QED
        BY <2>3, <3>2, <4>1
    <3> QED
      BY <3>3, <3>4, <3>5, <3>6, StepKinds DEF Quiet
  <2> QED
    BY <2>2, <2>3
<1> QED
  BY <1>1, <1>2, <1>3, <1>4

\* Upserts widen: the newest version of a device spans the committed one, ...
LEMMA NextDevicesWiden ==
  ASSUME IInv, NEW r \in Requests, Step(r), NEW d \in Devices, base'[d] # NoRow
  PROVE  cur'[d].first <= base'[d].first /\ base'[d].last <= cur'[d].last
<1>0. /\ d \in Keys
      /\ base[d] # NoRow =>
           /\ cur[d].first <= base[d].first /\ base[d].last <= cur[d].last
           /\ cur[d] # NoRow /\ cur[d] \in DeviceRows /\ base[d] \in DeviceRows
      /\ cur[d] # NoRow => cur[d] \in DeviceRows
  BY RowTypes DEF IInv, UpsertsWiden, LocksAreHeld, Keys
<1>1. CASE Quiet(r)
  BY <1>0, <1>1, QuietKeepsRows
<1>2. CASE DeviceWritten(r)
  <2>1. CASE d = Submission(r).device
    BY <1>0, <1>2, <2>1 DEF DeviceWritten, Writes, DeviceRows
  <2>2. CASE d # Submission(r).device
    BY <1>0, <1>2, <2>2 DEF DeviceWritten, Writes
  <2> QED
    BY <2>1, <2>2
<1>3. CASE SessionWritten(r)
  BY <1>0, <1>3, TablesAreApart DEF SessionWritten, Writes
<1>4. CASE EventWritten(r)
  BY <1>0, <1>4, TablesAreApart DEF EventWritten, Writes
<1>5. CASE ChildrenWritten(r)
  BY <1>0, <1>5, TablesAreApart DEF ChildrenWritten
<1>6. CASE CaptureWritten(r)
  BY <1>0, <1>6, TablesAreApart DEF CaptureWritten, Writes
<1>7. CASE Commit(r)
  <2>1. /\ cur'[d] = cur[d]
        /\ base'[d] = IF d \in Held(r) THEN cur[d] ELSE base[d]
    BY <1>0, <1>7 DEF Commit
  <2> QED
    BY <1>0, <2>1 DEF DeviceRows
<1>8. CASE Rejects(r)
  <2>1. /\ base'[d] = base[d]
        /\ cur'[d] = IF d \in Held(r) THEN base[d] ELSE cur[d]
    BY <1>0, <1>8 DEF Rejects, Rollback
  <2> QED
    BY <1>0, <2>1 DEF DeviceRows
<1> QED
  BY <1>1, <1>2, <1>3, <1>4, <1>5, <1>6, <1>7, <1>8, StepKinds

\* ... and so does that of a session, whose revision is ahead while it is locked.
LEMMA NextSessionsWiden ==
  ASSUME IInv, NEW r \in Requests, Step(r), NEW s \in Sessions, base'[s] # NoRow
  PROVE  /\ cur'[s].started <= base'[s].started /\ base'[s].ended <= cur'[s].ended
         /\ lock'[s] # Nobody => cur'[s].revision > base'[s].revision
<1>0. /\ s \in Keys /\ lock[s] \in Requests \cup {Nobody}
      /\ lock[s] = Nobody => cur[s] = base[s]
      /\ base[s] # NoRow =>
           /\ cur[s].started <= base[s].started /\ base[s].ended <= cur[s].ended
           /\ lock[s] # Nobody => cur[s].revision > base[s].revision
           /\ cur[s] # NoRow /\ cur[s] \in SessionRows /\ base[s] \in SessionRows
      /\ cur[s] # NoRow => cur[s] \in SessionRows
  BY RowTypes DEF IInv, UpsertsWiden, LocksAreHeld, Keys, TypeOK
<1>1. CASE Quiet(r)
  BY <1>0, <1>1, QuietKeepsRows
<1>2. CASE DeviceWritten(r)
  BY <1>0, <1>2, TablesAreApart DEF DeviceWritten, Writes, IInv, TypeOK
<1>3. CASE SessionWritten(r)
  <2>1. CASE s = Submission(r).session
    BY <1>0, <1>3, <2>1 DEF SessionWritten, Writes, SessionRows
  <2>2. CASE s # Submission(r).session
    BY <1>0, <1>3, <2>2 DEF SessionWritten, Writes, IInv, TypeOK
  <2> QED
    BY <2>1, <2>2
<1>4. CASE EventWritten(r)
  BY <1>0, <1>4, TablesAreApart DEF EventWritten, Writes, IInv, TypeOK
<1>5. CASE ChildrenWritten(r)
  <2>1. CASE s = Submission(r).session
    <3>1. PICK title : cur'[s] = [cur[s] EXCEPT !.title = title]
      BY <1>5, <2>1 DEF ChildrenWritten
    <3>2. /\ cur'[s].started = cur[s].started /\ cur'[s].ended = cur[s].ended
          /\ cur'[s].revision = cur[s].revision
      BY <1>5, <2>1, <3>1 DEF ChildrenWritten, SessionRows
    <3> QED
      BY <1>0, <1>5, <3>2 DEF ChildrenWritten
  <2>2. CASE s # Submission(r).session
    BY <1>0, <1>5, <2>2, TablesAreApart DEF ChildrenWritten
  <2> QED
    BY <2>1, <2>2
<1>6. CASE CaptureWritten(r)
  BY <1>0, <1>6, TablesAreApart DEF CaptureWritten, Writes, IInv, TypeOK
<1>7. CASE Commit(r)
  <2>1. /\ cur'[s] = cur[s]
        /\ base'[s] = IF s \in Held(r) THEN cur[s] ELSE base[s]
        /\ lock'[s] = IF s \in Held(r) THEN Nobody ELSE lock[s]
    BY <1>0, <1>7 DEF Commit, Close
  <2> QED
    BY <1>0, <2>1 DEF SessionRows
<1>8. CASE Rejects(r)
  <2>1. /\ base'[s] = base[s]
        /\ cur'[s] = IF s \in Held(r) THEN base[s] ELSE cur[s]
        /\ lock'[s] = IF s \in Held(r) THEN Nobody ELSE lock[s]
    BY <1>0, <1>8 DEF Rejects, Rollback, Close
  <2> QED
    BY <1>0, <2>1 DEF SessionRows
<1> QED
  BY <1>1, <1>2, <1>3, <1>4, <1>5, <1>6, <1>7, <1>8, StepKinds

\* After an item a transaction is not inside an event.
LEMMA ItemOver ==
  ASSUME IInv, NEW r \in Requests, NextItem(r)
  PROVE  pc'[r] \in {"exists", "capture", "commit"}
<1>1. pc'[r] = Opening(r, pos[r] + 1) /\ pos[r] + 1 \in Nat
  BY DEF NextItem, Goto, IInv, TypeOK
<1> QED
  BY <1>1, OpeningType

\* A quiet step leaves a transaction outside the upserts of an event.
LEMMA QuietPlace ==
  ASSUME IInv, NEW r \in Requests, Quiet(r)
  PROVE  /\ pc'[r] \in {"idle", "exists", "device", "capture", "commit"}
         /\ pc[r] # "children"
<1>1. Opening(r, 1) \in {"exists", "capture", "commit"}
  BY OpeningType
<1> QED
  BY <1>1, ItemOver
  DEF Quiet, Send, CheckExists, EventConflict, CaptureConflict, Goto, IInv, TypeOK

\* What a transaction has upserted for the event it works on stays its own.
LEMMA NextItemIsBacked ==
  ASSUME IInv, TypeOK', NEW r \in Requests, Step(r)
  PROVE  ItemIsBacked'
<1> DEFINE s(q) == Batch[q][pos'[q]]
           Backed(q) ==
             /\ pc'[q] \in {"session", "event", "children"} =>
                  /\ lock'[s(q).device] = q
                  /\ Spans(cur'[s(q).device].first, s(q).at, cur'[s(q).device].last)
             /\ pc'[q] \in {"event", "children"} =>
                  /\ lock'[s(q).session] = q
                  /\ Spans(cur'[s(q).session].started, s(q).at, cur'[s(q).session].ended)
             /\ pc'[q] = "children" =>
                  lock'[s(q).id] = q /\ cur'[s(q).id].session = s(q).session
<1> SUFFICES ASSUME NEW q \in Requests PROVE Backed(q)
  BY DEF ItemIsBacked, Submission, Spans
<1>1. CASE q # r
  <2>1. Undisturbed(q)
    BY <1>1, Isolation
  <2>2. CASE pc[q] \in {"session", "event", "children"}
    <3>1. PICK t : t = Submission(q)
      OBVIOUS
    <3>2. t.id \in Keys /\ t.session \in Keys /\ t.device \in Keys
      BY <2>2, <3>1, SubmissionType DEF IInv
    <3>3. s(q) = t /\ pc'[q] = pc[q]
      BY <2>1, <3>1, Zenon DEF Undisturbed, Submission
    <3>4. \A k \in Keys : lock[k] = q => lock'[k] = q /\ cur'[k] = cur[k]
      BY <2>1, Zenon DEF Undisturbed
    <3>5. /\ pc[q] \in {"session", "event", "children"} =>
                lock[t.device] = q /\ Spans(cur[t.device].first, t.at, cur[t.device].last)
          /\ pc[q] \in {"event", "children"} =>
                lock[t.session] = q /\ Spans(cur[t.session].started, t.at, cur[t.session].ended)
          /\ pc[q] = "children" => lock[t.id] = q /\ cur[t.id].session = t.session
      BY <3>1, Zenon DEF IInv, ItemIsBacked
    <3> HIDE DEF s
    <3> QED
      BY <3>2, <3>3, <3>4, <3>5, Zenon
  <2>3. CASE pc[q] \notin {"session", "event", "children"}
    BY <2>1, <2>3 DEF Undisturbed
  <2> QED
    BY <2>2, <2>3
<1>2. CASE q = r
  <2>1. CASE Quiet(r)
    BY <1>2, <2>1, QuietPlace
  <2>2. CASE UpsertDevice(r) /\ DeviceWritten(r)
    <3>1. pc'[r] = "session" /\ s(r) = Submission(r)
      BY <2>2 DEF UpsertDevice, Goto, Submission, IInv, TypeOK
    <3> HIDE DEF s
    <3> QED
      BY <1>2, <2>2, <3>1 DEF DeviceWritten, Writes, IInv, TypeOK
  <2>3. CASE UpsertSession(r) /\ SessionWritten(r)
    <3>1. pc[r] = "session" /\ pc'[r] = "event" /\ s(r) = Submission(r)
      BY <2>3 DEF UpsertSession, Goto, Submission, IInv, TypeOK
    <3>2. /\ Submission(r).session \in Sessions /\ Submission(r).session \in Keys
          /\ Submission(r).device \in Devices /\ Submission(r).device \in Keys
      BY <3>1, SubmissionType DEF IInv
    <3> HIDE DEF s
    <3> QED
      BY <1>2, <2>3, <3>1, <3>2, TablesAreApart
      DEF SessionWritten, Writes, IInv, TypeOK, ItemIsBacked
  <2>4. CASE InsertEvent(r) /\ EventWritten(r)
    <3>1. pc[r] = "event" /\ pc'[r] = "children" /\ s(r) = Submission(r)
      BY <2>4 DEF InsertEvent, Goto, Submission, IInv, TypeOK
    <3>2. /\ Submission(r).session \in Sessions /\ Submission(r).session \in Keys
          /\ Submission(r).device \in Devices /\ Submission(r).device \in Keys
          /\ Submission(r).id \in EventIds /\ Submission(r).id \in Keys
      BY <3>1, SubmissionType DEF IInv
    <3> HIDE DEF s
    <3> QED
      BY <1>2, <2>4, <3>1, <3>2, TablesAreApart
      DEF EventWritten, Writes, IInv, TypeOK, ItemIsBacked
  <2>5. CASE InsertChildren(r) \/ InsertCapture(r)
    BY <1>2, <2>5, ItemOver DEF InsertChildren, InsertCapture
  <2>6. CASE Commit(r) \/ Rejects(r)
    BY <1>2, <2>6 DEF Commit, Rejects, Rollback, Close, Goto, IInv, TypeOK
  <2> QED
    BY <2>1, <2>2, <2>3, <2>4, <2>5, <2>6, StepKinds
<1> QED
  BY <1>1, <1>2

\* An uncommitted event, the session and the device it refers to: one transaction's.
BackedEvent(e) ==
  LET r == lock[e]
      s == cur[e].session
      d == cur[e].device
  IN  /\ lock[s] = r /\ Spans(cur[s].started, cur[e].at, cur[s].ended)
      /\ lock[d] = r /\ Spans(cur[d].first, cur[e].at, cur[d].last)
      /\ cur[e].whole \/ (pc[r] = "children" /\ Submission(r).id = e)

\* An event row refers to keys of its tables.
LEMMA EventType ==
  ASSUME IInv, NEW e \in EventIds, cur[e] # NoRow
  PROVE  /\ e \in Keys /\ cur[e] \in EventRows /\ cur[e].at \in Nat
         /\ cur[e].session \in Sessions /\ cur[e].session \in Keys
         /\ cur[e].device \in Devices /\ cur[e].device \in Keys
<1>1. cur[e] \in EventRows
  BY RowTypes DEF IInv
<1> QED
  BY <1>1 DEF EventRows, Keys

\* It stays so.
LEMMA NextNewEventsAreBacked ==
  ASSUME IInv, TypeOK', NEW r \in Requests, Step(r)
  PROVE  NewEventsAreBacked'
<1> USE IngestConstants
<1> SUFFICES ASSUME NEW e \in EventIds, lock'[e] # Nobody PROVE BackedEvent(e)'
  BY DEF NewEventsAreBacked, BackedEvent
<1>0. e \in Keys /\ (lock[e] # Nobody => BackedEvent(e) /\ cur[e] # NoRow)
  BY DEF IInv, NewEventsAreBacked, BackedEvent, LocksAreHeld, Keys
<1>1. CASE lock'[e] # r
  <2>1. PICK q \in Requests \ {r} : lock'[e] = q
    BY <1>0, <1>1 DEF TypeOK
  <2>2. Undisturbed(q) /\ lock[e] = q
    BY <1>0, <2>1, Isolation DEF Undisturbed
  <2>3. cur'[e] = cur[e]
    BY <1>0, <2>2 DEF Undisturbed
  <2>4. cur[e].session \in Keys /\ cur[e].device \in Keys
    BY <1>0, <2>2, EventType
  <2>5. pos'[q] = pos[q] /\ pc'[q] = pc[q]
    BY <2>2 DEF Undisturbed
  <2> QED
    BY <1>0, <2>1, <2>2, <2>3, <2>4, <2>5 DEF BackedEvent, Undisturbed, Submission
<1>2. CASE lock'[e] = r
  <2>1. CASE Quiet(r)
    <3>1. UNCHANGED <<cur, base, lock>> /\ pc[r] # "children"
      BY <2>1, QuietKeepsRows, QuietPlace
    <3> QED
      BY <1>0, <1>2, <3>1 DEF BackedEvent
  <2>2. CASE UpsertDevice(r) /\ DeviceWritten(r)
    <3>1. pc[r] = "device"
      BY <2>2 DEF UpsertDevice
    <3>2. lock[e] = r /\ cur'[e] = cur[e]
      BY <1>0, <1>2, <2>2, TablesAreApart DEF DeviceWritten, Writes, IInv, TypeOK
    <3> DEFINE d == cur[e].device
               s == cur[e].session
    <3>3. /\ s \in Sessions /\ s \in Keys /\ d \in Devices /\ d \in Keys
          /\ cur[e].at \in Nat
      BY <1>0, <3>2, EventType
    <3>4. /\ lock[s] = r /\ Spans(cur[s].started, cur[e].at, cur[s].ended)
          /\ lock[d] = r /\ Spans(cur[d].first, cur[e].at, cur[d].last)
          /\ cur[e].whole
      BY <1>0, <3>1, <3>2 DEF BackedEvent
    <3>5. cur'[s] = cur[s] /\ lock'[s] = r
      BY <2>2, <3>3, <3>4, TablesAreApart DEF DeviceWritten, Writes, IInv, TypeOK
    <3>6. lock'[d] = r /\ Spans(cur'[d].first, cur[e].at, cur'[d].last)
      <4>1. CASE d = Submission(r).device
        <5>1. cur[d] \in DeviceRows /\ cur[d] # NoRow
          BY <3>3, <3>4, RowTypes DEF IInv, LocksAreHeld
        <5>2. /\ cur'[d] \in DeviceRows /\ lock'[d] = r
              /\ cur'[d].first <= cur[d].first /\ cur[d].last <= cur'[d].last
          BY <2>2, <3>3, <4>1, <5>1 DEF DeviceWritten, Writes, IInv, TypeOK
        <5> QED
          BY <3>3, <3>4, <5>1, <5>2 DEF Spans, DeviceRows
      <4>2. CASE d # Submission(r).device
        BY <2>2, <3>3, <3>4, <4>2 DEF DeviceWritten, Writes, IInv, TypeOK
      <4> QED
        BY <4>1, <4>2
    <3> QED
      BY <1>2, <3>2, <3>4, <3>5, <3>6 DEF BackedEvent, Spans
  <2>3. CASE UpsertSession(r) /\ SessionWritten(r)
    <3>1. pc[r] = "session"
      BY <2>3 DEF UpsertSession
    <3>2. lock[e] = r /\ cur'[e] = cur[e]
      BY <1>0, <1>2, <2>3, TablesAreApart DEF SessionWritten, Writes, IInv, TypeOK
    <3> DEFINE d == cur[e].device
               s == cur[e].session
    <3>3. /\ s \in Sessions /\ s \in Keys /\ d \in Devices /\ d \in Keys
          /\ cur[e].at \in Nat
      BY <1>0, <3>2, EventType
    <3>4. /\ lock[s] = r /\ Spans(cur[s].started, cur[e].at, cur[s].ended)
          /\ lock[d] = r /\ Spans(cur[d].first, cur[e].at, cur[d].last)
          /\ cur[e].whole
      BY <1>0, <3>1, <3>2 DEF BackedEvent
    <3>5. cur'[d] = cur[d] /\ lock'[d] = r
      BY <2>3, <3>3, <3>4, TablesAreApart DEF SessionWritten, Writes, IInv, TypeOK
    <3>6. lock'[s] = r /\ Spans(cur'[s].started, cur[e].at, cur'[s].ended)
      <4>1. CASE s = Submission(r).session
        <5>1. cur[s] \in SessionRows /\ cur[s] # NoRow
          BY <3>3, <3>4, RowTypes DEF IInv, LocksAreHeld
        <5>2. /\ cur'[s] \in SessionRows /\ lock'[s] = r
              /\ cur'[s].started <= cur[s].started /\ cur[s].ended <= cur'[s].ended
          BY <2>3, <3>3, <4>1, <5>1 DEF SessionWritten, Writes, IInv, TypeOK
        <5> QED
          BY <3>3, <3>4, <5>1, <5>2 DEF Spans, SessionRows
      <4>2. CASE s # Submission(r).session
        BY <2>3, <3>3, <3>4, <4>2 DEF SessionWritten, Writes, IInv, TypeOK
      <4> QED
        BY <4>1, <4>2
    <3> QED
      BY <1>2, <3>2, <3>4, <3>5, <3>6 DEF BackedEvent, Spans
  <2>4. CASE InsertEvent(r) /\ EventWritten(r)
    <3> DEFINE t == Submission(r)
    <3>1. /\ pc[r] = "event" /\ pc'[r] = "children" /\ pos' = pos
          /\ t.id \in EventIds /\ t.id \in Keys /\ t.session \in Sessions
          /\ t.session \in Keys /\ t.device \in Devices /\ t.device \in Keys
      BY <2>4, SubmissionType DEF InsertEvent, Goto, IInv, TypeOK
    <3>2. \A k \in Keys \ {t.id} : cur'[k] = cur[k] /\ lock'[k] = lock[k]
      BY <2>4 DEF EventWritten, Writes, IInv, TypeOK
    <3>3. CASE e = t.id
      <4>1. /\ cur'[e].session = t.session /\ cur'[e].device = t.device
            /\ cur'[e].at = t.at
        BY <2>4, <3>3 DEF EventWritten
      <4>2. /\ lock[t.session] = r /\ lock[t.device] = r
            /\ Spans(cur[t.session].started, t.at, cur[t.session].ended)
            /\ Spans(cur[t.device].first, t.at, cur[t.device].last)
        BY <3>1 DEF IInv, ItemIsBacked
      <4>3. /\ cur'[t.session] = cur[t.session] /\ lock'[t.session] = r
            /\ cur'[t.device] = cur[t.device] /\ lock'[t.device] = r
        BY <3>1, <3>2, <4>2, TablesAreApart
      <4>4. Submission(r)' = Submission(r)
        BY <3>1 DEF Submission
      <4> QED
        BY <1>2, <3>1, <3>3, <4>1, <4>2, <4>3, <4>4 DEF BackedEvent
    <3>4. CASE e # t.id
      <4>1. lock[e] = r /\ cur'[e] = cur[e] /\ cur[e] # NoRow /\ BackedEvent(e)
        BY <1>0, <1>2, <3>2, <3>4
      <4>2. /\ cur[e].session \in Sessions /\ cur[e].session \in Keys
            /\ cur[e].device \in Devices /\ cur[e].device \in Keys
        BY <4>1, EventType
      <4>3. /\ cur'[cur[e].session] = cur[cur[e].session]
            /\ lock'[cur[e].session] = lock[cur[e].session]
            /\ cur'[cur[e].device] = cur[cur[e].device]
            /\ lock'[cur[e].device] = lock[cur[e].device]
        BY <3>1, <3>2, <4>2, TablesAreApart
      <4> HIDE DEF t
      <4> QED
        BY <1>2, <3>1, <4>1, <4>3 DEF BackedEvent
    <3> QED
      BY <3>3, <3>4
  <2>5. CASE InsertChildren(r) /\ ChildrenWritten(r)
    <3> DEFINE t == Submission(r)
    <3>1. /\ lock' = lock /\ lock[e] = r /\ cur[e] # NoRow /\ BackedEvent(e)
      BY <1>0, <1>2, <2>5 DEF ChildrenWritten
    <3>2. /\ cur[e].session \in Sessions /\ cur[e].session \in Keys
          /\ cur[e].device \in Devices /\ cur[e].device \in Keys
          /\ cur[e] \in EventRows
      BY <3>1, EventType
    <3>3. /\ cur'[e].session = cur[e].session /\ cur'[e].device = cur[e].device
          /\ cur'[e].at = cur[e].at /\ cur'[e].whole
      <4>1. CASE e = t.id
        BY <2>5, <3>2, <4>1 DEF ChildrenWritten, EventRows
      <4>2. CASE e # t.id
        <5>1. cur'[e] = cur[e]
          BY <1>0, <2>5, <4>2, TablesAreApart DEF ChildrenWritten
        <5> QED
          BY <3>1, <4>2, <5>1 DEF BackedEvent
      <4> QED
        BY <4>1, <4>2
    <3>4. cur'[cur[e].device] = cur[cur[e].device]
      BY <2>5, <3>2, TablesAreApart DEF ChildrenWritten
    <3>5. /\ cur'[cur[e].session].started = cur[cur[e].session].started
          /\ cur'[cur[e].session].ended = cur[cur[e].session].ended
      <4>1. CASE cur[e].session = t.session
        BY <2>5, <4>1 DEF ChildrenWritten, SessionRows
      <4>2. CASE cur[e].session # t.session
        BY <2>5, <3>2, <4>2, TablesAreApart DEF ChildrenWritten
      <4> QED
        BY <4>1, <4>2
    <3> HIDE DEF t
    <3> QED
      BY <3>1, <3>3, <3>4, <3>5 DEF BackedEvent
  <2>6. CASE InsertCapture(r) /\ CaptureWritten(r)
    <3>1. \A k \in Keys \ CaptureIds : cur'[k] = cur[k] /\ lock'[k] = lock[k]
      BY <2>6 DEF CaptureWritten, Writes, IInv, TypeOK
    <3>2. pc[r] = "capture"
      BY <2>6 DEF InsertCapture
    <3>3. lock[e] = r /\ cur'[e] = cur[e] /\ cur[e] # NoRow /\ BackedEvent(e)
      BY <1>0, <1>2, <3>1, TablesAreApart
    <3>4. /\ cur[e].session \in Sessions /\ cur[e].session \in Keys
          /\ cur[e].device \in Devices /\ cur[e].device \in Keys
      BY <3>3, EventType
    <3>5. /\ cur'[cur[e].session] = cur[cur[e].session]
          /\ lock'[cur[e].session] = lock[cur[e].session]
          /\ cur'[cur[e].device] = cur[cur[e].device]
          /\ lock'[cur[e].device] = lock[cur[e].device]
      BY <3>1, <3>4, TablesAreApart
    <3> QED
      BY <1>2, <3>2, <3>3, <3>5 DEF BackedEvent
  <2>7. CASE Commit(r) \/ Rejects(r)
    BY <1>0, <1>2, <2>7 DEF Commit, Rejects, Rollback, Close, Held
  <2> QED
    BY <2>1, <2>2, <2>3, <2>4, <2>5, <2>6, <2>7, StepKinds
<1> QED
  BY <1>1, <1>2

\* A committed event is complete, and its session and device span it.
WholeEvent(e) ==
  LET s == base[base[e].session]
      d == base[base[e].device]
  IN  /\ base[e].whole
      /\ s # NoRow /\ s.started <= base[e].at /\ base[e].at <= s.ended
      /\ d # NoRow /\ d.first <= base[e].at /\ base[e].at <= d.last

\* Only a commit changes what is committed.
LEMMA OnlyCommitStores ==
  ASSUME IInv, NEW r \in Requests, Step(r), ~Commit(r)
  PROVE  base' = base
BY StepKinds, QuietKeepsRows
DEF UpsertDevice, UpsertSession, InsertEvent, InsertChildren, InsertCapture,
    Rejects, Rollback

\* A commit stores whole events, and leaves those that were stored whole.
LEMMA NextEventsAreWhole ==
  ASSUME IInv, TypeOK', NEW r \in Requests, Step(r)
  PROVE  EventsAreWhole'
<1> USE IngestConstants
<1> SUFFICES ASSUME NEW e \in EventIds, base'[e] # NoRow PROVE WholeEvent(e)'
  BY DEF EventsAreWhole, WholeEvent, Stored
<1>1. CASE ~Commit(r)
  <2>1. base' = base
    BY <1>1, OnlyCommitStores
  <2> QED
    BY <2>1 DEF IInv, EventsAreWhole, WholeEvent, Stored
<1>2. CASE Commit(r)
  <2>1. /\ e \in Keys
        /\ \A k \in Keys : base'[k] = IF lock[k] = r THEN cur[k] ELSE base[k]
    BY <1>2 DEF Commit, Held, Keys
  <2>2. CASE lock[e] = r
    <3> DEFINE d == cur[e].device
               s == cur[e].session
    <3>1. base'[e] = cur[e] /\ cur[e] # NoRow
      BY <2>1, <2>2 DEF IInv, LocksAreHeld
    <3>2. /\ s \in Sessions /\ s \in Keys /\ d \in Devices /\ d \in Keys
          /\ cur[e].at \in Nat
      BY <3>1, EventType
    <3>3. /\ lock[s] = r /\ Spans(cur[s].started, cur[e].at, cur[s].ended)
          /\ lock[d] = r /\ Spans(cur[d].first, cur[e].at, cur[d].last)
          /\ cur[e].whole
      BY <1>2, <2>2 DEF IInv, NewEventsAreBacked, Commit
    <3>4. cur[s] # NoRow /\ cur[d] # NoRow
      BY <3>2, <3>3 DEF IInv, LocksAreHeld
    <3>5. base'[s] = cur[s] /\ base'[d] = cur[d]
      BY <2>1, <3>2, <3>3
    <3> QED
      BY <3>1, <3>3, <3>4, <3>5 DEF WholeEvent, Spans
  <2>3. CASE lock[e] # r
    <3> DEFINE d == base[e].device
               s == base[e].session
    <3>1. base'[e] = base[e] /\ base[e] # NoRow
      BY <2>1, <2>3
    <3>2. /\ s \in Sessions /\ s \in Keys /\ d \in Devices /\ d \in Keys
          /\ base[e].at \in Nat
      <4>1. base[e] \in EventRows
        BY <3>1, RowTypes DEF IInv
      <4> QED
        BY <4>1 DEF EventRows, Keys
    <3>3. /\ base[e].whole
          /\ base[s] # NoRow /\ base[s].started <= base[e].at
          /\ base[e].at <= base[s].ended
          /\ base[d] # NoRow /\ base[d].first <= base[e].at
          /\ base[e].at <= base[d].last
      BY <3>1 DEF IInv, EventsAreWhole, Stored
    <3>4. /\ base[s] \in SessionRows /\ base[d] \in DeviceRows
          /\ cur[s] # NoRow /\ cur[s] \in SessionRows
          /\ cur[d] # NoRow /\ cur[d] \in DeviceRows
      BY <3>2, <3>3, RowTypes DEF IInv, LocksAreHeld
    <3>5. /\ cur[s].started <= base[s].started /\ base[s].ended <= cur[s].ended
          /\ cur[d].first <= base[d].first /\ base[d].last <= cur[d].last
      BY <3>2, <3>3 DEF IInv, UpsertsWiden
    <3>6. base'[s] \in {base[s], cur[s]} /\ base'[d] \in {base[d], cur[d]}
      BY <2>1, <3>2
    <3>7. /\ base'[s] # NoRow /\ base'[s].started <= base[e].at
          /\ base[e].at <= base'[s].ended
      BY <3>2, <3>3, <3>4, <3>5, <3>6 DEF SessionRows
    <3>8. /\ base'[d] # NoRow /\ base'[d].first <= base[e].at
          /\ base[e].at <= base'[d].last
      BY <3>2, <3>3, <3>4, <3>5, <3>6 DEF DeviceRows
    <3> QED
      BY <3>1, <3>3, <3>7, <3>8 DEF WholeEvent
  <2> QED
    BY <2>2, <2>3
<1> QED
  BY <1>1, <1>2

-----------------------------------------------------------------------------
(* The inductive invariant. *)

\* It holds when nothing is stored and nobody has sent anything, ...
LEMMA InitIInv == Init => IInv
<1> SUFFICES ASSUME Init PROVE IInv
  OBVIOUS
<1> USE IngestConstants
<1>1. TypeOK
  BY InitTypeOK
<1>2. \A k \in Keys : cur[k] = NoRow /\ base[k] = NoRow /\ lock[k] = Nobody
  BY DEF Init
<1>3. \A r \in Requests : pc[r] = "idle" /\ pos[r] = 0 /\ fresh[r] = {} /\ reply[r] = "none"
  BY DEF Init
<1>4. LocksAreHeld
  BY <1>2 DEF LocksAreHeld
<1>5. LockedIsFresh
  BY <1>2, <1>3 DEF LockedIsFresh, Held, Keys
<1>6. PlaceMatchesItem /\ FreshIsSubmitted
  BY <1>3 DEF FreshIsSubmitted, PlaceMatchesItem
<1>7. DoneIsVisible
  <2> SUFFICES ASSUME NEW r \in Requests
               PROVE  /\ \A i \in DOMAIN Batch[r] : ~(i < pos[r])
                      /\ \A i \in DOMAIN Captures[r] : ~(Len(Batch[r]) + i < pos[r])
    BY DEF DoneIsVisible
  <2>1. pos[r] = 0
    BY <1>3
  <2> DEFINE m == Len(Batch[r])
             n == Len(Captures[r])
  <2>2. m \in Nat /\ n \in Nat /\ DOMAIN Batch[r] = 1..m /\ DOMAIN Captures[r] = 1..n
    BY ItemTypes
  <2> HIDE DEF m, n
  <2>3. /\ \A i \in 1..m : ~(i < 0)
        /\ \A i \in 1..n : ~(m + i < 0)
    BY <2>2
  <2> QED
    BY <2>1, <2>2, <2>3 DEF m
<1>8. UpsertsWiden /\ NewEventsAreBacked /\ EventsAreWhole
  BY <1>2 DEF UpsertsWiden, NewEventsAreBacked, EventsAreWhole, Stored, Keys
<1>9. ItemIsBacked /\ AckedIsStored
  BY <1>3 DEF ItemIsBacked, AckedIsStored
<1>10. AcceptedOnce
  BY <1>2 DEF Init, AcceptedOnce, Stored, Keys
<1> QED
  BY <1>1, <1>4, <1>5, <1>6, <1>7, <1>8, <1>9, <1>10 DEF IInv

\* ... and every step of every transaction keeps it.
LEMMA NextIInv == IInv /\ [Next]_vars => IInv'
<1> SUFFICES ASSUME IInv, [Next]_vars PROVE IInv'
  OBVIOUS
<1>1. TypeOK'
  BY NextTypeOK DEF IInv
<1>2. CASE Next
  <2>1. PICK r \in Requests : Step(r)
    BY <1>2 DEF Next, Step
  <2>2. UpsertsWiden'
    BY <2>1, NextDevicesWiden, NextSessionsWiden DEF UpsertsWiden
  <2> QED
    BY <1>1, <2>1, <2>2, NextLocksAreHeld, NextLockedIsFresh, NextFreshIsSubmitted,
       NextPlaceMatchesItem, NextDoneIsVisible, NextItemIsBacked, NextNewEventsAreBacked, NextAcceptedOnce,
       NextAckedIsStored, NextEventsAreWhole
    DEF IInv
<1>3. CASE UNCHANGED vars
  <2> USE <1>3 DEF vars, IInv
  <2>1. LocksAreHeld' /\ LockedIsFresh' /\ FreshIsSubmitted' /\ PlaceMatchesItem'
    BY DEF LocksAreHeld, LockedIsFresh, FreshIsSubmitted, PlaceMatchesItem, Held, Ids
  <2>2. DoneIsVisible' /\ UpsertsWiden'
    BY DEF DoneIsVisible, UpsertsWiden, Visible
  <2>3. ItemIsBacked' /\ NewEventsAreBacked'
    BY DEF ItemIsBacked, NewEventsAreBacked, Submission
  <2>4. AcceptedOnce' /\ AckedIsStored' /\ EventsAreWhole'
    BY DEF AcceptedOnce, AckedIsStored, EventsAreWhole, Stored
  <2> QED
    BY <1>1, <2>1, <2>2, <2>3, <2>4
<1> QED
  BY <1>2, <1>3

\* So it always holds.
LEMMA Invariance == Spec => []IInv
  BY InitIInv, NextIInv, PTL DEF Spec

-----------------------------------------------------------------------------
(* The properties. *)

\* Tables, locks and program counters keep their types.
THEOREM PgTypeCorrect == Spec => []TypeOK
<1>1. IInv => TypeOK
  BY DEF IInv
<1> QED
  BY <1>1, Invariance, PTL

\* What is not committed belongs to a transaction that is still open.
THEOREM WritesAreIsolatedHolds == Spec => []WritesAreIsolated
<1>1. IInv => WritesAreIsolated
  BY DEF IInv, LocksAreHeld, WritesAreIsolated
<1> QED
  BY <1>1, Invariance, PTL

\* However requests overlap, are resent, fail or deadlock: an event is counted as
\* accepted once.
THEOREM AcceptedOnceHolds == Spec => []AcceptedOnce
<1>1. IInv => AcceptedOnce
  BY DEF IInv
<1> QED
  BY <1>1, Invariance, PTL

\* A collector that got its answer finds its whole batch stored.
THEOREM AckedIsStoredHolds == Spec => []AckedIsStored
<1>1. IInv => AckedIsStored
  BY DEF IInv
<1> QED
  BY <1>1, Invariance, PTL

\* A committed event is complete; its session and device exist and span it.
THEOREM EventsAreWholeHolds == Spec => []EventsAreWhole
<1>1. IInv => EventsAreWhole
  BY DEF IInv
<1> QED
  BY <1>1, Invariance, PTL

-----------------------------------------------------------------------------
(* Action properties and refinement. *)

\* A commit makes the newest version of what its transaction holds the committed
\* one; it holds no event that was stored before.
LEMMA CommitStores ==
  ASSUME IInv, NEW r \in Requests, Commit(r)
  PROVE  /\ \A k \in Keys : base'[k] = IF lock[k] = r THEN cur[k] ELSE base[k]
         /\ \A e \in EventIds : base[e] # NoRow => lock[e] # r /\ base'[e] = base[e]
         /\ \A e \in EventIds : base'[e] # base[e] => lock[e] = r
<1>1. \A k \in Keys : base'[k] = IF lock[k] = r THEN cur[k] ELSE base[k]
  BY DEF Commit, Held
<1>2. \A e \in EventIds : e \in Keys /\ (base[e] # NoRow => lock[e] # r)
  BY IngestConstants DEF IInv, LockedIsFresh, Keys
<1> QED
  BY <1>1, <1>2

\* A step that changes the events of a session advances its revision.
LEMMA StepAdvances ==
  ASSUME IInv, NEW r \in Requests, Step(r), NEW s \in Sessions,
         EventsOf(s)' # EventsOf(s), base[s] # NoRow
  PROVE  base'[s].revision > base[s].revision
<1> USE IngestConstants
<1>1. Commit(r)
  <2> SUFFICES ASSUME ~Commit(r) PROVE FALSE
    OBVIOUS
  <2>1. base' = base
    BY OnlyCommitStores
  <2> QED
    BY <2>1 DEF EventsOf, Stored
<1>2. PICK e \in EventIds : base'[e] # base[e] /\ base'[e].session = s
  BY <1>1, CommitStores DEF EventsOf, Stored
<1>3. lock[e] = r /\ base'[e] = cur[e]
  BY <1>1, <1>2, CommitStores DEF Keys
<1>4. lock[s] = r
  BY <1>2, <1>3 DEF IInv, NewEventsAreBacked
<1>5. base'[s] = cur[s] /\ cur[s].revision > base[s].revision
  BY <1>1, <1>4, CommitStores DEF IInv, UpsertsWiden, Keys
<1> QED
  BY <1>5

\* Whoever adds events to a session, its revision advances with them.
THEOREM RevisionAdvancesHolds == Spec => RevisionAdvances
<1> DEFINE Advances == \A s \in Sessions : EventsOf(s)' # EventsOf(s) =>
             \/ base[s] = NoRow
             \/ base'[s].revision > base[s].revision
<1>1. IInv /\ [Next]_vars => [Advances]_vars
  BY StepAdvances DEF Next, Step
<1> QED
  BY <1>1, Invariance, PTL DEF Spec, RevisionAdvances

\* A transaction that commits has seen every event of its request.
LEMMA CommitSeesAll ==
  ASSUME IInv, NEW r \in Requests, Commit(r)
  PROVE  \A e \in Ids(r) : e \in Keys /\ Visible(r, e) # NoRow
<1>1. pos[r] > Len(Batch[r]) + Len(Captures[r]) /\ pos[r] \in Nat
  BY DEF Commit, IInv, TypeOK, PlaceMatchesItem
<1>2. \A i \in DOMAIN Batch[r] : i < pos[r]
  <2> DEFINE m == Len(Batch[r])
             n == Len(Captures[r])
  <2>1. m \in Nat /\ n \in Nat /\ pos[r] \in Nat /\ pos[r] > m + n /\ DOMAIN Batch[r] = 1..m
    BY <1>1, ItemTypes
  <2> HIDE DEF m, n
  <2> QED
    BY <2>1
<1> QED
  BY <1>2, ItemTypes DEF IInv, DoneIsVisible, Ids

\* Nothing is stored at first, ...
LEMMA InitRefines == Init => EventStoreOf!EInit
  BY DEF Init, EventStoreOf!EInit, Keys

\* ... a commit ingests its batch, and no other step changes a stored event.
LEMMA NextRefines ==
  IInv /\ [Next]_vars => [EventStoreOf!ENext]_[e \in EventIds |-> base[e]]
<1> DEFINE stored == [e \in EventIds |-> base[e]]
<1> SUFFICES ASSUME IInv, [Next]_vars
             PROVE  EventStoreOf!ENext \/ stored' = stored
  OBVIOUS
<1>1. CASE UNCHANGED vars
  BY <1>1 DEF vars
<1>2. ASSUME NEW r \in Requests, Step(r), ~Commit(r)
      PROVE  stored' = stored
  BY <1>2, OnlyCommitStores
<1>3. ASSUME NEW r \in Requests, Commit(r)
      PROVE  EventStoreOf!IngestBatch(r)
  <2>1. \A e \in EventIds : base'[e] # base[e] => lock[e] = r /\ base[e] = NoRow
    BY <1>3, CommitStores
  <2>2. \A e \in EventIds : lock[e] = r => e \in Ids(r)
    BY DEF IInv, LockedIsFresh, FreshIsSubmitted, Held, Keys
  <2>3. \A e \in Ids(r) : e \in EventIds /\ base'[e] # NoRow
    BY <1>3, CommitSeesAll, CommitStores, ItemTypes DEF Visible, Ids
  <2> QED
    BY <2>1, <2>2, <2>3 DEF EventStoreOf!IngestBatch, EventStoreOf!Stored
<1> QED
  BY <1>1, <1>2, <1>3 DEF Next, Step, EventStoreOf!ENext

\* Whatever the interleaving of their statements, requests are ingested batch by
\* batch, each event once, and what is stored never changes.
THEOREM IngestImplementsEventStore == Spec => ImplementsEventStore
  BY InitRefines, NextRefines, Invariance, PTL
  DEF Spec, ImplementsEventStore, EventStoreOf!ESpec

-----------------------------------------------------------------------------
(* Captures. *)

\* A capture's row names the user, the session and the device of all its events.
CaptureFits(table, c) ==
  table[c] # NoRow =>
    /\ table[c].events # {}
    /\ \A e \in table[c].events :
         /\ table[e] # NoRow
         /\ table[e].user = table[c].user
         /\ table[e].session = table[c].session
         /\ table[e].device = table[c].device

\* The events of an uncommitted capture are committed or its transaction's own.
CaptureIsSeen(c) ==
  lock[c] # Nobody => \A e \in cur[c].events : lock[e] \in {lock[c], Nobody}

CapturesFit ==
  \A c \in CaptureIds : CaptureFits(cur, c) /\ CaptureFits(base, c) /\ CaptureIsSeen(c)

\* The events of a capture's row are event keys.
LEMMA CaptureEvents ==
  ASSUME TypeOK, NEW c \in CaptureIds
  PROVE  /\ c \in Keys
         /\ cur[c] # NoRow => cur[c].events \subseteq EventIds
         /\ base[c] # NoRow => base[c].events \subseteq EventIds
BY DEF TypeOK, TypedTable, CaptureRows, Keys

\* A committed event is not locked, and its newest version is the committed one.
LEMMA CommittedIsNewest ==
  ASSUME IInv, NEW e \in EventIds, base[e] # NoRow
  PROVE  lock[e] = Nobody /\ cur[e] = base[e]
BY DEF IInv, LockedIsFresh, LocksAreHeld, Keys

\* What a transaction sees of an event is its newest version, which nobody else holds.
LEMMA SeenIsNewest ==
  ASSUME IInv, NEW r \in Requests, NEW e \in EventIds, Visible(r, e) # NoRow
  PROVE  Visible(r, e) = cur[e] /\ lock[e] \in {r, Nobody}
BY CommittedIsNewest DEF Visible

\* A new capture fits the events it was made from.
LEMMA CaptureInserted ==
  ASSUME IInv, NEW r \in Requests, InsertCapture(r), CaptureWritten(r)
  PROVE  LET c == CaptureOf(r).id
         IN  /\ CaptureFits(cur', c)
             /\ \A e \in cur'[c].events : lock[e] \in {r, Nobody}
<1> DEFINE c == CaptureOf(r)
<1>1. c.id \in CaptureIds /\ c.id \in Keys /\ c.events \subseteq EventIds
  BY CaptureType DEF IInv, InsertCapture
<1>2. PICK e \in c.events : Write(r, c.id, CaptureRow(r, c, e))
  BY DEF InsertCapture
<1>3. cur'[c.id] = CaptureRow(r, c, e)
  BY <1>1, <1>2 DEF Write, IInv, TypeOK, TypedTable
<1>4. ASSUME NEW f \in c.events
      PROVE  /\ cur[f] # NoRow /\ lock[f] \in {r, Nobody} /\ cur'[f] = cur[f]
             /\ cur[f].user = UserOf[r]
             /\ cur[f].session = Visible(r, e).session
             /\ cur[f].device = Visible(r, e).device
  <2>1. /\ Visible(r, f) # NoRow /\ Visible(r, f).user = UserOf[r]
        /\ Visible(r, f).session = Visible(r, e).session
        /\ Visible(r, f).device = Visible(r, e).device
    BY <1>2 DEF InsertCapture, Correlated, Reloaded
  <2>2. Visible(r, f) = cur[f] /\ lock[f] \in {r, Nobody}
    BY <1>1, <2>1, SeenIsNewest
  <2>3. cur'[f] = cur[f]
    BY <1>1, TablesAreApart DEF CaptureWritten, Writes, Keys
  <2> QED
    BY <2>1, <2>2, <2>3
<1>5. /\ cur'[c.id].events = c.events /\ cur'[c.id].user = UserOf[r]
      /\ cur'[c.id].session = Visible(r, e).session
      /\ cur'[c.id].device = Visible(r, e).device
  BY <1>3 DEF CaptureRow
<1> HIDE DEF c
<1>6. CaptureFits(cur', c.id)
  BY <1>2, <1>4, <1>5 DEF CaptureFits
<1> QED
  BY <1>4, <1>5, <1>6 DEF c

\* No step of a transaction parts a capture from its events.
LEMMA NextCapturesFit ==
  ASSUME IInv, TypeOK', CapturesFit, NEW r \in Requests, Step(r)
  PROVE  CapturesFit'
<1> USE IngestConstants
<1> SUFFICES ASSUME NEW c \in CaptureIds
             PROVE  /\ CaptureFits(cur', c) /\ CaptureFits(base', c)
                    /\ lock'[c] # Nobody => \A e \in cur'[c].events : lock'[e] \in {lock'[c], Nobody}
  BY DEF CapturesFit, CaptureFits, CaptureIsSeen
<1>0. /\ CaptureFits(cur, c) /\ CaptureFits(base, c) /\ CaptureIsSeen(c)
      /\ c \in Keys /\ c \notin EventIds
      /\ cur[c] # NoRow => cur[c].events \subseteq EventIds
      /\ base[c] # NoRow => base[c].events \subseteq EventIds
      /\ lock[c] # Nobody => cur[c] # NoRow
      /\ lock[c] = Nobody => cur[c] = base[c]
  BY CaptureEvents, TablesAreApart DEF CapturesFit, IInv, LocksAreHeld
<1>1. CASE Quiet(r)
  BY <1>0, <1>1, QuietKeepsRows DEF CaptureFits, CaptureIsSeen
<1>2. ASSUME NEW k \in Devices \cup Sessions, Writes(r, k)
      PROVE  /\ CaptureFits(cur', c) /\ CaptureFits(base', c)
             /\ lock'[c] # Nobody => \A e \in cur'[c].events : lock'[e] \in {lock'[c], Nobody}
  <2>1. /\ base' = base /\ cur'[c] = cur[c] /\ lock'[c] = lock[c]
        /\ \A e \in EventIds : cur'[e] = cur[e] /\ lock'[e] = lock[e]
    BY <1>0, <1>2, TablesAreApart DEF Writes, IInv, TypeOK, Keys
  <2> QED
    BY <1>0, <2>1 DEF CaptureFits, CaptureIsSeen
<1>3. CASE EventWritten(r)
  <2> DEFINE id == Submission(r).id
  <2>1. /\ id \in EventIds /\ cur[id] = NoRow /\ base' = base
        /\ cur'[c] = cur[c] /\ lock'[c] = lock[c]
        /\ \A e \in EventIds \ {id} : cur'[e] = cur[e] /\ lock'[e] = lock[e]
    BY <1>0, <1>3 DEF EventWritten, Writes, IInv, TypeOK, Keys
  <2> HIDE DEF id
  <2>2. cur[c] # NoRow => id \notin cur[c].events
    BY <1>0, <2>1 DEF CaptureFits
  <2>3. CaptureFits(cur', c)
    BY <1>0, <2>1, <2>2 DEF CaptureFits
  <2>4. lock'[c] # Nobody => \A e \in cur'[c].events : lock'[e] \in {lock'[c], Nobody}
    BY <1>0, <2>1, <2>2 DEF CaptureIsSeen
  <2> QED
    BY <1>0, <2>1, <2>3, <2>4
<1>4. CASE ChildrenWritten(r)
  <2> DEFINE id == Submission(r).id
  <2>1. /\ base' = base /\ lock' = lock /\ cur'[c] = cur[c] /\ id \in EventIds
        /\ \A e \in EventIds \ {id} : cur'[e] = cur[e]
    BY <1>0, <1>4, TablesAreApart DEF ChildrenWritten, Keys
  <2>2. /\ cur'[id].user = cur[id].user /\ cur'[id].session = cur[id].session
        /\ cur'[id].device = cur[id].device /\ cur'[id] # NoRow
    <3>1. cur[id] \in EventRows /\ cur'[id] = [cur[id] EXCEPT !.whole = TRUE]
      BY <1>4 DEF ChildrenWritten
    <3>2. cur'[id] \in EventRows
      BY <3>1 DEF EventRows
    <3> QED
      BY <3>1, <3>2, TablesAreApart DEF EventRows
  <2> HIDE DEF id
  <2>3. CaptureFits(cur', c)
    BY <1>0, <2>1, <2>2 DEF CaptureFits
  <2> QED
    BY <1>0, <2>1, <2>3 DEF CaptureIsSeen
<1>5. CASE InsertCapture(r) /\ CaptureWritten(r)
  <2> DEFINE k == CaptureOf(r).id
  <2>1. /\ k \in CaptureIds /\ base' = base /\ lock' = [lock EXCEPT ![k] = r]
        /\ \A j \in Keys \ {k} : cur'[j] = cur[j] /\ lock'[j] = lock[j]
        /\ \A e \in EventIds : cur'[e] = cur[e] /\ lock'[e] = lock[e]
        /\ lock'[k] = r
    BY <1>5, TablesAreApart DEF CaptureWritten, Writes, IInv, TypeOK, Keys
  <2>2. /\ CaptureFits(cur', k)
        /\ \A e \in cur'[k].events : lock[e] \in {r, Nobody}
    BY <1>5, CaptureInserted
  <2>3. cur'[k] # NoRow => cur'[k].events \subseteq EventIds
    BY <2>1, CaptureEvents DEF TypeOK, TypedTable, CaptureRows, Keys
  <2>4. cur'[k] # NoRow
    BY <1>5 DEF CaptureWritten, Writes
  <2> HIDE DEF k
  <2>5. CASE c = k
    BY <1>0, <2>1, <2>2, <2>3, <2>4, <2>5 DEF CaptureFits
  <2>6. CASE c # k
    BY <1>0, <2>1, <2>6 DEF CaptureFits, CaptureIsSeen
  <2> QED
    BY <2>5, <2>6
<1>6. CASE Commit(r)
  <2>1. /\ cur' = cur
        /\ \A k \in Keys : base'[k] = IF lock[k] = r THEN cur[k] ELSE base[k]
        /\ \A k \in Keys : lock'[k] = IF lock[k] = r THEN Nobody ELSE lock[k]
        /\ \A e \in EventIds : e \in Keys
        /\ \A e \in EventIds : base[e] # NoRow => base'[e] = base[e]
    BY <1>6, CommitStores DEF Commit, Close, Held, Keys
  <2>2. \A e \in EventIds : lock[e] \in {r, Nobody} => base'[e] = cur[e]
    BY <2>1 DEF IInv, LocksAreHeld
  <2>3. CaptureFits(base', c)
    <3>1. CASE lock[c] = r
      BY <1>0, <2>1, <2>2, <3>1 DEF CaptureFits, CaptureIsSeen
    <3>2. CASE lock[c] # r
      BY <1>0, <2>1, <3>2 DEF CaptureFits
    <3> QED
      BY <3>1, <3>2
  <2>4. CaptureFits(cur', c)
    BY <1>0, <2>1
  <2>5. lock'[c] # Nobody => \A e \in cur'[c].events : lock'[e] \in {lock'[c], Nobody}
    BY <1>0, <2>1 DEF CaptureIsSeen
  <2> QED
    BY <2>3, <2>4, <2>5
<1>7. CASE Rejects(r)
  <2>1. /\ base' = base
        /\ \A k \in Keys : cur'[k] = IF lock[k] = r THEN base[k] ELSE cur[k]
        /\ \A k \in Keys : lock'[k] = IF lock[k] = r THEN Nobody ELSE lock[k]
        /\ \A e \in EventIds : e \in Keys
    BY <1>7 DEF Rejects, Rollback, Close, Held, Keys
  <2>2. \A e \in EventIds : base[e] # NoRow => cur'[e] = base[e]
    BY <2>1, CommittedIsNewest
  <2>3. CaptureFits(cur', c)
    <3>1. CASE lock[c] \in {r, Nobody}
      BY <1>0, <2>1, <2>2, <3>1 DEF CaptureFits
    <3>2. CASE lock[c] \notin {r, Nobody}
      BY <1>0, <2>1, <3>2 DEF CaptureFits, CaptureIsSeen
    <3> QED
      BY <3>1, <3>2
  <2>4. lock'[c] # Nobody => \A e \in cur'[c].events : lock'[e] \in {lock'[c], Nobody}
    BY <1>0, <2>1 DEF CaptureIsSeen
  <2> QED
    BY <1>0, <2>1, <2>3, <2>4
<1> QED
  BY <1>1, <1>2, <1>3, <1>4, <1>5, <1>6, <1>7, StepKinds DEF DeviceWritten, SessionWritten

\* A committed capture is linked to stored events of one owner, session and device,
\* whatever is inserted and rolled back while it is written.
THEOREM CaptureIsWholeHolds == Spec => []CaptureIsWhole
<1>1. Init => CapturesFit
  BY DEF Init, CapturesFit, CaptureFits, CaptureIsSeen, Keys
<1>2. IInv /\ IInv' /\ CapturesFit /\ [Next]_vars => CapturesFit'
  <2>1. CASE UNCHANGED vars
    BY <2>1 DEF vars, CapturesFit, CaptureFits, CaptureIsSeen
  <2> QED
    BY <2>1, NextCapturesFit DEF Next, Step, IInv
<1>3. IInv /\ CapturesFit => CaptureIsWhole
  BY CaptureEvents DEF IInv, CapturesFit, CaptureFits, CaptureIsWhole, Stored
<1> QED
  BY <1>1, <1>2, <1>3, Invariance, PTL DEF Spec

-----------------------------------------------------------------------------
(* Titles. *)

\* The complete requests of a session in a table.
Asked(table, s) ==
  {e \in EventIds : /\ table[e] # NoRow /\ table[e].session = s
                    /\ table[e].kind = "request" /\ table[e].whole}

Anchor(row) == [at |-> row.at, pk |-> row.pk]

\* The title of a session is anchored at one of its complete requests, before which
\* there is none; without such requests it has no title.
TitleFits(table, s) ==
  table[s] # NoRow =>
    /\ table[s].title # NoRow => \E e \in Asked(table, s) : table[s].title = Anchor(table[e])
    /\ \A e \in Asked(table, s) :
         table[s].title # NoRow /\ ~Earlier(Anchor(table[e]), table[s].title)

\* The event whose children come next is as it was submitted.
ItemIsInserted(r) ==
  pc[r] = "children" =>
    cur[Submission(r).id].at = Submission(r).at /\ cur[Submission(r).id].kind = Submission(r).kind

TitlesFit ==
  /\ \A s \in Sessions : TitleFits(cur, s) /\ TitleFits(base, s)
  /\ \A r \in Requests : ItemIsInserted(r)

\* Tables that agree on a session and on its events agree on its title.
LEMMA SameTitleFits ==
  ASSUME NEW t, NEW u, NEW s, TitleFits(t, s), u[s] = t[s],
         \A e \in EventIds :
           (t[e] # NoRow /\ t[e].session = s) \/ (u[e] # NoRow /\ u[e].session = s) => u[e] = t[e]
  PROVE  TitleFits(u, s)
<1>1. Asked(u, s) = Asked(t, s) /\ \A e \in Asked(t, s) : u[e] = t[e]
  BY DEF Asked
<1> HIDE DEF Asked
<1> QED
  BY <1>1 DEF TitleFits

\* Every event of a session that exists in some version is committed or is written by
\* the transaction that holds the session, which exists too.
LEMMA EventHasSession ==
  ASSUME IInv, NEW e \in EventIds, cur[e] # NoRow
  PROVE  /\ cur[e].session \in Sessions /\ cur[cur[e].session] # NoRow
         /\ lock[e] # Nobody => lock[cur[e].session] = lock[e]
<1>1. e \in Keys /\ cur[e].session \in Sessions /\ cur[e].session \in Keys
  BY EventType DEF Keys
<1>2. CASE lock[e] # Nobody
  BY <1>1, <1>2 DEF IInv, NewEventsAreBacked, LocksAreHeld
<1>3. CASE lock[e] = Nobody
  <2>1. cur[e] = base[e]
    BY <1>1, <1>3 DEF IInv, LocksAreHeld
  <2>2. base[cur[e].session] # NoRow
    BY <2>1 DEF IInv, EventsAreWhole, Stored
  <2> QED
    BY <1>1, <1>3, <2>2 DEF IInv, LocksAreHeld
<1> QED
  BY <1>2, <1>3

\* A step that writes neither the session nor an event of it, or only an event that is
\* not complete, keeps its title.
LEMMA OtherRowsKeepTitle ==
  ASSUME NEW s, TitleFits(cur, s), cur'[s] = cur[s],
         \A e \in EventIds :
           \/ cur'[e] = cur[e]
           \/ cur[e] = NoRow /\ ~cur'[e].whole
           \/ cur[e] # NoRow /\ cur'[e].session = cur[e].session /\ cur[e].session # s
  PROVE  TitleFits(cur', s)
<1>1. Asked(cur', s) = Asked(cur, s) /\ \A e \in Asked(cur, s) : cur'[e] = cur[e]
  BY DEF Asked
<1> HIDE DEF Asked
<1> QED
  BY <1>1 DEF TitleFits

\* The upsert of a session keeps its title.
LEMMA UpsertKeepsTitle ==
  ASSUME IInv, TitlesFit, NEW r \in Requests, UpsertSession(r), SessionWritten(r),
         NEW s \in Sessions
  PROVE  TitleFits(cur', s)
<1> DEFINE k == Submission(r).session
<1>1. /\ k \in Sessions /\ k \in Keys /\ s \in Keys /\ k \notin EventIds
      /\ \A j \in Keys \ {k} : cur'[j] = cur[j]
      /\ \A e \in EventIds : e \in Keys /\ cur'[e] = cur[e]
  BY TablesAreApart DEF SessionWritten, Writes, Keys
<1>2. TitleFits(cur, s)
  BY DEF TitlesFit
<1>3. CASE s # k
  BY <1>1, <1>2, <1>3, OtherRowsKeepTitle
<1>4. CASE s = k /\ cur[k] # NoRow
  <2>1. cur'[k].title = cur[k].title
    <3> DEFINE t == Submission(r)
               old == cur[k]
    <3>1. cur' = [cur EXCEPT ![k] =
             [old EXCEPT !.device = t.device, !.started = Lesser(@, t.at),
                         !.ended = Greater(@, t.at), !.revision = @ + 1]]
      BY Zenon, <1>4 DEF UpsertSession, Write
    <3>2. old \in SessionRows
      BY <1>1, <1>4, RowTypes DEF IInv
    <3>3. cur'[k] = [old EXCEPT !.device = t.device, !.started = Lesser(old.started, t.at),
                                !.ended = Greater(old.ended, t.at), !.revision = old.revision + 1]
      BY <1>1, <3>1 DEF IInv, TypeOK, TypedTable
    <3> HIDE DEF old, k, t
    <3> QED
      BY <3>2, <3>3 DEF SessionRows, old
  <2>2. Asked(cur', k) = Asked(cur, k)
    BY <1>1 DEF Asked
  <2>3. \A e \in Asked(cur, k) : cur'[e] = cur[e]
    BY <1>1 DEF Asked
  <2> HIDE DEF k
  <2> QED
    BY <1>2, <1>4, <2>1, <2>2, <2>3 DEF TitleFits
<1>5. CASE s = k /\ cur[k] = NoRow
  <2>1. cur'[k].title = NoRow
    <3>1. cur' = [cur EXCEPT ![k] =
             [device |-> Submission(r).device, started |-> Submission(r).at,
              ended |-> Submission(r).at, revision |-> 1, title |-> NoRow]]
      BY Zenon, <1>5 DEF UpsertSession, Write
    <3> QED
      BY <1>1, <3>1 DEF IInv, TypeOK, TypedTable
  <2>2. \A e \in EventIds : cur'[e] # NoRow => cur'[e].session # k
    BY <1>1, <1>5, EventHasSession
  <2>3. Asked(cur', k) = {}
    BY <2>2 DEF Asked
  <2> QED
    BY <1>5, <2>1, <2>3 DEF TitleFits
<1> QED
  BY <1>3, <1>4, <1>5

\* A request that becomes complete is the title of its session if nothing precedes it.
LEMMA ChildrenKeepTitle ==
  ASSUME IInv, TypeOK', TitlesFit, NEW r \in Requests, InsertChildren(r), ChildrenWritten(r),
         NEW s \in Sessions
  PROVE  TitleFits(cur', s)
<1> DEFINE t == Submission(r)
           id == t.id
           k == t.session
           title == cur[k].title
<1>1. /\ id \in EventIds /\ id \in Keys /\ k \in Sessions /\ k \in Keys /\ s \in Keys /\ id # k
      /\ cur[id] \in EventRows /\ cur[k] \in SessionRows
      /\ \A e \in EventIds : e \in Keys /\ e # k
      /\ \A j \in Keys \ {id, k} : cur'[j] = cur[j]
  BY TablesAreApart DEF ChildrenWritten, Keys
<1>2. cur[id].session = k /\ cur[id].at = t.at /\ cur[id].kind = t.kind
  BY DEF IInv, ItemIsBacked, TitlesFit, ItemIsInserted, InsertChildren
<1>3. /\ cur'[id] # NoRow /\ cur'[id].session = k /\ cur'[id].kind = t.kind /\ cur'[id].whole
      /\ Anchor(cur'[id]) = Anchor(cur[id])
      /\ cur[id].at \in Nat /\ cur[id].pk \in Nat
  <2>1. cur'[id] = [cur[id] EXCEPT !.whole = TRUE]
    BY DEF ChildrenWritten
  <2>2. cur'[id] \in EventRows
    BY <1>1, <2>1 DEF EventRows
  <2> QED
    BY <1>1, <1>2, <2>1, <2>2, TablesAreApart, IngestConstants DEF EventRows, Anchor
<1>4. CASE s # k
  <2>1. \A e \in EventIds :
          \/ cur'[e] = cur[e]
          \/ cur[e] # NoRow /\ cur'[e].session = cur[e].session /\ cur[e].session # s
    BY <1>1, <1>2, <1>3, <1>4, TablesAreApart
  <2>2. cur'[s] = cur[s]
    BY <1>1, <1>4, TablesAreApart
  <2> QED
    BY <2>1, <2>2, OtherRowsKeepTitle DEF TitlesFit
<1>5. CASE s = k
  <2>1. cur'[k].title = IF t.kind = "request" /\ (title = NoRow \/ Earlier(Anchor(cur[id]), title))
                        THEN Anchor(cur[id]) ELSE title
    <3>1. Anchor(cur[id]) = [at |-> t.at, pk |-> cur[id].pk]
      BY <1>2 DEF Anchor
    <3>2. cur' = [cur EXCEPT ![id].whole = TRUE,
                             ![k].title = IF t.kind = "request" /\ (title = NoRow \/ Earlier(Anchor(cur[id]), title))
                                          THEN Anchor(cur[id]) ELSE title]
      BY Zenon, <3>1 DEF InsertChildren
    <3> DEFINE new == IF t.kind = "request" /\ (title = NoRow \/ Earlier(Anchor(cur[id]), title))
                      THEN Anchor(cur[id]) ELSE title
    <3> HIDE DEF new
    <3>3. cur'[k] = [cur[k] EXCEPT !.title = new]
      BY <1>1, <3>2 DEF IInv, TypeOK, TypedTable, new
    <3>4. cur'[k].title = new
      BY <1>1, <3>3 DEF SessionRows
    <3> QED
      BY <3>4 DEF new
  <2>2. /\ t.kind = "request" => Asked(cur', k) = Asked(cur, k) \cup {id}
        /\ t.kind # "request" => Asked(cur', k) = Asked(cur, k)
        /\ \A e \in Asked(cur, k) : Anchor(cur'[e]) = Anchor(cur[e])
    BY <1>1, <1>2, <1>3 DEF Asked
  <2>3. TitleFits(cur, k) /\ cur[k] # NoRow
    BY <1>1, TablesAreApart DEF TitlesFit
  <2>4. \A e \in Asked(cur, k) : cur[e].at \in Nat /\ cur[e].pk \in Nat
    BY RowTypes, IngestConstants DEF IInv, Asked, EventRows
  <2>5. title # NoRow => title.at \in Nat /\ title.pk \in Nat
    BY <1>1, IngestConstants DEF SessionRows, Anchors
  <2>6. Anchor(cur[id]) # NoRow
    <3>1. Anchor(cur[id]) \in Anchors
      BY <1>1 DEF EventRows, Anchors, Anchor
    <3> QED
      BY <3>1, TablesAreApart
  <2> HIDE DEF t, id, k, title
  <2>7. CASE t.kind # "request"
    BY <1>5, <2>1, <2>2, <2>3, <2>7 DEF TitleFits, title
  <2>8. CASE t.kind = "request" /\ ~(title = NoRow \/ Earlier(Anchor(cur[id]), title))
    BY <1>3, <1>5, <2>1, <2>2, <2>3, <2>8 DEF TitleFits, title
  <2>9. CASE t.kind = "request" /\ (title = NoRow \/ Earlier(Anchor(cur[id]), title))
    <3>1. \A e \in Asked(cur, k) \cup {id} : ~Earlier(Anchor(cur[e]), Anchor(cur[id]))
      BY <1>3, <2>3, <2>4, <2>5, <2>9 DEF TitleFits, title, Earlier, Anchor
    <3> QED
      BY <1>3, <1>5, <2>1, <2>2, <2>6, <2>9, <3>1 DEF TitleFits
  <2> QED
    BY <1>5, <2>7, <2>8, <2>9
<1> QED
  BY <1>4, <1>5

\* The end of a transaction takes a session and its events from one version to the other.
LEMMA EndKeepsTitles ==
  ASSUME IInv, TitlesFit, NEW r \in Requests, Commit(r) \/ Rejects(r), NEW s \in Sessions
  PROVE  TitleFits(cur', s) /\ TitleFits(base', s)
<1> USE IngestConstants
<1>0. TitleFits(cur, s) /\ TitleFits(base, s) /\ s \in Keys
  BY DEF TitlesFit, Keys
<1>1. \A e \in EventIds : /\ base[e] # NoRow => lock[e] = Nobody /\ cur[e] = base[e]
                          /\ lock[e] = Nobody => cur[e] = base[e]
                          /\ e \in Keys
  BY CommittedIsNewest DEF IInv, LocksAreHeld, Keys
<1>2. \A e \in EventIds : cur[e] # NoRow /\ lock[e] # Nobody => lock[cur[e].session] = lock[e]
  BY EventHasSession
<1>3. CASE Commit(r)
  <2>1. cur' = cur /\ \A k \in Keys : base'[k] = IF lock[k] = r THEN cur[k] ELSE base[k]
    BY <1>3, CommitStores DEF Commit
  <2>2. CASE lock[s] = r
    <3>1. \A e \in EventIds :
        (cur[e] # NoRow /\ cur[e].session = s) \/ (base'[e] # NoRow /\ base'[e].session = s) => base'[e] = cur[e]
      BY <1>1, <1>2, <2>1, <2>2
    <3> QED
      BY <1>0, <2>1, <2>2, <3>1, SameTitleFits
  <2>3. CASE lock[s] # r
    <3>1. \A e \in EventIds :
        (base[e] # NoRow /\ base[e].session = s) \/ (base'[e] # NoRow /\ base'[e].session = s) => base'[e] = base[e]
      BY <1>1, <1>2, <2>1, <2>3
    <3> QED
      BY <1>0, <2>1, <2>3, <3>1, SameTitleFits
  <2> QED
    BY <2>2, <2>3
<1>4. CASE Rejects(r)
  <2>1. base' = base /\ \A k \in Keys : cur'[k] = IF lock[k] = r THEN base[k] ELSE cur[k]
    BY <1>4 DEF Rejects, Rollback, Held
  <2>2. CASE lock[s] = r
    <3>1. \A e \in EventIds :
        (base[e] # NoRow /\ base[e].session = s) \/ (cur'[e] # NoRow /\ cur'[e].session = s) => cur'[e] = base[e]
      BY <1>1, <1>2, <2>1, <2>2
    <3> QED
      BY <1>0, <2>1, <2>2, <3>1, SameTitleFits
  <2>3. CASE lock[s] # r
    <3>1. \A e \in EventIds :
        (cur[e] # NoRow /\ cur[e].session = s) \/ (cur'[e] # NoRow /\ cur'[e].session = s) => cur'[e] = cur[e]
      BY <1>1, <1>2, <2>1, <2>3
    <3> QED
      BY <1>0, <2>1, <2>3, <3>1, SameTitleFits
  <2> QED
    BY <2>2, <2>3
<1> QED
  BY <1>3, <1>4

\* The event a transaction has just inserted is the one submitted, and stays so.
LEMMA NextItemIsInserted ==
  ASSUME IInv, TypeOK', TitlesFit, NEW r \in Requests, Step(r), NEW q \in Requests
  PROVE  ItemIsInserted(q)'
<1> USE IngestConstants
<1> SUFFICES ASSUME pc'[q] = "children"
             PROVE  LET t == Batch[q][pos'[q]]
                    IN  cur'[t.id].at = t.at /\ cur'[t.id].kind = t.kind
  BY DEF ItemIsInserted, Submission
<1>1. CASE q # r
  <2>1. Undisturbed(q)
    BY <1>1, Isolation
  <2>2. pc[q] = "children" /\ pos'[q] = pos[q]
    BY <2>1 DEF Undisturbed
  <2>3. Submission(q).id \in Keys /\ lock[Submission(q).id] = q
    BY <2>2, SubmissionType DEF IInv, ItemIsBacked
  <2>4. cur'[Submission(q).id] = cur[Submission(q).id]
    BY <2>1, <2>3 DEF Undisturbed
  <2> QED
    BY <2>2, <2>4 DEF TitlesFit, ItemIsInserted, Submission
<1>2. CASE q = r /\ InsertEvent(r)
  <2>1. /\ Submission(r) \in Submissions /\ Submission(r).id \in Keys
        /\ pos' = pos
    BY <1>2, SubmissionType DEF IInv, InsertEvent
  <2>2. PICK pk : cur' = [cur EXCEPT ![Submission(r).id] = EventRow(r, pk)]
    BY <1>2 DEF InsertEvent, Write
  <2>3. cur'[Submission(r).id] = EventRow(r, pk)
    BY <2>1, <2>2 DEF IInv, TypeOK, TypedTable
  <2> QED
    BY <1>2, <2>1, <2>3 DEF EventRow, Submission
<1>3. CASE q = r /\ ~InsertEvent(r)
  <2>1. pc'[r] # "children" \/ (UNCHANGED <<pc, pos, cur>>)
    <3>1. Opening(r, 1) # "children" /\ Opening(r, pos[r] + 1) # "children"
      BY OpeningType DEF IInv, TypeOK
    <3>2. CASE Send(r) \/ CheckExists(r)
      BY <3>1, <3>2 DEF Send, CheckExists, NextItem, Goto, IInv, TypeOK
    <3>3. CASE EventConflict(r) \/ CaptureConflict(r) \/ InsertChildren(r) \/ InsertCapture(r)
      BY <3>1, <3>3
      DEF EventConflict, CaptureConflict, InsertChildren, InsertCapture, NextItem, Goto, IInv, TypeOK
    <3>4. CASE UpsertDevice(r) \/ UpsertSession(r) \/ Commit(r) \/ Rejects(r)
      BY <3>4 DEF UpsertDevice, UpsertSession, Commit, Rejects, Rollback, Close, Goto, IInv, TypeOK
    <3> QED
      BY <1>3, <3>2, <3>3, <3>4, StepKinds DEF Quiet
  <2> QED
    BY <1>3, <2>1 DEF TitlesFit, ItemIsInserted, Submission
<1> QED
  BY <1>1, <1>2, <1>3

\* No step of a transaction takes the title of a session from its earliest request.
LEMMA NextTitlesFit ==
  ASSUME IInv, TypeOK', TitlesFit, NEW r \in Requests, Step(r)
  PROVE  TitlesFit'
<1> SUFFICES ASSUME NEW s \in Sessions PROVE TitleFits(cur', s) /\ TitleFits(base', s)
  BY NextItemIsInserted DEF TitlesFit, TitleFits, Asked
<1>0. /\ TitleFits(cur, s) /\ TitleFits(base, s) /\ s \in Keys
      /\ \A e \in EventIds : e \in Keys
  BY DEF TitlesFit, Keys
<1>1. CASE Quiet(r)
  BY <1>0, <1>1, QuietKeepsRows
<1>2. ASSUME NEW k \in Devices \cup CaptureIds, Writes(r, k)
      PROVE  TitleFits(cur', s) /\ TitleFits(base', s)
  <2>1. base' = base /\ cur'[s] = cur[s] /\ \A e \in EventIds : cur'[e] = cur[e]
    BY <1>0, <1>2, TablesAreApart DEF Writes
  <2> QED
    BY <1>0, <2>1, OtherRowsKeepTitle
<1>3. CASE UpsertSession(r) /\ SessionWritten(r)
  BY <1>0, <1>3, UpsertKeepsTitle DEF SessionWritten, Writes
<1>4. CASE InsertEvent(r) /\ EventWritten(r)
  <2> DEFINE id == Submission(r).id
  <2>1. /\ base' = base /\ id \in EventIds /\ id \in Keys /\ cur[id] = NoRow
        /\ \A k \in Keys \ {id} : cur'[k] = cur[k]
    BY <1>0, <1>4 DEF EventWritten, Writes
  <2>2. PICK pk : cur' = [cur EXCEPT ![id] = EventRow(r, pk)]
    BY <1>4 DEF InsertEvent, Write
  <2>3. ~cur'[id].whole
    BY <2>1, <2>2 DEF EventRow, IInv, TypeOK, TypedTable
  <2>4. cur'[s] = cur[s]
    BY <1>0, <2>1, TablesAreApart
  <2> HIDE DEF id
  <2>5. TitleFits(cur', s)
    BY <1>0, <2>1, <2>3, <2>4, OtherRowsKeepTitle
  <2> QED
    BY <1>0, <2>1, <2>5
<1>5. CASE InsertChildren(r) /\ ChildrenWritten(r)
  BY <1>0, <1>5, ChildrenKeepTitle DEF ChildrenWritten
<1>6. CASE Commit(r) \/ Rejects(r)
  BY <1>6, EndKeepsTitles
<1> QED
  BY <1>1, <1>2, <1>3, <1>4, <1>5, <1>6, StepKinds DEF DeviceWritten, CaptureWritten

\* Fitting titles are those of the property.
LEMMA FittingTitles ==
  ASSUME IInv, NEW s \in Sessions, base[s] # NoRow, TitleFits(base, s)
  PROVE  LET asked == {[at |-> base[e].at, pk |-> base[e].pk] :
                         e \in {f \in EventsOf(s) : base[f].kind = "request"}}
             title == base[s].title
         IN  IF asked = {} THEN title = NoRow
             ELSE title \in asked /\ \A a \in asked : a = title \/ Earlier(title, a)
<1> DEFINE title == base[s].title
           asked == {[at |-> base[e].at, pk |-> base[e].pk] :
                       e \in {f \in EventsOf(s) : base[f].kind = "request"}}
<1>1. Asked(base, s) = {f \in EventsOf(s) : base[f].kind = "request"}
  BY DEF Asked, EventsOf, Stored, IInv, EventsAreWhole
<1>2. asked = {Anchor(base[e]) : e \in Asked(base, s)}
  BY <1>1 DEF Anchor
<1>3. \A e \in Asked(base, s) : base[e].at \in Nat /\ base[e].pk \in Nat
  BY RowTypes, IngestConstants DEF IInv, Asked, EventRows
<1>4. ASSUME NEW e \in Asked(base, s)
      PROVE  Anchor(base[e]) = title \/ Earlier(title, Anchor(base[e]))
  <2>1. PICK f \in Asked(base, s) : title = Anchor(base[f])
    BY <1>4 DEF TitleFits
  <2>2. ~Earlier(Anchor(base[e]), Anchor(base[f]))
    BY <2>1 DEF TitleFits
  <2>3. \/ base[e].at = base[f].at /\ base[e].pk = base[f].pk
        \/ Earlier(Anchor(base[f]), Anchor(base[e]))
    BY <1>3, <2>2 DEF Earlier, Anchor
  <2> QED
    BY <2>1, <2>3 DEF Anchor
<1> HIDE DEF asked, title
<1>5. CASE asked = {}
  <2>1. Asked(base, s) = {}
    BY <1>2, <1>5
  <2> QED
    BY <1>5, <2>1 DEF TitleFits, asked, title
<1>6. CASE asked # {}
  <2>1. title \in asked
    BY <1>2, <1>6 DEF TitleFits, title
  <2>2. \A a \in asked : a = title \/ Earlier(title, a)
    BY <1>2, <1>4
  <2> QED
    BY <1>6, <2>1, <2>2 DEF asked, title
<1> QED
  BY <1>5, <1>6

\* In whatever order overlapping requests deliver, complete and roll back the requests of a
\* session, its title is the earliest one that is committed.
THEOREM TitleIsEarliestRequestHolds == Spec => []TitleIsEarliestRequest
<1>1. Init => TitlesFit
  BY DEF Init, TitlesFit, TitleFits, ItemIsInserted, Keys
<1>2. IInv /\ IInv' /\ TitlesFit /\ [Next]_vars => TitlesFit'
  <2>1. CASE UNCHANGED vars
    BY <2>1 DEF vars, TitlesFit, TitleFits, Asked, ItemIsInserted, Submission
  <2> QED
    BY <2>1, NextTitlesFit DEF Next, Step, IInv
<1>3. IInv /\ TitlesFit => TitleIsEarliestRequest
  BY FittingTitles DEF TitlesFit, TitleIsEarliestRequest
<1> QED
  BY <1>1, <1>2, <1>3, Invariance, PTL DEF Spec
=============================================================================
