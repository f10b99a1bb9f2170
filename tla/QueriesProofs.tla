--------------------------- MODULE QueriesProofs ---------------------------
(***************************************************************************)
(* Proofs about reads while collectors ingest, for any events and queries:   *)
(* a walk through the pages of a list, a chart of the SQLite profile whose   *)
(* options are read by a second statement, sums (what summaries and charts   *)
(* select is counted once), and search: over all sessions and within one,    *)
(* the index of the SQLite profile answers what a scan of the pieces answers.*)
(***************************************************************************)
EXTENDS Queries, TablesProofs

-----------------------------------------------------------------------------
(* The committed database, and what it keeps when an event is ingested. *)

DeviceRecords  == [first : Int, last : Int]
SessionRecords == [pk : Nat, device : Devices, started : Int, ended : Int, revision : Nat]

\* Keys of the rows that are there.
StoredEvents(d) == {e \in EventIds : d.events[e] # NoRow}

\* Events have their types, a device and a session, and identifiers of their own.
EventsAreSound(d) ==
  /\ IsFiniteSet(StoredEvents(d))
  /\ \A e \in StoredEvents(d) :
       /\ d.events[e].at \in Int /\ d.events[e].pk \in Nat /\ d.events[e].tokens \in Nat
       /\ d.events[e].kind \in {"request", "response"}
       /\ d.events[e].device \in Devices /\ d.devices[d.events[e].device] # NoRow
       /\ d.events[e].session \in Sessions /\ d.sessions[d.events[e].session] # NoRow
       /\ d.events[e].user = SessionKey[d.events[e].session].user
  /\ \A e, f \in StoredEvents(d) : d.events[e].pk = d.events[f].pk => e = f

\* Sessions have their types, a device, an event, and numbers of their own.
SessionsAreSound(d) ==
  /\ IsFiniteSet(Existing(d))
  /\ \A s \in Existing(d) :
       /\ d.sessions[s] \in SessionRecords
       /\ d.sessions[s].pk <= Cardinality(Existing(d))
       /\ d.devices[d.sessions[s].device] # NoRow
       /\ \E e \in StoredEvents(d) : d.events[e].session = s
  /\ \A s, t \in Existing(d) : d.sessions[s].pk = d.sessions[t].pk => s = t

Sound(d) ==
  /\ IsDatabase(d)
  /\ \A k \in Devices : d.devices[k] # NoRow => d.devices[k] \in DeviceRecords
  /\ EventsAreSound(d) /\ SessionsAreSound(d)

\* Database n has the rows of database d: devices, events as they were, and sessions by the
\* same numbers, which may have started earlier.  Its other events have other identifiers.
Grows(d, n) ==
  /\ \A k \in Devices : d.devices[k] # NoRow => n.devices[k] # NoRow
  /\ \A e \in StoredEvents(d) : e \in StoredEvents(n) /\ n.events[e] = d.events[e]
  /\ \A e \in StoredEvents(n) : \A f \in StoredEvents(d) :
       n.events[e].pk = d.events[f].pk => e = f
  /\ \A s \in Existing(d) :
       /\ s \in Existing(n) /\ n.sessions[s].pk = d.sessions[s].pk
       /\ n.sessions[s].started <= d.sessions[s].started

\* The row of a session after an event of it.
LEMMA SessionAfterIsSound ==
  ASSUME NEW s, s.at \in Int, s.device \in Devices, NEW count \in Nat,
         NEW old, old = NoRow \/ old \in SessionRecords,
         NEW row, row = SessionAfter(old, s, count)
  PROVE  /\ row \in SessionRecords /\ row # NoRow /\ row.device = s.device
         /\ row.pk = IF old = NoRow THEN count ELSE old.pk
         /\ old # NoRow => row.started <= old.started
<1>1. CASE old = NoRow
  <2>1. row = [pk |-> count, device |-> s.device, started |-> s.at, ended |-> s.at, revision |-> 1]
    BY <1>1 DEF SessionAfter
  <2>2. row \in SessionRecords
    BY <2>1 DEF SessionRecords
  <2> QED
    BY <1>1, <2>1, <2>2, RowsArePresent DEF SessionRecords
<1>2. CASE old # NoRow
  <2>1. old \in SessionRecords
    BY <1>2
  <2>2. row = [old EXCEPT !.device = s.device, !.started = AtMost(@, s.at),
                          !.ended = AtLeast(@, s.at), !.revision = @ + 1]
    BY <1>2 DEF SessionAfter
  <2>3. /\ AtMost(old.started, s.at) \in Int /\ AtLeast(old.ended, s.at) \in Int
        /\ AtMost(old.started, s.at) <= old.started /\ old.revision + 1 \in Nat
    BY <2>1 DEF SessionRecords, AtMost, AtLeast
  <2>4. row \in SessionRecords /\ row.pk = old.pk /\ row.device = s.device
        /\ row.started = AtMost(old.started, s.at)
    BY <2>1, <2>2, <2>3 DEF SessionRecords
  <2> QED
    BY <1>2, <2>3, <2>4, RowsArePresent DEF SessionRecords
<1> QED
  BY <1>1, <1>2

\* Ingesting an event keeps the database sound, and what is there.
LEMMA IngestGrows ==
  ASSUME NEW d, Sound(d), NEW s \in Submitted, d.events[s.id] = NoRow,
         NEW pk \in Pks, \A e \in StoredEvents(d) : d.events[e].pk # pk,
         NEW n, n = IngestOne(d, SessionKey[s.session].user, s, pk)
  PROVE  Sound(n) /\ Grows(d, n)
<1> DEFINE user == SessionKey[s.session].user
           x == EventRow(user, s, pk)
           count == 1 + Cardinality(Existing(d))
<1>1. /\ s.id \in EventIds /\ s.session \in Sessions /\ s.device \in Devices
      /\ s.at \in Int /\ s.kind \in {"request", "response"} /\ s.tokens \in Nat
      /\ pk \in Nat /\ x # NoRow
  BY QueryConstants, RowsArePresent, TableConstants
<1>2. /\ x.at = s.at /\ x.kind = s.kind /\ x.pk = pk /\ x.device = s.device /\ x.user = user
      /\ x.session = s.session /\ x.tokens = s.tokens
  BY DEF EventRow
<1> HIDE DEF x
<1>3. /\ IsDatabase(n) /\ n.events[s.id] = x
      /\ \A e \in EventIds \ {s.id} : n.events[e] = d.events[e]
      /\ n.sessions[s.session] = SessionAfter(d.sessions[s.session], s, count)
      /\ \A t \in Sessions \ {s.session} : n.sessions[t] = d.sessions[t]
      /\ n.devices[s.device] = DeviceAfter(d.devices[s.device], s)
      /\ \A k \in Devices \ {s.device} : n.devices[k] = d.devices[k]
  <2>1. IsDatabase(d) /\ n = IngestOne(d, user, s, pk)
    BY DEF Sound
  <2> HIDE DEF user, count
  <2>2. /\ IsDatabase(n) /\ n.events[s.id] = EventRow(user, s, pk)
        /\ \A e \in EventIds \ {s.id} : n.events[e] = d.events[e]
        /\ n.sessions[s.session] =
             SessionAfter(d.sessions[s.session], s, 1 + Cardinality(Existing(d)))
        /\ \A t \in Sessions \ {s.session} : n.sessions[t] = d.sessions[t]
        /\ n.devices[s.device] = DeviceAfter(d.devices[s.device], s)
        /\ \A k \in Devices \ {s.device} : n.devices[k] = d.devices[k]
    BY <1>1, <2>1, IngestOneWrites
  <2> QED
    BY <2>2, Zenon DEF count, x
<1>4. Cardinality(Existing(d)) \in Nat /\ count \in Nat /\ count > Cardinality(Existing(d))
  BY FS_CardinalityType DEF Sound, SessionsAreSound
<1> HIDE DEF count
\* Devices.
<1>5. n.devices[s.device] \in DeviceRecords /\ n.devices[s.device] # NoRow
  <2>1. d.devices[s.device] # NoRow => d.devices[s.device] \in DeviceRecords
    BY <1>1 DEF Sound
  <2>2. n.devices[s.device] \in DeviceRecords
    <3>1. CASE d.devices[s.device] = NoRow
      <4>1. n.devices[s.device] = [first |-> s.at, last |-> s.at]
        BY <1>3, <3>1, Zenon DEF DeviceAfter
      <4> QED
        BY <1>1, <4>1 DEF DeviceRecords
    <3>2. CASE d.devices[s.device] # NoRow
      <4>1. PICK old \in DeviceRecords : old = d.devices[s.device]
        BY <2>1, <3>2
      <4>2. n.devices[s.device] = [first |-> AtMost(old.first, s.at), last |-> AtLeast(old.last, s.at)]
        BY <1>3, <3>2, <4>1, Zenon DEF DeviceAfter
      <4>3. AtMost(old.first, s.at) \in Int /\ AtLeast(old.last, s.at) \in Int
        BY <1>1 DEF DeviceRecords, AtMost, AtLeast
      <4> QED
        BY <4>2, <4>3 DEF DeviceRecords
    <3> QED
      BY <3>1, <3>2
  <2> QED
    BY <2>2, RowsArePresent DEF DeviceRecords
<1>6. \A k \in Devices : /\ n.devices[k] # NoRow => n.devices[k] \in DeviceRecords
                         /\ d.devices[k] # NoRow => n.devices[k] # NoRow
  BY <1>3, <1>5 DEF Sound
\* Sessions.
<1>7. /\ n.sessions[s.session] \in SessionRecords /\ n.sessions[s.session] # NoRow
      /\ n.sessions[s.session].device = s.device
      /\ n.sessions[s.session].pk
           = IF d.sessions[s.session] = NoRow THEN count ELSE d.sessions[s.session].pk
      /\ d.sessions[s.session] # NoRow =>
           n.sessions[s.session].started <= d.sessions[s.session].started
  <2>1. d.sessions[s.session] = NoRow \/ d.sessions[s.session] \in SessionRecords
    BY <1>1 DEF Sound, SessionsAreSound, Existing
  <2>2. PICK old, row : old = d.sessions[s.session] /\ row = n.sessions[s.session]
    OBVIOUS
  <2>3. /\ row \in SessionRecords /\ row # NoRow /\ row.device = s.device
        /\ row.pk = IF old = NoRow THEN count ELSE old.pk
        /\ old # NoRow => row.started <= old.started
    <3>1. /\ old = NoRow \/ old \in SessionRecords
          /\ row = SessionAfter(old, s, count)
      BY <1>3, <2>1, <2>2, Zenon
    <3>2. s.at \in Int /\ s.device \in Devices /\ count \in Nat
      BY <1>1, <1>4
    <3> QED
      BY <3>1, <3>2, SessionAfterIsSound
  <2> QED
    BY <2>2, <2>3, Zenon
<1>8. Existing(n) = Existing(d) \cup {s.session}
  BY <1>1, <1>3, <1>7, Zenon DEF Existing
<1>9. /\ IsFiniteSet(Existing(n)) /\ Cardinality(Existing(n)) \in Nat
      /\ Cardinality(Existing(n)) >= Cardinality(Existing(d))
      /\ d.sessions[s.session] = NoRow => Cardinality(Existing(n)) = count
  <2>1. IsFiniteSet(Existing(d))
    BY DEF Sound, SessionsAreSound
  <2>2. d.sessions[s.session] = NoRow => s.session \notin Existing(d)
    BY DEF Existing
  <2>3. d.sessions[s.session] # NoRow => Existing(n) = Existing(d)
    BY <1>1, <1>8 DEF Existing
  <2>4. /\ IsFiniteSet(Existing(n))
        /\ Cardinality(Existing(n)) =
             IF s.session \in Existing(d) THEN Cardinality(Existing(d)) ELSE Cardinality(Existing(d)) + 1
    <3>1. PICK S : S = Existing(d)
      OBVIOUS
    <3>2. /\ IsFiniteSet(S \cup {s.session})
          /\ Cardinality(S \cup {s.session}) =
               IF s.session \in S THEN Cardinality(S) ELSE Cardinality(S) + 1
      BY <2>1, <3>1, FS_AddElement
    <3> QED
      BY <1>8, <3>1, <3>2, Zenon
  <2>5. Cardinality(Existing(d)) \in Nat
    BY <1>4
  <2> DEFINE N == Cardinality(Existing(n))
             D == Cardinality(Existing(d))
  <2>6. N = IF s.session \in Existing(d) THEN D ELSE D + 1
    BY <2>4
  <2>7. count = 1 + D
    BY DEF count
  <2> HIDE DEF N, D
  <2>8. N \in Nat /\ N >= D /\ (s.session \notin Existing(d) => N = count)
    BY <2>5, <2>6, <2>7 DEF D
  <2> QED
    BY <2>2, <2>4, <2>8 DEF N, D
\* Events.
<1>10. StoredEvents(n) = StoredEvents(d) \cup {s.id} /\ s.id \notin StoredEvents(d)
  <2>1. s.id \in StoredEvents(n) /\ s.id \notin StoredEvents(d)
    BY <1>1, <1>3, Zenon DEF StoredEvents
  <2>2. \A e \in EventIds \ {s.id} : e \in StoredEvents(n) <=> e \in StoredEvents(d)
    BY <1>3, Zenon DEF StoredEvents
  <2>3. StoredEvents(n) \subseteq EventIds /\ StoredEvents(d) \subseteq EventIds
    BY DEF StoredEvents
  <2> QED
    BY <2>1, <2>2, <2>3
<1>11. ASSUME NEW e \in StoredEvents(d) PROVE n.events[e] = d.events[e]
  <2>1. e \in EventIds \ {s.id}
    BY <1>10 DEF StoredEvents
  <2> QED
    BY <1>3, <2>1, Zenon
<1>12. EventsAreSound(n)
  <2>1. IsFiniteSet(StoredEvents(n))
    BY <1>10, FS_AddElement DEF Sound, EventsAreSound
  <2>2. ASSUME NEW e \in StoredEvents(d)
        PROVE  /\ n.events[e].at \in Int /\ n.events[e].pk \in Nat /\ n.events[e].tokens \in Nat
               /\ n.events[e].kind \in {"request", "response"}
               /\ n.events[e].device \in Devices /\ n.devices[n.events[e].device] # NoRow
               /\ n.events[e].session \in Sessions /\ n.sessions[n.events[e].session] # NoRow
               /\ n.events[e].user = SessionKey[n.events[e].session].user
               /\ n.events[e].pk # pk
    <3>1. /\ d.events[e].at \in Int /\ d.events[e].pk \in Nat /\ d.events[e].tokens \in Nat
          /\ d.events[e].kind \in {"request", "response"}
          /\ d.events[e].device \in Devices /\ d.devices[d.events[e].device] # NoRow
          /\ d.events[e].session \in Sessions /\ d.sessions[d.events[e].session] # NoRow
          /\ d.events[e].user = SessionKey[d.events[e].session].user
      BY DEF Sound, EventsAreSound
    <3>2. n.sessions[d.events[e].session] # NoRow
      BY <1>3, <1>7, <3>1, Zenon
    <3> QED
      BY <1>6, <1>11, <3>1, <3>2, Zenon
  <2>3. /\ x.at \in Int /\ x.pk \in Nat /\ x.tokens \in Nat /\ x.kind \in {"request", "response"}
        /\ x.device \in Devices /\ n.devices[x.device] # NoRow
        /\ x.session \in Sessions /\ n.sessions[x.session] # NoRow
        /\ x.user = SessionKey[x.session].user
    BY <1>1, <1>2, <1>5, <1>7
  <2>4. \A e, f \in StoredEvents(n) : n.events[e].pk = n.events[f].pk => e = f
    <3>1. \A e, f \in StoredEvents(d) : n.events[e].pk = n.events[f].pk => e = f
      BY <1>11, Zenon DEF Sound, EventsAreSound
    <3>2. \A e \in StoredEvents(d) : n.events[e].pk # n.events[s.id].pk
      <4>1. n.events[s.id].pk = pk
        BY <1>2, <1>3, Zenon
      <4> QED
        BY <2>2, <4>1, Zenon
    <3> SUFFICES ASSUME NEW e \in StoredEvents(d) \cup {s.id}, NEW f \in StoredEvents(d) \cup {s.id},
                        n.events[e].pk = n.events[f].pk
                 PROVE  e = f
      BY <1>10, Zenon
    <3> QED
      BY <3>1, <3>2, Zenon
  <2>5. ASSUME NEW e \in StoredEvents(n), e \notin StoredEvents(d)
        PROVE  n.events[e] = x
    <3>1. e = s.id
      BY <1>10, <2>5
    <3> QED
      BY <1>3, <3>1, Zenon
  <2> DEFINE Right(row) ==
        /\ row.at \in Int /\ row.pk \in Nat /\ row.tokens \in Nat /\ row.kind \in {"request", "response"}
        /\ row.device \in Devices /\ n.devices[row.device] # NoRow
        /\ row.session \in Sessions /\ n.sessions[row.session] # NoRow
        /\ row.user = SessionKey[row.session].user
  <2>6. Right(x) /\ \A e \in StoredEvents(d) : Right(n.events[e])
    BY <2>2, <2>3, Zenon
  <2> HIDE DEF Right
  <2>7. \A e \in StoredEvents(n) : Right(n.events[e])
    BY <2>5, <2>6, Zenon
  <2> QED
    BY <2>1, <2>4, <2>7, Zenon DEF EventsAreSound, Right
<1>13. SessionsAreSound(n)
  <2>1. ASSUME NEW t \in Existing(n)
        PROVE  /\ n.sessions[t] \in SessionRecords
               /\ n.sessions[t].pk <= Cardinality(Existing(n))
               /\ n.devices[n.sessions[t].device] # NoRow
               /\ \E e \in StoredEvents(n) : n.events[e].session = t
    <3>1. CASE t = s.session
      <4>1. n.sessions[t].pk <= Cardinality(Existing(n))
        <5>1. CASE d.sessions[t] = NoRow
          BY <1>4, <1>7, <1>9, <3>1, <5>1
        <5>2. CASE d.sessions[t] # NoRow
          <6>1. d.sessions[t].pk <= Cardinality(Existing(d)) /\ d.sessions[t].pk \in Nat
            BY <1>1, <3>1, <5>2 DEF Sound, SessionsAreSound, Existing, SessionRecords
          <6> QED
            BY <1>4, <1>7, <1>9, <3>1, <5>2, <6>1
        <5> QED
          BY <5>1, <5>2
      <4>2. n.sessions[t] \in SessionRecords /\ n.devices[n.sessions[t].device] # NoRow
        BY <1>5, <1>7, <3>1, Zenon
      <4>3. s.id \in StoredEvents(n) /\ n.events[s.id].session = t
        BY <1>2, <1>3, <1>10, <3>1
      <4> QED
        BY <4>1, <4>2, <4>3, Zenon
    <3>2. CASE t # s.session
      <4>1. t \in Existing(d) /\ n.sessions[t] = d.sessions[t]
        BY <1>3, <1>8, <3>2, Zenon DEF Existing
      <4>2. /\ d.sessions[t] \in SessionRecords
            /\ d.sessions[t].pk <= Cardinality(Existing(d))
            /\ d.devices[d.sessions[t].device] # NoRow
            /\ \E e \in StoredEvents(d) : d.events[e].session = t
        BY <4>1 DEF Sound, SessionsAreSound
      <4>3. d.sessions[t].pk \in Nat /\ d.sessions[t].device \in Devices
        BY <4>2 DEF SessionRecords
      <4>4. n.sessions[t].pk <= Cardinality(Existing(n))
        BY <1>4, <1>9, <4>1, <4>2, <4>3
      <4>5. \E e \in StoredEvents(n) : n.events[e].session = t
        BY <1>10, <1>11, <4>2
      <4> QED
        BY <1>6, <4>1, <4>2, <4>3, <4>4, <4>5, Zenon
    <3> QED
      BY <3>1, <3>2, Zenon
  <2>2. ASSUME NEW t \in Existing(n), t # s.session
        PROVE  n.sessions[t].pk # n.sessions[s.session].pk
    <3>1. t \in Existing(d) /\ n.sessions[t] = d.sessions[t]
      BY <1>3, <1>8, <2>2 DEF Existing
    <3>2. d.sessions[t].pk \in Nat /\ d.sessions[t].pk <= Cardinality(Existing(d))
      BY <3>1 DEF Sound, SessionsAreSound, SessionRecords
    <3>3. CASE d.sessions[s.session] = NoRow
      BY <1>4, <1>7, <3>1, <3>2, <3>3
    <3>4. CASE d.sessions[s.session] # NoRow
      <4>1. s.session \in Existing(d)
        BY <1>1, <3>4 DEF Existing
      <4> QED
        BY <1>7, <2>2, <3>1, <3>4, <4>1 DEF Sound, SessionsAreSound
    <3> QED
      BY <3>3, <3>4
  <2>3. \A t, v \in Existing(n) : n.sessions[t].pk = n.sessions[v].pk => t = v
    <3> SUFFICES ASSUME NEW t \in Existing(n), NEW v \in Existing(n), t # v
                 PROVE  n.sessions[t].pk # n.sessions[v].pk
      BY Zenon
    <3>1. CASE t = s.session
      BY <2>2, <3>1, Zenon
    <3>2. CASE v = s.session
      BY <2>2, <3>2, Zenon
    <3>3. CASE t # s.session /\ v # s.session
      <4>1. t \in Existing(d) /\ n.sessions[t] = d.sessions[t]
        BY <1>3, <1>8, <3>3, Zenon DEF Existing
      <4>2. v \in Existing(d) /\ n.sessions[v] = d.sessions[v]
        BY <1>3, <1>8, <3>3, Zenon DEF Existing
      <4>3. d.sessions[t].pk # d.sessions[v].pk
        BY <4>1, <4>2, Zenon DEF Sound, SessionsAreSound
      <4> QED
        BY <4>1, <4>2, <4>3
    <3> QED
      BY <3>1, <3>2, <3>3, Zenon
  <2> QED
    BY <1>9, <2>1, <2>3, Zenon DEF SessionsAreSound
<1>14. Grows(d, n)
  <2>1. \A e \in StoredEvents(n) : \A f \in StoredEvents(d) : n.events[e].pk = d.events[f].pk => e = f
    <3> SUFFICES ASSUME NEW e \in StoredEvents(n), NEW f \in StoredEvents(d),
                        n.events[e].pk = d.events[f].pk
                 PROVE  e = f
      OBVIOUS
    <3>1. CASE e = s.id
      <4>1. n.events[e].pk = pk
        BY <1>2, <1>3, <3>1, Zenon
      <4> QED
        BY <4>1, Zenon
    <3>2. CASE e \in StoredEvents(d)
      <4>1. n.events[e] = d.events[e]
        BY <1>11, <3>2
      <4> QED
        BY <3>2, <4>1, Zenon DEF Sound, EventsAreSound
    <3> QED
      BY <1>10, <3>1, <3>2, Zenon
  <2>2. ASSUME NEW t \in Existing(d)
        PROVE  /\ t \in Existing(n) /\ n.sessions[t].pk = d.sessions[t].pk
               /\ n.sessions[t].started <= d.sessions[t].started
    <3>1. d.sessions[t] # NoRow /\ d.sessions[t].started \in Int
      BY DEF Existing, Sound, SessionsAreSound, SessionRecords
    <3>2. CASE t = s.session
      BY <1>7, <1>8, <3>1, <3>2
    <3>3. CASE t # s.session
      <4>1. n.sessions[t] = d.sessions[t]
        BY <1>3, <3>3 DEF Existing
      <4> QED
        BY <1>8, <3>1, <4>1
    <3> QED
      BY <3>2, <3>3
  <2> QED
    BY <1>6, <1>10, <1>11, <2>1, <2>2, Zenon DEF Grows
<1> QED
  BY <1>3, <1>6, <1>12, <1>13, <1>14, Zenon DEF Sound

\* Nothing is stored at first.
LEMMA EmptyIsSound == Sound(Empty)
<1>1. StoredEvents(Empty) = {} /\ Existing(Empty) = {} /\ \A k \in Devices : Empty.devices[k] = NoRow
  BY EmptyIsDatabase DEF StoredEvents, Existing, Empty
<1> QED
  BY <1>1, EmptyIsDatabase, FS_EmptySet DEF Sound, EventsAreSound, SessionsAreSound

-----------------------------------------------------------------------------
(* What the instances of the two profiles share with the module that has them. *)

\* Cardinalities, maxima and ranges are those of the module itself.
LEMMA SameOperators ==
  ASSUME NEW S
  PROVE  Sq!Cardinality(S) = Cardinality(S) /\ Sq!Max(S) = Max(S) /\ Sq!Range(S) = Range(S)
<1>1. Sq!Cardinality(S) = Cardinality(S)
  BY Zenon DEF Sq!Cardinality, Cardinality
<1>2. Sq!Max(S) = Max(S)
  BY Zenon DEF Sq!Max, Max
<1>3. Sq!Range(S) = Range(S)
  BY Zenon DEF Sq!Range, Range
<1> QED
  BY <1>1, <1>2, <1>3

-----------------------------------------------------------------------------
(* Rows of the committed database. *)

\* The events of a sound database have their types, and are told apart by their identifiers.
LEMMA RowsAreSound ==
  ASSUME NEW d, Sound(d)
  PROVE  /\ Sq!RowsOf(d) = RowsOf(d) /\ IsFiniteSet(RowsOf(d))
         /\ \A e \in RowsOf(d) :
              /\ e.at \in Int /\ e.pk \in Nat /\ e.tokens \in Nat
              /\ e.kind \in {"request", "response"}
              /\ e.device \in Devices /\ d.devices[e.device] # NoRow
              /\ e.session \in Existing(d) /\ e.user = SessionKey[e.session].user
         /\ \A e, f \in RowsOf(d) : e.pk = f.pk => e = f
<1>1. RowsOf(d) = {d.events[e] : e \in StoredEvents(d)} /\ Sq!RowsOf(d) = RowsOf(d)
  BY DEF RowsOf, StoredEvents, Sq!RowsOf
<1>2. IsFiniteSet(RowsOf(d))
  <2>1. IsFiniteSet(StoredEvents(d)) /\ IsFiniteSet({d.events[e] : e \in StoredEvents(d)})
    BY ImageIsFinite DEF Sound, EventsAreSound
  <2> QED
    BY <1>1, <2>1
<1>3. ASSUME NEW e \in RowsOf(d)
      PROVE  /\ e.at \in Int /\ e.pk \in Nat /\ e.tokens \in Nat
             /\ e.kind \in {"request", "response"}
             /\ e.device \in Devices /\ d.devices[e.device] # NoRow
             /\ e.session \in Existing(d) /\ e.user = SessionKey[e.session].user
  BY <1>1 DEF Sound, EventsAreSound, Existing
<1>4. \A e, f \in RowsOf(d) : e.pk = f.pk => e = f
  BY <1>1 DEF Sound, EventsAreSound
<1> QED
  BY <1>1, <1>2, <1>3, <1>4

\* Ingestion keeps the rows of events, and gives others other identifiers.
LEMMA RowsGrow ==
  ASSUME NEW d, Sound(d), NEW n, Sound(n), Grows(d, n)
  PROVE  /\ RowsOf(d) \subseteq RowsOf(n)
         /\ \A e \in RowsOf(n), f \in RowsOf(d) : e.pk = f.pk => e = f
<1>1. /\ RowsOf(d) = {d.events[e] : e \in StoredEvents(d)}
      /\ RowsOf(n) = {n.events[e] : e \in StoredEvents(n)}
  BY DEF RowsOf, StoredEvents
<1> QED
  BY <1>1 DEF Grows

-----------------------------------------------------------------------------
(* Pages of events. *)

\* The order of the pages, and the place of an event in it, which counts from 0.
Newest(rows)      == {p \in rows \X rows : Sq!NewestFirst(p[1], p[2])}
Position(rows, e) == Rank(Newest(rows), rows, e)

\* Events of a sound database that are listed are some of its rows, in a total order.
LEMMA EventsAreOrdered ==
  ASSUME NEW d, Sound(d), NEW u, NEW q
  PROVE  /\ Sq!FilteredEvents(d, u, q) \subseteq RowsOf(d)
         /\ IsFiniteSet(Sq!FilteredEvents(d, u, q))
         /\ IsOrder(Newest(Sq!FilteredEvents(d, u, q)), Sq!FilteredEvents(d, u, q))
<1> DEFINE rows == Sq!FilteredEvents(d, u, q)
<1>1. rows \subseteq RowsOf(d)
  BY RowsAreSound DEF Sq!FilteredEvents, Sq!Selected
<1>2. IsFiniteSet(rows)
  BY <1>1, RowsAreSound, FS_Subset
<1>3. \A a, b \in rows : <<a, b>> \in Newest(rows) <=> Sq!NewestFirst(a, b)
  BY DEF Newest
<1>4. /\ \A e \in rows : e.at \in Int /\ e.pk \in Nat /\ e.kind \in {"request", "response"}
      /\ \A e, f \in rows : e.pk = f.pk => e = f
  BY <1>1, RowsAreSound
<1> HIDE DEF rows
<1>5. IsOrder(Newest(rows), rows)
  <2>1. \A a \in rows : ~Sq!NewestFirst(a, a)
    BY <1>4 DEF Sq!NewestFirst
  <2>2. ASSUME NEW a \in rows, NEW b \in rows, NEW c \in rows,
               Sq!NewestFirst(a, b), Sq!NewestFirst(b, c)
        PROVE  Sq!NewestFirst(a, c)
    BY <1>4, <2>2 DEF Sq!NewestFirst
  <2>3. ASSUME NEW a \in rows, NEW b \in rows
        PROVE  a = b \/ Sq!NewestFirst(a, b) \/ Sq!NewestFirst(b, a)
    BY <1>4 DEF Sq!NewestFirst
  <2> QED
    BY <1>3, <2>1, <2>2, <2>3 DEF IsOrder
<1> QED
  BY <1>1, <1>2, <1>5 DEF rows

\* Events are sorted by their positions.
LEMMA NewestAreSorted ==
  ASSUME NEW rows, IsFiniteSet(rows), IsOrder(Newest(rows), rows),
         NEW order, order = Sq!Sorted(rows, Sq!NewestFirst)
  PROVE  /\ order \in [1..Cardinality(rows) -> rows]
         /\ \A n \in 1..Cardinality(rows) : Position(rows, order[n]) = n - 1
<1>1. PICK m \in Nat : m = Cardinality(rows)
  BY FS_CardinalityType
<1>2. order \in [1..m -> rows] /\ \A n \in 1..m : Position(rows, order[n]) = n - 1
  <2>1. \A s \in rows : Position(rows, s) = Cardinality({t \in rows : Sq!NewestFirst(t, s)})
    <3> SUFFICES ASSUME NEW s \in rows
                 PROVE  {t \in rows : <<t, s>> \in Newest(rows)} = {t \in rows : Sq!NewestFirst(t, s)}
      BY Zenon DEF Position, Rank
    <3> QED
      BY DEF Newest
  <2>2. \A n \in 1..m : \E s \in rows : Position(rows, s) = n - 1
    BY <1>1, RankIsBijection DEF Position
  <2>3. order = [n \in 1..Sq!Cardinality(rows) |->
                  CHOOSE s \in rows : Sq!Cardinality({t \in rows : Sq!NewestFirst(t, s)}) = n - 1]
    BY DEF Sq!Sorted
  <2>4. Sq!Cardinality(rows) = m
    BY <1>1, SameOperators
  <2>5. ASSUME NEW n \in 1..m
        PROVE  order[n] \in rows /\ Position(rows, order[n]) = n - 1
    <3>1. order[n] = CHOOSE s \in rows : Sq!Cardinality({t \in rows : Sq!NewestFirst(t, s)}) = n - 1
      BY <2>3, <2>4
    <3>2. PICK s \in rows : Position(rows, s) = n - 1
      BY <2>2
    <3>3. Sq!Cardinality({t \in rows : Sq!NewestFirst(t, s)}) = n - 1
      BY <2>1, <3>2, SameOperators
    <3>4. order[n] \in rows /\ Sq!Cardinality({t \in rows : Sq!NewestFirst(t, order[n])}) = n - 1
      BY <3>1, <3>3, Zenon
    <3> QED
      BY <2>1, <3>4, SameOperators
  <2> QED
    BY <2>3, <2>4, <2>5
<1> QED
  BY <1>1, <1>2

\* A page shows the events at its positions; there is another page when there are more.
Shows(page, rows, from) ==
  \E size \in Nat \ {0} :
    /\ \A e \in rows : from <= Position(rows, e) /\ Position(rows, e) < from + size =>
         e.pk \in {f.pk : f \in Range(page.events)}
    /\ page.next = None => Cardinality(rows) <= from + size
    /\ page.next # None => page.next = from + size

\* A page of events (raw_events) shows its part of the filtered events, newest first.
LEMMA PageShows ==
  ASSUME NEW d, Sound(d), NEW u, NEW q, q.limit \in Int, q.offset \in Nat,
         Sq!RawEvents(d, u, q, FALSE) # Invalid
  PROVE  Shows(Head(Sq!RawEvents(d, u, q, FALSE)), Sq!FilteredEvents(d, u, q), q.offset)
<1>a. PICK rows : rows = Sq!FilteredEvents(d, u, q)
  OBVIOUS
<1>b. PICK page : page = Head(Sq!RawEvents(d, u, q, FALSE))
  OBVIOUS
<1> DEFINE size   == Sq!NormalizeLimit(q.limit, 100, 1000)
           order  == Sq!Sorted(rows, Sq!NewestFirst)
           to     == Sq!AtMost(q.offset + (size + 1), Len(order))
           loaded == SubSeq(order, q.offset + 1, to)
           shown  == Sq!EventResponses(d, loaded, FALSE)
<1>1. size \in Nat \ {0}
  BY DEF Sq!NormalizeLimit, Sq!AtLeast, Sq!AtMost, Sq!None
<1>2. page = Sq!RawResponse(shown, size, q.offset)
  <2>1. loaded = Sq!LoadFilteredEvents(d, u, q, size + 1)
    BY <1>a DEF Sq!LoadFilteredEvents
  <2> HIDE DEF loaded, order, to
  <2> DEFINE response == Sq!RawResponse(shown, size, q.offset)
             invalid  == \E kind \in Sq!ExactValuesFilter({q.kind}) : ~Sq!ValidKind(kind)
             raw      == Sq!RawEvents(d, u, q, FALSE)
  <2>2. raw = IF invalid THEN Sq!Invalid ELSE
                <<Sq!RawResponse(Sq!EventResponses(d, Sq!LoadFilteredEvents(d, u, q, size + 1), FALSE),
                                 size, q.offset)>>
    BY DEF Sq!RawEvents
  <2>3. raw = IF invalid THEN Sq!Invalid ELSE <<response>>
    <3> HIDE DEF raw, invalid, size
    <3> QED
      BY <2>1, <2>2, Zenon
  <2>4. raw # Sq!Invalid /\ page = Head(raw)
    BY <1>b, Zenon DEF Invalid, Sq!Invalid
  <2> HIDE DEF raw, invalid, response
  <2>5. page = response
    <3>1. raw = <<response>>
      <4>1. CASE invalid
        BY <2>3, <2>4, <4>1, Zenon
      <4>2. CASE ~invalid
        BY <2>3, <4>2, Zenon
      <4> QED
        BY <4>1, <4>2
    <3> QED
      BY <2>4, <3>1, HeadOfOne, Zenon
  <2> QED
    BY <2>5 DEF response
<1>3. rows \subseteq RowsOf(d) /\ IsFiniteSet(rows) /\ IsOrder(Newest(rows), rows)
  BY <1>a, EventsAreOrdered
<1>4. PICK m \in Nat : m = Cardinality(rows)
  BY <1>3, FS_CardinalityType
<1>5. PICK from \in Nat : from = q.offset
  OBVIOUS
<1>6. /\ order \in [1..m -> rows] /\ \A n \in 1..m : Position(rows, order[n]) = n - 1
      /\ Len(order) = m /\ order \in Seq(rows)
  <2>1. order \in [1..m -> rows] /\ \A n \in 1..m : Position(rows, order[n]) = n - 1
    BY <1>3, <1>4, NewestAreSorted
  <2> HIDE DEF order
  <2> QED
    BY <2>1
<1> HIDE DEF order, size
<1>7. to \in Int /\ to <= m /\ to = IF from + size + 1 <= m THEN from + size + 1 ELSE m
  BY <1>1, <1>4, <1>5, <1>6 DEF Sq!AtMost
<1> HIDE DEF to
<1>8. /\ loaded \in Seq(rows) /\ Len(loaded) = IF from < to THEN to - from ELSE 0
      /\ \A i \in 1..Len(loaded) : loaded[i] = order[from + i]
  <2>1. loaded = SubSeq(order, from + 1, to) /\ to <= Len(order)
    BY <1>5, <1>6, <1>7
  <2>2. SubSeq(order, from + 1, to) \in Seq(rows)
    BY <1>6, <1>7, <2>1, PageOf
  <2>3. Len(SubSeq(order, from + 1, to)) = IF from < to THEN to - from ELSE 0
    BY <1>6, <1>7, <2>1, PageOf
  <2>4. \A i \in 1..Len(SubSeq(order, from + 1, to)) :
          SubSeq(order, from + 1, to)[i] = order[from + i]
    BY <1>6, <1>7, <2>1, PageOf
  <2> QED
    BY <2>1, <2>2, <2>3, <2>4
<1> HIDE DEF loaded
<1>9. \A e \in rows : from <= Position(rows, e) /\ Position(rows, e) < to => e \in Range(loaded)
  <2>1. /\ order \in [1..Cardinality(rows) -> rows] /\ to \in Int /\ to <= Cardinality(rows)
        /\ \A n \in 1..Cardinality(rows) : Rank(Newest(rows), rows, order[n]) = n - 1
    BY <1>4, <1>6, <1>7 DEF Position
  <2> QED
    BY <1>3, <1>8, <2>1, OrderIsPaged DEF Position
<1>10. \A i \in 1..Len(loaded) : Position(rows, loaded[i]) = from + i - 1
  <2> SUFFICES ASSUME NEW i \in 1..Len(loaded) PROVE Position(rows, loaded[i]) = from + i - 1
    OBVIOUS
  <2>1. from + i \in 1..m /\ loaded[i] = order[from + i]
    BY <1>7, <1>8
  <2> QED
    BY <1>6, <2>1
<1>11. /\ shown \in Seq(Range(shown)) /\ Len(shown) = Len(loaded)
       /\ \A i \in 1..Len(loaded) : shown[i].pk = loaded[i].pk
  <2>1. DOMAIN shown = 1..Len(loaded) /\ \A i \in 1..Len(loaded) : shown[i].pk = loaded[i].pk
    BY <1>8 DEF Sq!EventResponses, Sq!EventResponse
  <2>2. shown = [i \in 1..Len(loaded) |-> shown[i]]
    BY <1>8 DEF Sq!EventResponses
  <2>3. Len(loaded) \in Nat
    BY <1>8
  <2> HIDE DEF shown
  <2> QED
    BY <2>1, <2>2, <2>3 DEF Range
<1> HIDE DEF shown
<1>12. /\ page.events = SubSeq(shown, 1, IF size < Len(shown) THEN size ELSE Len(shown))
       /\ page.next = IF Len(shown) > size THEN from + size ELSE None
  <2>1. page = [events |-> SubSeq(shown, 1, Sq!AtMost(size, Len(shown))),
                next |-> IF Len(shown) > size THEN q.offset + size ELSE Sq!None]
    BY <1>2, Zenon DEF Sq!RawResponse
  <2>2. Sq!AtMost(size, Len(shown)) = IF size < Len(shown) THEN size ELSE Len(shown)
    BY DEF Sq!AtMost
  <2>3. Sq!None = None
    BY DEF Sq!None, None
  <2>4. page.events = SubSeq(shown, 1, Sq!AtMost(size, Len(shown)))
    BY <2>1
  <2>5. page.next = IF Len(shown) > size THEN from + size ELSE None
    BY <1>5, <2>1, <2>3
  <2> QED
    BY <2>2, <2>4, <2>5
<1>13. ASSUME NEW e \in rows, from <= Position(rows, e), Position(rows, e) < from + size
       PROVE  e.pk \in {f.pk : f \in Range(page.events)}
  <2>1. Position(rows, e) \in Nat /\ Position(rows, e) < m
    BY <1>3, <1>4, RankGrows DEF Position
  <2>2. Position(rows, e) < to
    BY <1>1, <1>7, <1>13, <2>1
  <2>3. PICK i \in 1..Len(loaded) : e = loaded[i]
    BY <1>8, <1>9, <1>13, <2>2 DEF Range
  <2>4. i <= size
    BY <1>1, <1>10, <1>13, <2>1, <2>3
  <2>5. i \in DOMAIN page.events /\ page.events[i] = shown[i]
    <3>1. PICK k \in Nat : k = IF size < Len(shown) THEN size ELSE Len(shown)
      BY <1>1, <1>8, <1>11
    <3>2. i \in 1..k /\ k <= Len(shown)
      BY <1>1, <1>11, <2>3, <2>4, <3>1
    <3>3. i \in DOMAIN SubSeq(shown, 1, k) /\ SubSeq(shown, 1, k)[i] = shown[i]
      BY <1>11, <3>2
    <3> QED
      BY <1>12, <3>1, <3>3
  <2> QED
    BY <1>11, <2>3, <2>5 DEF Range
<1>14. page.next = None => Cardinality(rows) <= from + size
  <2> SUFFICES ASSUME page.next = None, ~(m <= from + size) PROVE FALSE
    BY <1>4
  <2>1. to = from + size + 1 /\ Len(loaded) = size + 1
    BY <1>1, <1>7, <1>8
  <2>2. page.next = from + size
    BY <1>1, <1>11, <1>12, <2>1
  <2> QED
    BY <1>1, <2>2 DEF None
<1>15. page.next # None => page.next = from + size
  BY <1>12
<1>16. Shows(page, rows, from)
  BY <1>1, <1>13, <1>14, <1>15, Zenon DEF Shows
<1> QED
  BY <1>a, <1>b, <1>5, <1>16

\* Events are answered when the filter of their kind is one.
ValidKinds(q) == \A kind \in Sq!ExactValuesFilter({q.kind}) : Sq!ValidKind(kind)

\* Events of no kind but the two are refused, whatever is stored.
LEMMA ValidKindsAreAnswered ==
  ASSUME NEW d, NEW u, NEW q
  PROVE  Sq!RawEvents(d, u, q, FALSE) # Invalid <=> ValidKinds(q)
<1> DEFINE raw      == Sq!RawEvents(d, u, q, FALSE)
           response == Sq!RawResponse(Sq!EventResponses(d,
                         Sq!LoadFilteredEvents(d, u, q, Sq!NormalizeLimit(q.limit, 100, 1000) + 1), FALSE),
                         Sq!NormalizeLimit(q.limit, 100, 1000), q.offset)
           invalid  == \E kind \in Sq!ExactValuesFilter({q.kind}) : ~Sq!ValidKind(kind)
<1>1. raw = IF invalid THEN Sq!Invalid ELSE <<response>>
  BY DEF Sq!RawEvents
<1>2. Sq!Invalid = Invalid
  BY DEF Sq!Invalid, Invalid
<1> HIDE DEF raw, response
<1>3. <<response>> # Invalid
  BY DEF Invalid
<1>4. invalid <=> ~ValidKinds(q)
  BY Zenon DEF ValidKinds
<1> HIDE DEF invalid
<1>5. raw # Invalid <=> ValidKinds(q)
  <2>1. CASE invalid
    BY <1>1, <1>2, <1>4, <2>1, Zenon
  <2>2. CASE ~invalid
    BY <1>1, <1>3, <1>4, <2>2, Zenon
  <2> QED
    BY <2>1, <2>2
<1> QED
  BY <1>5, Zenon DEF raw

\* The pages of a query have its filters.
SameFilters(p, q) ==
  /\ p.from = q.from /\ p.to = q.to /\ p.agents = q.agents /\ p.sids = q.sids
  /\ p.providers = q.providers /\ p.models = q.models /\ p.kind = q.kind
  /\ p.session = q.session /\ p.limit = q.limit

\* What the filters of a page select does not depend on its offset.
LEMMA SameFiltersSelectSame ==
  ASSUME NEW d, NEW u, NEW p, NEW q, SameFilters(p, q)
  PROVE  Sq!FilteredEvents(d, u, p) = Sq!FilteredEvents(d, u, q)
<1>1. \A at : Sq!InWindow(p, at) <=> Sq!InWindow(q, at)
  BY Zenon DEF SameFilters, Sq!InWindow
<1> QED
  BY <1>1, Zenon DEF SameFilters, Sq!FilteredEvents, Sq!Selected

\* The fields an event walk's query has.
RawFields == {"from", "to", "agents", "sids", "providers", "models", "kind", "session", "limit", "offset"}

\* In a walk through pages of events, what is due is listed, and what is due and has been
\* paged over was seen.
EventsWalk(d, r) ==
  LET rows == Sq!FilteredEvents(d, r.user, r.query)
  IN  /\ {"user", "query", "seen", "due", "done"} \subseteq DOMAIN r /\ RawFields \subseteq DOMAIN r.query
      /\ r.query.limit \in Int /\ r.query.offset \in Nat
      /\ ValidKinds(r.query)
      /\ \A n \in r.due : \E e \in rows : e.pk = n
      /\ \A e \in rows : e.pk \in r.due /\ Position(rows, e) < r.query.offset => e.pk \in r.seen
      /\ r.done => r.due \subseteq r.seen

\* A walk begins before the first event.
LEMMA EventsWalkBegins ==
  ASSUME Sound(db), NEW u, NEW q \in RawQueries, WalkEvents(u, q)
  PROVE  EventsWalk(db, reader')
<1>1. PICK p : p = [q EXCEPT !.offset = 0]
  OBVIOUS
<1>2. RawFields \subseteq DOMAIN q /\ q.limit \in Int
  BY QueryConstants DEF RawFields
<1>3. SameFilters(p, q) /\ p.offset = 0 /\ p.limit \in Int /\ p.kind = q.kind /\ RawFields \subseteq DOMAIN p
  BY <1>1, <1>2 DEF SameFilters, RawFields
<1>4. PICK rows : rows = Sq!FilteredEvents(db, u, q)
  OBVIOUS
<1>5. Sq!FilteredEvents(db, u, p) = rows
  BY <1>3, <1>4, SameFiltersSelectSame
<1>6. PICK r : /\ r = reader' /\ r = [job |-> "events", user |-> u, query |-> p, seen |-> {},
                                     due |-> {e.pk : e \in rows}, done |-> FALSE]
  BY <1>1, <1>4 DEF WalkEvents
<1>7. /\ r.user = u /\ r.query = p /\ r.due = {e.pk : e \in rows} /\ r.done = FALSE
      /\ {"user", "query", "seen", "due", "done"} \subseteq DOMAIN r
  BY <1>6
<1>8. ValidKinds(p)
  <2>1. ValidKinds(q)
    BY ValidKindsAreAnswered, Zenon DEF WalkEvents
  <2> QED
    BY <1>3, <2>1 DEF ValidKinds
<1>9. \A e \in rows : Position(rows, e) \in Nat
  BY <1>4, EventsAreOrdered, RankGrows DEF Position
<1>10. EventsWalk(db, r)
  <2>1. \A n \in r.due : \E e \in rows : e.pk = n
    BY <1>7
  <2>2. \A e \in rows : ~(Position(rows, e) < p.offset)
    BY <1>3, <1>9
  <2> QED
    BY <1>3, <1>5, <1>7, <1>8, <2>1, <2>2 DEF EventsWalk
<1> QED
  BY <1>6, <1>10

\* A page that is read shows what is due at its positions; the last one shows the rest.
LEMMA EventsWalkContinues ==
  ASSUME Sound(db), EventsWalk(db, reader), NextEvents
  PROVE  EventsWalk(db, reader')
<1>1. PICK u, q, rows : u = reader.user /\ q = reader.query /\ rows = Sq!FilteredEvents(db, u, q)
  OBVIOUS
<1>2. /\ RawFields \subseteq DOMAIN q /\ q.limit \in Int /\ q.offset \in Nat
      /\ ValidKinds(q)
  BY <1>1 DEF EventsWalk
<1>3. Sq!RawEvents(db, u, q, FALSE) # Invalid
  BY <1>2, ValidKindsAreAnswered
<1>4. PICK page : page = Head(Sq!RawEvents(db, u, q, FALSE))
  OBVIOUS
<1>5. Shows(page, rows, q.offset)
  BY <1>1, <1>2, <1>3, <1>4, PageShows
<1>6. PICK size \in Nat \ {0} :
        /\ \A e \in rows : q.offset <= Position(rows, e) /\ Position(rows, e) < q.offset + size =>
             e.pk \in {f.pk : f \in Range(page.events)}
        /\ page.next = None => Cardinality(rows) <= q.offset + size
        /\ page.next # None => page.next = q.offset + size
  BY <1>5 DEF Shows
<1>7. PICK p : p = [q EXCEPT !.offset = IF page.next = None THEN q.offset ELSE page.next]
  OBVIOUS
<1>8. /\ SameFilters(p, q) /\ p.limit \in Int /\ p.kind = q.kind /\ RawFields \subseteq DOMAIN p
      /\ p.offset = IF page.next = None THEN q.offset ELSE page.next
  BY <1>2, <1>7 DEF SameFilters, RawFields
<1>9. PICK r :
        /\ r = reader' /\ r.user = u /\ r.query = p /\ r.due = reader.due /\ r.done = (page.next = None)
        /\ r.seen = reader.seen \cup {e.pk : e \in Range(page.events)}
        /\ {"user", "query", "seen", "due", "done"} \subseteq DOMAIN r
  <2>1. reader' = [reader EXCEPT !.seen = @ \cup {e.pk : e \in Range(page.events)},
                                 !.query.offset = IF page.next = None THEN @ ELSE page.next,
                                 !.done = page.next = None]
    BY <1>1, <1>4, Zenon DEF NextEvents
  <2>2. {"user", "query", "seen", "due", "done"} \subseteq DOMAIN reader
    BY DEF EventsWalk
  <2>3. reader'.query = p
    BY <1>1, <1>7, <2>1, <2>2
  <2>4. reader'.done = (page.next = None)
    BY <2>1, <2>2
  <2>5. reader'.seen = reader.seen \cup {e.pk : e \in Range(page.events)}
    BY <2>1, <2>2
  <2>6. reader'.user = u /\ reader'.due = reader.due /\ DOMAIN reader' = DOMAIN reader
    BY <1>1, <2>1, <2>2
  <2> QED
    BY <2>2, <2>3, <2>4, <2>5, <2>6
<1>10. Sq!FilteredEvents(db, u, p) = rows
  BY <1>1, <1>8, SameFiltersSelectSame
<1>11. \A e \in rows : Position(rows, e) \in Nat /\ Position(rows, e) < Cardinality(rows)
  BY <1>1, EventsAreOrdered, RankGrows DEF Position
<1>12. ASSUME NEW e \in rows, e.pk \in r.due, Position(rows, e) < q.offset + size
       PROVE  e.pk \in r.seen
  <2>1. CASE Position(rows, e) < q.offset
    BY <1>1, <1>9, <1>12, <2>1 DEF EventsWalk
  <2>2. CASE q.offset <= Position(rows, e)
    BY <1>6, <1>9, <1>12, <2>2
  <2> QED
    BY <1>2, <1>11, <2>1, <2>2
<1>13. ASSUME r.done PROVE r.due \subseteq r.seen
  <2> SUFFICES ASSUME NEW n \in r.due PROVE n \in r.seen
    OBVIOUS
  <2>1. PICK e \in rows : e.pk = n
    BY <1>1, <1>9 DEF EventsWalk
  <2>2. Cardinality(rows) <= q.offset + size /\ Cardinality(rows) \in Nat
    BY <1>1, <1>6, <1>9, <1>13, EventsAreOrdered, FS_CardinalityType
  <2>3. Position(rows, e) < q.offset + size
    BY <1>2, <1>11, <2>2
  <2> QED
    BY <1>12, <2>1, <2>3
<1>14. p.offset \in Nat /\ p.offset <= q.offset + size
  BY <1>2, <1>6, <1>8
<1>15. EventsWalk(db, r)
  <2>1. \A n \in r.due : \E e \in rows : e.pk = n
    BY <1>1, <1>9 DEF EventsWalk
  <2>2. ASSUME NEW e \in rows, e.pk \in r.due, Position(rows, e) < p.offset PROVE e.pk \in r.seen
    BY <1>2, <1>11, <1>12, <1>14, <2>2
  <2>3. ValidKinds(p)
    BY <1>2, <1>8 DEF ValidKinds
  <2> QED
    BY <1>8, <1>9, <1>10, <1>13, <1>14, <2>1, <2>2, <2>3 DEF EventsWalk
<1> QED
  BY <1>9, <1>15

\* What is ingested comes between what was listed, so no event moves to an earlier place.
LEMMA EventsWalkStays ==
  ASSUME NEW d, Sound(d), NEW n, Sound(n), Grows(d, n), NEW r, EventsWalk(d, r)
  PROVE  EventsWalk(n, r)
<1>1. PICK rows, now : /\ rows = Sq!FilteredEvents(d, r.user, r.query)
                       /\ now = Sq!FilteredEvents(n, r.user, r.query)
  OBVIOUS
<1>2. /\ rows \subseteq RowsOf(d) /\ now \subseteq RowsOf(n) /\ IsFiniteSet(now)
      /\ RowsOf(d) \subseteq RowsOf(n) /\ \A e \in RowsOf(n), f \in RowsOf(d) : e.pk = f.pk => e = f
  BY <1>1, EventsAreOrdered, RowsGrow
<1>3. rows \subseteq now
  <2> SUFFICES ASSUME NEW e \in rows PROVE e \in now
    OBVIOUS
  <2>1. e \in RowsOf(d) /\ e \in RowsOf(n) /\ n.sessions[e.session].pk = d.sessions[e.session].pk
    BY <1>2, RowsAreSound DEF Grows
  <2>2. e \in Sq!RowsOf(n)
    BY <2>1, RowsAreSound
  <2> QED
    BY <1>1, <2>1, <2>2 DEF Sq!FilteredEvents, Sq!Selected
<1>4. ASSUME NEW e \in rows
      PROVE  /\ Position(rows, e) \in Nat /\ Position(now, e) \in Nat
             /\ Position(rows, e) <= Position(now, e)
  <2>1. {t \in rows : <<t, e>> \in Newest(rows)} \subseteq {t \in now : <<t, e>> \in Newest(now)}
    BY <1>3 DEF Newest
  <2>2. IsFiniteSet({t \in now : <<t, e>> \in Newest(now)})
    BY <1>2, FS_Subset
  <2> QED
    BY <2>1, <2>2, FS_Subset, FS_CardinalityType DEF Position, Rank
<1>5. ASSUME NEW e \in now, e.pk \in r.due
      PROVE  e \in rows
  <2>1. PICK f \in rows : f.pk = e.pk
    BY <1>1, <1>5 DEF EventsWalk
  <2> QED
    BY <1>2, <2>1
<1>6. ASSUME NEW e \in now, e.pk \in r.due, Position(now, e) < r.query.offset
      PROVE  e.pk \in r.seen
  <2>1. e \in rows /\ r.query.offset \in Nat
    BY <1>5, <1>6 DEF EventsWalk
  <2>2. Position(rows, e) < r.query.offset
    BY <1>4, <1>6, <2>1
  <2> QED
    BY <1>1, <1>6, <2>1, <2>2 DEF EventsWalk
<1>7. \A m \in r.due : \E e \in now : e.pk = m
  BY <1>1, <1>3 DEF EventsWalk
<1> QED
  BY <1>1, <1>6, <1>7, Zenon DEF EventsWalk

-----------------------------------------------------------------------------
(* The session list. *)

EventsAt(d, k) == {e \in RowsOf(d) : e.session = k}
LastAt(d, k)   == Max({e.at : e \in EventsAt(d, k)})

\* The row of a session in the list, and whether a query lists it.
Item(d, k) ==
  [pk |-> d.sessions[k].pk, sid |-> SessionKey[k].sid, agent |-> SessionKey[k].agent,
   platform |-> DeviceKey[d.sessions[k].device].platform,
   started |-> d.sessions[k].started, ended |-> d.sessions[k].ended,
   last |-> LastAt(d, k), events |-> Cardinality(EventsAt(d, k)),
   tokens |-> Sq!Total(EventsAt(d, k)), title |-> Sq!TitleRow(d, k)]

Listed(d, u, q, k) ==
  /\ SessionKey[k].user = u /\ d.devices[d.sessions[k].device] # NoRow
  /\ Sq!AnyOf(q.agents, SessionKey[k].agent)
  /\ q.providers = {} \/ \E e \in EventsAt(d, k) : e.provider \in q.providers
  /\ q.models = {} \/ \E e \in EventsAt(d, k) : e.model \in q.models
  /\ q.from = None \/ LastAt(d, k) >= q.from
  /\ q.to = None \/ d.sessions[k].started < q.to

\* A session has an event, and is as active as its last one.
LEMMA LastIsTold ==
  ASSUME NEW d, Sound(d), NEW k \in Existing(d)
  PROVE  /\ IsFiniteSet(EventsAt(d, k)) /\ EventsAt(d, k) # {}
         /\ LastAt(d, k) \in Int
         /\ \E e \in EventsAt(d, k) : e.at = LastAt(d, k)
         /\ \A e \in EventsAt(d, k) : e.at <= LastAt(d, k)
<1>1. IsFiniteSet(EventsAt(d, k))
  BY RowsAreSound, FS_Subset DEF EventsAt
<1>2. EventsAt(d, k) # {}
  <2>1. PICK e \in StoredEvents(d) : d.events[e].session = k
    BY DEF Sound, SessionsAreSound
  <2>2. d.events[e] \in RowsOf(d)
    BY DEF StoredEvents, RowsOf
  <2> QED
    BY <2>1, <2>2 DEF EventsAt
<1>3. PICK times : times = {e.at : e \in EventsAt(d, k)}
  OBVIOUS
<1>4. times \subseteq Int /\ times # {}
  BY <1>2, <1>3, RowsAreSound DEF EventsAt
<1>5. IsFiniteSet(times)
  <2>1. PICK f : f = [e \in EventsAt(d, k) |-> e.at]
    OBVIOUS
  <2>2. times = {f[e] : e \in EventsAt(d, k)}
    BY <1>3, <2>1
  <2> QED
    BY <1>1, <2>2, ImageIsFinite
<1>6. Max(times) \in times /\ \A x \in times : x <= Max(times)
  BY <1>4, <1>5, MaxIsGreatest
<1>7. LastAt(d, k) = Max(times)
  BY <1>3 DEF LastAt
<1> QED
  BY <1>1, <1>2, <1>3, <1>4, <1>6, <1>7

\* The list has the rows of the sessions that the query lists.
LEMMA ListedItems ==
  ASSUME NEW d, Sound(d), NEW u, NEW q
  PROVE  Sq!Filtered(d, u, q) = {Item(d, k) : k \in {j \in Existing(d) : Listed(d, u, q, j)}}
<1> DEFINE row(k) == [pk |-> d.sessions[k].pk, key |-> k, device |-> d.sessions[k].device,
                      started |-> d.sessions[k].started, ended |-> d.sessions[k].ended]
           EventsOf(s) == {e \in Sq!RowsOf(d) : e.session = s.key}
           Of(s, events) ==
             [pk |-> s.pk, sid |-> SessionKey[s.key].sid, agent |-> SessionKey[s.key].agent,
              platform |-> DeviceKey[s.device].platform, started |-> s.started, ended |-> s.ended,
              last |-> IF events = {} THEN s.started ELSE Sq!Max({e.at : e \in events}),
              events |-> Sq!Cardinality(events), tokens |-> Sq!Total(events),
              title |-> Sq!TitleRow(d, s.key)]
           Chosen(t) == /\ SessionKey[t.key].user = u /\ d.devices[t.device] # NoRow
                        /\ Sq!AnyOf(q.agents, SessionKey[t.key].agent)
                        /\ q.providers = {} \/ \E e \in EventsOf(t) : e.provider \in q.providers
                        /\ q.models = {} \/ \E e \in EventsOf(t) : e.model \in q.models
           Within(a) == /\ q.from = None \/ a.last >= q.from
                        /\ q.to = None \/ a.started < q.to
<1>1. Sq!Filtered(d, u, q) = {a \in {Of(s, EventsOf(s)) : s \in {t \in Sq!SessionRows(d) : Chosen(t)}} : Within(a)}
  BY DEF Sq!Filtered, Sq!Activity, Sq!None, None
<1>2. Sq!SessionRows(d) = {row(k) : k \in Existing(d)}
  BY DEF Sq!SessionRows, Existing
<1>3. ASSUME NEW k \in Existing(d)
      PROVE  /\ EventsOf(row(k)) = EventsAt(d, k)
             /\ Of(row(k), EventsAt(d, k)) = Item(d, k)
             /\ Chosen(row(k)) /\ Within(Item(d, k)) <=> Listed(d, u, q, k)
  <2>1. EventsOf(row(k)) = EventsAt(d, k)
    BY RowsAreSound DEF EventsAt
  <2>2. EventsAt(d, k) # {}
    BY LastIsTold
  <2>3. /\ Sq!Max({e.at : e \in EventsAt(d, k)}) = LastAt(d, k)
        /\ Sq!Cardinality(EventsAt(d, k)) = Cardinality(EventsAt(d, k))
    BY SameOperators DEF LastAt
  <2>4. Of(row(k), EventsAt(d, k)) = Item(d, k)
    BY <2>2, <2>3 DEF Item
  <2>5. Chosen(row(k)) /\ Within(Item(d, k)) <=> Listed(d, u, q, k)
    <3>1. EventsOf(row(k)) = EventsAt(d, k) /\ row(k).key = k /\ row(k).device = d.sessions[k].device
      BY <2>1
    <3>2. Item(d, k).last = LastAt(d, k) /\ Item(d, k).started = d.sessions[k].started
      BY DEF Item
    <3> HIDE DEF row, EventsOf
    <3> QED
      BY <3>1, <3>2 DEF Listed
  <2> QED
    BY <2>1, <2>4, <2>5
<1> HIDE DEF row, EventsOf, Of, Chosen, Within
<1>4. ASSUME NEW a
      PROVE  a \in Sq!Filtered(d, u, q) <=> \E k \in Existing(d) : a = Item(d, k) /\ Listed(d, u, q, k)
  <2>1. ASSUME a \in Sq!Filtered(d, u, q)
        PROVE  \E k \in Existing(d) : a = Item(d, k) /\ Listed(d, u, q, k)
    <3>1. PICK k \in Existing(d) : a = Of(row(k), EventsOf(row(k))) /\ Chosen(row(k)) /\ Within(a)
      BY <1>1, <1>2, <2>1
    <3> QED
      BY <1>3, <3>1
  <2>2. ASSUME NEW k \in Existing(d), a = Item(d, k), Listed(d, u, q, k)
        PROVE  a \in Sq!Filtered(d, u, q)
    <3>1. a = Of(row(k), EventsOf(row(k))) /\ Chosen(row(k)) /\ Within(a)
      BY <1>3, <2>2
    <3> QED
      BY <1>1, <1>2, <3>1
  <2> QED
    BY <2>1, <2>2
<1> QED
  BY <1>4

\* A session that is there has a structure.
LEMMA SessionHasStructure ==
  ASSUME NEW d, Sound(d), NEW k \in Existing(d), NEW u, SessionKey[k].user = u
  PROVE  Sq!SessionStructure(d, u, d.sessions[k].pk) # Sq!NotFound
<1> DEFINE n == d.sessions[k].pk
           events == {e \in Sq!RowsOf(d) : d.sessions[e.session].pk = n}
           own == {s \in Sq!SessionRows(d) : SessionKey[s.key].user = u /\ s.pk = n}
<1>1. own # {}
  <2>1. [pk |-> n, key |-> k, device |-> d.sessions[k].device,
         started |-> d.sessions[k].started, ended |-> d.sessions[k].ended] \in Sq!SessionRows(d)
    BY DEF Sq!SessionRows, Existing
  <2> QED
    BY <2>1
<1>2. events # {} /\ IsFiniteSet(events)
  <2>1. PICK e \in EventsAt(d, k) : TRUE
    BY LastIsTold
  <2>2. e \in events
    BY RowsAreSound DEF EventsAt
  <2>3. IsFiniteSet(events)
    BY RowsAreSound, FS_Subset
  <2> QED
    BY <2>2, <2>3
<1> DEFINE sorted == Sq!Sorted(events, Sq!SessionOrder)
<1>3. Sq!StreamEvents(d, n) = sorted
  BY DEF Sq!StreamEvents
<1>4. PICK m \in Nat \ {0} : m = Sq!Cardinality(events)
  BY <1>2, SameOperators, FS_CardinalityType, FS_EmptySet
<1>5. DOMAIN sorted = 1..m
  <2> HIDE DEF events
  <2> QED
    BY <1>4 DEF Sq!Sorted
<1> HIDE DEF events, sorted
<1>6. sorted # <<>>
  BY <1>4, <1>5
<1> HIDE DEF own
<1>7. Sq!SessionStructure(d, u, n) = IF own = {} \/ Sq!StreamEvents(d, n) = <<>> THEN Sq!NotFound
                                     ELSE <<Sq!StreamEvents(d, n)>>
  BY Zenon DEF Sq!SessionStructure, own
<1>8. <<Sq!StreamEvents(d, n)>> # Sq!NotFound
  BY DEF Sq!NotFound
<1>9. Sq!SessionStructure(d, u, n) = <<Sq!StreamEvents(d, n)>>
  BY <1>1, <1>3, <1>6, <1>7, Zenon
<1> QED
  BY <1>8, <1>9

\* Rows of the list have their types, are told apart by their numbers, have a structure,
\* and tell when their sessions were last active.
LEMMA ListIsSound ==
  ASSUME NEW d, Sound(d), NEW u, NEW q
  PROVE  LET rows == Sq!Filtered(d, u, q)
         IN  /\ IsFiniteSet(rows)
             /\ \A a \in rows : /\ a.pk \in Nat /\ a.last \in Int
                                /\ <<a.pk, a.last>> \in Lasts(d, u)
                                /\ Sq!SessionStructure(d, u, a.pk) # Sq!NotFound
             /\ \A a, b \in rows : a.pk = b.pk => a = b
<1> DEFINE rows == Sq!Filtered(d, u, q)
           keys == {j \in Existing(d) : Listed(d, u, q, j)}
<1>1. rows = {Item(d, k) : k \in keys}
  BY ListedItems
<1>2. IsFiniteSet(rows)
  <2>1. IsFiniteSet(keys)
    BY FS_Subset DEF Sound, SessionsAreSound
  <2>2. PICK f : f = [k \in keys |-> Item(d, k)]
    OBVIOUS
  <2> HIDE DEF rows, keys
  <2>3. rows = {f[k] : k \in keys}
    BY <1>1, <2>2
  <2> QED
    BY <2>1, <2>3, ImageIsFinite
<1>3. ASSUME NEW k \in keys
      PROVE  /\ Item(d, k).pk = d.sessions[k].pk /\ Item(d, k).last = LastAt(d, k)
             /\ d.sessions[k].pk \in Nat /\ LastAt(d, k) \in Int
             /\ SessionKey[k].user = u
  BY LastIsTold DEF Item, Listed, Sound, SessionsAreSound, SessionRecords
<1>4. ASSUME NEW k \in keys
      PROVE  <<d.sessions[k].pk, LastAt(d, k)>> \in Lasts(d, u)
  <2>1. PICK s : s = [pk |-> d.sessions[k].pk, key |-> k, device |-> d.sessions[k].device,
                      started |-> d.sessions[k].started, ended |-> d.sessions[k].ended]
    OBVIOUS
  <2>2. s \in SessionRows(d) /\ s.key = k /\ s.pk = d.sessions[k].pk
    BY <2>1 DEF SessionRows, Existing
  <2>3. Max({e.at : e \in {f \in RowsOf(d) : f.session = s.key}}) = LastAt(d, k)
    BY <2>2 DEF LastAt, EventsAt
  <2>4. s \in {r \in SessionRows(d) : SessionKey[r.key].user = u}
    BY <1>3, <2>2
  <2>5. <<s.pk, Max({e.at : e \in {f \in RowsOf(d) : f.session = s.key}})>> \in Lasts(d, u)
    BY <2>4, Zenon DEF Lasts
  <2> QED
    BY <2>2, <2>3, <2>5, Zenon
<1>5. ASSUME NEW k \in keys
      PROVE  Sq!SessionStructure(d, u, d.sessions[k].pk) # Sq!NotFound
  BY <1>3, SessionHasStructure DEF keys
<1> HIDE DEF keys
<1>6. \A a, b \in rows : a.pk = b.pk => a = b
  <2>1. \A j, k \in keys : d.sessions[j].pk = d.sessions[k].pk => j = k
    BY DEF keys, Sound, SessionsAreSound
  <2> HIDE DEF rows
  <2>2. ASSUME NEW a \in rows, NEW b \in rows, a.pk = b.pk PROVE a = b
    <3>1. PICK j \in keys : a = Item(d, j)
      BY <1>1
    <3>2. PICK k \in keys : b = Item(d, k)
      BY <1>1
    <3> QED
      BY <1>3, <2>1, <2>2, <3>1, <3>2
  <2> QED
    BY <2>2
<1>7. ASSUME NEW a \in rows
      PROVE  /\ a.pk \in Nat /\ a.last \in Int
             /\ <<a.pk, a.last>> \in Lasts(d, u)
             /\ Sq!SessionStructure(d, u, a.pk) # Sq!NotFound
  <2>1. PICK k \in keys : a = Item(d, k)
    BY <1>1
  <2>2. a.pk = d.sessions[k].pk /\ a.last = LastAt(d, k)
    BY <1>3, <2>1
  <2> QED
    BY <1>3, <1>4, <1>5, <2>2
<1> QED
  BY <1>2, <1>6, <1>7

\* A session is last active once.
LEMMA LastsAreSound ==
  ASSUME NEW d, Sound(d), NEW u
  PROVE  /\ \A l \in Lasts(d, u) : l = <<l[1], l[2]>> /\ l[2] \in Int
         /\ \A l, m \in Lasts(d, u) : l[1] = m[1] => l = m
<1>1. ASSUME NEW l \in Lasts(d, u)
      PROVE  \E k \in Existing(d) : l = <<d.sessions[k].pk, LastAt(d, k)>>
  <2>1. PICK s \in SessionRows(d) :
          l = <<s.pk, Max({e.at : e \in {f \in RowsOf(d) : f.session = s.key}})>>
    BY DEF Lasts
  <2>2. s.key \in Existing(d) /\ s.pk = d.sessions[s.key].pk
    BY DEF SessionRows, Existing
  <2>3. l = <<d.sessions[s.key].pk, LastAt(d, s.key)>>
    BY <2>1, <2>2 DEF LastAt, EventsAt
  <2> QED
    BY <2>2, <2>3
<1>2. ASSUME NEW l \in Lasts(d, u) PROVE l = <<l[1], l[2]>> /\ l[2] \in Int
  <2>1. PICK k \in Existing(d) : l = <<d.sessions[k].pk, LastAt(d, k)>>
    BY <1>1
  <2> QED
    BY <2>1, LastIsTold
<1>3. ASSUME NEW l \in Lasts(d, u), NEW m \in Lasts(d, u), l[1] = m[1] PROVE l = m
  <2>1. PICK j \in Existing(d) : l = <<d.sessions[j].pk, LastAt(d, j)>>
    BY <1>1
  <2>2. PICK k \in Existing(d) : m = <<d.sessions[k].pk, LastAt(d, k)>>
    BY <1>1
  <2>3. d.sessions[j].pk = d.sessions[k].pk
    BY <1>3, <2>1, <2>2
  <2>4. j = k
    BY <2>3 DEF Sound, SessionsAreSound
  <2> QED
    BY <2>1, <2>2, <2>4
<1> QED
  BY <1>2, <1>3

\* What is listed stays listed, as active as it was or more.
LEMMA ListGrows ==
  ASSUME NEW d, Sound(d), NEW n, Sound(n), Grows(d, n), NEW u, NEW q,
         q.from = None \/ q.from \in Int, q.to = None \/ q.to \in Int
  PROVE  \A a \in Sq!Filtered(d, u, q) : \E b \in Sq!Filtered(n, u, q) :
           b.pk = a.pk /\ b.last >= a.last
<1> SUFFICES ASSUME NEW a \in Sq!Filtered(d, u, q)
             PROVE  \E b \in Sq!Filtered(n, u, q) : b.pk = a.pk /\ b.last >= a.last
  OBVIOUS
<1>1. PICK k \in Existing(d) : a = Item(d, k) /\ Listed(d, u, q, k)
  BY ListedItems
<1>2. /\ k \in Existing(n) /\ n.sessions[k].pk = d.sessions[k].pk
      /\ n.sessions[k].started <= d.sessions[k].started
  BY DEF Grows
<1>3. EventsAt(d, k) \subseteq EventsAt(n, k)
  BY RowsGrow DEF EventsAt
<1>4. /\ LastAt(d, k) \in Int /\ LastAt(n, k) \in Int /\ LastAt(d, k) <= LastAt(n, k)
      /\ n.sessions[k].started \in Int /\ d.sessions[k].started \in Int
  <2>1. PICK e \in EventsAt(d, k) : e.at = LastAt(d, k)
    BY LastIsTold
  <2>2. e.at <= LastAt(n, k) /\ LastAt(n, k) \in Int /\ LastAt(d, k) \in Int
    BY <1>2, <1>3, <2>1, LastIsTold
  <2>3. n.sessions[k].started \in Int /\ d.sessions[k].started \in Int
    BY <1>2 DEF Sound, SessionsAreSound, SessionRecords
  <2> QED
    BY <2>1, <2>2, <2>3
<1>5. n.devices[n.sessions[k].device] # NoRow
  BY <1>2 DEF Sound, SessionsAreSound
<1>6. Listed(n, u, q, k)
  <2>1. /\ q.providers = {} \/ \E e \in EventsAt(n, k) : e.provider \in q.providers
        /\ q.models = {} \/ \E e \in EventsAt(n, k) : e.model \in q.models
    BY <1>1, <1>3 DEF Listed
  <2>2. q.from = None \/ LastAt(n, k) >= q.from
    BY <1>1, <1>4 DEF Listed
  <2>3. q.to = None \/ n.sessions[k].started < q.to
    BY <1>1, <1>2, <1>4 DEF Listed
  <2> QED
    BY <1>1, <1>5, <2>1, <2>2, <2>3 DEF Listed
<1>7. Item(n, k) \in Sq!Filtered(n, u, q)
  BY <1>2, <1>6, ListedItems
<1>8. /\ Item(n, k).pk = n.sessions[k].pk /\ Item(n, k).last = LastAt(n, k)
      /\ a.pk = d.sessions[k].pk /\ a.last = LastAt(d, k)
  BY <1>1 DEF Item
<1> QED
  BY <1>2, <1>4, <1>7, <1>8

\* The order of the list, and the place of a row in it, which counts from 0.
Recent(rows)   == {p \in rows \X rows : Sq!LastActiveFirst(p[1], p[2])}
Place(rows, a) == Rank(Recent(rows), rows, a)

\* Numbers of the sessions that come before a row.
Ahead(rows, a) == {b.pk : b \in {c \in rows : Sq!LastActiveFirst(c, a)}}

\* Rows of the list are in a total order, in which a place is a number of sessions.
LEMMA ListIsOrdered ==
  ASSUME NEW rows, IsFiniteSet(rows),
         \A a \in rows : a.pk \in Nat /\ a.last \in Int,
         \A a, b \in rows : a.pk = b.pk => a = b
  PROVE  /\ IsOrder(Recent(rows), rows)
         /\ \A a \in rows : IsFiniteSet(Ahead(rows, a)) /\ Place(rows, a) = Cardinality(Ahead(rows, a))
<1>1. \A a, b \in rows : <<a, b>> \in Recent(rows) <=> Sq!LastActiveFirst(a, b)
  BY DEF Recent
<1>2. IsOrder(Recent(rows), rows)
  <2>1. \A a \in rows : ~Sq!LastActiveFirst(a, a)
    BY DEF Sq!LastActiveFirst
  <2>2. ASSUME NEW a \in rows, NEW b \in rows, NEW c \in rows,
               Sq!LastActiveFirst(a, b), Sq!LastActiveFirst(b, c)
        PROVE  Sq!LastActiveFirst(a, c)
    BY <2>2 DEF Sq!LastActiveFirst
  <2>3. ASSUME NEW a \in rows, NEW b \in rows
        PROVE  a = b \/ Sq!LastActiveFirst(a, b) \/ Sq!LastActiveFirst(b, a)
    BY DEF Sq!LastActiveFirst
  <2> QED
    BY <1>1, <2>1, <2>2, <2>3 DEF IsOrder
<1>3. ASSUME NEW a \in rows
      PROVE  IsFiniteSet(Ahead(rows, a)) /\ Place(rows, a) = Cardinality(Ahead(rows, a))
  <2>1. PICK before : before = {c \in rows : Sq!LastActiveFirst(c, a)}
    OBVIOUS
  <2>2. IsFiniteSet(before) /\ before \subseteq rows
    BY <2>1, FS_Subset
  <2>3. Place(rows, a) = Cardinality(before)
    <3>1. {t \in rows : <<t, a>> \in Recent(rows)} = before
      BY <1>1, <2>1
    <3> QED
      BY <3>1, Zenon DEF Place, Rank
  <2>4. PICK f : f = [b \in before |-> b.pk]
    OBVIOUS
  <2>5. Ahead(rows, a) = {f[b] : b \in before}
    BY <2>1, <2>4 DEF Ahead
  <2>6. \A b, c \in before : f[b] = f[c] => b = c
    BY <2>2, <2>4
  <2> QED
    BY <2>2, <2>3, <2>5, <2>6, ImageIsFinite
<1> QED
  BY <1>2, <1>3

\* Rows are sorted by their places.
LEMMA ListIsSorted ==
  ASSUME NEW rows, IsFiniteSet(rows), IsOrder(Recent(rows), rows),
         NEW order, order = Sq!Sorted(rows, Sq!LastActiveFirst)
  PROVE  /\ order \in [1..Cardinality(rows) -> rows]
         /\ \A n \in 1..Cardinality(rows) : Place(rows, order[n]) = n - 1
<1>1. PICK m \in Nat : m = Cardinality(rows)
  BY FS_CardinalityType
<1>2. order \in [1..m -> rows] /\ \A n \in 1..m : Place(rows, order[n]) = n - 1
  <2>1. \A s \in rows : Place(rows, s) = Cardinality({t \in rows : Sq!LastActiveFirst(t, s)})
    <3> SUFFICES ASSUME NEW s \in rows
                 PROVE  {t \in rows : <<t, s>> \in Recent(rows)} = {t \in rows : Sq!LastActiveFirst(t, s)}
      BY Zenon DEF Place, Rank
    <3> QED
      BY DEF Recent
  <2>2. \A n \in 1..m : \E s \in rows : Place(rows, s) = n - 1
    BY <1>1, RankIsBijection DEF Place
  <2>3. order = [n \in 1..Sq!Cardinality(rows) |->
                  CHOOSE s \in rows : Sq!Cardinality({t \in rows : Sq!LastActiveFirst(t, s)}) = n - 1]
    BY DEF Sq!Sorted
  <2>4. Sq!Cardinality(rows) = m
    BY <1>1, SameOperators
  <2>5. ASSUME NEW n \in 1..m
        PROVE  order[n] \in rows /\ Place(rows, order[n]) = n - 1
    <3>1. order[n] = CHOOSE s \in rows : Sq!Cardinality({t \in rows : Sq!LastActiveFirst(t, s)}) = n - 1
      BY <2>3, <2>4
    <3>2. PICK s \in rows : Place(rows, s) = n - 1
      BY <2>2
    <3>3. Sq!Cardinality({t \in rows : Sq!LastActiveFirst(t, s)}) = n - 1
      BY <2>1, <3>2, SameOperators
    <3>4. order[n] \in rows /\ Sq!Cardinality({t \in rows : Sq!LastActiveFirst(t, order[n])}) = n - 1
      BY <3>1, <3>3, Zenon
    <3> QED
      BY <2>1, <3>4, SameOperators
  <2> QED
    BY <2>3, <2>4, <2>5
<1> QED
  BY <1>1, <1>2

\* A page of the list shows the rows at its places; there is another one when there are more.
ListShows(page, rows, from, size) ==
  /\ \A a \in rows : from <= Place(rows, a) /\ Place(rows, a) < from + size =>
       a.pk \in {i.pk : i \in Range(page.items)}
  /\ page.more \/ Cardinality(rows) <= from + size

\* A page of the session list (list_sessions) shows its part of the filtered sessions.
LEMMA ListPageShows ==
  ASSUME NEW d, Sound(d), NEW u, NEW q, NEW from \in Nat, Sq!Offset(q) = from, q.size \in Nat
  PROVE  ListShows(Head(Sq!ListSessions(d, u, q)), Sq!Filtered(d, u, q), from, q.size)
<1>a. PICK rows : rows = Sq!Filtered(d, u, q)
  OBVIOUS
<1>b. PICK size \in Nat : size = q.size
  OBVIOUS
<1> DEFINE order  == Sq!Sorted(rows, Sq!LastActiveFirst)
           to     == Sq!AtMost(from + size, Len(order))
           items  == SubSeq(order, from + 1, to)
           answer == Sq!ListSessions(d, u, q)
           page   == Sq!ListResponse(q, Sq!Cardinality(rows), items)
<1>1. /\ IsFiniteSet(rows)
      /\ \A a \in rows : a.pk \in Nat /\ a.last \in Int
                         /\ Sq!SessionStructure(d, u, a.pk) # Sq!NotFound
      /\ \A a, b \in rows : a.pk = b.pk => a = b
  BY <1>a, ListIsSound
<1>2. IsOrder(Recent(rows), rows)
  BY <1>1, ListIsOrdered
<1>3. PICK m \in Nat : m = Cardinality(rows)
  BY <1>1, FS_CardinalityType
<1>4. /\ order \in [1..m -> rows] /\ \A n \in 1..m : Place(rows, order[n]) = n - 1
      /\ Len(order) = m /\ order \in Seq(rows)
  <2>1. order \in [1..m -> rows] /\ \A n \in 1..m : Place(rows, order[n]) = n - 1
    BY <1>1, <1>2, <1>3, ListIsSorted
  <2> HIDE DEF order
  <2> QED
    BY <2>1
<1>5. Sq!Page(order, q) = items
  BY <1>b DEF Sq!Page
<1> HIDE DEF order
<1>6. to \in Int /\ to <= m /\ to = IF from + size <= m THEN from + size ELSE m
  BY <1>4 DEF Sq!AtMost
<1> HIDE DEF to
<1>7. items \in Seq(rows) /\ Len(items) = (IF from < to THEN to - from ELSE 0)
      /\ \A i \in 1..Len(items) : items[i] = order[from + i]
  <2>1. to <= Len(order)
    BY <1>4, <1>6
  <2>2. SubSeq(order, from + 1, to) \in Seq(rows)
    BY <1>4, <1>6, <2>1, PageOf
  <2>3. Len(SubSeq(order, from + 1, to)) = IF from < to THEN to - from ELSE 0
    BY <1>4, <1>6, <2>1, PageOf
  <2>4. \A i \in 1..Len(SubSeq(order, from + 1, to)) :
          SubSeq(order, from + 1, to)[i] = order[from + i]
    BY <1>4, <1>6, <2>1, PageOf
  <2> QED
    BY <2>2, <2>3, <2>4
<1> HIDE DEF items
<1>8. \A a \in rows : from <= Place(rows, a) /\ Place(rows, a) < to => a \in Range(items)
  <2>1. /\ order \in [1..Cardinality(rows) -> rows] /\ to \in Int /\ to <= Cardinality(rows)
        /\ \A n \in 1..Cardinality(rows) : Rank(Recent(rows), rows, order[n]) = n - 1
    BY <1>3, <1>4, <1>6 DEF Place
  <2> QED
    BY <1>1, <1>2, <1>7, <2>1, OrderIsPaged DEF Place
<1>9. Head(answer) = page
  <2> DEFINE failed == \E item \in Sq!Range(Sq!Page(order, q)) :
                         Sq!SessionStructure(d, u, item.pk) = Sq!NotFound
  <2>1. answer = IF failed THEN Sq!NotFound
                 ELSE <<Sq!ListResponse(q, Sq!Cardinality(rows), Sq!Page(order, q))>>
    BY <1>a, Zenon DEF Sq!ListSessions, order
  <2>2. ~failed
    <3>1. Range(items) \subseteq rows
      BY <1>7 DEF Range
    <3> QED
      BY <1>1, <1>5, <3>1, SameOperators
  <2> HIDE DEF failed
  <2>3. answer = <<page>>
    BY <1>5, <2>1, <2>2, Zenon
  <2> QED
    BY <2>3, HeadOfOne, Zenon
<1>10. /\ page.items = items
       /\ page.more = (from + Len(items) < m)
  <2>1. Sq!Cardinality(rows) = m
    BY <1>3, SameOperators
  <2> QED
    BY <2>1 DEF Sq!ListResponse
<1> HIDE DEF page, answer
<1>11. ASSUME NEW a \in rows, from <= Place(rows, a), Place(rows, a) < from + size
       PROVE  a.pk \in {i.pk : i \in Range(page.items)}
  <2>1. Place(rows, a) \in Nat /\ Place(rows, a) < m
    BY <1>1, <1>2, <1>3, RankGrows DEF Place
  <2>2. Place(rows, a) < to
    BY <1>6, <1>11, <2>1
  <2> QED
    BY <1>8, <1>10, <1>11, <2>2
<1>12. page.more \/ Cardinality(rows) <= from + size
  <2>1. PICK length : length = Len(items)
    OBVIOUS
  <2>2. length = IF from < to THEN to - from ELSE 0
    BY <1>7, <2>1
  <2>3. from + length < m \/ m <= from + size
    BY <1>b, <1>6, <2>2
  <2>4. page.more = (from + length < m)
    BY <1>10, <2>1, Zenon
  <2>5. page.more \/ m <= from + size
    BY <2>3, <2>4, Zenon
  <2> QED
    BY <1>3, <2>5, Zenon
<1>13. ListShows(page, rows, from, size)
  BY <1>11, <1>12, Zenon DEF ListShows
<1> QED
  BY <1>a, <1>b, <1>9, <1>13 DEF answer

\* The pages of a list have its filters.
SameListing(p, q) ==
  /\ p.from = q.from /\ p.to = q.to /\ p.agents = q.agents
  /\ p.providers = q.providers /\ p.models = q.models /\ p.size = q.size

\* The filters alone decide what is listed.
LEMMA SameListingListsSame ==
  ASSUME NEW d, Sound(d), NEW u, NEW p, NEW q, SameListing(p, q)
  PROVE  Sq!Filtered(d, u, p) = Sq!Filtered(d, u, q)
<1>1. \A k : Listed(d, u, p, k) <=> Listed(d, u, q, k)
  BY Zenon DEF SameListing, Listed
<1>2. {j \in Existing(d) : Listed(d, u, p, j)} = {j \in Existing(d) : Listed(d, u, q, j)}
  BY <1>1, Zenon
<1> QED
  BY <1>2, ListedItems, Zenon

\* The first page begins at the first row, and each next one where the one before it ends.
LEMMA OffsetsFollow ==
  ASSUME NEW q, NEW page \in Nat \ {0}, q.page = page, NEW size \in Nat, q.size = size
  PROVE  /\ Sq!Offset(q) \in Nat
         /\ page = 1 => Sq!Offset(q) = 0
         /\ \A p : p.page = page + 1 /\ p.size = size => Sq!Offset(p) = Sq!Offset(q) + size
<1>1. PICK before \in Nat : before = page - 1
  OBVIOUS
<1>2. Sq!Offset(q) = before * size
  BY <1>1 DEF Sq!Offset
<1>3. before * size \in Nat /\ (before = 0 => before * size = 0)
  BY <1>1
<1>4. ASSUME NEW p, p.page = page + 1, p.size = size
      PROVE  Sq!Offset(p) = before * size + size
  <2>1. p.page - 1 = before + 1
    BY <1>1, <1>4
  <2>2. Sq!Offset(p) = (before + 1) * size
    BY <1>4, <2>1 DEF Sq!Offset
  <2>3. (before + 1) * size = before * size + size
    BY <1>1
  <2> QED
    BY <2>2, <2>3
<1> QED
  BY <1>1, <1>2, <1>3, <1>4

\* The fields a list walk's query has.
ListFields == {"from", "to", "agents", "providers", "models", "page", "size"}

\* In a walk through pages of sessions, what is due is listed, as active as it was or more,
\* and what is due, was not active since, and has been paged over was seen.
SessionsWalk(d, r) ==
  LET rows == Sq!Filtered(d, r.user, r.query)
  IN  /\ {"user", "query", "seen", "due", "done"} \subseteq DOMAIN r /\ ListFields \subseteq DOMAIN r.query
      /\ r.query.from \in Int /\ r.query.to \in Int
      /\ r.query.page \in Nat \ {0} /\ r.query.size \in Nat
      /\ \A l \in r.due : l[2] \in Int /\ \E a \in rows : a.pk = l[1] /\ a.last >= l[2]
      /\ \A a \in rows : <<a.pk, a.last>> \in r.due /\ Place(rows, a) < Sq!Offset(r.query) =>
           a.pk \in r.seen
      /\ r.done => \A l \in r.due : l \in Lasts(d, r.user) => l[1] \in r.seen

\* A walk begins before the first session.
LEMMA SessionsWalkBegins ==
  ASSUME Sound(db), NEW u, NEW q \in ListQueries, WalkSessions(u, q)
  PROVE  SessionsWalk(db, reader')
<1>1. PICK p : p = [q EXCEPT !.page = 1]
  OBVIOUS
<1>2. /\ ListFields \subseteq DOMAIN q /\ q.from \in Int /\ q.to \in Int
      /\ q.page \in Int /\ q.size \in Nat
  <2>1. /\ ValidList(q) /\ q.page \in Int /\ q.from \in Int /\ q.to \in Int
        /\ ListFields \subseteq DOMAIN q
    BY QueryConstants, Zenon DEF ListFields
  <2>2. q.size \in Nat
    BY <2>1 DEF ValidList, MaxPageSize
  <2> QED
    BY <2>1, <2>2
<1>3. /\ SameListing(p, q) /\ p.page = 1 /\ ListFields \subseteq DOMAIN p
      /\ p.from \in Int /\ p.to \in Int /\ p.size \in Nat
  BY <1>1, <1>2 DEF SameListing, ListFields
<1>4. PICK rows : rows = Sq!Filtered(db, u, q)
  OBVIOUS
<1>5. Sq!Filtered(db, u, p) = rows
  BY <1>3, <1>4, SameListingListsSame
<1>6. PICK r : /\ r = reader'
               /\ r = [job |-> "sessions", user |-> u, query |-> p, seen |-> {},
                       due |-> {l \in Lasts(db, u) : \E a \in rows : a.pk = l[1]}, done |-> FALSE]
  BY <1>1, <1>4 DEF WalkSessions
<1>7. /\ r.user = u /\ r.query = p /\ r.due = {l \in Lasts(db, u) : \E a \in rows : a.pk = l[1]}
      /\ r.done = FALSE /\ {"user", "query", "seen", "due", "done"} \subseteq DOMAIN r
  BY <1>6
<1>8. /\ IsFiniteSet(rows) /\ \A a \in rows : a.pk \in Nat /\ a.last \in Int /\ <<a.pk, a.last>> \in Lasts(db, u)
      /\ \A a, b \in rows : a.pk = b.pk => a = b
  BY <1>4, ListIsSound
<1>9. \A a \in rows : Place(rows, a) \in Nat
  BY <1>8, ListIsOrdered, RankGrows DEF Place
<1>10. Sq!Offset(p) = 0
  BY <1>3, OffsetsFollow
<1>11. ASSUME NEW l \in r.due PROVE l[2] \in Int /\ \E a \in rows : a.pk = l[1] /\ a.last >= l[2]
  <2>1. l \in Lasts(db, u)
    BY <1>7
  <2>2. PICK a \in rows : a.pk = l[1]
    BY <1>7
  <2>3. PICK m : m = <<a.pk, a.last>>
    OBVIOUS
  <2>4. m \in Lasts(db, u) /\ m[1] = l[1] /\ m[2] = a.last
    BY <1>8, <2>2, <2>3
  <2>5. m = l
    BY <2>1, <2>4, LastsAreSound
  <2>6. a.last = l[2] /\ a.last \in Int
    BY <1>8, <2>4, <2>5
  <2> QED
    BY <2>2, <2>6
<1>12. SessionsWalk(db, r)
  <2>1. \A a \in rows : ~(Place(rows, a) < Sq!Offset(p))
    BY <1>9, <1>10
  <2> QED
    BY <1>3, <1>5, <1>7, <1>11, <2>1 DEF SessionsWalk
<1> QED
  BY <1>6, <1>12

\* A page that is read shows what is due at its places; the last one shows the rest.
LEMMA SessionsWalkContinues ==
  ASSUME Sound(db), SessionsWalk(db, reader), NextSessions
  PROVE  SessionsWalk(db, reader')
<1>1. PICK u, q, rows : u = reader.user /\ q = reader.query /\ rows = Sq!Filtered(db, u, q)
  OBVIOUS
<1>2. /\ ListFields \subseteq DOMAIN q /\ q.from \in Int /\ q.to \in Int
      /\ q.page \in Nat \ {0} /\ q.size \in Nat
  BY <1>1 DEF SessionsWalk
<1>3. PICK size \in Nat : size = q.size
  BY <1>2
<1>4. PICK from \in Nat : from = Sq!Offset(q)
  BY <1>2, OffsetsFollow
<1>5. PICK page : page = Head(Sq!ListSessions(db, u, q))
  OBVIOUS
<1>6. ListShows(page, rows, from, size)
  BY <1>1, <1>2, <1>3, <1>4, <1>5, ListPageShows
<1>7. PICK p : p = [q EXCEPT !.page = IF page.more THEN q.page + 1 ELSE q.page]
  OBVIOUS
<1>8. /\ SameListing(p, q) /\ ListFields \subseteq DOMAIN p
      /\ p.from \in Int /\ p.to \in Int /\ p.size = size
      /\ p.page = IF page.more THEN q.page + 1 ELSE q.page
  BY <1>2, <1>3, <1>7 DEF SameListing, ListFields
<1>9. PICK r :
        /\ r = reader' /\ r.user = u /\ r.query = p /\ r.due = reader.due /\ r.done = ~page.more
        /\ r.seen = reader.seen \cup {i.pk : i \in Range(page.items)}
        /\ {"user", "query", "seen", "due", "done"} \subseteq DOMAIN r
  <2>1. reader' = [reader EXCEPT !.seen = @ \cup {i.pk : i \in Range(page.items)},
                                 !.query.page = IF page.more THEN @ + 1 ELSE @,
                                 !.done = ~page.more]
    BY <1>1, <1>5, Zenon DEF NextSessions
  <2>2. {"user", "query", "seen", "due", "done"} \subseteq DOMAIN reader
    BY DEF SessionsWalk
  <2>3. reader'.query = p
    BY <1>1, <1>7, <2>1, <2>2
  <2>4. reader'.done = ~page.more
    BY <2>1, <2>2
  <2>5. reader'.seen = reader.seen \cup {i.pk : i \in Range(page.items)}
    BY <2>1, <2>2
  <2>6. reader'.user = u /\ reader'.due = reader.due /\ DOMAIN reader' = DOMAIN reader
    BY <1>1, <2>1, <2>2
  <2> QED
    BY <2>2, <2>3, <2>4, <2>5, <2>6
<1>10. Sq!Filtered(db, u, p) = rows
  BY <1>1, <1>8, SameListingListsSame
<1>11. /\ IsFiniteSet(rows)
       /\ \A a \in rows : a.pk \in Nat /\ a.last \in Int /\ <<a.pk, a.last>> \in Lasts(db, u)
       /\ \A a, b \in rows : a.pk = b.pk => a = b
  BY <1>1, ListIsSound
<1>12. \A a \in rows : Place(rows, a) \in Nat /\ Place(rows, a) < Cardinality(rows)
  BY <1>11, ListIsOrdered, RankGrows DEF Place
<1>13. ASSUME NEW a \in rows, <<a.pk, a.last>> \in r.due, Place(rows, a) < from + size
       PROVE  a.pk \in r.seen
  <2>1. CASE Place(rows, a) < from
    BY <1>1, <1>4, <1>9, <1>13, <2>1 DEF SessionsWalk
  <2>2. CASE from <= Place(rows, a)
    BY <1>6, <1>9, <1>13, <2>2 DEF ListShows
  <2> QED
    BY <1>12, <2>1, <2>2
<1>14. Sq!Offset(p) \in Nat /\ Sq!Offset(p) <= from + size
  <2>1. CASE page.more
    BY <1>2, <1>3, <1>4, <1>8, <2>1, OffsetsFollow
  <2>2. CASE ~page.more
    <3>1. Sq!Offset(p) = Sq!Offset(q)
      BY <1>3, <1>8, <2>2 DEF Sq!Offset
    <3> QED
      BY <1>3, <1>4, <3>1
  <2> QED
    BY <2>1, <2>2
<1>15. ASSUME r.done, NEW l \in r.due, l \in Lasts(db, u) PROVE l[1] \in r.seen
  <2>1. PICK a \in rows : a.pk = l[1]
    BY <1>1, <1>9, <1>15 DEF SessionsWalk
  <2>2. PICK m : m = <<a.pk, a.last>>
    OBVIOUS
  <2>3. m \in Lasts(db, u) /\ m[1] = l[1]
    BY <1>11, <2>1, <2>2
  <2>4. m = l
    BY <1>15, <2>3, LastsAreSound
  <2>5. Cardinality(rows) <= from + size /\ Cardinality(rows) \in Nat
    BY <1>6, <1>9, <1>11, <1>15, FS_CardinalityType DEF ListShows
  <2>6. Place(rows, a) < from + size
    BY <1>3, <1>4, <1>12, <2>5
  <2> QED
    BY <1>13, <1>15, <2>1, <2>2, <2>4, <2>6
<1>16. SessionsWalk(db, r)
  <2>1. \A l \in r.due : l[2] \in Int /\ \E a \in rows : a.pk = l[1] /\ a.last >= l[2]
    BY <1>1, <1>9 DEF SessionsWalk
  <2>2. ASSUME NEW a \in rows, <<a.pk, a.last>> \in r.due, Place(rows, a) < Sq!Offset(p)
        PROVE  a.pk \in r.seen
    BY <1>3, <1>4, <1>12, <1>13, <1>14, <2>2
  <2>3. p.page \in Nat \ {0} /\ p.size \in Nat
    BY <1>2, <1>3, <1>8
  <2> QED
    BY <1>8, <1>9, <1>10, <1>15, <2>1, <2>2, <2>3 DEF SessionsWalk
<1> QED
  BY <1>9, <1>16

\* A session that was not active since a walk began keeps its place or moves to a later one,
\* since what comes before it stays before it.
LEMMA SessionsWalkStays ==
  ASSUME NEW d, Sound(d), NEW n, Sound(n), Grows(d, n), NEW r, SessionsWalk(d, r)
  PROVE  SessionsWalk(n, r)
<1>1. PICK u, q, rows, now :
        /\ u = r.user /\ q = r.query
        /\ rows = Sq!Filtered(d, u, q) /\ now = Sq!Filtered(n, u, q)
  OBVIOUS
<1>2. /\ IsFiniteSet(rows)
      /\ \A a \in rows : a.pk \in Nat /\ a.last \in Int /\ <<a.pk, a.last>> \in Lasts(d, u)
      /\ \A a, b \in rows : a.pk = b.pk => a = b
  BY <1>1, ListIsSound
<1>3. /\ IsFiniteSet(now)
      /\ \A a \in now : a.pk \in Nat /\ a.last \in Int /\ <<a.pk, a.last>> \in Lasts(n, u)
      /\ \A a, b \in now : a.pk = b.pk => a = b
  BY <1>1, ListIsSound
<1>4. \A a \in rows : \E b \in now : b.pk = a.pk /\ b.last >= a.last
  BY <1>1, ListGrows DEF SessionsWalk
<1>5. \A l \in r.due : l[2] \in Int /\ \E a \in rows : a.pk = l[1] /\ a.last >= l[2]
  BY <1>1 DEF SessionsWalk
\* Due sessions that are as active as they were.
<1>6. ASSUME NEW b \in now, <<b.pk, b.last>> \in r.due
      PROVE  \E a \in rows : a.pk = b.pk /\ a.last = b.last
  <2>1. PICK l : l = <<b.pk, b.last>>
    OBVIOUS
  <2>2. l \in r.due /\ l[1] = b.pk /\ l[2] = b.last
    BY <1>6, <2>1
  <2>3. PICK a \in rows : a.pk = b.pk /\ a.last >= b.last
    BY <1>5, <2>2
  <2>4. PICK c \in now : c.pk = a.pk /\ c.last >= a.last
    BY <1>4
  <2>5. c = b
    BY <1>3, <2>3, <2>4
  <2>6. b.last >= a.last /\ a.last \in Int /\ b.last \in Int
    BY <1>2, <1>3, <1>6, <2>3, <2>4, <2>5
  <2>7. a.last = b.last
    BY <2>3, <2>6
  <2> QED
    BY <2>3, <2>7
\* They were not further down.
<1>7. ASSUME NEW a \in rows, NEW b \in now, a.pk = b.pk, a.last = b.last
      PROVE  Place(rows, a) \in Nat /\ Place(now, b) \in Nat /\ Place(rows, a) <= Place(now, b)
  <2>1. /\ IsFiniteSet(Ahead(rows, a)) /\ Place(rows, a) = Cardinality(Ahead(rows, a))
        /\ IsFiniteSet(Ahead(now, b)) /\ Place(now, b) = Cardinality(Ahead(now, b))
    BY <1>2, <1>3, ListIsOrdered
  <2>2. Ahead(rows, a) \subseteq Ahead(now, b)
    <3> SUFFICES ASSUME NEW k \in Ahead(rows, a) PROVE k \in Ahead(now, b)
      OBVIOUS
    <3>1. PICK c \in rows : c.pk = k /\ Sq!LastActiveFirst(c, a)
      BY DEF Ahead
    <3>2. PICK e \in now : e.pk = c.pk /\ e.last >= c.last
      BY <1>4
    <3>3. c.last > a.last \/ (c.last = a.last /\ c.pk > a.pk)
      BY <3>1 DEF Sq!LastActiveFirst
    <3>4. e.last \in Int /\ c.last \in Int /\ a.last \in Int
      BY <1>2, <1>3, <3>1, <3>2
    <3>5. e.last > b.last \/ (e.last = b.last /\ e.pk > b.pk)
      BY <1>7, <3>2, <3>3, <3>4
    <3>6. Sq!LastActiveFirst(e, b)
      BY <3>5 DEF Sq!LastActiveFirst
    <3> QED
      BY <3>1, <3>2, <3>6 DEF Ahead
  <2> QED
    BY <2>1, <2>2, FS_Subset, FS_CardinalityType
<1>8. ASSUME NEW b \in now, <<b.pk, b.last>> \in r.due, Place(now, b) < Sq!Offset(q)
      PROVE  b.pk \in r.seen
  <2>1. PICK a \in rows : a.pk = b.pk /\ a.last = b.last
    BY <1>6, <1>8
  <2>2. Sq!Offset(q) \in Nat
    BY <1>1, OffsetsFollow DEF SessionsWalk
  <2>3. Place(rows, a) < Sq!Offset(q)
    BY <1>7, <1>8, <2>1, <2>2
  <2>4. <<a.pk, a.last>> \in r.due
    BY <1>8, <2>1
  <2>5. a.pk \in r.seen
    BY <1>1, <2>3, <2>4 DEF SessionsWalk
  <2> QED
    BY <2>1, <2>5
<1>9. ASSUME r.done, NEW l \in r.due, l \in Lasts(n, u) PROVE l[1] \in r.seen
  <2>1. PICK b : b \in now /\ l = <<b.pk, b.last>>
    <3>1. PICK a \in rows : a.pk = l[1]
      BY <1>5
    <3>2. PICK b \in now : b.pk = a.pk
      BY <1>4
    <3>3. PICK m : m = <<b.pk, b.last>>
      OBVIOUS
    <3>4. m \in Lasts(n, u) /\ m[1] = l[1]
      BY <1>3, <3>1, <3>2, <3>3
    <3>5. m = l
      BY <1>9, <3>4, LastsAreSound
    <3> QED
      BY <3>3, <3>5
  <2>2. PICK a \in rows : a.pk = b.pk /\ a.last = b.last
    BY <1>6, <1>9, <2>1
  <2>3. l \in Lasts(d, u)
    BY <1>2, <2>1, <2>2
  <2> QED
    BY <1>1, <1>9, <2>3 DEF SessionsWalk
<1>10. ASSUME NEW l \in r.due
       PROVE  l[2] \in Int /\ \E b \in now : b.pk = l[1] /\ b.last >= l[2]
  <2>1. PICK a \in rows : a.pk = l[1] /\ a.last >= l[2]
    BY <1>5
  <2>2. PICK b \in now : b.pk = a.pk /\ b.last >= a.last
    BY <1>4
  <2>3. l[2] \in Int /\ a.last \in Int /\ b.last \in Int
    BY <1>2, <1>3, <1>5, <2>1, <2>2
  <2>4. b.last >= l[2]
    BY <2>1, <2>2, <2>3
  <2> QED
    BY <2>1, <2>2, <2>3, <2>4
<1> QED
  BY <1>1, <1>8, <1>9, <1>10 DEF SessionsWalk

-----------------------------------------------------------------------------
(* A chart and its options. *)

\* What a chart was drawn from.
Charted(d, u, q) ==
  {e \in RowsOf(d) : e.user = u /\ d.devices[e.device] # NoRow /\ Sq!ComparisonFilters(e, q)}

\* Each row a reader holds shows the value of a stored event its chart was drawn from.
RowsAreBacked ==
  reader.job = "chart" =>
    /\ reader.query \in ComparisonQueries
    /\ \A r \in reader.rows : \E e \in Charted(db, reader.user, reader.query) :
         r.value = Sq!Value(e, reader.query.by)

\* Events that a chart was drawn from stay so.
LEMMA ChartedStays ==
  ASSUME NEW d, Sound(d), NEW n, Sound(n), Grows(d, n), NEW u, NEW q
  PROVE  Charted(d, u, q) \subseteq Charted(n, u, q)
<1> SUFFICES ASSUME NEW e \in Charted(d, u, q)
             PROVE  e \in Charted(n, u, q)
  OBVIOUS
<1>1. e \in RowsOf(d) /\ e.user = u /\ Sq!ComparisonFilters(e, q)
  BY Zenon DEF Charted
<1>2. e \in RowsOf(n)
  BY <1>1, RowsGrow, Zenon
<1>3. n.devices[e.device] # NoRow
  BY <1>2, RowsAreSound, Zenon
<1> QED
  BY <1>1, <1>2, <1>3, Zenon DEF Charted

\* The rows of a chart show values of what it is drawn from.
LEMMA RowsShowCharted ==
  ASSUME NEW d, NEW u, NEW q, NEW r \in Sq!ComparisonRows(d, u, q)
  PROVE  \E e \in Charted(d, u, q) : r.value = Sq!Value(e, q.by)
<1> DEFINE rows   == {e \in Sq!RowsOf(d) : e.user = u /\ d.devices[e.device] # NoRow
                                        /\ Sq!ComparisonFilters(e, q)}
           joined == {[start |-> b.start, event |-> e] : b \in Sq!Range(q.buckets), e \in rows}
           within == {j \in joined : \E b \in Sq!Range(q.buckets) :
                        j.start = b.start /\ j.event.at >= b.start /\ j.event.at < b.end}
           In(k)  == {j.event : j \in {i \in within : i.start = k[1]
                                                     /\ Sq!Value(i.event, q.by) = k[2]}}
           keys   == {<<j.start, Sq!Value(j.event, q.by)>> : j \in within}
<1> DEFINE Row(k) == [bucket |-> k[1], value |-> k[2], tokens |-> Sq!Total(In(k)),
                      requests |-> Sq!Cardinality({e \in In(k) : e.kind = "request"})]
<1>1. Sq!ComparisonRows(d, u, q) = {Row(k) : k \in keys}
  BY DEF Sq!ComparisonRows
<1>2. PICK k \in keys : r.value = k[2]
  <2>1. PICK k \in keys : r = Row(k)
    <3> HIDE DEF keys, Row
    <3> QED
      BY <1>1
  <2> HIDE DEF keys, In
  <2> QED
    BY <2>1
<1>3. PICK j \in within : k[2] = Sq!Value(j.event, q.by)
  <2> HIDE DEF within
  <2> QED
    BY <1>2
<1>4. j.event \in rows
  <2> HIDE DEF rows
  <2> QED
    BY <1>3
<1>5. Sq!RowsOf(d) = RowsOf(d)
  BY DEF Sq!RowsOf, RowsOf
<1> QED
  BY <1>2, <1>3, <1>4, <1>5 DEF Charted

-----------------------------------------------------------------------------
(* The inductive invariant. *)

QueriesInv ==
  /\ Sound(db) /\ "job" \in DOMAIN reader
  /\ RowsAreBacked
  /\ reader.job = "events" => EventsWalk(db, reader)
  /\ reader.job = "sessions" => SessionsWalk(db, reader)

\* An empty database and an idle reader.
LEMMA InitQueries == Init => QueriesInv
<1> SUFFICES ASSUME Init PROVE QueriesInv
  OBVIOUS
<1>1. Sound(db)
  BY EmptyIsSound DEF Init
<1>2. reader = [job |-> "none"]
  BY DEF Init, Idle
<1> QED
  BY <1>1, <1>2 DEF QueriesInv, RowsAreBacked

\* An event that is ingested.
LEMMA IngestKeepsQueries ==
  ASSUME QueriesInv, NEW s \in Submitted, Ingest(s)
  PROVE  QueriesInv'
<1>1. PICK pk \in Pks \ {e.pk : e \in RowsOf(db)} :
        db' = IngestOne(db, SessionKey[s.session].user, s, pk)
  BY DEF Ingest
<1>2. \A e \in StoredEvents(db) : db.events[e].pk # pk
  BY <1>1 DEF StoredEvents, RowsOf
<1>3. Sound(db) /\ db.events[s.id] = NoRow /\ reader' = reader
  BY DEF QueriesInv, Ingest
<1>4. Sound(db') /\ Grows(db, db')
  BY <1>1, <1>2, <1>3, IngestGrows
<1>5. RowsAreBacked'
  <2>1. \A u, q : Charted(db, u, q) \subseteq Charted(db', u, q)
    BY <1>3, <1>4, ChartedStays
  <2> QED
    BY <1>3, <2>1, Zenon DEF QueriesInv, RowsAreBacked
<1>6. reader.job = "events" => EventsWalk(db', reader)
  BY <1>3, <1>4, EventsWalkStays DEF QueriesInv
<1>7. reader.job = "sessions" => SessionsWalk(db', reader)
  BY <1>3, <1>4, SessionsWalkStays DEF QueriesInv
<1> QED
  BY <1>3, <1>4, <1>5, <1>6, <1>7 DEF QueriesInv

\* A step of the reader: the database is as it was, and what it reads is.
LEMMA ReadsKeepQueries ==
  ASSUME QueriesInv, UNCHANGED db, "job" \in DOMAIN reader', RowsAreBacked',
         reader'.job = "events" => EventsWalk(db, reader'),
         reader'.job = "sessions" => SessionsWalk(db, reader')
  PROVE  QueriesInv'
<1>1. Sound(db') /\ db' = db
  BY DEF QueriesInv
<1> QED
  BY <1>1 DEF QueriesInv

\* A walk or a search that begins.
LEMMA BegunReadsKeepQueries ==
  ASSUME QueriesInv, NEW u \in Users, NEW q,
         \/ q \in RawQueries /\ WalkEvents(u, q)
         \/ q \in ListQueries /\ WalkSessions(u, q)
         \/ q \in SearchQueries /\ AskElasticsearch(u, q)
  PROVE  QueriesInv'
<1>0. Sound(db)
  BY DEF QueriesInv
<1>1. CASE q \in RawQueries /\ WalkEvents(u, q)
  <2>1. reader'.job = "events" /\ "job" \in DOMAIN reader' /\ UNCHANGED db
    BY <1>1 DEF WalkEvents
  <2>2. EventsWalk(db, reader')
    BY <1>0, <1>1, EventsWalkBegins
  <2> QED
    BY <2>1, <2>2, ReadsKeepQueries DEF RowsAreBacked
<1>2. CASE q \in ListQueries /\ WalkSessions(u, q)
  <2>1. reader'.job = "sessions" /\ "job" \in DOMAIN reader' /\ UNCHANGED db
    BY <1>2 DEF WalkSessions
  <2>2. SessionsWalk(db, reader')
    BY <1>0, <1>2, SessionsWalkBegins
  <2> QED
    BY <2>1, <2>2, ReadsKeepQueries DEF RowsAreBacked
<1>3. CASE q \in SearchQueries /\ AskElasticsearch(u, q)
  <2>1. PICK found, ranking : reader' = [job |-> "search", user |-> u, query |-> q,
                                         page |-> Pg!SearchMatchPage(ranking, q)]
    BY <1>3 DEF AskElasticsearch
  <2>2. reader'.job = "search" /\ "job" \in DOMAIN reader' /\ UNCHANGED db
    BY <1>3, <2>1 DEF AskElasticsearch
  <2> QED
    BY <2>2, ReadsKeepQueries DEF RowsAreBacked
<1> QED
  BY <1>1, <1>2, <1>3

\* A chart that is drawn.
LEMMA ChartsKeepQueries ==
  ASSUME QueriesInv, NEW u \in Users, NEW q \in ComparisonQueries, ReadChart(u, q)
  PROVE  QueriesInv'
<1>1. /\ db' = db /\ reader'.job = "chart"
      /\ reader'.query = q /\ reader'.user = u
      /\ reader'.rows = Sq!ComparisonRows(db, u, q)
      /\ "job" \in DOMAIN reader'
  BY DEF ReadChart
<1>2. RowsAreBacked'
  <2>1. q \in ComparisonQueries'
    OBVIOUS
  <2>2. ASSUME NEW r \in reader'.rows
        PROVE  \E e \in Charted(db', u, q) : r.value = Sq!Value(e, q.by)
    BY <1>1, <2>2, RowsShowCharted
  <2> QED
    BY <1>1, <2>1, <2>2, Zenon DEF RowsAreBacked
<1> QED
  BY <1>1, <1>2, ReadsKeepQueries

\* A page that is read.
LEMMA PagesKeepQueries ==
  ASSUME QueriesInv, NextEvents \/ NextSessions
  PROVE  QueriesInv'
<1>0. Sound(db) /\ "job" \in DOMAIN reader
  BY DEF QueriesInv
<1>1. CASE NextEvents
  <2>1. reader.job = "events" /\ UNCHANGED db
    BY <1>1 DEF NextEvents
  <2>2. \E seen, query, done :
          reader' = [[[reader EXCEPT !.seen = seen] EXCEPT !.query = query] EXCEPT !.done = done]
    BY <1>1, Zenon DEF NextEvents
  <2>3. reader'.job = "events" /\ "job" \in DOMAIN reader'
    BY <1>0, <2>1, <2>2
  <2>4. EventsWalk(db, reader')
    BY <1>0, <1>1, <2>1, EventsWalkContinues DEF QueriesInv
  <2> QED
    BY <2>1, <2>3, <2>4, ReadsKeepQueries DEF RowsAreBacked
<1>2. CASE NextSessions
  <2>1. reader.job = "sessions" /\ UNCHANGED db
    BY <1>2 DEF NextSessions
  <2>2. \E seen, query, done :
          reader' = [[[reader EXCEPT !.seen = seen] EXCEPT !.query = query] EXCEPT !.done = done]
    BY <1>2, Zenon DEF NextSessions
  <2>3. reader'.job = "sessions" /\ "job" \in DOMAIN reader'
    BY <1>0, <2>1, <2>2
  <2>4. SessionsWalk(db, reader')
    BY <1>0, <1>2, <2>1, SessionsWalkContinues DEF QueriesInv
  <2> QED
    BY <2>1, <2>3, <2>4, ReadsKeepQueries DEF RowsAreBacked
<1> QED
  BY <1>1, <1>2

\* Every step.
LEMMA NextQueries == QueriesInv /\ [Next]_vars => QueriesInv'
<1> SUFFICES ASSUME QueriesInv, [Next]_vars PROVE QueriesInv'
  OBVIOUS
<1>1. CASE \E s \in Submitted : Ingest(s)
  BY <1>1, IngestKeepsQueries
<1>2. CASE \E u \in Users : \/ \E q \in RawQueries : WalkEvents(u, q)
                            \/ \E q \in ListQueries : WalkSessions(u, q)
                            \/ \E q \in SearchQueries : AskElasticsearch(u, q)
  BY <1>2, BegunReadsKeepQueries
<1>3. CASE \E u \in Users, q \in ComparisonQueries : ReadChart(u, q)
  BY <1>3, ChartsKeepQueries
<1>4. CASE NextEvents \/ NextSessions
  BY <1>4, PagesKeepQueries
<1>5. CASE ReadOptions \/ AnswerSearch \/ Leave
  <2>1. UNCHANGED db /\ reader' = [job |-> "none"]
    BY <1>5 DEF ReadOptions, AnswerSearch, Leave, Idle
  <2>2. UNCHANGED db /\ "job" \in DOMAIN reader' /\ reader'.job = "none"
    BY <2>1
  <2> QED
    BY <2>2, ReadsKeepQueries DEF RowsAreBacked
<1>6. CASE UNCHANGED vars
  BY <1>6 DEF vars, QueriesInv, RowsAreBacked, Charted, RowsOf
<1> QED
  BY <1>1, <1>2, <1>3, <1>4, <1>5, <1>6, Zenon DEF Next

\* So in every state of every behaviour.
LEMMA Invariance == Spec => []QueriesInv
BY InitQueries, NextQueries, PTL DEF Spec

-----------------------------------------------------------------------------
(* What follows. *)

\* A finished walk has seen what was due, and the sessions that were not active since.
LEMMA QueriesInvImpliesWalk == QueriesInv => WalkSeesEverything
BY Zenon DEF QueriesInv, WalkSeesEverything, EventsWalk, SessionsWalk

\* Whoever follows the pages of a list to its end sees every event that was stored when
\* the walk began, and every session that was not active meanwhile, however many events
\* are ingested between two pages: pages are cut by offset (storage/sqlite/repository.rs),
\* and what is ingested moves nothing to an earlier place.
THEOREM WalkSeesEverythingHolds == Spec => []WalkSeesEverything
BY Invariance, QueriesInvImpliesWalk, PTL

\* The values of a row and of the filters are among the options, since what the row
\* was drawn from is what the options are read from, and more.
LEMMA QueriesInvImpliesCover == QueriesInv => OptionsCoverChart
<1> SUFFICES ASSUME QueriesInv, reader.job = "chart"
             PROVE  LET q == reader.query
                        options == Sq!ComparisonOptions(db, reader.user, q)
                    IN  /\ \A r \in reader.rows : q.by # "all" => <<q.by, r.value>> \in options
                        /\ reader.rows # {} =>
                             \A dim \in Dimensions :
                               q.filters[dim] # {} =>
                                 \E value \in q.filters[dim] : <<dim, value>> \in options
  BY DEF OptionsCoverChart
<1> DEFINE q == reader.query
           options == Sq!ComparisonOptions(db, reader.user, q)
<1>1. ASSUME NEW e \in Charted(db, reader.user, q), NEW dim \in Dimensions
      PROVE  /\ <<dim, Sq!Value(e, dim)>> \in options
             /\ q.filters[dim] # {} => Sq!Value(e, dim) \in q.filters[dim]
  <2>1. Sq!Dimensions = Dimensions /\ Sq!RowsOf(db) = RowsOf(db)
    BY DEF Sq!Dimensions, Dimensions, Sq!RowsOf, RowsOf
  <2>2. e.at >= Head(q.buckets).start /\ e.at < Sq!Last(q.buckets).end
    BY DEF Charted, Sq!ComparisonFilters
  <2>3. <<dim, Sq!Value(e, dim)>> \in options
    BY <1>1, <2>1, <2>2 DEF Charted, Sq!ComparisonOptions
  <2>4. Sq!AnyOf(q.filters[dim], Sq!Value(e, dim))
    BY <2>1 DEF Charted, Sq!ComparisonFilters
  <2> QED
    BY <2>3, <2>4 DEF Sq!AnyOf
<1>2. \A r \in reader.rows : \E e \in Charted(db, reader.user, q) : r.value = Sq!Value(e, q.by)
  BY DEF QueriesInv, RowsAreBacked
<1>3. q.by \in Dimensions \cup {"all"}
  BY QueryConstants DEF QueriesInv, RowsAreBacked
<1> HIDE DEF q, options
<1>4. ASSUME NEW r \in reader.rows, q.by # "all"
      PROVE  <<q.by, r.value>> \in options
  BY <1>1, <1>2, <1>3, <1>4
<1>5. ASSUME reader.rows # {}, NEW dim \in Dimensions, q.filters[dim] # {}
      PROVE  \E value \in q.filters[dim] : <<dim, value>> \in options
  BY <1>1, <1>2, <1>5
<1> QED
  BY <1>4, <1>5 DEF q, options

\* The options that are read after a chart's rows cover them, whatever was ingested in
\* between: reader and collectors share no transaction (storage/sqlite/comparison.rs).
THEOREM OptionsCoverChartHolds == Spec => []OptionsCoverChart
BY Invariance, QueriesInvImpliesCover, PTL

-----------------------------------------------------------------------------
(* Totals and counts of rows. *)

\* Total adds up tokens.
LEMMA TotalAdds ==
  ASSUME NEW S, IsFiniteSet(S), \A e \in S : e.tokens \in Int
  PROVE  Adds([T \in SUBSET S |-> Total(T)], [e \in S |-> e.tokens], S)
<1> DEFINE f == [e \in S |-> e.tokens]
<1>1. PICK g : Adds(g, f, S)
  <2>1. f \in [S -> Int]
    OBVIOUS
  <2> QED
    BY <2>1, FoldIsDefined, FoldAdds
<1>2. ASSUME NEW T \in SUBSET S PROVE Total(T) = g[T]
  <2> DEFINE h == [e \in T |-> e.tokens]
             iter == CHOOSE k : k = [U \in SUBSET T |->
                       IF U = {} THEN 0
                       ELSE k[U \ {CHOOSE x \in U : TRUE}] + (CHOOSE x \in U : TRUE).tokens]
  <2>1. IsFiniteSet(T) /\ h \in [T -> Int]
    BY FS_Subset
  <2>2. PICK k : FoldOf(k, h, T)
    BY <2>1, FoldIsDefined
  <2>3. k = [U \in SUBSET T |->
               IF U = {} THEN 0
               ELSE k[U \ {CHOOSE x \in U : TRUE}] + (CHOOSE x \in U : TRUE).tokens]
    BY <2>2 DEF FoldOf
  <2>4. iter = [U \in SUBSET T |->
               IF U = {} THEN 0
               ELSE iter[U \ {CHOOSE x \in U : TRUE}] + (CHOOSE x \in U : TRUE).tokens]
    BY <2>3, Zenon
  <2>5. Total(T) = iter[T]
    BY Zenon DEF Total, FoldSet, MapThenFoldSet
  <2> HIDE DEF iter
  <2>6. FoldOf(iter, h, T)
    BY <2>4 DEF FoldOf
  <2>7. Adds(iter, h, T)
    BY <2>1, <2>6, FoldAdds
  <2>8. \A x \in T : f[x] = h[x]
    OBVIOUS
  <2> HIDE DEF h, f
  <2>9. iter[T] = g[T]
    BY <1>1, <2>1, <2>7, <2>8, SumIsUnique
  <2> QED
    BY <2>5, <2>9, Zenon
<1> DEFINE k == [T \in SUBSET S |-> Total(T)]
<1>3. \A T \in SUBSET S : k[T] = g[T]
  BY <1>2
<1> HIDE DEF k, f
<1>4. Adds(k, f, S)
  BY <1>1, <1>3 DEF Adds
<1> QED
  BY <1>4 DEF k, f

Requests(rows) == FoldSet(LAMBDA r, n : n + r.requests, 0, rows)

\* And of their requests.
LEMMA RequestsAdd ==
  ASSUME NEW S, IsFiniteSet(S), \A e \in S : e.requests \in Int
  PROVE  Adds([T \in SUBSET S |-> Requests(T)], [e \in S |-> e.requests], S)
<1> DEFINE f == [e \in S |-> e.requests]
<1>1. PICK g : Adds(g, f, S)
  <2>1. f \in [S -> Int]
    OBVIOUS
  <2> QED
    BY <2>1, FoldIsDefined, FoldAdds
<1>2. ASSUME NEW T \in SUBSET S PROVE Requests(T) = g[T]
  <2> DEFINE h == [e \in T |-> e.requests]
             iter == CHOOSE k : k = [U \in SUBSET T |->
                       IF U = {} THEN 0
                       ELSE k[U \ {CHOOSE x \in U : TRUE}] + (CHOOSE x \in U : TRUE).requests]
  <2>1. IsFiniteSet(T) /\ h \in [T -> Int]
    BY FS_Subset
  <2>2. PICK k : FoldOf(k, h, T)
    BY <2>1, FoldIsDefined
  <2>3. k = [U \in SUBSET T |->
               IF U = {} THEN 0
               ELSE k[U \ {CHOOSE x \in U : TRUE}] + (CHOOSE x \in U : TRUE).requests]
    BY <2>2 DEF FoldOf
  <2>4. iter = [U \in SUBSET T |->
               IF U = {} THEN 0
               ELSE iter[U \ {CHOOSE x \in U : TRUE}] + (CHOOSE x \in U : TRUE).requests]
    BY <2>3, Zenon
  <2>5. Requests(T) = iter[T]
    BY Zenon DEF Requests, FoldSet, MapThenFoldSet
  <2> HIDE DEF iter
  <2>6. FoldOf(iter, h, T)
    BY <2>4 DEF FoldOf
  <2>7. Adds(iter, h, T)
    BY <2>1, <2>6, FoldAdds
  <2>8. \A x \in T : f[x] = h[x]
    OBVIOUS
  <2> HIDE DEF h, f
  <2>9. iter[T] = g[T]
    BY <1>1, <2>1, <2>7, <2>8, SumIsUnique
  <2> QED
    BY <2>5, <2>9, Zenon
<1> DEFINE k == [T \in SUBSET S |-> Requests(T)]
<1>3. \A T \in SUBSET S : k[T] = g[T]
  BY <1>2
<1> HIDE DEF k, f
<1>4. Adds(k, f, S)
  BY <1>1, <1>3 DEF Adds
<1> QED
  BY <1>4 DEF k, f

\* A cardinality counts the members that are in P.
LEMMA CountAdds ==
  ASSUME NEW S, IsFiniteSet(S), NEW P
  PROVE  Adds([T \in SUBSET S |-> Cardinality(T \cap P)],
              [x \in S |-> IF x \in P THEN 1 ELSE 0], S)
<1> DEFINE g == [T \in SUBSET S |-> Cardinality(T \cap P)]
           f == [x \in S |-> IF x \in P THEN 1 ELSE 0]
<1>1. \A T \in SUBSET S : IsFiniteSet(T \cap P) /\ Cardinality(T \cap P) \in Nat
  BY FS_Subset, FS_CardinalityType, FS_Intersection
<1>2. g[{}] = 0
  <2>1. {} \cap P = {}
    OBVIOUS
  <2> QED
    BY <2>1, FS_EmptySet
<1>3. ASSUME NEW T \in SUBSET S, NEW x \in T PROVE g[T] = g[T \ {x}] + f[x]
  <2> DEFINE A == T \cap P
             B == (T \ {x}) \cap P
  <2>1. g[T] = Cardinality(A) /\ g[T \ {x}] = Cardinality(B)
    OBVIOUS
  <2>2. CASE x \in P
    <3>1. x \in A /\ B = A \ {x}
      BY <2>2
    <3>2. Cardinality(B) = Cardinality(A) - 1
      <4>1. IsFiniteSet(A)
        BY <1>1
      <4> HIDE DEF A, B
      <4> QED
        BY <3>1, <4>1, FS_RemoveElement
    <3>3. f[x] = 1
      BY <2>2
    <3>4. Cardinality(A) \in Nat /\ Cardinality(B) \in Nat
      BY <1>1
    <3> HIDE DEF A, B, f, g
    <3>5. Cardinality(A) = Cardinality(B) + 1
      BY <3>2, <3>4
    <3> QED
      BY <2>1, <3>3, <3>5, Zenon
  <2>3. CASE x \notin P
    <3>1. A = B
      BY <2>3
    <3>2. f[x] = 0
      BY <2>3
    <3>3. Cardinality(A) \in Nat
      BY <1>1
    <3> HIDE DEF A, B, f, g
    <3> QED
      BY <2>1, <3>1, <3>2, <3>3
  <2> QED
    BY <2>2, <2>3
<1>4. \A T \in SUBSET S : g[T] \in Int
  BY <1>1
<1> HIDE DEF g, f
<1>5. Adds(g, f, S)
  BY <1>2, <1>3, <1>4 DEF Adds
<1> QED
  BY <1>5 DEF g, f

-----------------------------------------------------------------------------
(* Charts. *)

Within(b, at) == at >= b.start /\ at < b.end

\* The buckets of a valid query follow one another: a time between the first's start and
\* the last's end is in exactly one, and no two start together.
LEMMA BucketsFollow ==
  ASSUME NEW buckets \in Seq([start : Int, end : Int]), buckets # <<>>,
         \A i \in DOMAIN buckets : buckets[i].start < buckets[i].end,
         \A i \in 1..(Len(buckets) - 1) : buckets[i].end = buckets[i + 1].start
  PROVE  /\ \A i, j \in DOMAIN buckets :
              /\ buckets[i].start = buckets[j].start => i = j
              /\ \A at \in Int : Within(buckets[i], at) /\ Within(buckets[j], at) => i = j
         /\ \A at \in Int : at >= buckets[1].start /\ at < buckets[Len(buckets)].end =>
              \E i \in DOMAIN buckets : Within(buckets[i], at)
<1>1. PICK n \in Nat \ {0} : n = Len(buckets)
  <2>1. Len(buckets) \in Nat /\ Len(buckets) # 0
    BY EmptySeq
  <2> QED
    BY <2>1
<1>2. /\ DOMAIN buckets = 1..n
      /\ \A i \in 1..n : buckets[i].start \in Int /\ buckets[i].end \in Int /\ buckets[i].start < buckets[i].end
      /\ \A i \in 1..(n - 1) : buckets[i].end = buckets[i + 1].start
  <2>1. DOMAIN buckets = 1..n
    BY <1>1
  <2>2. ASSUME NEW i \in 1..n
        PROVE  buckets[i].start \in Int /\ buckets[i].end \in Int /\ buckets[i].start < buckets[i].end
    <3>1. buckets[i] \in [start : Int, end : Int]
      BY <1>1, ElementOfSeq
    <3> QED
      BY <2>1, <3>1
  <2>3. \A i \in 1..(n - 1) : buckets[i].end = buckets[i + 1].start
    BY <1>1
  <2> QED
    BY <2>1, <2>2, <2>3
<1> DEFINE S(i) == buckets[i].start
           E(i) == buckets[i].end
<1>3. /\ \A i \in 1..n : S(i) \in Int /\ E(i) \in Int /\ S(i) < E(i)
      /\ \A i \in 1..(n - 1) : E(i) = S(i + 1)
  BY <1>2
<1> HIDE DEF S, E
<1>4. ASSUME NEW i \in 1..n PROVE \A j \in 1..n : i < j => E(i) <= S(j)
  <2> DEFINE C == {j \in 1..n : i < j /\ ~(E(i) <= S(j))}
  <2>1. SUFFICES ASSUME C # {} PROVE FALSE
    OBVIOUS
  <2>2. PICK j \in C : \A k \in C : j <= k
    <3>1. C \in SUBSET Nat
      OBVIOUS
    <3> HIDE DEF C
    <3> QED
      BY <2>1, <3>1, LeastNumber
  <2>3. j - 1 \in 1..n /\ j - 1 \notin C /\ E(j - 1) = S(j) /\ j - 1 \in 1..(n - 1)
    <3>1. j \in 1..n /\ i < j /\ ~(j <= j - 1)
      BY <2>2
    <3>2. j - 1 \notin C
      BY <2>2, <3>1
    <3>3. j - 1 \in 1..(n - 1) /\ (j - 1) + 1 = j
      BY <3>1
    <3>4. E(j - 1) = S((j - 1) + 1)
      BY <1>3, <3>3
    <3> QED
      BY <3>2, <3>3, <3>4
  <2>4. i = j - 1 \/ E(i) <= S(j - 1)
    BY <2>2, <2>3
  <2>5. ~(E(i) <= S(j)) /\ j \in 1..n
    BY <2>2
  <2>6. E(i) \in Int /\ E(j - 1) \in Int /\ S(j - 1) \in Int /\ S(j) \in Int /\ S(j - 1) < E(j - 1)
    BY <1>3, <2>3, <2>5
  <2> HIDE DEF C
  <2> QED
    BY <2>3, <2>4, <2>5, <2>6
<1>5. ASSUME NEW at \in Int, at >= S(1), at < E(n)
      PROVE  \E i \in 1..n : at >= S(i) /\ at < E(i)
  <2> DEFINE C == {i \in 1..n : at < E(i)}
  <2>1. C \in SUBSET Nat /\ n \in C
    BY <1>5
  <2>2. PICK i \in C : \A k \in C : i <= k
    <3> HIDE DEF C
    <3> QED
      BY <2>1, LeastNumber
  <2>3. i \in 1..n /\ at < E(i)
    BY <2>2
  <2>4. CASE i = 1
    BY <1>5, <2>3, <2>4
  <2>5. CASE i # 1
    <3>1. i - 1 \in 1..(n - 1) /\ i - 1 \in 1..n /\ (i - 1) + 1 = i /\ ~(i <= i - 1)
      BY <2>3, <2>5
    <3>2. i - 1 \notin C
      BY <2>2, <3>1
    <3>3. E(i - 1) = S((i - 1) + 1) /\ ~(at < E(i - 1)) /\ E(i - 1) \in Int
      BY <1>3, <3>1, <3>2
    <3>4. at >= S(i)
      <4>1. E(i - 1) = S(i)
        BY <3>1, <3>3
      <4> QED
        BY <3>3, <4>1
    <3> QED
      BY <2>3, <3>4
  <2> QED
    BY <2>4, <2>5
<1>6. ASSUME NEW i \in 1..n, NEW j \in 1..n
      PROVE  /\ S(i) = S(j) => i = j
             /\ \A at \in Int : at >= S(i) /\ at < E(i) /\ at >= S(j) /\ at < E(j) => i = j
  <2>1. S(i) \in Int /\ E(i) \in Int /\ S(i) < E(i) /\ S(j) \in Int /\ E(j) \in Int /\ S(j) < E(j)
    BY <1>3
  <2>2. (i < j => E(i) <= S(j)) /\ (j < i => E(j) <= S(i))
    BY <1>4
  <2> QED
    BY <2>1, <2>2
<1> QED
  BY <1>1, <1>2, <1>5, <1>6 DEF S, E, Within

\* One bucket holds a time within the query's range, and a bucket is told by its start.
LEMMA OneBucket ==
  ASSUME NEW q \in ComparisonQueries
  PROVE  /\ \A b, c \in Sq!Range(q.buckets) : b.start = c.start => b = c
         /\ \A at \in Int : \A b, c \in Sq!Range(q.buckets) :
              Within(b, at) /\ Within(c, at) => b = c
         /\ \A at \in Int : at >= Head(q.buckets).start /\ at < Sq!Last(q.buckets).end =>
              \E b \in Sq!Range(q.buckets) : Within(b, at)
<1>1. PICK buckets \in Seq([start : Int, end : Int]) : buckets = q.buckets
  BY QueryConstants
<1>2. /\ buckets # <<>> /\ \A i \in DOMAIN buckets : buckets[i].start < buckets[i].end
      /\ \A i \in 1..(Len(buckets) - 1) : buckets[i].end = buckets[i + 1].start
  BY <1>1, QueryConstants DEF ValidComparison
<1>3. /\ \A i, j \in DOMAIN buckets :
           /\ buckets[i].start = buckets[j].start => i = j
           /\ \A at \in Int : Within(buckets[i], at) /\ Within(buckets[j], at) => i = j
      /\ \A at \in Int : at >= buckets[1].start /\ at < buckets[Len(buckets)].end =>
           \E i \in DOMAIN buckets : Within(buckets[i], at)
  BY <1>2, BucketsFollow
<1>4. /\ Head(buckets) = buckets[1] /\ Sq!Last(buckets) = buckets[Len(buckets)]
      /\ Sq!Range(buckets) = {buckets[i] : i \in DOMAIN buckets}
  BY DEF Sq!Last, Sq!Range
<1>7. \A b, c \in Sq!Range(buckets) : b.start = c.start => b = c
  BY <1>3, <1>4
<1>8. \A at \in Int : \A b, c \in Sq!Range(buckets) : Within(b, at) /\ Within(c, at) => b = c
  BY <1>3, <1>4
<1>9. \A at \in Int : at >= Head(buckets).start /\ at < Sq!Last(buckets).end =>
        \E b \in Sq!Range(buckets) : Within(b, at)
  BY <1>3, <1>4
<1> QED
  BY <1>1, <1>7, <1>8, <1>9

\* The bucket an event is in, what its row of a chart is told by, and that row.
BucketOf(q, e) == CHOOSE b \in Sq!Range(q.buckets) : Within(b, e.at)
ChartKey(q, e) == <<BucketOf(q, e).start, Sq!Value(e, q.by)>>
ChartRow(k, in) == [bucket |-> k[1], value |-> k[2], tokens |-> Sq!Total(in),
                    requests |-> Sq!Cardinality({e \in in : e.kind = "request"})]

\* The rows of the events of a chart, by their keys.
KeyedRows(d, u, q) ==
  {ChartRow(k, {e \in Charted(d, u, q) : ChartKey(q, e) = k})
     : k \in {ChartKey(q, e) : e \in Charted(d, u, q)}}

\* An event of a chart is in one bucket.
LEMMA BucketIsFound ==
  ASSUME NEW d, Sound(d), NEW u, NEW q \in ComparisonQueries, NEW e \in Charted(d, u, q)
  PROVE  /\ e.at \in Int
         /\ BucketOf(q, e) \in Sq!Range(q.buckets) /\ Within(BucketOf(q, e), e.at)
         /\ \A b \in Sq!Range(q.buckets) : Within(b, e.at) => b = BucketOf(q, e)
<1>1. e.at \in Int /\ e.at >= Head(q.buckets).start /\ e.at < Sq!Last(q.buckets).end
  BY RowsAreSound DEF Charted, Sq!ComparisonFilters
<1>2. \E b \in Sq!Range(q.buckets) : Within(b, e.at)
  BY <1>1, OneBucket
<1>3. BucketOf(q, e) \in Sq!Range(q.buckets) /\ Within(BucketOf(q, e), e.at)
  BY <1>2, Zenon DEF BucketOf
<1> QED
  BY <1>1, <1>3, OneBucket

\* The rows of the SQLite profile's chart are those of its events, by their keys.
LEMMA ChartIsKeyed ==
  ASSUME NEW d, Sound(d), NEW u, NEW q \in ComparisonQueries
  PROVE  Sq!ComparisonRows(d, u, q) = KeyedRows(d, u, q)
<1> DEFINE rows   == {e \in Sq!RowsOf(d) : e.user = u /\ d.devices[e.device] # NoRow
                                        /\ Sq!ComparisonFilters(e, q)}
           joined == {[start |-> b.start, event |-> e] : b \in Sq!Range(q.buckets), e \in rows}
           within == {j \in joined : \E b \in Sq!Range(q.buckets) :
                        j.start = b.start /\ j.event.at >= b.start /\ j.event.at < b.end}
           In(k)  == {j.event : j \in {i \in within : i.start = k[1]
                                                     /\ Sq!Value(i.event, q.by) = k[2]}}
           keys   == {<<j.start, Sq!Value(j.event, q.by)>> : j \in within}
           charted == Charted(d, u, q)
<1> DEFINE joint(b, e) == [start |-> b.start, event |-> e]
           Of(k)     == {e \in charted : ChartKey(q, e) = k}
<1>1. Sq!ComparisonRows(d, u, q) = {ChartRow(k, In(k)) : k \in keys}
  BY DEF Sq!ComparisonRows, ChartRow
<1>2. rows = charted
  BY DEF Charted, Sq!RowsOf, RowsOf
<1>3. \A e \in charted :
        /\ e.at \in Int /\ BucketOf(q, e) \in Sq!Range(q.buckets) /\ Within(BucketOf(q, e), e.at)
        /\ \A b \in Sq!Range(q.buckets) : Within(b, e.at) => b = BucketOf(q, e)
  BY BucketIsFound
<1>a. \A b, e : joint(b, e).start = b.start /\ joint(b, e).event = e
  OBVIOUS
<1>b. joined = {joint(b, e) : b \in Sq!Range(q.buckets), e \in charted}
  BY <1>2
<1>c. \A b, c, e : b.start = c.start => joint(b, e) = joint(c, e)
  OBVIOUS
<1> HIDE DEF joint, rows, joined, charted
<1>4. within = {joint(BucketOf(q, e), e) : e \in charted}
  <2>1. ASSUME NEW j \in within
        PROVE  \E e \in charted : j = joint(BucketOf(q, e), e)
    <3>1. PICK a \in Sq!Range(q.buckets), e \in charted : j = joint(a, e)
      BY <1>b
    <3>2. PICK b \in Sq!Range(q.buckets) : j.start = b.start /\ Within(b, j.event.at)
      BY DEF Within
    <3>3. j.event = e /\ j.start = a.start
      BY <1>a, <3>1
    <3>4. b = BucketOf(q, e)
      BY <1>3, <3>2, <3>3
    <3>5. a.start = BucketOf(q, e).start
      BY <3>2, <3>3, <3>4
    <3> QED
      BY <1>c, <3>1, <3>5
  <2>2. ASSUME NEW e \in charted
        PROVE  joint(BucketOf(q, e), e) \in within
    <3>1. BucketOf(q, e) \in Sq!Range(q.buckets) /\ Within(BucketOf(q, e), e.at)
      BY <1>3
    <3>2. joint(BucketOf(q, e), e) \in joined
      BY <1>b, <3>1
    <3> QED
      BY <1>a, <3>1, <3>2 DEF Within
  <2> HIDE DEF within
  <2> QED
    BY <2>1, <2>2
<1> HIDE DEF within
<1>5. keys = {ChartKey(q, e) : e \in charted}
  BY <1>a, <1>4 DEF ChartKey
<1>6. ASSUME NEW k \in keys PROVE In(k) = Of(k)
  <2>1. k = <<k[1], k[2]>>
    BY <1>5 DEF ChartKey
  <2>2. \A e \in charted : ChartKey(q, e) = k <=> BucketOf(q, e).start = k[1] /\ Sq!Value(e, q.by) = k[2]
    BY <2>1 DEF ChartKey
  <2>3. ASSUME NEW e \in In(k) PROVE e \in charted /\ ChartKey(q, e) = k
    <3>1. PICK j \in within : j.start = k[1] /\ Sq!Value(j.event, q.by) = k[2] /\ e = j.event
      OBVIOUS
    <3>2. PICK f \in charted : j = joint(BucketOf(q, f), f)
      BY <1>4, <3>1
    <3>3. e = f /\ BucketOf(q, f).start = k[1]
      BY <1>a, <3>1, <3>2
    <3> HIDE DEF In
    <3> QED
      BY <2>2, <3>1, <3>2, <3>3
  <2>4. ASSUME NEW e \in charted, ChartKey(q, e) = k PROVE e \in In(k)
    <3>1. joint(BucketOf(q, e), e) \in within
      BY <1>4
    <3>2. joint(BucketOf(q, e), e).start = k[1] /\ joint(BucketOf(q, e), e).event = e /\ Sq!Value(e, q.by) = k[2]
      BY <1>a, <2>2, <2>4
    <3> QED
      BY <3>1, <3>2
  <2> HIDE DEF In
  <2> QED
    BY <2>3, <2>4
<1> HIDE DEF keys, In
<1>7. {ChartRow(k, In(k)) : k \in keys} = {ChartRow(k, Of(k)) : k \in keys}
  <2> HIDE DEF Of
  <2> QED
    BY <1>6
<1> QED
  BY <1>1, <1>5, <1>7 DEF charted, KeyedRows

\* The rows of a chart divide what it is drawn from: each event is in one row, which adds up
\* the events it has.
LEMMA ChartIsDivided ==
  ASSUME NEW d, Sound(d), NEW u, NEW q \in ComparisonQueries
  PROVE  /\ IsFiniteSet(Sq!ComparisonRows(d, u, q))
         /\ \E part \in [Charted(d, u, q) -> Sq!ComparisonRows(d, u, q)] :
              \A r \in Sq!ComparisonRows(d, u, q) :
                LET in == {e \in Charted(d, u, q) : part[e] = r}
                IN  /\ r.tokens = Sq!Total(in)
                    /\ r.requests = Cardinality({e \in in : e.kind = "request"})
<1> DEFINE charted == Charted(d, u, q)
           rows    == Sq!ComparisonRows(d, u, q)
           Of(k)   == {e \in charted : ChartKey(q, e) = k}
           Row(k)  == ChartRow(k, Of(k))
           keys    == {ChartKey(q, e) : e \in charted}
           part    == [e \in charted |-> Row(ChartKey(q, e))]
<1>1. rows = {Row(k) : k \in keys}
  <2>1. rows = KeyedRows(d, u, q)
    BY ChartIsKeyed
  <2>2. KeyedRows(d, u, q) = {Row(k) : k \in keys}
    BY Zenon DEF KeyedRows
  <2> QED
    BY <2>1, <2>2, Zenon
<1>2. \A k, in : /\ ChartRow(k, in).bucket = k[1] /\ ChartRow(k, in).value = k[2]
                 /\ ChartRow(k, in).tokens = Sq!Total(in)
                 /\ ChartRow(k, in).requests = Sq!Cardinality({e \in in : e.kind = "request"})
  BY DEF ChartRow
<1> HIDE DEF charted, rows
<1>3. part \in [charted -> rows] /\ rows = {part[e] : e \in charted}
  <2> HIDE DEF Row
  <2> QED
    BY <1>1
<1>4. ASSUME NEW r \in rows
      PROVE  LET in == {e \in charted : part[e] = r}
             IN  /\ r.tokens = Sq!Total(in)
                 /\ r.requests = Cardinality({e \in in : e.kind = "request"})
  <2>1. PICK f \in charted : r = Row(ChartKey(q, f))
    <3> HIDE DEF Row
    <3> QED
      BY <1>1
  <2> DEFINE k == ChartKey(q, f)
  <2>2. r.bucket = k[1] /\ r.value = k[2] /\ r.tokens = Sq!Total(Of(k))
        /\ r.requests = Sq!Cardinality({e \in Of(k) : e.kind = "request"})
    BY <1>2, <2>1
  <2>3. ASSUME NEW e \in charted PROVE part[e] = r <=> ChartKey(q, e) = k
    <3>1. part[e] = Row(ChartKey(q, e))
      OBVIOUS
    <3>2. Row(ChartKey(q, e)).bucket = ChartKey(q, e)[1] /\ Row(ChartKey(q, e)).value = ChartKey(q, e)[2]
      BY <1>2
    <3>3. ChartKey(q, e) = <<ChartKey(q, e)[1], ChartKey(q, e)[2]>> /\ k = <<k[1], k[2]>>
      BY DEF ChartKey
    <3> HIDE DEF Row, part
    <3> QED
      BY <2>1, <2>2, <3>1, <3>2, <3>3
  <2>4. {e \in charted : part[e] = r} = Of(k)
    <3> HIDE DEF part
    <3> QED
      BY <2>3
  <2> HIDE DEF part
  <2> QED
    BY <2>2, <2>4, SameOperators
<1>5. IsFiniteSet(rows)
  <2>1. IsFiniteSet(charted)
    BY RowsAreSound, FS_Subset DEF charted, Charted
  <2> HIDE DEF part
  <2> QED
    BY <1>3, <2>1, ImageIsFinite
<1> HIDE DEF part
<1> QED
  BY <1>3, <1>4, <1>5 DEF charted, rows

\* The rows of a chart add up to what it is drawn from.
LEMMA ChartAddsUp ==
  ASSUME NEW d, Sound(d), NEW u, NEW q \in ComparisonQueries
  PROVE  /\ Total(Sq!ComparisonRows(d, u, q)) = Total(Charted(d, u, q))
         /\ Requests(Sq!ComparisonRows(d, u, q))
              = Cardinality({e \in Charted(d, u, q) : e.kind = "request"})
<1>1. PICK charted, rows : charted = Charted(d, u, q) /\ rows = Sq!ComparisonRows(d, u, q)
  OBVIOUS
<1>2. IsFiniteSet(rows)
  BY <1>1, ChartIsDivided
<1>3. PICK part \in [charted -> rows] :
        \A r \in rows :
          LET in == {e \in charted : part[e] = r}
          IN  /\ r.tokens = Sq!Total(in)
              /\ r.requests = Cardinality({e \in in : e.kind = "request"})
  BY <1>1, ChartIsDivided
<1>4. IsFiniteSet(charted) /\ \A e \in charted : e.tokens \in Nat
  <2>1. charted \subseteq RowsOf(d)
    BY <1>1, Zenon DEF Charted
  <2>2. IsFiniteSet(RowsOf(d)) /\ \A e \in RowsOf(d) : e.tokens \in Nat
    BY RowsAreSound, Zenon
  <2>3. IsFiniteSet(charted)
    BY <2>1, <2>2, FS_Subset, Zenon
  <2> QED
    BY <2>1, <2>2, <2>3, Zenon
<1>5. \A S : Sq!Total(S) = Total(S)
  BY SMT DEF Sq!Total, Total, Sq!FoldSet, FoldSet, Sq!MapThenFoldSet, MapThenFoldSet
<1> DEFINE P == {e \in charted : e.kind = "request"}
           g == [T \in SUBSET charted |-> Total(T)]
           f == [e \in charted |-> e.tokens]
           c == [T \in SUBSET charted |-> Cardinality(T \cap P)]
           o == [e \in charted |-> IF e \in P THEN 1 ELSE 0]
           In(r) == {e \in charted : part[e] = r}
<1>6. Adds(g, f, charted) /\ (\A x \in charted : f[x] \in Int) /\ \A T \in SUBSET charted : g[T] = Total(T)
  <2>1. \A e \in charted : e.tokens \in Int
    BY <1>4
  <2> QED
    BY <1>4, <2>1, TotalAdds
<1>7. /\ Adds(c, o, charted) /\ \A x \in charted : o[x] \in Int
      /\ \A T \in SUBSET charted : c[T] = Cardinality(T \cap P)
  <2>1. Adds(c, o, charted)
    <3> HIDE DEF P
    <3> QED
      BY <1>4, CountAdds
  <2> HIDE DEF P
  <2> QED
    BY <2>1
<1> HIDE DEF g, f, c, o
<1>8. ASSUME NEW r \in rows
      PROVE  r.tokens = g[In(r)] /\ r.requests = c[In(r)] /\ r.tokens \in Int /\ r.requests \in Int
  <2>1. In(r) \in SUBSET charted
    OBVIOUS
  <2>2. r.tokens = Total(In(r)) /\ r.requests = Cardinality({e \in In(r) : e.kind = "request"})
    BY <1>3, <1>5
  <2>3. {e \in In(r) : e.kind = "request"} = In(r) \cap P
    OBVIOUS
  <2> HIDE DEF In, P
  <2>4. r.tokens = g[In(r)] /\ r.requests = c[In(r)]
    BY <1>6, <1>7, <2>1, <2>2, <2>3
  <2>5. g[In(r)] \in Int /\ c[In(r)] \in Int
    BY <1>6, <1>7, <2>1 DEF Adds
  <2> QED
    BY <2>4, <2>5
<1> DEFINE k == [T \in SUBSET rows |-> Total(T)]
           h == [r \in rows |-> r.tokens]
           l == [T \in SUBSET rows |-> Requests(T)]
           m == [r \in rows |-> r.requests]
<1> DEFINE Sums(v, w) == \A r \in rows : \E T \in SUBSET charted :
                           v[r] = w[T] /\ \A x \in charted : x \in T <=> part[x] = r
<1>a. \A r \in rows : In(r) \in SUBSET charted /\ \A x \in charted : x \in In(r) <=> part[x] = r
  OBVIOUS
<1>9. Adds(k, h, rows) /\ k[rows] = Total(rows) /\ Sums(h, g)
  <2> HIDE DEF In
  <2>1. Adds(k, h, rows)
    BY <1>2, <1>8, TotalAdds
  <2> QED
    BY <1>a, <1>8, <2>1
<1>10. Adds(l, m, rows) /\ l[rows] = Requests(rows) /\ Sums(m, c)
  <2> HIDE DEF In
  <2>1. Adds(l, m, rows)
    BY <1>2, <1>8, RequestsAdd
  <2> QED
    BY <1>a, <1>8, <2>1
<1> HIDE DEF k, h, l, m, In
<1>11. k[rows] = g[charted]
  BY <1>2, <1>3, <1>4, <1>6, <1>9, SumOfParts
<1>12. l[rows] = c[charted]
  <2> HIDE DEF P
  <2> QED
    BY <1>2, <1>3, <1>4, <1>7, <1>10, SumOfParts
<1>13. charted \cap P = P
  OBVIOUS
<1>14. g[charted] = Total(charted) /\ c[charted] = Cardinality(P)
  <2> HIDE DEF P
  <2> QED
    BY <1>6, <1>7, <1>13
<1> QED
  BY <1>1, <1>9, <1>10, <1>11, <1>12, <1>14

-----------------------------------------------------------------------------
(* Structures. *)

\* The events of the session with number n, and their order.
InSession(d, n) == {e \in RowsOf(d) : d.sessions[e.session].pk = n}
Earlier(rows)   == {p \in rows \X rows : Sq!SessionOrder(p[1], p[2])}

\* A structure has the events of its session, each at a position of its own.
LEMMA StreamIsWhole ==
  ASSUME NEW d, Sound(d), NEW n
  PROVE  /\ Sq!StreamEvents(d, n) \in [1..Cardinality(InSession(d, n)) -> InSession(d, n)]
         /\ Cardinality(InSession(d, n)) \in Nat
         /\ \A e \in InSession(d, n) : \E i \in 1..Cardinality(InSession(d, n)) :
              Sq!StreamEvents(d, n)[i] = e
<1> DEFINE rows  == InSession(d, n)
           order == Sq!StreamEvents(d, n)
           R     == Earlier(rows)
<1>1. IsFiniteSet(rows) /\ rows \subseteq RowsOf(d) /\ Sq!RowsOf(d) = RowsOf(d)
  BY RowsAreSound, FS_Subset DEF InSession
<1>2. /\ \A e \in rows : e.at \in Int /\ e.pk \in Nat /\ e.kind \in {"request", "response"}
      /\ \A e, f \in rows : e.pk = f.pk => e = f
  BY <1>1, RowsAreSound
<1>3. order = [m \in 1..Sq!Cardinality(rows) |->
                CHOOSE s \in rows : Sq!Cardinality({t \in rows : Sq!SessionOrder(t, s)}) = m - 1]
  BY <1>1 DEF InSession, Sq!StreamEvents, Sq!Sorted
<1> HIDE DEF rows, order
<1>4. \A a, b \in rows : <<a, b>> \in R <=> Sq!SessionOrder(a, b)
  BY DEF Earlier
<1>5. IsOrder(R, rows)
  <2>1. \A a \in rows : ~Sq!SessionOrder(a, a)
    BY <1>2 DEF Sq!SessionOrder
  <2>2. ASSUME NEW a \in rows, NEW b \in rows, NEW c \in rows,
               Sq!SessionOrder(a, b), Sq!SessionOrder(b, c)
        PROVE  Sq!SessionOrder(a, c)
    BY <1>2, <2>2 DEF Sq!SessionOrder
  <2>3. ASSUME NEW a \in rows, NEW b \in rows
        PROVE  a = b \/ Sq!SessionOrder(a, b) \/ Sq!SessionOrder(b, a)
    BY <1>2 DEF Sq!SessionOrder
  <2> HIDE DEF R
  <2> QED
    BY <1>4, <2>1, <2>2, <2>3 DEF IsOrder
<1>6. PICK m \in Nat : m = Cardinality(rows)
  BY <1>1, FS_CardinalityType
<1>7. \A s \in rows : Rank(R, rows, s) = Sq!Cardinality({t \in rows : Sq!SessionOrder(t, s)})
  <2> SUFFICES ASSUME NEW s \in rows
               PROVE  Rank(R, rows, s) = Sq!Cardinality({t \in rows : Sq!SessionOrder(t, s)})
    OBVIOUS
  <2>1. {t \in rows : <<t, s>> \in R} = {t \in rows : Sq!SessionOrder(t, s)}
    BY <1>4
  <2> QED
    BY <2>1, SameOperators DEF Rank
<1> HIDE DEF R
<1>8. ASSUME NEW i \in 1..m
      PROVE  order[i] \in rows /\ Rank(R, rows, order[i]) = i - 1
  <2>1. order[i] = CHOOSE s \in rows : Sq!Cardinality({t \in rows : Sq!SessionOrder(t, s)}) = i - 1
    BY <1>3, <1>6, SameOperators
  <2>2. PICK s \in rows : Rank(R, rows, s) = i - 1
    BY <1>1, <1>5, <1>6, RankIsBijection
  <2>3. Sq!Cardinality({t \in rows : Sq!SessionOrder(t, s)}) = i - 1
    BY <1>7, <2>2
  <2>4. order[i] \in rows /\ Sq!Cardinality({t \in rows : Sq!SessionOrder(t, order[i])}) = i - 1
    BY <2>1, <2>3, Zenon
  <2> QED
    BY <1>7, <2>4
<1>9. order \in [1..m -> rows]
  <2>1. Sq!Cardinality(rows) = m
    BY <1>6, SameOperators
  <2> QED
    BY <1>3, <1>8, <2>1
<1>10. ASSUME NEW e \in rows PROVE \E i \in 1..m : order[i] = e
  <2>1. PICK r \in Nat : r = Rank(R, rows, e) /\ r < m
    BY <1>1, <1>5, <1>6, RankGrows
  <2>2. r + 1 \in 1..m /\ (r + 1) - 1 = r
    BY <2>1
  <2>3. order[r + 1] \in rows /\ Rank(R, rows, order[r + 1]) = r
    BY <1>8, <2>2
  <2>4. order[r + 1] = e
    BY <1>1, <1>5, <2>1, <2>3, RankIsBijection
  <2> QED
    BY <2>2, <2>4
<1> QED
  BY <1>6, <1>9, <1>10 DEF rows, order

-----------------------------------------------------------------------------
(* Summaries. *)

\* The events of a summary that one of its rows is about.
GroupEvents(d, q, offsets, rows, group) == {e \in rows : Sq!GroupOf(d, q, offsets, e) = group}

\* A row of a summary has the events of its group by session, adds up their tokens and counts
\* their sessions and requests.
RowIsTrue(d, q, offsets, rows, g) ==
  LET in == GroupEvents(d, q, offsets, rows, g.group)
  IN  /\ in # {}
      /\ g.sessions = {[session |-> s, pks |-> {e.pk : e \in {f \in in : f.session = s}}]
                         : s \in {e.session : e \in in}}
      /\ g.tokens = Total(in)
      /\ g.count = Cardinality({e.session : e \in in})
      /\ g.requests = Cardinality({e \in in : e.kind = "request"})

\* The rows of a summary divide the events it selects by their groups.
LEMMA SummaryIsDivided ==
  ASSUME NEW d, NEW q, NEW offsets, NEW rows, IsFiniteSet(rows), \A e \in rows : e.tokens \in Nat,
         NEW summary, summary = Sq!SummaryRows(d, q, offsets, rows)
  PROVE  /\ IsFiniteSet(summary)
         /\ \A g, h \in summary : g.group = h.group => g = h
         /\ \A e \in rows : \E g \in summary : g.group = Sq!GroupOf(d, q, offsets, e)
         /\ \A g \in summary : RowIsTrue(d, q, offsets, rows, g)
<1> DEFINE G(e)    == Sq!GroupOf(d, q, offsets, e)
           key(e)  == [group |-> G(e), session |-> e.session]
           keys    == {key(e) : e \in rows}
           Of(k)   == {e \in rows : e.session = k.session /\ G(e) = k.group}
           Part(k) == [key |-> k, pks |-> {e.pk : e \in Of(k)}, tokens |-> Sq!Total(Of(k)),
                       requests |-> Sq!Cardinality({e \in Of(k) : e.kind = "request"})]
           parts   == Sq!BySession(d, q, offsets, rows)
           In(g)   == {p \in parts : p.key.group = g}
           groups  == {p.key.group : p \in parts}
           Row(g)  == [group |-> g, count |-> Sq!Cardinality(In(g)),
                       sessions |-> {[session |-> p.key.session, pks |-> p.pks] : p \in In(g)},
                       tokens |-> Sq!FoldSet(LAMBDA p, n : n + p.tokens, 0, In(g)),
                       requests |-> Sq!FoldSet(LAMBDA p, n : n + p.requests, 0, In(g))]
<1>1. summary = {Row(g) : g \in groups}
  BY Zenon DEF Sq!SummaryRows
<1>2. parts = {Part(k) : k \in keys}
  BY DEF Sq!BySession
<1>3. \A S : /\ Sq!Total(S) = Total(S) /\ Sq!FoldSet(LAMBDA p, n : n + p.tokens, 0, S) = Total(S)
             /\ Sq!FoldSet(LAMBDA p, n : n + p.requests, 0, S) = Requests(S)
  BY DEF Sq!Total, Total, Requests, Sq!FoldSet, FoldSet, Sq!MapThenFoldSet, MapThenFoldSet
<1>4. \A k : /\ Part(k).key = k /\ Part(k).pks = {e.pk : e \in Of(k)} /\ Part(k).tokens = Total(Of(k))
             /\ Part(k).requests = Cardinality({e \in Of(k) : e.kind = "request"})
  BY <1>3, SameOperators, Zenon
<1>5. \A e \in rows : key(e).group = G(e) /\ key(e).session = e.session
  OBVIOUS
<1>6. \A e, f \in rows : G(e) = G(f) /\ e.session = f.session => key(e) = key(f)
  OBVIOUS
<1>7. \A g : /\ Row(g).group = g /\ Row(g).count = Cardinality(In(g)) /\ Row(g).tokens = Total(In(g))
             /\ Row(g).sessions = {[session |-> p.key.session, pks |-> p.pks] : p \in In(g)}
             /\ Row(g).requests = Requests(In(g))
  BY <1>3, SameOperators, Zenon
<1> HIDE DEF G, Part, parts, Row, key
<1>8. groups = {G(e) : e \in rows}
  <2>1. \A e \in rows : Part(key(e)) \in parts /\ Part(key(e)).key.group = G(e)
    BY <1>2, <1>4, <1>5
  <2>2. \A p \in parts : \E e \in rows : p = Part(key(e))
    BY <1>2
  <2> QED
    BY <2>1, <2>2
<1>9. ASSUME NEW e \in rows
      PROVE  Of(key(e)) = {f \in rows : key(f) = key(e)}
  BY <1>5, <1>6
<1> HIDE DEF Of, groups
<1> DEFINE in(g) == {e \in rows : G(e) = g}
<1>10. ASSUME NEW g \in groups
       PROVE  /\ \A e \in in(g) : Part(key(e)) \in In(g)
              /\ \A p \in In(g) : \E e \in in(g) : p = Part(key(e))
  <2>1. \A e \in in(g) : Part(key(e)) \in In(g)
    BY <1>2, <1>4, <1>5
  <2>2. ASSUME NEW p \in In(g) PROVE \E e \in in(g) : p = Part(key(e))
    <3>1. PICK e \in rows : p = Part(key(e))
      BY <1>2
    <3>2. p.key.group = G(e)
      BY <1>4, <1>5, <3>1
    <3> QED
      BY <3>1, <3>2
  <2> QED
    BY <2>1, <2>2
<1>11. ASSUME NEW g \in groups
       PROVE  /\ Cardinality(In(g)) = Cardinality({e.session : e \in in(g)})
              /\ Total(In(g)) = Total(in(g))
              /\ Requests(In(g)) = Cardinality({e \in in(g) : e.kind = "request"})
              /\ in(g) # {}
              /\ {[session |-> p.key.session, pks |-> p.pks] : p \in In(g)}
                   = {[session |-> s, pks |-> {e.pk : e \in {f \in in(g) : f.session = s}}]
                        : s \in {e.session : e \in in(g)}}
  <2>0. in(g) # {}
    BY <1>8
  <2>1. IsFiniteSet(in(g)) /\ in(g) \subseteq rows /\ \A e \in in(g) : G(e) = g /\ e.tokens \in Nat
    BY FS_Subset
  <2>2. IsFiniteSet(In(g))
    <3> DEFINE part == [e \in in(g) |-> Part(key(e))]
    <3>1. IsFiniteSet({part[e] : e \in in(g)})
      <4> HIDE DEF part, in
      <4> QED
        BY <2>1, ImageIsFinite
    <3>2. In(g) = {part[e] : e \in in(g)}
      <4> HIDE DEF in, In
      <4> QED
        BY <1>10
    <3> QED
      BY <3>1, <3>2
  <2> HIDE DEF In
  <2>3. Cardinality(In(g)) = Cardinality({e.session : e \in in(g)})
    <3> DEFINE f == [p \in In(g) |-> p.key.session]
    <3>1. {f[p] : p \in In(g)} = {e.session : e \in in(g)}
      <4>1. ASSUME NEW e \in in(g) PROVE e.session = Part(key(e)).key.session
        BY <1>4, <1>5, <2>1
      <4> HIDE DEF in
      <4> QED
        BY <1>10, <4>1
    <3>2. ASSUME NEW p \in In(g), NEW r \in In(g), f[p] = f[r] PROVE p = r
      <4>1. PICK e \in in(g) : p = Part(key(e))
        BY <1>10
      <4>2. PICK h \in in(g) : r = Part(key(h))
        BY <1>10
      <4>3. e.session = h.session /\ G(e) = G(h)
        BY <1>4, <1>5, <2>1, <3>2, <4>1, <4>2
      <4>4. key(e) = key(h)
        BY <1>6, <2>1, <4>3
      <4> QED
        BY <4>1, <4>2, <4>4
    <3> HIDE DEF f, in
    <3>3. Cardinality({f[p] : p \in In(g)}) = Cardinality(In(g))
      BY <2>2, <3>2, ImageIsFinite
    <3> QED
      BY <3>1, <3>3
  <2>4. Total(In(g)) = Total(in(g))
    <3> DEFINE part == [e \in in(g) |-> Part(key(e))]
               S == in(g)
               R == In(g)
               f == [e \in S |-> e.tokens]
               v == [T \in SUBSET S |-> Total(T)]
               h == [r \in R |-> r.tokens]
               k == [T \in SUBSET R |-> Total(T)]
    <3>1. part \in [S -> R]
      BY <1>10
    <3>2. Adds(v, f, S) /\ (\A x \in S : f[x] \in Int) /\ \A T \in SUBSET S : v[T] = Total(T)
      <4> HIDE DEF in
      <4>1. \A e \in S : e.tokens \in Int
        BY <2>1
      <4> QED
        BY <2>1, <4>1, TotalAdds
    <3>3. ASSUME NEW r \in R
          PROVE  /\ r.tokens \in Int
                 /\ \E T \in SUBSET S : r.tokens = v[T] /\ \A x \in S : x \in T <=> part[x] = r
      <4>1. PICK e \in S : r = Part(key(e))
        BY <1>10
      <4> DEFINE T == {x \in rows : key(x) = key(e)}
      <4>2. r.tokens = Total(T)
        BY <1>4, <1>9, <2>1, <4>1
      <4>3. T \in SUBSET S
        BY <1>5, <2>1, <4>1
      <4>4. ASSUME NEW x \in S PROVE x \in T <=> part[x] = r
        <5>1. part[x] = Part(key(x)) /\ x \in rows
          BY <2>1
        <5>2. Part(key(x)) = Part(key(e)) => key(x) = key(e)
          BY <1>4
        <5> HIDE DEF part
        <5> QED
          BY <4>1, <5>1, <5>2
      <4> HIDE DEF T, v, S, part
      <4>5. r.tokens = v[T]
        BY <3>2, <4>2, <4>3
      <4>6. v[T] \in Int
        BY <3>2, <4>3 DEF Adds
      <4> QED
        BY <4>3, <4>4, <4>5, <4>6
    <3>4. Adds(k, h, R) /\ k[R] = Total(R) /\ \A r \in R : h[r] = r.tokens
      <4> HIDE DEF in, S, part, v
      <4>1. Adds(k, h, R)
        BY <2>2, <3>3, TotalAdds
      <4> QED
        BY <4>1
    <3>5. \A r \in R : \E T \in SUBSET S : h[r] = v[T] /\ \A x \in S : x \in T <=> part[x] = r
      <4> HIDE DEF in, S, part, v, h, R
      <4> QED
        BY <3>3, <3>4
    <3>6. IsFiniteSet(S) /\ IsFiniteSet(R)
      BY <2>1, <2>2
    <3>7. v[S] = Total(in(g)) /\ k[R] = Total(In(g))
      BY <3>2
    <3> HIDE DEF part, S, R, f, v, h, k
    <3>8. k[R] = v[S]
      BY <3>1, <3>2, <3>4, <3>5, <3>6, SumOfParts
    <3> QED
      BY <3>7, <3>8
  <2>5. {[session |-> p.key.session, pks |-> p.pks] : p \in In(g)}
          = {[session |-> s, pks |-> {e.pk : e \in {f \in in(g) : f.session = s}}]
               : s \in {e.session : e \in in(g)}}
    <3>1. ASSUME NEW e \in in(g)
          PROVE  /\ Part(key(e)).key.session = e.session
                 /\ Part(key(e)).pks = {x.pk : x \in {f \in in(g) : f.session = e.session}}
      <4>1. Of(key(e)) = {f \in in(g) : f.session = e.session}
        BY <1>5, <2>1 DEF Of
      <4> HIDE DEF in
      <4> QED
        BY <1>4, <1>5, <2>1, <4>1
    <3> DEFINE PartOf(s) == [session |-> s, pks |-> {e.pk : e \in {f \in in(g) : f.session = s}}]
           Shown(p)  == [session |-> p.key.session, pks |-> p.pks]
    <3>2. \A e \in in(g) : Shown(Part(key(e))) = PartOf(e.session)
      BY <3>1
    <3> HIDE DEF PartOf, Shown
    <3>3. {Shown(p) : p \in In(g)} = {PartOf(e.session) : e \in in(g)}
      <4> HIDE DEF in
      <4> QED
        BY <1>10, <3>2
    <3>4. {PartOf(e.session) : e \in in(g)} = {PartOf(s) : s \in {e.session : e \in in(g)}}
      <4> HIDE DEF in
      <4> QED
        OBVIOUS
    <3> QED
      BY <3>3, <3>4 DEF PartOf, Shown
  <2>6. Requests(In(g)) = Cardinality({e \in in(g) : e.kind = "request"})
    <3> DEFINE part == [e \in in(g) |-> Part(key(e))]
               S == in(g)
               R == In(g)
               P == {e \in S : e.kind = "request"}
               f == [e \in S |-> IF e \in P THEN 1 ELSE 0]
               v == [T \in SUBSET S |-> Cardinality(T \cap P)]
               h == [r \in R |-> r.requests]
               k == [T \in SUBSET R |-> Requests(T)]
    <3>1. part \in [S -> R]
      BY <1>10
    <3>2. Adds(v, f, S) /\ (\A x \in S : f[x] \in Int)
          /\ \A T \in SUBSET S : v[T] = Cardinality(T \cap P)
      <4> HIDE DEF in, P
      <4> QED
        BY <2>1, CountAdds
    <3>3. ASSUME NEW r \in R
          PROVE  /\ r.requests \in Int
                 /\ \E T \in SUBSET S : r.requests = v[T] /\ \A x \in S : x \in T <=> part[x] = r
      <4>1. PICK e \in S : r = Part(key(e))
        BY <1>10
      <4> DEFINE T == {x \in rows : key(x) = key(e)}
      <4>2. r.requests = Cardinality({x \in T : x.kind = "request"})
        BY <1>4, <1>9, <2>1, <4>1
      <4>3. T \in SUBSET S
        BY <1>5, <2>1, <4>1
      <4>4. ASSUME NEW x \in S PROVE x \in T <=> part[x] = r
        <5>1. part[x] = Part(key(x)) /\ x \in rows
          BY <2>1
        <5>2. Part(key(x)) = Part(key(e)) => key(x) = key(e)
          BY <1>4
        <5> HIDE DEF part
        <5> QED
          BY <4>1, <5>1, <5>2
      <4>5. {x \in T : x.kind = "request"} = T \cap P
        BY <4>3
      <4> HIDE DEF T, v, S, part, P
      <4>6. r.requests = v[T]
        BY <3>2, <4>2, <4>3, <4>5
      <4>7. v[T] \in Int
        BY <3>2, <4>3 DEF Adds
      <4> QED
        BY <4>3, <4>4, <4>6, <4>7
    <3>4. Adds(k, h, R) /\ k[R] = Requests(R) /\ \A r \in R : h[r] = r.requests
      <4> HIDE DEF in, S, part, v, P
      <4>1. Adds(k, h, R)
        BY <2>2, <3>3, RequestsAdd
      <4> QED
        BY <4>1
    <3>5. \A r \in R : \E T \in SUBSET S : h[r] = v[T] /\ \A x \in S : x \in T <=> part[x] = r
      <4> HIDE DEF in, S, part, v, h, R, P
      <4> QED
        BY <3>3, <3>4
    <3>6. IsFiniteSet(S) /\ IsFiniteSet(R) /\ S \cap P = P
      BY <2>1, <2>2
    <3> HIDE DEF part, S, R, f, v, h, k, P
    <3>7. v[S] = Cardinality(P)
      BY <3>2, <3>6
    <3>8. k[R] = v[S]
      BY <3>1, <3>2, <3>4, <3>5, <3>6, SumOfParts
    <3>9. Requests(R) = Cardinality(P)
      BY <3>4, <3>7, <3>8
    <3> QED
      BY <3>9 DEF R, P, S
  <2> QED
    BY <2>0, <2>3, <2>4, <2>5, <2>6
<1>12. IsFiniteSet(summary)
  <2> DEFINE r == [e \in rows |-> Row(G(e))]
  <2>1. IsFiniteSet({r[e] : e \in rows})
    <3> HIDE DEF r
    <3> QED
      BY ImageIsFinite
  <2>2. summary = {r[e] : e \in rows}
    BY <1>1, <1>8
  <2> QED
    BY <2>1, <2>2
<1>13. \A g, h \in summary : g.group = h.group => g = h
  BY <1>1, <1>7
<1>14. \A e \in rows : \E g \in summary : g.group = G(e)
  BY <1>1, <1>7, <1>8
<1>15. ASSUME NEW r \in summary PROVE RowIsTrue(d, q, offsets, rows, r)
  <2>1. PICK g \in groups : r = Row(g)
    BY <1>1
  <2>2. r.group = g /\ in(g) = GroupEvents(d, q, offsets, rows, r.group)
    BY <1>7, <2>1 DEF GroupEvents, G
  <2> HIDE DEF in, In
  <2>3. /\ r.tokens = Total(in(g)) /\ r.count = Cardinality({e.session : e \in in(g)}) /\ in(g) # {}
        /\ r.requests = Cardinality({e \in in(g) : e.kind = "request"})
    BY <1>7, <1>11, <2>1
  <2>4. r.sessions = {[session |-> s, pks |-> {e.pk : e \in {f \in in(g) : f.session = s}}]
                        : s \in {e.session : e \in in(g)}}
    BY <1>7, <1>11, <2>1, Zenon
  <2> DEFINE I == GroupEvents(d, q, offsets, rows, r.group)
  <2>5. in(g) = I
    BY <2>2
  <2> HIDE DEF I
  <2>6. /\ r.tokens = Total(I) /\ r.count = Cardinality({e.session : e \in I}) /\ I # {}
        /\ r.requests = Cardinality({e \in I : e.kind = "request"})
    BY <2>3, <2>5
  <2>7. r.sessions = {[session |-> s, pks |-> {e.pk : e \in {f \in I : f.session = s}}]
                        : s \in {e.session : e \in I}}
    BY <2>4, <2>5, Zenon
  <2> QED
    BY <2>6, <2>7, Zenon DEF RowIsTrue, I
<1> QED
  BY <1>12, <1>13, <1>14, <1>15 DEF G

\* The sessions of events are among those whose structures were read.
AreStructured(d, in, structures) ==
  \A e \in in : structures[e.session] = <<Sq!StreamEvents(d, d.sessions[e.session].pk)>>

\* The turn at the place an event has in the structure of its session.
TurnAt(d, e) ==
  TurnOf(Sq!StreamEvents(d, d.sessions[e.session].pk),
         Sq!EventPosition(Sq!StreamEvents(d, d.sessions[e.session].pk), e.pk))

\* An event has a place in the structure of its session, and is located there.
LEMMA EventHasPlace ==
  ASSUME NEW d, Sound(d), NEW e \in RowsOf(d), NEW n, n = d.sessions[e.session].pk
  PROVE  /\ Sq!EventPosition(Sq!StreamEvents(d, n), e.pk) # 0
         /\ Sq!SessionStructure(d, e.user, n) = <<Sq!StreamEvents(d, n)>>
         /\ Sq!EventLocation(d, e.user, e.pk)
              = <<<<n, Sq!EventPosition(Sq!StreamEvents(d, n), e.pk)>>>>
<1> DEFINE structure == Sq!StreamEvents(d, n)
           own == {f \in Sq!RowsOf(d) : f.user = e.user /\ f.pk = e.pk}
           place == Sq!EventPosition(structure, e.pk)
<1>1. place # 0
  <2>1. PICK m \in Nat : m = Cardinality(InSession(d, n))
    BY StreamIsWhole
  <2>2. PICK i \in 1..m : structure[i] = e
    <3>1. e \in InSession(d, n)
      BY DEF InSession
    <3> QED
      BY <2>1, <3>1, StreamIsWhole
  <2>3. DOMAIN structure = 1..m
    <3>1. structure \in [1..Cardinality(InSession(d, n)) -> InSession(d, n)]
      BY StreamIsWhole
    <3> HIDE DEF structure
    <3> QED
      BY <2>1, <3>1
  <2> HIDE DEF structure
  <2>4. place \in DOMAIN structure
    BY <2>2, <2>3, Zenon DEF Sq!EventPosition
  <2> QED
    BY <2>3, <2>4
<1>2. Sq!SessionStructure(d, e.user, n) = <<structure>>
  <2>1. Sq!SessionStructure(d, e.user, n) # Sq!NotFound
    <3>1. e.session \in Existing(d) /\ e.user = SessionKey[e.session].user
      BY RowsAreSound
    <3> QED
      BY <3>1, SessionHasStructure
  <2>2. Sq!SessionStructure(d, e.user, n) \in {Sq!NotFound, <<structure>>}
    BY DEF Sq!SessionStructure
  <2> QED
    BY <2>1, <2>2
<1>3. (CHOOSE f \in own : TRUE) = e /\ own # {}
  <2>1. e \in own /\ \A f \in own : f = e
    BY RowsAreSound
  <2> HIDE DEF own
  <2> QED
    BY <2>1
<1> HIDE DEF structure
<1>4. <<structure>> # Sq!NotFound /\ Head(<<structure>>) = structure
  BY DEF Sq!NotFound
<1> DEFINE At(f, s) == IF s = Sq!NotFound \/ Sq!EventPosition(Head(s), e.pk) = 0 THEN Sq!NotFound
                       ELSE <<<<d.sessions[f.session].pk, Sq!EventPosition(Head(s), e.pk)>>>>
           Located(f) == At(f, Sq!SessionStructure(d, e.user, d.sessions[f.session].pk))
<1>5. Sq!EventLocation(d, e.user, e.pk)
        = IF own = {} THEN Sq!NotFound ELSE Located(CHOOSE f \in own : TRUE)
  BY Zenon DEF Sq!EventLocation
<1>6. Located(e) = At(e, <<structure>>)
  BY <1>2, Zenon
<1>7. At(e, <<structure>>) = <<<<n, place>>>>
  BY <1>1, <1>4, Zenon
<1> HIDE DEF Located, At, own, place
<1>8. Sq!EventLocation(d, e.user, e.pk) = <<<<n, place>>>>
  BY <1>3, <1>5, <1>6, <1>7, Zenon
<1> QED
  BY <1>1, <1>2, <1>8 DEF structure, place

\* So it is in the turn at this place.
LEMMA OwnTurnsAre ==
  ASSUME NEW d, Sound(d), NEW e \in RowsOf(d)
  PROVE  OwnTurns(d, e.user, e) = IF TurnAt(d, e) = None THEN {} ELSE {<<e.session, TurnAt(d, e)>>}
<1> DEFINE n == d.sessions[e.session].pk
           structure == Sq!StreamEvents(d, n)
           position == Sq!EventPosition(structure, e.pk)
           place == Head(Sq!EventLocation(d, e.user, e.pk))
           turn == TurnOf(Head(Sq!SessionStructure(d, e.user, place[1])), place[2])
<1>1. place = <<n, position>> /\ Sq!SessionStructure(d, e.user, n) = <<structure>>
  <2> HIDE DEF structure
  <2>1. /\ Sq!EventLocation(d, e.user, e.pk) = <<<<n, position>>>>
        /\ Sq!SessionStructure(d, e.user, n) = <<structure>>
    BY EventHasPlace DEF structure
  <2> QED
    BY <2>1, HeadOfOne
<1>2. OwnTurns(d, e.user, e) = IF turn = None THEN {} ELSE {<<e.session, turn>>}
  BY Zenon DEF OwnTurns
<1>3. TurnAt(d, e) = TurnOf(structure, position)
  BY DEF TurnAt
<1> HIDE DEF place, n, structure, position
<1>4. place[1] = n /\ place[2] = position
  BY <1>1
<1>5. Head(Sq!SessionStructure(d, e.user, place[1])) = structure
  BY <1>1, <1>4, HeadOfOne
<1>6. turn = TurnAt(d, e)
  BY <1>3, <1>4, <1>5, Zenon
<1> HIDE DEF turn
<1> QED
  BY <1>2, <1>6, Zenon

\* The identifiers of some events of a session, and the turns these events are in.
PksIn(in, s) == {e.pk : e \in {f \in in : f.session = s}}
SessionTurns(d, in, s) == {TurnAt(d, e) : e \in {f \in in : f.session = s}} \ {None}

\* A summary counts of the events of a session the turns they are in.
LEMMA PartHasTurns ==
  ASSUME NEW d, Sound(d), NEW in \in SUBSET RowsOf(d), NEW s,
         NEW structure, structure = Sq!StreamEvents(d, d.sessions[s].pk),
         NEW pks, pks = PksIn(in, s)
  PROVE  Sq!DistinctTurns(structure, pks) = SessionTurns(d, in, s)
<1>1. Sq!DistinctTurns(structure, pks) =
        {TurnOf(structure, Sq!EventPosition(structure, pk))
           : pk \in {n \in pks : Sq!EventPosition(structure, n) # 0}} \ {None}
  BY DEF Sq!DistinctTurns, Sq!None, None
<1>2. \A e \in in : e.session = s => /\ Sq!EventPosition(structure, e.pk) # 0
                                     /\ TurnOf(structure, Sq!EventPosition(structure, e.pk)) = TurnAt(d, e)
  BY EventHasPlace DEF TurnAt
<1> QED
  BY <1>1, <1>2 DEF PksIn, SessionTurns

\* The turns of the parts of a group.
PartTurns(structures, part) ==
  Sq!Cardinality(Sq!DistinctTurns(Head(structures[part.session]), part.pks))
TurnsCounted(structures, parts) ==
  Sq!FoldSet(LAMBDA part, n : n + PartTurns(structures, part), 0, parts)

\* They are added up.
LEMMA TurnsAdd ==
  ASSUME NEW S, IsFiniteSet(S), NEW structures, \A p \in S : PartTurns(structures, p) \in Int
  PROVE  Adds([T \in SUBSET S |-> TurnsCounted(structures, T)], [p \in S |-> PartTurns(structures, p)], S)
<1> DEFINE f == [p \in S |-> PartTurns(structures, p)]
<1>1. PICK g : Adds(g, f, S)
  <2>1. f \in [S -> Int]
    OBVIOUS
  <2> QED
    BY <2>1, FoldIsDefined, FoldAdds
<1>2. ASSUME NEW T \in SUBSET S PROVE TurnsCounted(structures, T) = g[T]
  <2> DEFINE h == [p \in T |-> PartTurns(structures, p)]
             iter == CHOOSE k : k = [U \in SUBSET T |->
                       IF U = {} THEN 0
                       ELSE k[U \ {CHOOSE x \in U : TRUE}] + PartTurns(structures, CHOOSE x \in U : TRUE)]
  <2>1. IsFiniteSet(T) /\ h \in [T -> Int]
    BY FS_Subset
  <2>2. PICK k : FoldOf(k, h, T)
    BY <2>1, FoldIsDefined
  <2>3. k = [U \in SUBSET T |->
               IF U = {} THEN 0
               ELSE k[U \ {CHOOSE x \in U : TRUE}] + PartTurns(structures, CHOOSE x \in U : TRUE)]
    BY <2>2 DEF FoldOf
  <2>4. iter = [U \in SUBSET T |->
               IF U = {} THEN 0
               ELSE iter[U \ {CHOOSE x \in U : TRUE}] + PartTurns(structures, CHOOSE x \in U : TRUE)]
    BY <2>3, Zenon
  <2>5. TurnsCounted(structures, T) = iter[T]
    BY Zenon DEF TurnsCounted, Sq!FoldSet, Sq!MapThenFoldSet
  <2> HIDE DEF iter
  <2>6. FoldOf(iter, h, T)
    BY <2>4 DEF FoldOf
  <2>7. Adds(iter, h, T)
    BY <2>1, <2>6, FoldAdds
  <2>8. \A x \in T : f[x] = h[x]
    OBVIOUS
  <2> HIDE DEF h, f
  <2>9. iter[T] = g[T]
    BY <1>1, <2>1, <2>7, <2>8, SumIsUnique
  <2> QED
    BY <2>5, <2>9, Zenon
<1> DEFINE k == [T \in SUBSET S |-> TurnsCounted(structures, T)]
<1>3. \A T \in SUBSET S : k[T] = g[T]
  BY <1>2
<1> HIDE DEF k, f
<1>4. Adds(k, f, S)
  BY <1>1, <1>3 DEF Adds
<1> QED
  BY <1>4 DEF k, f

\* The turns of a session are as many as the session with each of them.
LEMMA PairsAreCounted ==
  ASSUME NEW s, NEW turns, IsFiniteSet(turns)
  PROVE  Cardinality({<<s, t>> : t \in turns}) = Cardinality(turns)
<1> DEFINE f == [t \in turns |-> <<s, t>>]
<1>1. \A x, y \in turns : f[x] = f[y] => x = y
  OBVIOUS
<1>2. {<<s, t>> : t \in turns} = {f[t] : t \in turns}
  OBVIOUS
<1> HIDE DEF f
<1> QED
  BY <1>1, <1>2, ImageIsFinite

\* Some events by session.
PartsOf(in) == {[session |-> s, pks |-> PksIn(in, s)] : s \in {e.session : e \in in}}

\* What adds up to the turns of a group counts the distinct turns its events are in.
LEMMA TurnsAreCounted ==
  ASSUME NEW d, Sound(d), NEW u, NEW in \in SUBSET RowsOf(d), \A e \in in : e.user = u,
         NEW structures, AreStructured(d, in, structures),
         NEW parts, parts = PartsOf(in)
  PROVE  TurnsCounted(structures, parts) = Cardinality(UNION {OwnTurns(d, u, e) : e \in in})
<1> DEFINE turned == {e \in in : TurnAt(d, e) # None}
           pair == [e \in turned |-> <<e.session, TurnAt(d, e)>>]
           pairs == {pair[e] : e \in turned}
           sessions == {e.session : e \in in}
           part == [s \in sessions |-> [session |-> s, pks |-> PksIn(in, s)]]
<1>1. IsFiniteSet(in) /\ IsFiniteSet(turned)
  BY RowsAreSound, FS_Subset
<1>2. UNION {OwnTurns(d, u, e) : e \in in} = pairs
  <2>1. \A e \in in : OwnTurns(d, u, e) = IF TurnAt(d, e) = None THEN {} ELSE {<<e.session, TurnAt(d, e)>>}
    BY OwnTurnsAre
  <2> QED
    BY <2>1
<1>3. parts = {part[s] : s \in sessions}
  BY DEF PartsOf
<1>4. \A s \in sessions : part[s].session = s /\ part[s].pks = PksIn(in, s)
  OBVIOUS
<1>5. \A s \in sessions : Head(structures[s]) = Sq!StreamEvents(d, d.sessions[s].pk)
  BY HeadOfOne DEF AreStructured
<1>6. IsFiniteSet(pairs)
  <2> HIDE DEF pair, turned
  <2> QED
    BY <1>1, ImageIsFinite
<1>7. IsFiniteSet(sessions) /\ IsFiniteSet(parts)
  <2> DEFINE session == [e \in in |-> e.session]
  <2>1. sessions = {session[e] : e \in in}
    OBVIOUS
  <2> HIDE DEF session, sessions, part
  <2>2. IsFiniteSet(sessions)
    BY <1>1, <2>1, ImageIsFinite
  <2> QED
    BY <1>3, <2>2, ImageIsFinite
<1>8. ASSUME NEW s \in sessions
      PROVE  IsFiniteSet(SessionTurns(d, in, s)) /\ PartTurns(structures, part[s]) = Cardinality(SessionTurns(d, in, s))
  <2> DEFINE turn == [e \in {f \in in : f.session = s} |-> TurnAt(d, e)]
             all == {turn[e] : e \in {f \in in : f.session = s}}
  <2>1. SessionTurns(d, in, s) = all \ {None}
    BY DEF SessionTurns
  <2>2. IsFiniteSet(all)
    <3> DEFINE here == {f \in in : f.session = s}
    <3>1. IsFiniteSet(here)
      BY <1>1, FS_Subset
    <3> HIDE DEF turn, here
    <3>2. IsFiniteSet({turn[e] : e \in here})
      BY <3>1, ImageIsFinite
    <3> QED
      BY <3>2 DEF here
  <2> HIDE DEF all
  <2>3. IsFiniteSet(SessionTurns(d, in, s))
    BY <2>1, <2>2, FS_Subset
  <2> DEFINE structure == Head(structures[part[s].session])
  <2>4. structure = Sq!StreamEvents(d, d.sessions[s].pk) /\ part[s].pks = PksIn(in, s)
    BY <1>4, <1>5
  <2> HIDE DEF structure, part
  <2>5. Sq!DistinctTurns(structure, part[s].pks) = SessionTurns(d, in, s)
    BY <2>4, PartHasTurns
  <2>6. PartTurns(structures, part[s]) = Sq!Cardinality(SessionTurns(d, in, s))
    BY <2>5, Zenon DEF PartTurns, structure
  <2> QED
    BY <2>3, <2>6, SameOperators
<1>9. ASSUME NEW s \in sessions
      PROVE  Cardinality({p \in pairs : p[1] = s}) = PartTurns(structures, part[s])
  <2>1. {p \in pairs : p[1] = s} = {<<s, t>> : t \in SessionTurns(d, in, s)}
    <3>1. ASSUME NEW p \in pairs, p[1] = s PROVE p \in {<<s, t>> : t \in SessionTurns(d, in, s)}
      <4>1. PICK e \in turned : p = <<e.session, TurnAt(d, e)>>
        OBVIOUS
      <4>2. e.session = s
        BY <3>1, <4>1
      <4>3. TurnAt(d, e) \in SessionTurns(d, in, s)
        BY <4>2 DEF SessionTurns
      <4> QED
        BY <4>1, <4>2, <4>3
    <3>2. ASSUME NEW t \in SessionTurns(d, in, s) PROVE <<s, t>> \in pairs
      <4>1. PICK e \in in : e.session = s /\ t = TurnAt(d, e) /\ t # None
        BY DEF SessionTurns
      <4>2. e \in turned /\ pair[e] = <<s, t>>
        BY <4>1
      <4> QED
        BY <4>2
    <3> HIDE DEF pairs
    <3> QED
      BY <3>1, <3>2
  <2> HIDE DEF pairs, part
  <2>2. PICK turns : turns = SessionTurns(d, in, s)
    OBVIOUS
  <2>3. IsFiniteSet(turns) /\ PartTurns(structures, part[s]) = Cardinality(turns)
    BY <1>8, <2>2
  <2>4. Cardinality({<<s, t>> : t \in turns}) = Cardinality(turns)
    BY <2>3, PairsAreCounted
  <2> QED
    BY <2>1, <2>2, <2>3, <2>4
<1> DEFINE g == [T \in SUBSET pairs |-> Cardinality(T \cap pairs)]
           f == [x \in pairs |-> IF x \in pairs THEN 1 ELSE 0]
           k == [T \in SUBSET parts |-> TurnsCounted(structures, T)]
           h == [p \in parts |-> PartTurns(structures, p)]
           of == [p \in pairs |-> part[p[1]]]
<1>10. Adds(g, f, pairs) /\ \A x \in pairs : f[x] \in Int
  <2>1. \A x \in pairs : f[x] \in Int
    OBVIOUS
  <2> HIDE DEF pairs
  <2> QED
    BY <1>6, <2>1, CountAdds
<1>11. \A p \in parts : PartTurns(structures, p) \in Int
  <2> HIDE DEF part
  <2>1. \A s \in sessions : Cardinality(SessionTurns(d, in, s)) \in Nat
    BY <1>8, FS_CardinalityType
  <2> QED
    BY <1>3, <1>8, <2>1
<1>12. Adds(k, h, parts)
  BY <1>7, <1>11, TurnsAdd
<1>13. \A p \in pairs : p[1] \in sessions
  OBVIOUS
<1> HIDE DEF pairs, sessions, part
<1>14. of \in [pairs -> parts]
  BY <1>3, <1>13
<1>15. \A r \in parts : \E T \in SUBSET pairs : h[r] = g[T] /\ \A x \in pairs : x \in T <=> of[x] = r
  <2> SUFFICES ASSUME NEW r \in parts
               PROVE  \E T \in SUBSET pairs : h[r] = g[T] /\ \A x \in pairs : x \in T <=> of[x] = r
    OBVIOUS
  <2>1. PICK s \in sessions : r = part[s]
    BY <1>3
  <2> DEFINE T == {p \in pairs : p[1] = s}
  <2>2. T \in SUBSET pairs /\ T \cap pairs = T
    OBVIOUS
  <2>3. h[r] = g[T]
    BY <1>9, <2>1, <2>2
  <2>4. \A x \in pairs : x \in T <=> of[x] = r
    BY <1>4, <1>13, <2>1
  <2> HIDE DEF T, h, g
  <2> QED
    BY <2>2, <2>3, <2>4
<1>16. k[parts] = TurnsCounted(structures, parts) /\ g[pairs] = Cardinality(pairs)
  <2>1. pairs \cap pairs = pairs
    OBVIOUS
  <2> QED
    BY <2>1
<1> HIDE DEF k, h, g, f, of
<1>17. k[parts] = g[pairs]
  BY <1>6, <1>7, <1>10, <1>12, <1>14, <1>15, SumOfParts
<1> QED
  BY <1>2, <1>16, <1>17

\* Rows are kept one by one, all of them or as many as the limit.
LEMMA KeptIsPrefix ==
  ASSUME NEW rows, IsFiniteSet(rows), NEW limit \in Nat, NEW n \in Nat,
         n = IF limit <= Cardinality(rows) THEN limit ELSE Cardinality(rows),
         NEW kept \in [1..n -> rows], \A i, j \in 1..n : i < j => kept[i] # kept[j]
  PROVE  /\ Len(kept) = n /\ Cardinality(Range(kept)) = n /\ Range(kept) \subseteq rows
         /\ \A i, j \in 1..n : kept[i] = kept[j] => i = j
         /\ n = limit \/ Range(kept) = rows
<1>1. \A i, j \in 1..n : kept[i] = kept[j] => i = j
  <2>1. \A i, j \in 1..n : i < j \/ j < i \/ i = j
    OBVIOUS
  <2> QED
    BY <2>1
<1>2. Len(kept) = n /\ DOMAIN kept = 1..n
  OBVIOUS
<1>3. Range(kept) = {kept[i] : i \in 1..n}
  BY <1>2 DEF Range
<1>4. IsFiniteSet(1..n) /\ Cardinality(1..n) = n
  BY FS_Interval
<1>5. Cardinality(Range(kept)) = n
  <2>1. PICK T : T = Range(kept)
    OBVIOUS
  <2>2. kept \in [1..n -> T] /\ \A t \in T : \E i \in 1..n : kept[i] = t
    BY <1>3, <2>1
  <2>3. ExistsBijection(1..n, T)
    <3>1. kept \in Bijection(1..n, T)
      BY <1>1, <2>2, Zenon DEF Bijection, Injection, Surjection, IsInjective
    <3> QED
      BY <3>1, Zenon DEF ExistsBijection
  <2>4. Cardinality(T) = Cardinality(1..n)
    BY <1>4, <2>3, FS_Bijection
  <2> QED
    BY <1>4, <2>1, <2>4
<1>6. Range(kept) \subseteq rows
  BY <1>3
<1>7. n = Cardinality(rows) => Range(kept) = rows
  BY <1>5, <1>6, FS_Subset
<1> QED
  BY <1>1, <1>2, <1>5, <1>6, <1>7

\* How many rows a summary has at most.
LimitOf(q) == NormalizeLimit(q.limit, ScanLimit, 100000)

LEMMA LimitIsNatural ==
  ASSUME NEW q, q.limit \in Int
  PROVE  LimitOf(q) \in Nat /\ Sq!NormalizeLimit(q.limit, ScanLimit, 100000) = LimitOf(q)
<1>1. ScanLimit \in Nat
  BY ReadConstants
<1> QED
  BY <1>1, SMT DEF LimitOf, NormalizeLimit, AtLeast, AtMost, None, Sq!NormalizeLimit, Sq!AtLeast,
                   Sq!AtMost, Sq!None

\* The rows a summary shows are the first ones.
LEMMA FirstRowsAre ==
  ASSUME NEW rows, NEW q, q.limit \in Int, NEW kept \in Sq!FirstRows(rows, q)
  PROVE  /\ kept \in [1..Sq!AtMost(LimitOf(q), Sq!Cardinality(rows)) -> rows]
         /\ \A i, j \in DOMAIN kept : i < j => kept[i] # kept[j] /\ ~Sq!SummaryOrder(kept[j], kept[i])
         /\ \A i \in DOMAIN kept, b \in rows \ Sq!Range(kept) : ~Sq!SummaryOrder(b, kept[i])
<1>1. PICK order : order = {p \in rows \X rows : Sq!SummaryOrder(p[1], p[2])}
  OBVIOUS
<1>2. /\ kept \in [1..Sq!AtMost(LimitOf(q), Sq!Cardinality(rows)) -> rows]
      /\ \A i, j \in DOMAIN kept : i < j => kept[i] # kept[j] /\ <<kept[j], kept[i]>> \notin order
      /\ \A i \in DOMAIN kept, b \in rows \ Sq!Range(kept) : <<b, kept[i]>> \notin order
  BY <1>1, LimitIsNatural, SMT DEF Sq!FirstRows, Sq!Limited
<1>3. \A a, b \in rows : <<a, b>> \notin order => ~Sq!SummaryOrder(a, b)
  BY <1>1
<1>4. \A i \in DOMAIN kept : kept[i] \in rows
  BY <1>2
<1> QED
  BY <1>2, <1>3, <1>4, Zenon

\* A summary keeps the rows with the most tokens, up to its limit.
LEMMA LimitedIsTop ==
  ASSUME NEW rows, IsFiniteSet(rows), NEW q, q.limit \in Int, NEW kept \in Sq!FirstRows(rows, q)
  PROVE  \E n \in Nat :
           /\ n = IF LimitOf(q) <= Cardinality(rows) THEN LimitOf(q) ELSE Cardinality(rows)
           /\ kept \in [1..n -> rows] /\ Len(kept) = n /\ Range(kept) \subseteq rows
           /\ \A i, j \in 1..n : kept[i] = kept[j] => i = j
           /\ n = LimitOf(q) \/ Range(kept) = rows
           /\ \A i \in 1..n, b \in rows \ Range(kept) : ~(b.tokens > kept[i].tokens)
<1>1. PICK limit \in Nat : limit = LimitOf(q)
  BY LimitIsNatural
<1>2. PICK m \in Nat : m = Cardinality(rows) /\ m = Sq!Cardinality(rows)
  BY FS_CardinalityType, SameOperators
<1>3. PICK n \in Nat : n = Sq!AtMost(limit, m) /\ n = IF limit <= m THEN limit ELSE m
  BY DEF Sq!AtMost
<1>4. /\ kept \in [1..n -> rows] /\ DOMAIN kept = 1..n
      /\ \A i, j \in 1..n : i < j => kept[i] # kept[j]
      /\ \A i \in 1..n, b \in rows \ Sq!Range(kept) : ~Sq!SummaryOrder(b, kept[i])
  <2>1. kept \in [1..n -> rows]
    BY <1>1, <1>2, <1>3, FirstRowsAre
  <2>2. DOMAIN kept = 1..n
    BY <2>1
  <2> QED
    BY <2>1, <2>2, FirstRowsAre
<1>5. \A i \in 1..n, b \in rows \ Range(kept) : ~(b.tokens > kept[i].tokens)
  <2>1. Sq!Range(kept) = Range(kept)
    BY SameOperators, Zenon
  <2>2. \A a, b : b.tokens > a.tokens => Sq!SummaryOrder(b, a)
    BY Zenon DEF Sq!SummaryOrder
  <2> QED
    BY <1>4, <2>1, <2>2, Zenon
<1>6. n = IF limit <= Cardinality(rows) THEN limit ELSE Cardinality(rows)
  BY <1>2, <1>3
<1> QED
  BY <1>1, <1>4, <1>5, <1>6, KeptIsPrefix

\* A row of a summary is about the events of its group.
RowTells(d, u, q, offsets, rows, r) ==
  LET in == GroupEvents(d, q, offsets, rows, r.group.group)
  IN  /\ in = {e \in rows : e.pk \in RowPks(r)} /\ RowPks(r) = {e.pk : e \in in}
      /\ r.group.tokens = Total(in)
      /\ r.group.count = Cardinality({e.session : e \in in})
      /\ r.turns = Cardinality(UNION {OwnTurns(d, u, e) : e \in in})

\* It is, once its turns are those the structures have of its events.
LEMMA SummaryRowTells ==
  ASSUME NEW d, Sound(d), NEW u, NEW q, NEW offsets, NEW rows \in SUBSET RowsOf(d),
         \A e \in rows : e.user = u, NEW r, NEW structures,
         RowIsTrue(d, q, offsets, rows, r.group), AreStructured(d, rows, structures),
         r.turns = TurnsCounted(structures, r.group.sessions)
  PROVE  RowTells(d, u, q, offsets, rows, r)
<1> DEFINE in == GroupEvents(d, q, offsets, rows, r.group.group)
           part(s) == [session |-> s, pks |-> {e.pk : e \in {f \in in : f.session = s}}]
<1>1. in \subseteq rows /\ in \subseteq RowsOf(d)
  BY DEF GroupEvents
<1>2. \A e, f \in rows : e.pk = f.pk => e = f
  BY RowsAreSound
<1> HIDE DEF in
<1>3. /\ r.group.sessions = {part(s) : s \in {e.session : e \in in}}
      /\ r.group.tokens = Total(in)
      /\ r.group.count = Cardinality({e.session : e \in in})
  BY Zenon DEF RowIsTrue, in
<1>4. r.turns = Cardinality(UNION {OwnTurns(d, u, e) : e \in in})
  <2>1. PICK parts : parts = r.group.sessions
    OBVIOUS
  <2>2. parts = PartsOf(in)
    BY <1>3, <2>1 DEF PartsOf, PksIn
  <2>3. AreStructured(d, in, structures) /\ \A e \in in : e.user = u
    BY <1>1 DEF AreStructured
  <2>4. TurnsCounted(structures, parts) = Cardinality(UNION {OwnTurns(d, u, e) : e \in in})
    BY <1>1, <2>2, <2>3, TurnsAreCounted
  <2> QED
    BY <2>1, <2>4
<1>5. \A s : part(s).session = s /\ part(s).pks = {e.pk : e \in {f \in in : f.session = s}}
  OBVIOUS
<1> HIDE DEF part
<1>6. RowPks(r) = {e.pk : e \in in}
  <2>1. ASSUME NEW pk \in RowPks(r) PROVE \E e \in in : pk = e.pk
    <3>1. PICK p \in r.group.sessions : pk \in p.pks
      BY DEF RowPks
    <3>2. PICK s : p = part(s)
      BY <1>3, <3>1
    <3> QED
      BY <1>5, <3>1, <3>2
  <2>2. ASSUME NEW e \in in PROVE e.pk \in RowPks(r)
    <3>1. part(e.session) \in r.group.sessions
      BY <1>3
    <3>2. e.pk \in part(e.session).pks
      BY <1>5
    <3> QED
      BY <3>1, <3>2 DEF RowPks
  <2> QED
    BY <2>1, <2>2
<1>7. in = {e \in rows : e.pk \in RowPks(r)}
  BY <1>1, <1>2, <1>6
<1> QED
  BY <1>3, <1>4, <1>6, <1>7, Zenon DEF in, RowTells

\* The rows of an answer: those that are kept, each with the turns structures have of it.
AnsweredRows(kept, structures) ==
  [i \in DOMAIN kept |-> [group |-> kept[i], turns |-> TurnsCounted(structures, kept[i].sessions)]]

\* A summary is of rows of its groups, each with its turns.
SummaryIsRead(d, u, q, rows, groups, kept, offsets, structures) ==
  /\ groups = Sq!SummaryRows(d, q, offsets, Selected(d, u, q))
  /\ kept \in Sq!FirstRows(groups, q)
  /\ AreStructured(d, Selected(d, u, q), structures)
  /\ rows = AnsweredRows(kept, structures)

\* A summary selects what Queries says it does.
LEMMA SqliteSelects ==
  ASSUME NEW d, NEW u, NEW q
  PROVE  Sq!Selected(d, u, q) = Selected(d, u, q)
<1>1. Sq!RowsOf(d) = RowsOf(d)
  BY DEF Sq!RowsOf, RowsOf
<1>2. \A S : Sq!ExactValuesFilter(S) = ExactValuesFilter(S)
  BY DEF Sq!ExactValuesFilter, ExactValuesFilter
<1>3. \A S, v : Sq!AnyOf(S, v) <=> AnyOf(S, v)
  BY DEF Sq!AnyOf, AnyOf
<1>4. \A at : Sq!InWindow(q, at) <=> InWindow(q, at)
  BY DEF Sq!InWindow, InWindow, Sq!None, None
<1> QED
  BY <1>1, <1>2, <1>3, <1>4 DEF Sq!Selected, Selected

\* What a summary selects.
LEMMA SelectedIsSound ==
  ASSUME NEW d, Sound(d), NEW u, NEW q, NEW selected, selected = Selected(d, u, q)
  PROVE  /\ selected \in SUBSET RowsOf(d) /\ IsFiniteSet(selected)
         /\ \A e \in selected : e.tokens \in Nat /\ e.user = u
         /\ \A e, f \in selected : e.pk = f.pk => e = f
<1>1. selected \in SUBSET RowsOf(d) /\ \A e \in selected : e.user = u
  BY DEF Selected
<1> QED
  BY <1>1, RowsAreSound, FS_Subset

\* The structures that are read are those of the sessions of the selected events.
LEMMA StructuresAreRead ==
  ASSUME NEW d, Sound(d), NEW u, NEW q
  PROVE  AreStructured(d, Selected(d, u, q),
                       Sq!StructuresOf(d, u, {e.session : e \in Sq!Selected(d, u, q)}))
<1> DEFINE selected == Selected(d, u, q)
           sessions == {e.session : e \in selected}
           structures == Sq!StructuresOf(d, u, sessions)
<1>1. \A e \in selected : e \in RowsOf(d) /\ e.user = u
  BY SelectedIsSound
<1> HIDE DEF selected
<1>2. ASSUME NEW e \in selected
      PROVE  structures[e.session] = <<Sq!StreamEvents(d, d.sessions[e.session].pk)>>
  <2> DEFINE n == d.sessions[e.session].pk
  <2>1. structures[e.session] = Sq!SessionStructure(d, u, n)
    BY DEF Sq!StructuresOf
  <2>2. Sq!SessionStructure(d, e.user, n) = <<Sq!StreamEvents(d, n)>>
    BY <1>1, EventHasPlace
  <2> HIDE DEF structures
  <2> QED
    BY <1>1, <2>1, <2>2
<1>3. AreStructured(d, selected, structures)
  <2> HIDE DEF structures
  <2> QED
    BY <1>2, Zenon DEF AreStructured
<1> QED
  BY <1>3, SqliteSelects, Zenon DEF selected

\* The turns of rows of the groups of a summary are found.
LEMMA TurnsAreFound ==
  ASSUME NEW d, Sound(d), NEW u, NEW q, NEW offsets, NEW structures,
         AreStructured(d, Selected(d, u, q), structures),
         NEW groups, groups = Sq!SummaryRows(d, q, offsets, Selected(d, u, q)),
         NEW kept, Range(kept) \subseteq groups
  PROVE  Sq!SummaryTurns(kept, structures) = <<AnsweredRows(kept, structures)>>
<1> DEFINE selected == Selected(d, u, q)
<1>1. \A g \in groups : RowIsTrue(d, q, offsets, selected, g)
  BY SelectedIsSound, SummaryIsDivided
<1>2. Sq!Range(kept) \subseteq groups
  BY SameOperators
<1>3. ASSUME NEW g \in groups, NEW part \in g.sessions PROVE structures[part.session] # Sq!NotFound
  <2>1. PICK e \in selected : part.session = e.session
    <3>1. RowIsTrue(d, q, offsets, selected, g)
      BY <1>1
    <3>2. \A e \in GroupEvents(d, q, offsets, selected, g.group) : e \in selected
      BY DEF GroupEvents
    <3> HIDE DEF selected
    <3> QED
      BY <3>1, <3>2 DEF RowIsTrue
  <2>2. structures[e.session] = <<Sq!StreamEvents(d, d.sessions[e.session].pk)>>
    BY DEF AreStructured
  <2> QED
    BY <2>1, <2>2 DEF Sq!NotFound
<1> DEFINE missing == \E g \in Sq!Range(kept) : \E part \in g.sessions : structures[part.session] = Sq!NotFound
<1>4. ~missing
  BY <1>2, <1>3
<1>5. Sq!SummaryTurns(kept, structures)
        = IF missing THEN Sq!NotFound ELSE <<AnsweredRows(kept, structures)>>
  BY Zenon DEF Sq!SummaryTurns, AnsweredRows, TurnsCounted, PartTurns
<1> HIDE DEF missing
<1> QED
  BY <1>4, <1>5, Zenon

\* Whatever is answered, and is not refused, is found, and such a summary.
LEMMA SummaryIsAnswered ==
  ASSUME NEW d, Sound(d), NEW u, NEW q, u \in q.users, q.limit \in Int,
         NEW summary \in Sq!UsageSummary(d, u, q), summary # Invalid
  PROVE  \E rows, groups, kept, offsets, structures :
           summary = <<rows>> /\ SummaryIsRead(d, u, q, rows, groups, kept, offsets, structures)
<1> DEFINE selected == Sq!Selected(d, u, q)
           offsets == IF "day" \in q.by THEN Sq!DayOffsets(d, u, q) ELSE <<>>
           groups == Sq!SummaryRows(d, q, offsets, selected)
           structures == Sq!StructuresOf(d, u, {e.session : e \in selected})
           invalid == \E kind \in Sq!ExactValuesFilter({q.kind}) : ~Sq!ValidKind(kind)
<1>1. AreStructured(d, Selected(d, u, q), structures)
  BY StructuresAreRead
<1>2. PICK kept : kept \in Sq!FirstRows(groups, q) /\ summary = Sq!SummaryTurns(kept, structures)
  <2> DEFINE answers == {Sq!SummaryTurns(kept, structures) : kept \in Sq!FirstRows(groups, q)}
  <2>1. Sq!UsageSummary(d, u, q) = IF invalid THEN {Sq!Invalid} ELSE answers
    BY Zenon DEF Sq!UsageSummary
  <2> HIDE DEF answers, invalid
  <2>2. summary \in answers
    BY <2>1 DEF Sq!Invalid, Invalid
  <2> HIDE DEF groups, structures
  <2> QED
    BY <2>2, Zenon DEF answers
<1>3. selected = Selected(d, u, q)
  BY SqliteSelects
<1> HIDE DEF selected, offsets, structures
<1>4. groups = Sq!SummaryRows(d, q, offsets, Selected(d, u, q))
  BY <1>3 DEF groups
<1> HIDE DEF groups
<1>5. IsFiniteSet(groups)
  BY <1>4, SelectedIsSound, SummaryIsDivided
<1>6. Range(kept) \subseteq groups
  BY <1>2, <1>5, LimitedIsTop
<1>7. summary = <<AnsweredRows(kept, structures)>>
  BY <1>1, <1>2, <1>4, <1>6, TurnsAreFound
<1>8. SummaryIsRead(d, u, q, AnsweredRows(kept, structures), groups, kept, offsets, structures)
  BY <1>1, <1>2, <1>4, Zenon DEF SummaryIsRead
<1> QED
  BY <1>7, <1>8, Zenon

\* A row has at least the tokens of each of its events.
LEMMA RowHasTokens ==
  ASSUME NEW d, NEW q, NEW offsets, NEW rows, IsFiniteSet(rows), \A e \in rows : e.tokens \in Nat,
         NEW g, RowIsTrue(d, q, offsets, rows, g)
  PROVE  /\ g.tokens \in Nat
         /\ \A e \in GroupEvents(d, q, offsets, rows, g.group) : e.tokens <= g.tokens
<1> DEFINE S == GroupEvents(d, q, offsets, rows, g.group)
           v == [T \in SUBSET S |-> Total(T)]
           f == [e \in S |-> e.tokens]
<1>1. g.tokens = Total(S)
  BY Zenon DEF RowIsTrue
<1>2. IsFiniteSet(S) /\ S \subseteq rows
  BY FS_Subset DEF GroupEvents
<1> HIDE DEF S
<1>3. \A e \in S : e.tokens \in Nat /\ e.tokens \in Int
  BY <1>2
<1>4. Adds(v, f, S) /\ \A x \in S : f[x] \in Nat
  BY <1>2, <1>3, TotalAdds
<1>5. v[S] = Total(S) /\ \A x \in S : f[x] = x.tokens
  OBVIOUS
<1> HIDE DEF v, f
<1>6. v[S] \in Nat /\ \A x \in S : f[x] <= v[S]
  BY <1>2, <1>4, SumBounds
<1> QED
  BY <1>1, <1>5, <1>6 DEF S

\* A summary counts each event it selects in one row, or leaves it out of a full summary:
\* its groups divide what it selects, and its limit keeps those with the most tokens.
LEMMA SummaryReadAgrees ==
  ASSUME NEW d, Sound(d), NEW u, NEW q, q.limit \in Int,
         NEW rows, NEW groups, NEW kept, NEW offsets, NEW structures,
         SummaryIsRead(d, u, q, rows, groups, kept, offsets, structures)
  PROVE  SummaryAgrees(d, u, Selected(d, u, q), q, rows)
<1> DEFINE selected == Selected(d, u, q)
           In(g) == GroupEvents(d, q, offsets, selected, g.group)
<1>1. /\ selected \in SUBSET RowsOf(d) /\ IsFiniteSet(selected)
      /\ \A e \in selected : e.tokens \in Nat /\ e.user = u
      /\ \A e, f \in selected : e.pk = f.pk => e = f
  BY SelectedIsSound
<1>2. /\ groups = Sq!SummaryRows(d, q, offsets, selected) /\ kept \in Sq!FirstRows(groups, q)
      /\ AreStructured(d, selected, structures)
      /\ rows = [i \in DOMAIN kept |->
                   [group |-> kept[i], turns |-> TurnsCounted(structures, kept[i].sessions)]]
  BY Zenon DEF SummaryIsRead, AnsweredRows
<1> HIDE DEF selected
<1>3. /\ IsFiniteSet(groups)
      /\ \A g, h \in groups : g.group = h.group => g = h
      /\ \A e \in selected : \E g \in groups : g.group = Sq!GroupOf(d, q, offsets, e)
      /\ \A g \in groups : RowIsTrue(d, q, offsets, selected, g)
  BY <1>1, <1>2, SummaryIsDivided
<1>4. \A g \in groups : g.tokens \in Nat /\ \A e \in In(g) : e.tokens <= g.tokens
  BY <1>1, <1>3, RowHasTokens
<1>5. PICK n \in Nat :
        /\ kept \in [1..n -> groups] /\ Range(kept) \subseteq groups
        /\ \A i, j \in 1..n : kept[i] = kept[j] => i = j
        /\ n = LimitOf(q) \/ Range(kept) = groups
        /\ \A i \in 1..n, b \in groups \ Range(kept) : ~(b.tokens > kept[i].tokens)
  BY <1>2, <1>3, LimitedIsTop
<1>6. /\ DOMAIN rows = 1..n /\ Len(rows) = n /\ Range(rows) = {rows[i] : i \in 1..n}
      /\ \A i \in 1..n : /\ kept[i] \in groups /\ rows[i].group = kept[i]
                         /\ rows[i].turns = TurnsCounted(structures, rows[i].group.sessions)
  <2>1. DOMAIN kept = 1..n
    BY <1>5
  <2>2. rows = [i \in 1..n |-> [group |-> kept[i], turns |-> TurnsCounted(structures, kept[i].sessions)]]
    BY <1>2, <2>1
  <2>3. Range(rows) = {rows[i] : i \in 1..n}
    BY <2>2 DEF Range
  <2> QED
    BY <1>5, <2>2, <2>3
<1>7. ASSUME NEW i \in 1..n
      PROVE  /\ In(kept[i]) = {e \in selected : e.pk \in RowPks(rows[i])}
             /\ RowPks(rows[i]) = {e.pk : e \in In(kept[i])}
             /\ rows[i].group.tokens = Total(In(kept[i]))
             /\ rows[i].group.count = Cardinality({e.session : e \in In(kept[i])})
             /\ rows[i].turns = Cardinality(UNION {OwnTurns(d, u, e) : e \in In(kept[i])})
  <2>1. RowIsTrue(d, q, offsets, selected, rows[i].group)
    BY <1>3, <1>6
  <2>2. RowTells(d, u, q, offsets, selected, rows[i])
    BY <1>1, <1>2, <1>6, <2>1, SummaryRowTells
  <2> QED
    BY <1>6, <2>2, Zenon DEF RowTells
<1>8. \A g : In(g) = {e \in selected : Sq!GroupOf(d, q, offsets, e) = g.group}
  BY DEF GroupEvents
<1> HIDE DEF In
<1>9. ASSUME NEW i \in 1..n PROVE RowPks(rows[i]) \subseteq {e.pk : e \in selected}
  <2>1. RowPks(rows[i]) = {e.pk : e \in In(kept[i])}
    BY <1>7
  <2>2. In(kept[i]) \subseteq selected
    BY <1>8
  <2> QED
    BY <2>1, <2>2
<1>10. ASSUME NEW e \in selected, \A i \in 1..n : e.pk \notin RowPks(rows[i])
       PROVE  n = LimitOf(q) /\ \A i \in 1..n : e.tokens <= rows[i].group.tokens
  <2>1. PICK g \in groups : g.group = Sq!GroupOf(d, q, offsets, e)
    BY <1>3
  <2>2. e \in In(g)
    BY <1>8, <2>1
  <2>3. g \notin Range(kept)
    <3>1. ASSUME NEW i \in 1..n, g = kept[i] PROVE FALSE
      <4>1. e.pk \in RowPks(rows[i])
        BY <1>7, <2>2, <3>1
      <4> QED
        BY <1>10, <4>1
    <3>2. DOMAIN kept = 1..n
      BY <1>5
    <3> QED
      BY <3>1, <3>2 DEF Range
  <2>4. n = LimitOf(q)
    BY <1>5, <2>3
  <2>5. ASSUME NEW i \in 1..n PROVE e.tokens <= rows[i].group.tokens
    <3>1. ~(g.tokens > kept[i].tokens) /\ g.tokens >= e.tokens
      BY <1>4, <1>5, <2>2, <2>3
    <3>2. kept[i].tokens \in Nat /\ g.tokens \in Nat /\ e.tokens \in Nat /\ rows[i].group = kept[i]
      BY <1>1, <1>4, <1>6
    <3> QED
      BY <3>1, <3>2
  <2> QED
    BY <2>4, <2>5
<1>11. ASSUME NEW i \in 1..n, NEW j \in 1..n, i # j
       PROVE  RowPks(rows[i]) \cap RowPks(rows[j]) = {}
  <2>1. kept[i].group # kept[j].group
    BY <1>3, <1>5, <1>6, <1>11
  <2>2. RowPks(rows[i]) = {e.pk : e \in In(kept[i])} /\ RowPks(rows[j]) = {e.pk : e \in In(kept[j])}
    BY <1>7
  <2> QED
    BY <1>1, <1>8, <2>1, <2>2
<1> DEFINE Of(r) == {e \in selected : e.pk \in RowPks(r)}
           left == {e \in selected : \A r \in Range(rows) : e \notin Of(r)}
           adds(r) == /\ r.group.tokens = Total(Of(r))
                      /\ r.group.count = Cardinality({e.session : e \in Of(r)})
                      /\ r.turns = Cardinality(UNION {OwnTurns(d, u, e) : e \in Of(r)})
<1>12. \A r \in Range(rows) : adds(r) /\ RowPks(r) \subseteq {e.pk : e \in selected}
  <2>1. ASSUME NEW i \in 1..n PROVE adds(rows[i])
    BY <1>7, Zenon
  <2> HIDE DEF adds
  <2> QED
    BY <1>6, <1>9, <2>1
<1>13. \A e \in left : n = LimitOf(q) /\ \A r \in Range(rows) : e.tokens <= r.group.tokens
  <2>1. ASSUME NEW e \in left PROVE \A i \in 1..n : e.pk \notin RowPks(rows[i])
    BY <1>6
  <2> HIDE DEF left
  <2>2. left \subseteq selected
    BY DEF left
  <2> QED
    BY <1>6, <1>10, <2>1, <2>2
<1>14. \A i, j \in DOMAIN rows : i # j => RowPks(rows[i]) \cap RowPks(rows[j]) = {}
  BY <1>6, <1>11
<1>15. SummaryAgrees(d, u, selected, q, rows) <=>
         /\ \A r \in Range(rows) : RowPks(r) \subseteq {e.pk : e \in selected}
         /\ left # {} => Len(rows) = LimitOf(q)
         /\ \A e \in left, r \in Range(rows) : e.tokens <= r.group.tokens
         /\ \A i, j \in DOMAIN rows : i # j => RowPks(rows[i]) \cap RowPks(rows[j]) = {}
         /\ \A r \in Range(rows) : adds(r)
  BY DEF SummaryAgrees, LimitOf
<1> HIDE DEF left, adds
<1>16. SummaryAgrees(d, u, selected, q, rows)
  BY <1>6, <1>12, <1>13, <1>14, <1>15
<1> QED
  BY <1>16 DEF selected

-----------------------------------------------------------------------------
(* What follows. *)

\* A chart is drawn from the owner's events within its buckets and filters.
LEMMA ChartAgreesHolds ==
  ASSUME NEW d, Sound(d), NEW u, NEW q \in ComparisonQueries
  PROVE  ChartAgrees(d, u, q)
<1> DEFINE charted == {e \in RowsOf(d) :
             /\ e.user = u /\ e.at >= Head(q.buckets).start /\ e.at < Last(q.buckets).end
             /\ AnyOf(q.filters.session, e.sid)
             /\ \A dim \in Dimensions : AnyOf(q.filters[dim], Sq!Value(e, dim))}
           rows == Sq!ComparisonRows(d, u, q)
<1>1. charted = Charted(d, u, q)
  <2>1. Sq!Dimensions = Dimensions /\ Sq!Last(q.buckets) = Last(q.buckets)
    BY DEF Sq!Dimensions, Dimensions, Sq!Last, Last
  <2>2. \A S, v : Sq!AnyOf(S, v) <=> AnyOf(S, v)
    BY DEF Sq!AnyOf, AnyOf
  <2>3. \A e \in RowsOf(d) :
          Sq!ComparisonFilters(e, q) <=>
            /\ e.at >= Head(q.buckets).start /\ e.at < Last(q.buckets).end
            /\ AnyOf(q.filters.session, e.sid)
            /\ \A dim \in Dimensions : AnyOf(q.filters[dim], Sq!Value(e, dim))
    BY <2>1, <2>2 DEF Sq!ComparisonFilters
  <2>4. \A e \in RowsOf(d) : d.devices[e.device] # NoRow
    BY RowsAreSound
  <2> QED
    BY <2>3, <2>4 DEF Charted
<1>2. /\ FoldSet(LAMBDA r, n : n + r.tokens, 0, rows) = Total(charted)
      /\ FoldSet(LAMBDA r, n : n + r.requests, 0, rows) = Cardinality({e \in charted : e.kind = "request"})
  <2> HIDE DEF charted, rows
  <2>1. Total(rows) = Total(charted) /\ Requests(rows) = Cardinality({e \in charted : e.kind = "request"})
    BY <1>1, ChartAddsUp, Zenon DEF rows
  <2>2. /\ Total(rows) = FoldSet(LAMBDA r, n : n + r.tokens, 0, rows)
        /\ Requests(rows) = FoldSet(LAMBDA r, n : n + r.requests, 0, rows)
    BY Zenon DEF Total, Requests
  <2> QED
    BY <2>1, <2>2, Zenon
<1> QED
  BY <1>2, Zenon DEF ChartAgrees

\* A summary of an owner the query does not ask for is empty.
LEMMA SummaryAgreesHolds ==
  ASSUME NEW d, Sound(d), NEW u, NEW q \in SummaryQueries,
         NEW summary \in Sq!UsageSummary(d, u, q), summary # Invalid
  PROVE  /\ summary # NotFound
         /\ SummaryAgrees(d, u, IF u \in q.users THEN Selected(d, u, q) ELSE {}, q, Head(summary))
<1>1. CASE u \in q.users
  <2>1. q.limit \in Int
    BY QueryConstants
  <2>2. PICK rows, groups, kept, offsets, structures :
          summary = <<rows>> /\ SummaryIsRead(d, u, q, rows, groups, kept, offsets, structures)
    BY <1>1, <2>1, SummaryIsAnswered
  <2>3. SummaryAgrees(d, u, Selected(d, u, q), q, rows)
    BY <2>1, <2>2, SummaryReadAgrees
  <2>4. Head(summary) = rows /\ summary # NotFound
    BY <2>2, HeadOfOne DEF NotFound
  <2> QED
    BY <1>1, <2>3, <2>4
<1>2. CASE u \notin q.users
  <2>1. summary = <<<<>>>>
    BY <1>2, Zenon DEF Sq!UsageSummary
  <2>2. Head(summary) = <<>> /\ summary # NotFound
    BY <2>1, HeadOfOne DEF NotFound
  <2>3. Range(<<>>) = {}
    BY DEF Range
  <2>4. SummaryAgrees(d, u, {}, q, <<>>)
    BY <2>3 DEF SummaryAgrees
  <2> QED
    BY <1>2, <2>2, <2>4
<1> QED
  BY <1>1, <1>2

\* Of a sound database every summary and every chart adds up.
LEMMA QueriesInvImpliesTotals == QueriesInv => TotalsAgree
<1> SUFFICES ASSUME QueriesInv, NEW u \in Users
             PROVE  /\ \A q \in SummaryQueries :
                         \A summary \in Sq!UsageSummary(db, u, q) \ {Invalid} :
                           /\ summary # NotFound
                           /\ SummaryAgrees(db, u, IF u \in q.users THEN Selected(db, u, q) ELSE {}, q,
                                            Head(summary))
                    /\ \A q \in ComparisonQueries : ChartAgrees(db, u, q)
  BY DEF TotalsAgree
<1>1. Sound(db)
  BY DEF QueriesInv
<1> QED
  BY <1>1, SummaryAgreesHolds, ChartAgreesHolds

\* Each event that a summary or a chart selects is counted in exactly one row
\* (usage_summary of storage/sqlite/repository.rs, and storage/sqlite/comparison.rs).
THEOREM TotalsAgreeHolds == Spec => []TotalsAgree
BY Invariance, QueriesInvImpliesTotals, PTL

-----------------------------------------------------------------------------
(* Search: what is stored, and its index. *)

Conversations == Seq([name : Seq(Chars), text : Seq(Chars)])

\* The index is true, and events have conversations.
Searchable(d) ==
  /\ IndexTrue(d)
  /\ \A e \in StoredEvents(d) :
       /\ d.events[e].sid \in Int /\ d.events[e].newFrom \in Int
       /\ d.events[e].entries \in Conversations

\* Events are collected with conversations.
LEMMA EventsConverse ==
  ASSUME NEW s \in Submitted
  PROVE  /\ SessionKey[s.session].sid \in Int /\ s.newFrom \in Int
         /\ s.entries \in Conversations /\ s.entries \in Seq(Range(s.entries))
<1>1. /\ SessionKey[s.session].sid \in Int /\ s.newFrom \in Int
      /\ s.entries \in Conversations
  BY QueryConstants DEF Conversations
<1>2. PICK E : E = [name : Seq(Chars), text : Seq(Chars)]
  OBVIOUS
<1>7. PICK es \in Seq(E) : es = s.entries
  BY <1>1, <1>2 DEF Conversations
<1>3. PICK n \in Nat : n = Len(es) /\ DOMAIN es = 1..n /\ es = [i \in 1..n |-> es[i]]
  OBVIOUS
<1>4. PICK R : R = Range(es)
  OBVIOUS
<1>5. es \in [1..n -> R]
  BY <1>3, <1>4 DEF Range
<1>6. es \in Seq(R)
  BY <1>5
<1> QED
  BY <1>1, <1>7, <1>4, <1>6

\* The index stays true, and what is stored is what was collected.
LEMMA IngestKeepsSearchable ==
  ASSUME QueriesInv, Searchable(db), NEW s \in Submitted, Ingest(s)
  PROVE  Searchable(db')
<1>1. PICK pk \in Pks : db' = IngestOne(db, SessionKey[s.session].user, s, pk)
  BY DEF Ingest
<1>2. PICK user : user = SessionKey[s.session].user
  OBVIOUS
<1>3. /\ IsDatabase(db) /\ IndexTrue(db) /\ db.events[s.id] = NoRow
      /\ s.id \in EventIds /\ s.session \in Sessions /\ s.device \in Devices
      /\ EventRow(user, s, pk) # NoRow
  BY <1>1, <1>2, QueryConstants, RowsArePresent DEF QueriesInv, Sound, Searchable, Ingest
<1>4. IndexTrue(db')
  BY <1>1, <1>2, <1>3, EventsConverse, IngestKeepsIndex
<1>5. /\ db'.events[s.id] = EventRow(user, s, pk)
      /\ \A e \in EventIds \ {s.id} : db'.events[e] = db.events[e]
  BY <1>1, <1>2, <1>3, IngestOneWrites
<1>6. ASSUME NEW e \in StoredEvents(db')
      PROVE  /\ db'.events[e].sid \in Int /\ db'.events[e].newFrom \in Int
             /\ db'.events[e].entries \in Conversations
  <2>1. CASE e = s.id
    <3>1. /\ db'.events[e].sid = SessionKey[s.session].sid
          /\ db'.events[e].newFrom = s.newFrom /\ db'.events[e].entries = s.entries
      BY <1>5, <2>1 DEF EventRow
    <3> QED
      BY <3>1, EventsConverse
  <2>2. CASE e # s.id
    <3>1. e \in StoredEvents(db) /\ db'.events[e] = db.events[e]
      BY <1>5, <2>2 DEF StoredEvents
    <3> QED
      BY <3>1 DEF Searchable
  <2> QED
    BY <2>1, <2>2
<1> QED
  BY <1>4, <1>6 DEF Searchable

\* In every state of every behaviour.
LEMMA SearchableAlways == Spec => [](QueriesInv /\ Searchable(db))
<1>1. Init => QueriesInv /\ Searchable(db)
  <2> SUFFICES ASSUME Init PROVE Searchable(db)
    BY InitQueries
  <2>1. StoredEvents(db) = {} /\ db = Empty
    BY EmptyIsDatabase DEF Init, StoredEvents
  <2> QED
    BY <2>1, EmptyIndexIsTrue DEF Searchable
<1>2. QueriesInv /\ Searchable(db) /\ [Next]_vars => (QueriesInv /\ Searchable(db))'
  <2> SUFFICES ASSUME QueriesInv, Searchable(db), [Next]_vars PROVE Searchable(db')
    BY NextQueries
  <2>1. CASE \E s \in Submitted : Ingest(s)
    BY <2>1, IngestKeepsSearchable
  <2>2. CASE UNCHANGED db
    BY <2>2
  <2>3. \/ \E s \in Submitted : Ingest(s)
        \/ UNCHANGED db
    BY Zenon DEF Next, vars, WalkEvents, WalkSessions, ReadChart, AskElasticsearch, NextEvents,
       NextSessions, ReadOptions, AnswerSearch, Leave
  <2> QED
    BY <2>1, <2>2, <2>3
<1> QED
  BY <1>1, <1>2, PTL DEF Spec

\* A piece of a conversation is the name or the text of one of its entries, and not empty.
IsPiece(entries, p) ==
  /\ p.entry \in Nat /\ p.entry + 1 \in DOMAIN entries /\ p.field \in {"name", "text"}
  /\ p.text = entries[p.entry + 1][p.field] /\ p.text \in Seq(Chars)

\* So are its pieces, which are finitely many.
LEMMA PiecesAreOfEntries ==
  ASSUME NEW entries \in Conversations
  PROVE  /\ IsFiniteSet(Range(Pieces(entries)))
         /\ \A p \in Range(Pieces(entries)) : IsPiece(entries, p)
<1>1. PICK m \in Nat : DOMAIN entries = 1..m /\ m = Len(entries)
  BY DEF Conversations
<1> DEFINE piece(i, field) == [entry |-> i - 1, field |-> field, text |-> entries[i][field]]
           S == {p \in [entry : Nat, field : {"name", "text"}, text : Seq(Chars)] : IsPiece(entries, p)}
           of(i, field) == IF entries[i][field] = <<>> THEN <<>> ELSE <<piece(i, field)>>
           both == [i \in 1..m |-> of(i, "name") \o of(i, "text")]
<1>2. ASSUME NEW i \in 1..m, NEW field \in {"name", "text"} PROVE of(i, field) \in Seq(S)
  <2>1. PICK x : x = piece(i, field)
    OBVIOUS
  <2>2. entries[i][field] \in Seq(Chars)
    <3>1. PICK E : E = [name : Seq(Chars), text : Seq(Chars)] /\ entries \in Seq(E)
      BY DEF Conversations
    <3>2. entries[i] \in E
      <4>1. PICK k \in 1..Len(entries) : k = i
        BY <1>1
      <4>2. entries[k] \in E
        BY <3>1, ElementOfSeq
      <4> QED
        BY <4>1, <4>2
    <3>3. PICK own : own = entries[i] /\ own \in [name : Seq(Chars), text : Seq(Chars)]
      BY <3>1, <3>2
    <3>4. own.name \in Seq(Chars) /\ own.text \in Seq(Chars)
      BY <3>3
    <3>5. CASE field = "name"
      BY <3>3, <3>4, <3>5
    <3>6. CASE field = "text"
      BY <3>3, <3>4, <3>6
    <3> QED
      BY <3>5, <3>6
  <2>3. x \in [entry : Nat, field : {"name", "text"}, text : Seq(Chars)]
    BY <2>1, <2>2
  <2>4. x.entry + 1 = i /\ x.field = field /\ x.text = entries[i][field] /\ x.entry \in Nat
    BY <2>1
  <2>5. IsPiece(entries, x)
    BY <1>1, <2>2, <2>4 DEF IsPiece
  <2>6. x \in S
    BY <2>3, <2>5
  <2>7. of(i, field) = <<>> \/ of(i, field) = <<x>>
    BY Zenon, <2>1
  <2> HIDE DEF S, of
  <2>8. <<x>> \in Seq(S)
    BY <2>6
  <2> QED
    BY Zenon, <2>7, <2>8, EmptySeq
<1>3. Pieces(entries) = FlattenSeq(both)
  BY <1>1, Zenon DEF Pieces
<1>4. ASSUME NEW i \in 1..m PROVE both[i] \in Seq(S)
  <2>1. both[i] = of(i, "name") \o of(i, "text")
    OBVIOUS
  <2> HIDE DEF S, of, both
  <2>2. of(i, "name") \in Seq(S) /\ of(i, "text") \in Seq(S)
    BY <1>2
  <2> QED
    BY <2>1, <2>2, ConcatProperties
<1>5. both = [i \in 1..m |-> both[i]]
  OBVIOUS
<1>6. \A p \in S : IsPiece(entries, p)
  OBVIOUS
<1> HIDE DEF S, of, both
<1>7. both \in [1..m -> Seq(S)]
  BY <1>4, <1>5
<1>8. PICK pieces \in Seq(S) : pieces = Pieces(entries)
  BY <1>3, <1>7, FlattenIsASequence
<1>9. \A p \in Range(pieces) : p \in S
  BY <1>8 DEF Range
<1>10. IsFiniteSet(Range(pieces))
  <2>1. PICK n \in Nat : DOMAIN pieces = 1..n
    BY <1>8
  <2>2. Range(pieces) = {pieces[i] : i \in 1..n}
    BY <2>1 DEF Range
  <2>3. IsFiniteSet(1..n)
    BY FS_Interval
  <2> QED
    BY <2>2, <2>3, ImageIsFinite
<1> QED
  BY <1>6, <1>8, <1>9, <1>10

\* The matching of the instance is that of the module itself.
LEMMA SameMatching ==
  ASSUME NEW query, NEW text
  PROVE  /\ Sq!Matches(query, text) = Matches(query, text)
         /\ Sq!TrigramExpression(query) = TrigramExpression(query)
         /\ Sq!MatchesExpression(text, query) = MatchesExpression(text, query)
         /\ Sq!Occurrences(query, text) = Occurrences(query, text)
<1>1. Sq!Matches(query, text) = Matches(query, text)
  BY Zenon DEF Sq!Matches, Matches, Sq!Holds, Holds, Sq!Fold, Fold
<1>2. Sq!TrigramExpression(query) = TrigramExpression(query)
  BY Zenon DEF Sq!TrigramExpression, TrigramExpression, Sq!TrigramsOf, TrigramsOf, Sq!Fold, Fold,
     Sq!Range, Range
<1>3. Sq!MatchesExpression(text, query) = MatchesExpression(text, query)
  BY Zenon DEF Sq!MatchesExpression, MatchesExpression, Sq!MatchesTerm, MatchesTerm, Sq!Range, Range
<1>4. Sq!Occurrences(query, text) = Occurrences(query, text)
  BY Zenon DEF Sq!Occurrences, Occurrences, Sq!Holds, Holds, Sq!Fold, Fold
<1> QED
  BY <1>1, <1>2, <1>3, <1>4

\* And what it keeps of a sequence.
LEMMA SameAmong ==
  ASSUME NEW seq, NEW S
  PROVE  Sq!Among(seq, S) = Among(seq, S)
<1> DEFINE D == {i \in DOMAIN seq : seq[i] \in S}
           Those(at) == [n \in DOMAIN at |-> seq[at[n]]]
<1>1. PICK at : /\ at = Sorted(D, LAMBDA i, j : i < j)
                /\ at = Sq!Sorted(D, LAMBDA i, j : i < j)
  BY Zenon DEF Sq!Sorted, Sorted, Sq!Cardinality, Cardinality
<1>2. Among(seq, S) = Those(at)
  BY <1>1, Zenon DEF Among
<1>3. Sq!Among(seq, S) = Those(at)
  BY <1>1, Zenon DEF Sq!Among
<1> QED
  BY <1>2, <1>3, Zenon

\* So are its fragments.
LEMMA SameFragments ==
  ASSUME NEW text, NEW occurrences
  PROVE  Sq!Fragment(text, occurrences) = Fragment(text, occurrences)
<1> DEFINE last(w, v)  == IF v = <<>> THEN w.start ELSE Last(v).end
           lastS(w, v) == IF v = <<>> THEN w.start ELSE Sq!Last(v).end
           parts(w, v)  == [i \in DOMAIN v |-> SegmentsTo(text, w, v, i)]
           partsS(w, v) == [i \in DOMAIN v |-> Sq!SegmentsTo(text, w, v, i)]
           whole(w, v)  == FlattenSeq(parts(w, v)) \o Segment(text, last(w, v), w.end, FALSE)
           wholeS(w, v) == Sq!FlattenSeq(partsS(w, v)) \o Sq!Segment(text, lastS(w, v), w.end, FALSE)
           left(w, f)  == IF w.start > 0 THEN CutLeft(f) ELSE f
           leftS(w, f) == IF w.start > 0 THEN Sq!CutLeft(f) ELSE f
           right(w, f)  == IF w.end < Len(text) THEN CutRight(f) ELSE f
           rightS(w, f) == IF w.end < Len(text) THEN Sq!CutRight(f) ELSE f
<1>1. PICK w : w = Window(Head(occurrences), Len(text))
  OBVIOUS
<1>2. PICK v : v = Visible(occurrences, w)
  OBVIOUS
<1>3. Sq!Window(Head(occurrences), Len(text)) = w
  BY <1>1, Zenon DEF Sq!Window, Window, Sq!AtLeast, AtLeast, Sq!AtMost, AtMost, Sq!Less, Less
<1>4. Sq!Visible(occurrences, w) = v
  <2>1. \A S : Sq!Among(occurrences, S) = Among(occurrences, S)
    BY SameAmong, Zenon
  <2> DEFINE S == {o \in Range(occurrences) : o.start < w.end /\ o.end > w.start}
             R == {o \in Sq!Range(occurrences) : o.start < w.end /\ o.end > w.start}
             clipped(a) == [i \in DOMAIN a |-> [start |-> AtLeast(a[i].start, w.start),
                                                end |-> AtMost(a[i].end, w.end)]]
             clippedS(a) == [i \in DOMAIN a |-> [start |-> Sq!AtLeast(a[i].start, w.start),
                                                 end |-> Sq!AtMost(a[i].end, w.end)]]
  <2>2. v = clipped(Among(occurrences, S))
    BY <1>2, Zenon DEF Visible
  <2>3. Sq!Visible(occurrences, w) = clippedS(Sq!Among(occurrences, R))
    BY Zenon DEF Sq!Visible
  <2>4. R = S
    BY Zenon DEF Sq!Range, Range
  <2>5. \A a : clippedS(a) = clipped(a)
    BY Zenon DEF Sq!AtLeast, AtLeast, Sq!AtMost, AtMost
  <2> HIDE DEF S, R, clipped, clippedS
  <2> QED
    BY <2>1, <2>2, <2>3, <2>4, <2>5, Zenon
<1>5. Fragment(text, occurrences) = right(w, left(w, whole(w, v)))
  BY <1>1, <1>2, Zenon DEF Fragment
<1>6. Sq!Fragment(text, occurrences) = rightS(w, leftS(w, wholeS(w, v)))
  BY <1>3, <1>4, Zenon DEF Sq!Fragment
<1>7. partsS(w, v) = parts(w, v)
  BY Zenon DEF Sq!SegmentsTo, SegmentsTo, Sq!Segment, Segment
<1>8. lastS(w, v) = last(w, v)
  BY Zenon DEF Sq!Last, Last
<1>9. \A f : Sq!FlattenSeq(f) = FlattenSeq(f)
  BY Zenon DEF Sq!FlattenSeq, FlattenSeq
<1>10. \A n : Sq!Segment(text, n, w.end, FALSE) = Segment(text, n, w.end, FALSE)
  BY Zenon DEF Sq!Segment, Segment
<1>11. \A f : leftS(w, f) = left(w, f)
  BY Zenon DEF Sq!CutLeft, CutLeft, Sq!Plain, Plain
<1>12. \A f : rightS(w, f) = right(w, f)
  BY Zenon DEF Sq!CutRight, CutRight, Sq!Plain, Plain, Sq!Last, Last, Sq!Front, Front
<1> HIDE DEF last, lastS, parts, partsS, left, leftS, right, rightS
<1>13. wholeS(w, v) = whole(w, v)
  BY <1>7, <1>8, <1>9, <1>10, Zenon
<1> HIDE DEF whole, wholeS
<1> QED
  BY <1>5, <1>6, <1>11, <1>12, <1>13, Zenon

\* And its ranking.
LEMMA SameRanking ==
  ASSUME NEW hits, NEW offset, NEW size
  PROVE  Sq!RankSessions(hits, offset, size) = RankSessions(hits, offset, size)
<1>1. ASSUME NEW h, NEW e
      PROVE  Sq!FragmentTexts(Sq!HitsOf(h, e)) = FragmentTexts(HitsOf(h, e))
  <2>1. PICK own : own = HitsOf(h, e) /\ own = Sq!HitsOf(h, e)
    BY Zenon DEF HitsOf, Sq!HitsOf
  <2>2. PICK firsts : firsts = {x \in own : ~ \E g \in own : g.text = x.text /\ PieceBefore(g, x)}
    OBVIOUS
  <2>3. firsts = {x \in own : ~ \E g \in own : g.text = x.text /\ Sq!PieceBefore(g, x)}
    BY <2>2, Zenon DEF Sq!PieceBefore, PieceBefore
  <2>4. PICK order : order = Sorted(firsts, PieceBefore)
    OBVIOUS
  <2>5. Sq!Sorted(firsts, Sq!PieceBefore) = order
    BY <2>4, Zenon DEF Sq!Sorted, Sorted, Sq!PieceBefore, PieceBefore, Sq!Cardinality, Cardinality
  <2>6. FragmentTexts(own) = [i \in 1..AtMost(Len(order), FragmentsPerMatch) |-> order[i].text]
    BY <2>2, <2>4, Zenon DEF FragmentTexts
  <2>7. Sq!FragmentTexts(own) = [i \in 1..Sq!AtMost(Len(order), FragmentsPerMatch) |-> order[i].text]
    BY <2>3, <2>5, Zenon DEF Sq!FragmentTexts
  <2> QED
    BY <2>1, <2>6, <2>7, Zenon DEF Sq!AtMost, AtMost
<1>2. ASSUME NEW session PROVE Sq!RankSession(hits, session) = RankSession(hits, session)
  <2> DEFINE result(own, events, fresh, order) ==
               [session |-> session, matchCount |-> Cardinality(events),
                newMatchCount |-> Cardinality(fresh),
                matches |->
                  [i \in 1..AtMost(Len(order), MatchesPerSession) |->
                     [event |-> order[i], at |-> AtOf(own, order[i]),
                      new |-> order[i] \in fresh,
                      texts |-> FragmentTexts(HitsOf(own, order[i]))]]]
             resultS(own, events, fresh, order) ==
               [session |-> session, matchCount |-> Sq!Cardinality(events),
                newMatchCount |-> Sq!Cardinality(fresh),
                matches |->
                  [i \in 1..Sq!AtMost(Len(order), MatchesPerSession) |->
                     [event |-> order[i], at |-> Sq!AtOf(own, order[i]),
                      new |-> order[i] \in fresh,
                      texts |-> Sq!FragmentTexts(Sq!HitsOf(own, order[i]))]]]
             sorted(own, S)  == Sorted(S, LAMBDA a, b : EventBefore(own, a, b))
             sortedS(own, S) == Sq!Sorted(S, LAMBDA a, b : Sq!EventBefore(own, a, b))
             own    == {h \in hits : h.session = session}
             events == {h.event : h \in own}
             fresh  == {e \in events : HasNew(own, e)}
             freshS == {e \in events : Sq!HasNew(own, e)}
             order  == sorted(own, fresh) \o sorted(own, events \ fresh)
             orderS == sortedS(own, freshS) \o sortedS(own, events \ freshS)
  <2>1. RankSession(hits, session) = result(own, events, fresh, order)
    BY Zenon DEF RankSession
  <2>2. Sq!RankSession(hits, session) = resultS(own, events, freshS, orderS)
    BY Zenon DEF Sq!RankSession
  <2>4. freshS = fresh
    BY Zenon DEF Sq!HasNew, HasNew, Sq!HitsOf, HitsOf
  <2>5. \A S : sortedS(own, S) = sorted(own, S)
    BY Zenon DEF Sq!Sorted, Sorted, Sq!EventBefore, EventBefore, Sq!AtOf, AtOf, Sq!Cardinality, Cardinality
  <2> HIDE DEF own, events, fresh, freshS, sorted, sortedS, result, resultS
  <2>7. orderS = order
    <3>1. sortedS(own, freshS) = sorted(own, fresh)
      BY <2>4, <2>5, Zenon
    <3>2. events \ freshS = events \ fresh
      BY <2>4, Zenon
    <3>3. sortedS(own, events \ freshS) = sorted(own, events \ fresh)
      BY <2>5, <3>2, Zenon
    <3> QED
      BY <3>1, <3>3, Zenon
  <2> HIDE DEF order, orderS
  <2> USE DEF result, resultS
  <2>10. resultS(own, events, fresh, order) = result(own, events, fresh, order)
    <3>1. /\ Sq!Cardinality(events) = Cardinality(events) /\ Sq!Cardinality(fresh) = Cardinality(fresh)
          /\ Sq!AtMost(Len(order), MatchesPerSession) = AtMost(Len(order), MatchesPerSession)
      BY SameOperators, Zenon DEF Sq!AtMost, AtMost
    <3>2. ASSUME NEW i
          PROVE  [event |-> order[i], at |-> Sq!AtOf(own, order[i]), new |-> order[i] \in fresh,
                  texts |-> Sq!FragmentTexts(Sq!HitsOf(own, order[i]))]
                 = [event |-> order[i], at |-> AtOf(own, order[i]), new |-> order[i] \in fresh,
                    texts |-> FragmentTexts(HitsOf(own, order[i]))]
      BY <1>1, Zenon DEF Sq!AtOf, AtOf
    <3> QED
      BY <3>1, <3>2, Zenon
  <2> HIDE DEF result, resultS
  <2> QED
    BY <2>1, <2>2, <2>4, <2>7, <2>10
<1>3. PICK sessions : sessions = {h.session : h \in hits}
  OBVIOUS
<1>4. PICK order : order = Sorted(sessions, LAMBDA a, b : SessionBefore(hits, a, b))
  BY Zenon
<1>5. Sq!Sorted(sessions, LAMBDA a, b : Sq!SessionBefore(hits, a, b)) = order
  BY <1>4, Zenon DEF Sq!Sorted, Sorted, Sq!SessionBefore, SessionBefore, Sq!LatestHit, LatestHit,
     Sq!SidOf, SidOf, Sq!Max, Max, Sq!Cardinality, Cardinality
<1>6. PICK page : page = SubSeq(order, offset + 1, AtMost(offset + size, Len(order)))
  OBVIOUS
<1>7. SubSeq(order, offset + 1, Sq!AtMost(offset + size, Len(order))) = page
  BY <1>6, Zenon DEF Sq!AtMost, AtMost
<1>8. RankSessions(hits, offset, size)
        = [total |-> Len(order), sessions |-> [i \in DOMAIN page |-> RankSession(hits, page[i])]]
  BY <1>3, <1>4, <1>6, Zenon DEF RankSessions
<1>9. Sq!RankSessions(hits, offset, size)
        = [total |-> Len(order), sessions |-> [i \in DOMAIN page |-> Sq!RankSession(hits, page[i])]]
  BY <1>3, <1>5, <1>7, Zenon DEF Sq!RankSessions
<1> QED
  BY <1>2, <1>8, <1>9, Zenon

\* And its responses.
LEMMA SameAnswers ==
  ASSUME NEW page, NEW offset, NEW size, NEW details, NEW events, NEW fragments
  PROVE  /\ Sq!IntoResponse(page, offset, size, details, events, fragments)
              = IntoResponse(page, offset, size, details, events, fragments)
         /\ Sq!ShownEvents(page) = ShownEvents(page) /\ Sq!PageTexts(page) = PageTexts(page)
         /\ Sq!Offset(page) = Offset(page)
<1>1. Sq!IntoResponse(page, offset, size, details, events, fragments)
        = IntoResponse(page, offset, size, details, events, fragments)
  <2> DEFINE Found(texts)  == Among(texts, DOMAIN fragments)
             FoundS(texts) == Sq!Among(texts, DOMAIN fragments)
             Of(found)  == [i \in DOMAIN found |-> fragments[found[i]]]
             Shown(m)  == [event |-> m.event, at |-> m.at, new |-> m.new,
                           columns |-> events[m.event], fragments |-> Of(Found(m.texts))]
             ShownS(m) == [event |-> m.event, at |-> m.at, new |-> m.new,
                           columns |-> events[m.event], fragments |-> Of(FoundS(m.texts))]
             Kept(s)  == Among(s.matches, {m \in Range(s.matches) : m.event \in DOMAIN events})
             KeptS(s) == Sq!Among(s.matches, {m \in Sq!Range(s.matches) : m.event \in DOMAIN events})
             Result(s, kept) ==
               [session |-> s.session, details |-> details[s.session],
                providers |-> {events[m.event].provider : m \in Range(kept)},
                models |-> {events[m.event].model : m \in Range(kept)},
                matchCount |-> s.matchCount, newMatchCount |-> s.newMatchCount,
                matches |-> [i \in DOMAIN kept |-> Shown(kept[i])]]
             ResultS(s, kept) ==
               [session |-> s.session, details |-> details[s.session],
                providers |-> {events[m.event].provider : m \in Sq!Range(kept)},
                models |-> {events[m.event].model : m \in Sq!Range(kept)},
                matchCount |-> s.matchCount, newMatchCount |-> s.newMatchCount,
                matches |-> [i \in DOMAIN kept |-> ShownS(kept[i])]]
             Answer(all) ==
               [total |-> page.total, more |-> offset + size < page.total,
                items |-> [i \in DOMAIN all |-> Result(all[i], Kept(all[i]))]]
             AnswerS(all) ==
               [total |-> page.total, more |-> offset + size < page.total,
                items |-> [i \in DOMAIN all |-> ResultS(all[i], KeptS(all[i]))]]
             shown  == Among(page.sessions, {s \in Range(page.sessions) : s.session \in DOMAIN details})
             shownS == Sq!Among(page.sessions, {s \in Sq!Range(page.sessions) : s.session \in DOMAIN details})
  <2>1. \A seq, S : Sq!Among(seq, S) = Among(seq, S)
    BY SameAmong, Zenon
  <2>2. \A S : Sq!Range(S) = Range(S)
    BY SameOperators
  <2>3. IntoResponse(page, offset, size, details, events, fragments) = Answer(shown)
    BY Zenon DEF IntoResponse
  <2>4. Sq!IntoResponse(page, offset, size, details, events, fragments) = AnswerS(shownS)
    BY Zenon DEF Sq!IntoResponse
  <2>5. shownS = shown
    BY <2>1, <2>2, Zenon
  <2>6. \A s : KeptS(s) = Kept(s)
    BY <2>1, <2>2, Zenon
  <2>7. \A texts : FoundS(texts) = Found(texts)
    BY <2>1, Zenon
  <2> HIDE DEF shown, shownS, Kept, KeptS, Found, FoundS, Of
  <2>8. \A m : ShownS(m) = Shown(m)
    BY <2>7, Zenon
  <2> HIDE DEF Shown, ShownS
  <2>9. ASSUME NEW s, NEW kept PROVE ResultS(s, kept) = Result(s, kept)
    <3>1. Sq!Range(kept) = Range(kept)
      BY <2>2
    <3>2. [i \in DOMAIN kept |-> ShownS(kept[i])] = [i \in DOMAIN kept |-> Shown(kept[i])]
      BY <2>8, Zenon
    <3> QED
      BY <3>1, <3>2, Zenon
  <2> HIDE DEF Result, ResultS
  <2>10. ASSUME NEW i PROVE ResultS(shown[i], KeptS(shown[i])) = Result(shown[i], Kept(shown[i]))
    BY <2>6, <2>9, Zenon
  <2>11. AnswerS(shown) = Answer(shown)
    BY <2>10, Zenon
  <2> QED
    BY <2>3, <2>4, <2>5, <2>11, Zenon
<1>2. Sq!ShownEvents(page) = ShownEvents(page) /\ Sq!PageTexts(page) = PageTexts(page)
  BY Zenon DEF Sq!ShownEvents, ShownEvents, Sq!PageTexts, PageTexts, Sq!Range, Range
<1>3. Sq!Offset(page) = Offset(page)
  BY Zenon DEF Sq!Offset, Offset
<1> QED
  BY <1>1, <1>2, <1>3

\* An event of a search: its owner's, within the filters.
Sought(u, q, e) ==
  /\ e.user = u /\ InWindow(q, e.at) /\ AnyOf(q.agents, e.agent)
  /\ AnyOf(q.providers, e.provider) /\ AnyOf(q.models, e.model) /\ AnyOf(q.kinds, e.kind)

\* What a scan tells of a piece.
Scanned(d, e, p) ==
  [event |-> e.pk, session |-> d.sessions[e.session].pk, at |-> e.at, kind |-> e.kind,
   new |-> e.kind = "response" \/ p.entry >= e.newFrom, entry |-> p.entry,
   field |-> p.field, text |-> p.text]

\* What the scan of a search finds.
LEMMA ScanFinds ==
  ASSUME NEW u, NEW q, NEW h
  PROVE  h \in Scan(u, q) <=>
           \E e \in RowsOf(db) : /\ Sought(u, q, e)
                                 /\ \E p \in PiecesOf(e) : Matches(q.text, p.text) /\ h = Scanned(db, e, p)
<1> DEFINE rows == {f \in RowsOf(db) : Sought(u, q, f)}
           of(e) == {Scanned(db, e, p) : p \in {r \in PiecesOf(e) : Matches(q.text, r.text)}}
<1>1. Scan(u, q) = UNION {of(e) : e \in rows}
  BY Zenon DEF Scan, Scanned, Sought, PiecesOf
<1>2. \A e : h \in of(e) <=> \E p \in PiecesOf(e) : Matches(q.text, p.text) /\ h = Scanned(db, e, p)
  BY Zenon
<1> HIDE DEF of
<1>3. h \in Scan(u, q) <=> \E e \in rows : h \in of(e)
  BY <1>1, Zenon
<1> QED
  BY <1>2, <1>3, Zenon

\* What the references to texts tell of.
LEMMA SessionHitsFind ==
  ASSUME NEW u, NEW q, NEW texts, NEW g
  PROVE  g \in Sq!SessionHits(db, u, texts, q) <=>
           \E e \in RowsOf(db), r \in db.refs :
             Sought(u, q, e) /\ r.text \in texts /\ r.event = e.pk /\ g = Sq!HitRow(db, r, e)
<1> DEFINE pairs == {k \in db.refs \X RowsOf(db) :
                       k[1].text \in texts /\ k[1].event = k[2].pk /\ Sought(u, q, k[2])}
<1>1. Sq!RowsOf(db) = RowsOf(db)
  BY Zenon DEF Sq!RowsOf, RowsOf
<1>2. Sq!SessionHits(db, u, texts, q) = {Sq!HitRow(db, j[1], j[2]) : j \in
     {k \in db.refs \X RowsOf(db) :
        /\ k[1].text \in texts /\ k[1].event = k[2].pk
        /\ k[2].user = u /\ Sq!InWindow(q, k[2].at)
        /\ Sq!AnyOf(q.agents, k[2].agent) /\ Sq!AnyOf(q.providers, k[2].provider)
        /\ Sq!AnyOf(q.models, k[2].model) /\ Sq!AnyOf(q.kinds, k[2].kind)}}
  BY <1>1, Zenon DEF Sq!SessionHits
<1>3. ASSUME NEW k
      PROVE  (/\ k[1].text \in texts /\ k[1].event = k[2].pk
              /\ k[2].user = u /\ Sq!InWindow(q, k[2].at)
              /\ Sq!AnyOf(q.agents, k[2].agent) /\ Sq!AnyOf(q.providers, k[2].provider)
              /\ Sq!AnyOf(q.models, k[2].model) /\ Sq!AnyOf(q.kinds, k[2].kind))
             <=> (k[1].text \in texts /\ k[1].event = k[2].pk /\ Sought(u, q, k[2]))
  BY Zenon DEF Sought, Sq!InWindow, InWindow, Sq!AnyOf, AnyOf, Sq!None, None
<1>4. g \in Sq!SessionHits(db, u, texts, q) <=>
        \E j \in db.refs \X RowsOf(db) :
          /\ j[1].text \in texts /\ j[1].event = j[2].pk /\ Sought(u, q, j[2])
          /\ g = Sq!HitRow(db, j[1], j[2])
  BY <1>2, <1>3, Zenon
<1>5. ASSUME NEW e \in RowsOf(db), NEW r \in db.refs,
             Sought(u, q, e), r.text \in texts, r.event = e.pk, g = Sq!HitRow(db, r, e)
      PROVE  g \in Sq!SessionHits(db, u, texts, q)
  <2>1. PICK j : j = <<r, e>>
    OBVIOUS
  <2>2. j \in db.refs \X RowsOf(db) /\ j[1] = r /\ j[2] = e
    BY <2>1
  <2> QED
    BY <1>4, <1>5, <2>2, Zenon
<1>6. ASSUME g \in Sq!SessionHits(db, u, texts, q)
      PROVE  \E e \in RowsOf(db), r \in db.refs :
               Sought(u, q, e) /\ r.text \in texts /\ r.event = e.pk /\ g = Sq!HitRow(db, r, e)
  <2>1. PICK j \in db.refs \X RowsOf(db) :
          /\ j[1].text \in texts /\ j[1].event = j[2].pk /\ Sought(u, q, j[2])
          /\ g = Sq!HitRow(db, j[1], j[2])
    BY <1>4, <1>6, Zenon
  <2>2. PICK r, e : r = j[1] /\ e = j[2] /\ r \in db.refs /\ e \in RowsOf(db)
    BY <2>1
  <2> QED
    BY <2>1, <2>2, Zenon
<1> QED
  BY <1>5, <1>6, Zenon

\* A reference and the text it refers to tell of a piece of a stored event.
LEMMA ReferencesTell ==
  ASSUME Sound(db), Searchable(db), NEW r \in db.refs
  PROVE  \E t \in db.texts, e \in RowsOf(db) : \E p \in PiecesOf(e) :
           r.text = t.id /\ Tells(r, t, e.pk, e.user, p) /\ IsPiece(e.entries, p)
<1>1. PICK t \in db.texts : r.text = t.id
  BY Zenon DEF Searchable, IndexTrue
<1>2. PICK k \in EventIds : /\ db.events[k] # NoRow
                            /\ \E p \in PiecesOf(db.events[k]) :
                                 Tells(r, t, db.events[k].pk, db.events[k].user, p)
  BY <1>1, Zenon DEF Searchable, IndexTrue
<1>3. PICK e \in RowsOf(db) : e = db.events[k]
  BY <1>2 DEF RowsOf
<1>4. PICK p \in PiecesOf(e) : Tells(r, t, e.pk, e.user, p)
  BY <1>2, <1>3, Zenon
<1>5. e.entries \in Conversations
  BY <1>2, <1>3 DEF Searchable, StoredEvents
<1>6. IsPiece(e.entries, p)
  BY <1>5, PiecesAreOfEntries, Zenon DEF PiecesOf
<1> QED
  BY <1>1, <1>4, <1>6, Zenon

\* The pieces of stored events, and their references.
LEMMA PiecesAreReferred ==
  ASSUME Sound(db), Searchable(db), NEW e \in RowsOf(db)
  PROVE  /\ e.newFrom \in Int /\ e.sid \in Int
         /\ IsFiniteSet(PiecesOf(e))
         /\ \A p \in PiecesOf(e) :
              /\ IsPiece(e.entries, p)
              /\ \E r \in db.refs, t \in db.texts : Tells(r, t, e.pk, e.user, p)
<1>1. PICK k \in EventIds : db.events[k] # NoRow /\ e = db.events[k]
  BY DEF RowsOf
<1>2. e.entries \in Conversations /\ e.newFrom \in Int /\ e.sid \in Int
  BY <1>1 DEF Searchable, StoredEvents
<1>3. IsFiniteSet(PiecesOf(e)) /\ \A p \in PiecesOf(e) : IsPiece(e.entries, p)
  BY <1>2, PiecesAreOfEntries, Zenon DEF PiecesOf
<1>4. \A p \in PiecesOf(e) : \E r \in db.refs, t \in db.texts : Tells(r, t, e.pk, e.user, p)
  BY <1>1, Zenon DEF Searchable, IndexTrue
<1> QED
  BY <1>2, <1>3, <1>4

\* The owner's text of a number.
TextIs(u, id, text) == \E t \in db.texts : t.user = u /\ t.id = id /\ t.text = text

\* Candidates that are verified: the owner's texts that hold the query.
LEMMA MatchingTexts ==
  ASSUME Sound(db), Searchable(db), NEW u, NEW query \in Seq(Chars),
         NEW matching,
         matching = {t.id : t \in {c \in Sq!Candidates(db, u, query, Unknown) : Sq!Matches(query, c.text)}},
         NEW id
  PROVE  id \in matching <=> \E text : TextIs(u, id, text) /\ Matches(query, text)
<1> DEFINE found(t) == \/ TrigramExpression(query) = {}
                       \/ \E f \in db.trigrams : /\ f.rowid = t.id
                                                 /\ MatchesExpression(f.folded, TrigramExpression(query))
<1>1. Sq!Candidates(db, u, query, Unknown) = {t \in db.texts : t.user = u /\ found(t)}
  BY SameMatching, Zenon DEF Sq!Candidates
<1>2. ASSUME NEW t \in db.texts, Matches(query, t.text) PROVE found(t)
  <2>1. PICK r \in db.refs : r.text = t.id
    BY Zenon DEF Searchable, IndexTrue
  <2>2. PICK x \in db.texts, e \in RowsOf(db) : \E p \in PiecesOf(e) :
          r.text = x.id /\ Tells(r, x, e.pk, e.user, p) /\ IsPiece(e.entries, p)
    BY ReferencesTell, Zenon
  <2>3. x = t
    BY <2>1, <2>2, Zenon DEF Searchable, IndexTrue, TextsTrue
  <2>4. t.text \in Seq(Chars)
    BY <2>2, <2>3, Zenon DEF Tells, IsPiece
  <2>5. MatchesExpression(Fold(t.text), TrigramExpression(query))
    BY <1>2, <2>4, MatchesAreCandidates
  <2>6. PICK f : f = [rowid |-> t.id, folded |-> Fold(t.text)]
    OBVIOUS
  <2>7. f \in db.trigrams
    BY <2>6, Zenon DEF Searchable, IndexTrue, Trigrams
  <2>8. f.rowid = t.id /\ f.folded = Fold(t.text)
    BY <2>6
  <2> QED
    BY <2>5, <2>7, <2>8, Zenon
<1> HIDE DEF found
<1>3. id \in matching <=> \E t \in db.texts : t.user = u /\ found(t) /\ Matches(query, t.text) /\ t.id = id
  BY <1>1, SameMatching, Zenon
<1> QED
  BY <1>2, <1>3, Zenon DEF TextIs

\* A scan finds finitely many pieces.
LEMMA ScanIsFinite ==
  ASSUME Sound(db), Searchable(db), NEW u, NEW q
  PROVE  IsFiniteSet(Scan(u, q))
<1> DEFINE rows == {f \in RowsOf(db) : Sought(u, q, f)}
           held(e) == {r \in PiecesOf(e) : Matches(q.text, r.text)}
           of(e) == {Scanned(db, e, p) : p \in held(e)}
<1>1. Scan(u, q) = UNION {of(e) : e \in rows}
  BY Zenon DEF Scan, Scanned, Sought, PiecesOf
<1>2. ASSUME NEW e \in rows PROVE IsFiniteSet(of(e))
  <2>1. IsFiniteSet(PiecesOf(e))
    BY PiecesAreReferred
  <2>2. held(e) \subseteq PiecesOf(e)
    OBVIOUS
  <2> HIDE DEF held
  <2>3. IsFiniteSet(held(e))
    BY <2>1, <2>2, FS_Subset
  <2>4. PICK f : f = [p \in held(e) |-> Scanned(db, e, p)]
    OBVIOUS
  <2>5. of(e) = {f[p] : p \in held(e)}
    BY <2>4, Zenon
  <2> QED
    BY <2>3, <2>5, ImageIsFinite
<1> HIDE DEF of
<1>3. IsFiniteSet(rows)
  BY RowsAreSound, FS_Subset
<1> HIDE DEF rows
<1>4. IsFiniteSet({of(e) : e \in rows})
  <2>1. PICK f : f = [e \in rows |-> of(e)]
    OBVIOUS
  <2>2. {of(e) : e \in rows} = {f[e] : e \in rows}
    BY <2>1, Zenon
  <2> QED
    BY <1>3, <2>2, ImageIsFinite
<1> QED
  BY <1>1, <1>2, <1>4, FS_UNION

\* A hit of the index and one of the scan tell of the same piece.
Same(u, g, h) ==
  /\ g.event = h.event /\ g.session = h.session /\ g.at = h.at /\ g.new = h.new
  /\ g.entry = h.entry /\ g.field = h.field /\ TextIs(u, g.text, h.text)

Mirrors(u, hits, scan) ==
  /\ \A g \in hits : \E h \in scan : Same(u, g, h)
  /\ \A h \in scan : \E g \in hits : Same(u, g, h)

\* The texts of an owner that hold a query.
FoundTexts(u, query) ==
  {t.id : t \in {c \in Sq!Candidates(db, u, query, Unknown) : Sq!Matches(query, c.text)}}

\* What a reference and a scan tell of a piece.
LEMMA RowsTellSame ==
  ASSUME Sound(db), Searchable(db), NEW u, NEW e \in RowsOf(db), e.user = u,
         NEW r \in db.refs, NEW t \in db.texts, r.text = t.id, NEW p \in PiecesOf(e),
         Tells(r, t, e.pk, e.user, p), NEW g, g = Sq!HitRow(db, r, e)
  PROVE  /\ Same(u, g, Scanned(db, e, p))
         /\ g.event \in Int /\ g.session \in Int /\ g.sid \in Int /\ g.at \in Int /\ g.new \in BOOLEAN
         /\ g.entry \in Int /\ g.field \in {"name", "text"}
<1>1. /\ g.session = db.sessions[e.session].pk /\ g.sid = e.sid /\ g.event = e.pk /\ g.at = e.at
      /\ g.entry = r.entry /\ g.field = r.field /\ g.text = r.text
      /\ g.new = Sq!IsNew(e.kind, e.newFrom, r.entry)
  BY DEF Sq!HitRow
<1>2. PICK h : h = Scanned(db, e, p)
  OBVIOUS
<1>3. /\ h.event = e.pk /\ h.session = db.sessions[e.session].pk /\ h.at = e.at
      /\ h.new = (e.kind = "response" \/ p.entry >= e.newFrom)
      /\ h.entry = p.entry /\ h.field = p.field /\ h.text = p.text
  BY <1>2 DEF Scanned
<1>4. r.entry = p.entry /\ r.field = p.field /\ t.text = p.text /\ t.user = u
  BY Zenon DEF Tells
<1>5. p.entry \in Nat /\ e.newFrom \in Int /\ p.field \in {"name", "text"}
  BY PiecesAreReferred DEF IsPiece
<1>6. Sq!IsNew(e.kind, e.newFrom, r.entry) = (e.kind = "response" \/ p.entry >= e.newFrom)
  BY <1>4, <1>5 DEF Sq!IsNew, Sq!None
<1>7. TextIs(u, g.text, h.text)
  BY <1>1, <1>3, <1>4, Zenon DEF TextIs
<1>8. Same(u, g, h)
  BY <1>1, <1>3, <1>4, <1>6, <1>7, Zenon DEF Same
<1>9. /\ e.pk \in Int /\ e.at \in Int /\ e.sid \in Int
      /\ db.sessions[e.session].pk \in Int
  <2>1. e.pk \in Nat /\ e.at \in Int /\ e.session \in Existing(db)
    BY RowsAreSound
  <2>2. db.sessions[e.session].pk \in Nat
    BY <2>1 DEF Sound, SessionsAreSound, SessionRecords
  <2>3. e.sid \in Int
    BY PiecesAreReferred
  <2> QED
    BY <2>1, <2>2, <2>3
<1>10. g.new \in BOOLEAN
  BY <1>1, <1>6
<1> QED
  BY <1>1, <1>2, <1>4, <1>5, <1>8, <1>9, <1>10

\* The hits of the index are sound, and mirror those of a scan.
LEMMA HitsMirrorScan ==
  ASSUME Sound(db), Searchable(db), NEW u, NEW q, q.text \in Seq(Chars),
         NEW hits, hits = Sq!SessionHits(db, u, FoundTexts(u, q.text), q)
  PROVE  HitsAreSound(hits) /\ Mirrors(u, hits, Scan(u, q))
<1> DEFINE scan == Scan(u, q)
<1>1. PICK matching : matching = FoundTexts(u, q.text)
  OBVIOUS
<1>2. \A id : id \in matching <=> \E text : TextIs(u, id, text) /\ Matches(q.text, text)
  BY <1>1, MatchingTexts, Zenon DEF FoundTexts
<1>3. \A t, x \in db.texts : t.id = x.id => t = x
  BY Zenon DEF Searchable, IndexTrue, TextsTrue
<1>4. ASSUME NEW g \in hits
      PROVE  \E e \in RowsOf(db), r \in db.refs, t \in db.texts : \E p \in PiecesOf(e) :
               /\ Sought(u, q, e) /\ e.user = u /\ r.text = t.id /\ Tells(r, t, e.pk, e.user, p)
               /\ IsPiece(e.entries, p) /\ g = Sq!HitRow(db, r, e) /\ Matches(q.text, p.text)
  <2>1. PICK e \in RowsOf(db), r \in db.refs :
          Sought(u, q, e) /\ r.text \in matching /\ r.event = e.pk /\ g = Sq!HitRow(db, r, e)
    <3>1. g \in Sq!SessionHits(db, u, matching, q)
      BY <1>1
    <3> QED
      BY <3>1, SessionHitsFind
  <2>2. PICK t \in db.texts, f \in RowsOf(db) : \E p \in PiecesOf(f) :
          r.text = t.id /\ Tells(r, t, f.pk, f.user, p) /\ IsPiece(f.entries, p)
    BY ReferencesTell, Zenon
  <2>3. f.pk = r.event
    BY <2>2, Zenon DEF Tells
  <2>4. f = e
    BY <2>1, <2>3, RowsAreSound
  <2>5. PICK p \in PiecesOf(e) : r.text = t.id /\ Tells(r, t, e.pk, e.user, p) /\ IsPiece(e.entries, p)
    BY <2>2, <2>4, Zenon
  <2>6. PICK text : TextIs(u, t.id, text) /\ Matches(q.text, text)
    BY <1>2, <2>1, <2>5, Zenon
  <2>7. text = t.text
    BY <1>3, <2>6, Zenon DEF TextIs
  <2>8. p.text = t.text
    BY <2>5, Zenon DEF Tells
  <2>9. e.user = u
    BY <2>1, Zenon DEF Sought
  <2> QED
    BY <2>1, <2>5, <2>6, <2>7, <2>8, <2>9, Zenon
<1>5. ASSUME NEW g \in hits PROVE \E h \in scan : Same(u, g, h)
  <2>1. PICK e \in RowsOf(db), r \in db.refs, t \in db.texts : \E p \in PiecesOf(e) :
               /\ Sought(u, q, e) /\ e.user = u /\ r.text = t.id /\ Tells(r, t, e.pk, e.user, p)
               /\ IsPiece(e.entries, p) /\ g = Sq!HitRow(db, r, e) /\ Matches(q.text, p.text)
    BY <1>4, Zenon
  <2>2. PICK p \in PiecesOf(e) :
               /\ Sought(u, q, e) /\ e.user = u /\ r.text = t.id /\ Tells(r, t, e.pk, e.user, p)
               /\ IsPiece(e.entries, p) /\ g = Sq!HitRow(db, r, e) /\ Matches(q.text, p.text)
    BY <2>1, Zenon
  <2>3. Scanned(db, e, p) \in scan
    BY <2>2, ScanFinds, Zenon
  <2>4. Same(u, g, Scanned(db, e, p))
    BY <2>2, RowsTellSame
  <2> QED
    BY <2>3, <2>4, Zenon
<1>6. ASSUME NEW h \in scan PROVE \E g \in hits : Same(u, g, h)
  <2>1. PICK e \in RowsOf(db) : /\ Sought(u, q, e)
                                /\ \E p \in PiecesOf(e) : Matches(q.text, p.text) /\ h = Scanned(db, e, p)
    <3>1. h \in Scan(u, q)
      OBVIOUS
    <3> QED
      BY <3>1, ScanFinds
  <2>2. PICK p \in PiecesOf(e) : Matches(q.text, p.text) /\ h = Scanned(db, e, p)
    BY <2>1, Zenon
  <2>3. PICK r \in db.refs, t \in db.texts : Tells(r, t, e.pk, e.user, p)
    BY PiecesAreReferred, Zenon
  <2>4. r.text = t.id /\ r.event = e.pk /\ t.user = e.user /\ t.text = p.text /\ e.user = u
    BY <2>1, <2>3, Zenon DEF Tells, Sought
  <2>5. r.text \in matching
    BY <1>2, <2>2, <2>4, Zenon DEF TextIs
  <2>6. PICK g : g = Sq!HitRow(db, r, e)
    OBVIOUS
  <2>7. g \in hits
    BY <1>1, <2>1, <2>4, <2>5, <2>6, SessionHitsFind, Zenon
  <2>8. Same(u, g, h)
    BY <2>2, <2>3, <2>4, <2>6, RowsTellSame
  <2> QED
    BY <2>7, <2>8
<1>7. ASSUME NEW g \in hits
      PROVE  /\ g.event \in Int /\ g.session \in Int /\ g.sid \in Int /\ g.at \in Int /\ g.new \in BOOLEAN
             /\ g.entry \in Int /\ g.field \in {"name", "text"}
  <2>1. PICK e \in RowsOf(db), r \in db.refs, t \in db.texts : \E p \in PiecesOf(e) :
               /\ Sought(u, q, e) /\ e.user = u /\ r.text = t.id /\ Tells(r, t, e.pk, e.user, p)
               /\ IsPiece(e.entries, p) /\ g = Sq!HitRow(db, r, e) /\ Matches(q.text, p.text)
    BY <1>4, Zenon
  <2>2. PICK p \in PiecesOf(e) : e.user = u /\ r.text = t.id /\ Tells(r, t, e.pk, e.user, p)
                                 /\ g = Sq!HitRow(db, r, e)
    BY <2>1, Zenon
  <2> QED
    BY <2>2, RowsTellSame
<1>8. ASSUME NEW g \in hits, NEW h \in hits, g.event = h.event, g.entry = h.entry, g.field = h.field
      PROVE  g = h
  <2>1. PICK e \in RowsOf(db), r \in db.refs, t \in db.texts : \E p \in PiecesOf(e) :
               /\ Sought(u, q, e) /\ e.user = u /\ r.text = t.id /\ Tells(r, t, e.pk, e.user, p)
               /\ IsPiece(e.entries, p) /\ g = Sq!HitRow(db, r, e) /\ Matches(q.text, p.text)
    BY <1>4, Zenon
  <2>2. PICK p \in PiecesOf(e) : /\ r.text = t.id /\ Tells(r, t, e.pk, e.user, p)
                                 /\ IsPiece(e.entries, p) /\ g = Sq!HitRow(db, r, e)
    BY <2>1, Zenon
  <2>3. PICK f \in RowsOf(db), s \in db.refs, x \in db.texts : \E p2 \in PiecesOf(f) :
               /\ Sought(u, q, f) /\ f.user = u /\ s.text = x.id /\ Tells(s, x, f.pk, f.user, p2)
               /\ IsPiece(f.entries, p2) /\ h = Sq!HitRow(db, s, f) /\ Matches(q.text, p2.text)
    BY <1>4, Zenon
  <2>4. PICK o \in PiecesOf(f) : /\ s.text = x.id /\ Tells(s, x, f.pk, f.user, o)
                                 /\ IsPiece(f.entries, o) /\ h = Sq!HitRow(db, s, f)
    BY <2>3, Zenon
  <2>5. /\ g.event = e.pk /\ g.entry = r.entry /\ g.field = r.field
        /\ h.event = f.pk /\ h.entry = s.entry /\ h.field = s.field
    BY <2>2, <2>4 DEF Sq!HitRow
  <2>6. e = f
    BY <1>8, <2>5, RowsAreSound
  <2>7. r.entry = p.entry /\ r.field = p.field /\ s.entry = o.entry /\ s.field = o.field
        /\ t.text = p.text /\ x.text = o.text /\ t.user = e.user /\ x.user = f.user
    BY <2>2, <2>4, Zenon DEF Tells
  <2>8. p.entry = o.entry /\ p.field = o.field
    BY <1>8, <2>5, <2>7, Zenon
  <2>9. p.text = o.text
    BY <2>2, <2>4, <2>6, <2>8, Zenon DEF IsPiece
  <2>10. t = x
    <3>1. t.user = x.user /\ t.text = x.text
      BY <2>6, <2>7, <2>9, Zenon
    <3>2. \A a, b \in db.texts : a.user = b.user /\ a.text = b.text => a = b
      BY Zenon DEF Searchable, IndexTrue, TextsTrue
    <3> QED
      BY <3>1, <3>2
  <2>11. r.entry = s.entry /\ r.field = s.field /\ r.text = s.text
    BY <1>8, <2>2, <2>4, <2>5, <2>10, Zenon
  <2> QED
    BY <2>2, <2>4, <2>6, <2>11, Zenon DEF Sq!HitRow
<1>9. IsFiniteSet(hits)
  <2>1. IsFiniteSet(scan)
    BY ScanIsFinite
  <2> HIDE DEF scan
  <2>2. PICK f : f = [h \in scan |-> CHOOSE g \in hits : Same(u, g, h)]
    OBVIOUS
  <2>3. \A h \in scan : f[h] \in hits /\ Same(u, f[h], h)
    BY <1>6, <2>2, Zenon
  <2>4. ASSUME NEW g \in hits PROVE \E h \in scan : g = f[h]
    <3>1. PICK h \in scan : Same(u, g, h)
      BY <1>5
    <3>2. f[h] \in hits /\ Same(u, f[h], h)
      BY <2>3
    <3>3. g.event = f[h].event /\ g.entry = f[h].entry /\ g.field = f[h].field
      BY <3>1, <3>2, Zenon DEF Same
    <3> QED
      BY <1>8, <3>2, <3>3
  <2>5. hits = {f[h] : h \in scan}
    BY <2>3, <2>4, Zenon
  <2> QED
    BY <2>1, <2>5, ImageIsFinite
<1> HIDE DEF scan
<1>10. HitsAreSound(hits)
  BY <1>7, <1>8, <1>9, Zenon DEF HitsAreSound
<1> USE DEF scan
<1> QED
  BY <1>5, <1>6, <1>10, Zenon DEF Mirrors

\* Hits that mirror each other are of the same sessions and events, and as new.
LEMMA MirrorsAgree ==
  ASSUME NEW u, NEW hits, NEW scan, Mirrors(u, hits, scan)
  PROVE  /\ EventsHit(hits) = {h.event : h \in scan}
         /\ FreshHit(hits) = {h.event : h \in {g \in scan : g.new}}
         /\ SessionsHit(hits) = {h.session : h \in scan}
         /\ \A n : /\ Mirrors(u, HitsIn(hits, n), HitsIn(scan, n))
                   /\ LatestHit(hits, n) = LatestHit(scan, n)
<1>0. /\ \A g \in hits : \E h \in scan : /\ g.event = h.event /\ g.session = h.session
                                         /\ g.at = h.at /\ g.new = h.new /\ Same(u, g, h)
      /\ \A h \in scan : \E g \in hits : /\ g.event = h.event /\ g.session = h.session
                                         /\ g.at = h.at /\ g.new = h.new /\ Same(u, g, h)
  BY DEF Mirrors, Same
<1>1. EventsHit(hits) = {h.event : h \in scan}
  <2>1. ASSUME NEW e PROVE (\E g \in hits : e = g.event) <=> \E h \in scan : e = h.event
    BY <1>0
  <2> QED
    BY <2>1 DEF EventsHit
<1>2. SessionsHit(hits) = {h.session : h \in scan}
  <2>1. ASSUME NEW n PROVE (\E g \in hits : n = g.session) <=> \E h \in scan : n = h.session
    BY <1>0
  <2> QED
    BY <2>1 DEF SessionsHit
<1>3. FreshHit(hits) = {h.event : h \in {g \in scan : g.new}}
  <2>1. ASSUME NEW e PROVE e \in FreshHit(hits) <=> \E g \in hits : g.event = e /\ g.new
    BY DEF FreshHit, EventsHit, HasNew, HitsOf
  <2>2. ASSUME NEW e
        PROVE  (\E g \in hits : g.event = e /\ g.new) <=> \E h \in scan : h.event = e /\ h.new
    BY <1>0
  <2>3. ASSUME NEW e
        PROVE  e \in {h.event : h \in {g \in scan : g.new}} <=> \E h \in scan : h.event = e /\ h.new
    OBVIOUS
  <2> QED
    BY <2>1, <2>2, <2>3
<1>4. ASSUME NEW n PROVE Mirrors(u, HitsIn(hits, n), HitsIn(scan, n))
  <2>1. \A g \in HitsIn(hits, n) : \E h \in HitsIn(scan, n) : Same(u, g, h)
    BY <1>0 DEF HitsIn
  <2>2. \A h \in HitsIn(scan, n) : \E g \in HitsIn(hits, n) : Same(u, g, h)
    BY <1>0 DEF HitsIn
  <2> QED
    BY <2>1, <2>2 DEF Mirrors
<1>5. ASSUME NEW n PROVE LatestHit(hits, n) = LatestHit(scan, n)
  <2>1. ASSUME NEW at
        PROVE  (\E g \in hits : g.session = n /\ at = g.at) <=> \E h \in scan : h.session = n /\ at = h.at
    BY <1>0
  <2>2. {h.at : h \in {g \in hits : g.session = n}} = {h.at : h \in {g \in scan : g.session = n}}
    BY <2>1
  <2> QED
    BY <2>2, Zenon DEF LatestHit
<1> QED
  BY <1>1, <1>2, <1>3, <1>4, <1>5

\* What the store holds of the hits of a page.
LEMMA HitsAreHeld ==
  ASSUME Sound(db), Searchable(db), NEW u, NEW q, NEW texts,
         NEW g \in Sq!SessionHits(db, u, texts, q)
  PROVE  /\ \A pks : g.session \in pks => g.session \in DOMAIN Sq!SessionDetails(db, u, pks)
         /\ \A pks : g.event \in pks => g.event \in DOMAIN Sq!MatchedEvents(db, u, pks)
         /\ Sq!SessionStructure(db, u, g.session) # Sq!NotFound
<1>1. PICK e \in RowsOf(db), r \in db.refs : Sought(u, q, e) /\ g = Sq!HitRow(db, r, e)
  BY SessionHitsFind
<1>2. PICK k : k = e.session
  OBVIOUS
<1>3. /\ g.event = e.pk /\ g.session = db.sessions[k].pk
      /\ e.user = u /\ k \in Existing(db) /\ SessionKey[k].user = u
  <2>1. g.event = e.pk /\ g.session = db.sessions[k].pk
    BY <1>1, <1>2 DEF Sq!HitRow
  <2>2. e.user = u
    BY <1>1 DEF Sought
  <2> QED
    BY <1>2, <2>1, <2>2, RowsAreSound
<1>4. ASSUME NEW pks, g.session \in pks PROVE g.session \in DOMAIN Sq!SessionDetails(db, u, pks)
  <2>1. PICK s : s = [pk |-> db.sessions[k].pk, key |-> k, device |-> db.sessions[k].device,
                      started |-> db.sessions[k].started, ended |-> db.sessions[k].ended]
    OBVIOUS
  <2>2. s \in Sq!SessionRows(db)
    BY <1>3, <2>1 DEF Sq!SessionRows, Existing
  <2>3. s.key = k /\ s.pk = g.session
    BY <1>3, <2>1
  <2>4. DOMAIN Sq!SessionDetails(db, u, pks)
          = {x.pk : x \in {y \in Sq!SessionRows(db) : SessionKey[y.key].user = u /\ y.pk \in pks}}
    BY Zenon DEF Sq!SessionDetails
  <2> QED
    BY <1>3, <1>4, <2>2, <2>3, <2>4, Zenon
<1>5. ASSUME NEW pks, g.event \in pks PROVE g.event \in DOMAIN Sq!MatchedEvents(db, u, pks)
  <2>1. DOMAIN Sq!MatchedEvents(db, u, pks)
          = {f.pk : f \in {x \in Sq!RowsOf(db) : x.user = u /\ x.pk \in pks}}
    BY Zenon DEF Sq!MatchedEvents
  <2>2. Sq!RowsOf(db) = RowsOf(db)
    BY RowsAreSound
  <2> QED
    BY <1>3, <1>5, <2>1, <2>2, Zenon
<1>6. Sq!SessionStructure(db, u, g.session) # Sq!NotFound
  BY <1>3, SessionHasStructure
<1> QED
  BY <1>4, <1>5, <1>6

\* The fragment of a text an owner has.
LEMMA FragmentsAreHeld ==
  ASSUME Sound(db), Searchable(db), NEW u, NEW query, NEW ids, NEW id \in ids,
         NEW text, TextIs(u, id, text)
  PROVE  /\ id \in DOMAIN Sq!Fragments(db, u, query, ids)
         /\ Sq!Fragments(db, u, query, ids)[id] = Fragment(text, Occurrences(query, text))
<1>1. PICK t \in db.texts : t.user = u /\ t.id = id /\ t.text = text
  BY Zenon DEF TextIs
<1> DEFINE own == {x.id : x \in {c \in db.texts : c.user = u /\ c.id \in ids}}
<1>2. Sq!Fragments(db, u, query, ids)
        = [n \in own |-> Sq!Fragment(Sq!TextOf(db, n), Sq!Occurrences(query, Sq!TextOf(db, n)))]
  BY Zenon DEF Sq!Fragments
<1>3. id \in own
  BY <1>1, Zenon
<1>4. Sq!TextOf(db, id) = text
  <2>1. \A x \in db.texts : x.id = id => x = t
    BY <1>1, Zenon DEF Searchable, IndexTrue, TextsTrue
  <2>2. PICK x : x = CHOOSE y \in db.texts : y.id = id
    OBVIOUS
  <2>3. x \in db.texts /\ x.id = id
    BY <1>1, <2>2, Zenon
  <2> QED
    BY <1>1, <2>1, <2>2, <2>3, Zenon DEF Sq!TextOf
<1> HIDE DEF own
<1>5. /\ DOMAIN Sq!Fragments(db, u, query, ids) = own
      /\ Sq!Fragments(db, u, query, ids)[id]
           = Sq!Fragment(Sq!TextOf(db, id), Sq!Occurrences(query, Sq!TextOf(db, id)))
  BY <1>2, <1>3, Zenon
<1> QED
  BY <1>3, <1>4, <1>5, SameFragments, SameMatching, Zenon

IsSequence(s) == \E n \in Nat : s = [i \in 1..n |-> s[i]]

\* Nothing is left out of a sequence whose members are all kept.
LEMMA AllAreKept ==
  ASSUME NEW s, IsSequence(s), NEW kept, \A i \in DOMAIN s : s[i] \in kept
  PROVE  Among(s, kept) = s
<1>1. PICK n \in Nat : s = [i \in 1..n |-> s[i]]
  BY DEF IsSequence
<1>2. PICK S : S = {s[i] : i \in 1..n}
  OBVIOUS
<1>3. s \in [1..n -> S]
  BY <1>1, <1>2
<1>4. s \in Seq(S) /\ Len(s) = n
  BY <1>3
<1>5. DOMAIN s = 1..n
  BY <1>1
<1> QED
  BY <1>4, <1>5, AmongAll

\* What a page shows is there.
MatchIsHeld(m, events, fragments) ==
  /\ m.event \in DOMAIN events /\ IsSequence(m.texts)
  /\ \A j \in DOMAIN m.texts : m.texts[j] \in DOMAIN fragments

SessionIsHeld(s, details, events, fragments) ==
  /\ s.session \in DOMAIN details /\ IsSequence(s.matches)
  /\ \A k \in DOMAIN s.matches : MatchIsHeld(s.matches[k], events, fragments)

PageIsHeld(page, details, events, fragments) ==
  /\ IsSequence(page.sessions)
  /\ \A i \in DOMAIN page.sessions : SessionIsHeld(page.sessions[i], details, events, fragments)

\* An answer that leaves out nothing of what it is about.
TellsMatch(m, told, fragments) ==
  /\ told.event = m.event /\ told.new = m.new
  /\ told.fragments = [j \in DOMAIN m.texts |-> fragments[m.texts[j]]]

TellsSession(s, told, matches, fragments) ==
  /\ told.session = s.session
  /\ told.matchCount = s.matchCount /\ told.newMatchCount = s.newMatchCount
  /\ matches = [k \in DOMAIN s.matches |-> matches[k]]
  /\ \A k \in DOMAIN s.matches : TellsMatch(s.matches[k], matches[k], fragments)

TellsPage(page, offset, size, response, fragments) ==
  /\ "items" \in DOMAIN response
  /\ response.total = page.total /\ response.more = (offset + size < page.total)
  /\ response.items = [i \in DOMAIN page.sessions |-> response.items[i]]
  /\ \A i \in DOMAIN page.sessions :
       /\ "matches" \in DOMAIN response.items[i]
       /\ TellsSession(page.sessions[i], response.items[i], response.items[i].matches, fragments)

\* The response of a page.
LEMMA ResponseIsWhole ==
  ASSUME NEW page, NEW offset, NEW size, NEW details, NEW events, NEW fragments,
         PageIsHeld(page, details, events, fragments),
         NEW response, response = IntoResponse(page, offset, size, details, events, fragments)
  PROVE  TellsPage(page, offset, size, response, fragments)
<1> DEFINE Found(texts)  == Among(texts, DOMAIN fragments)
           Of(found)  == [i \in DOMAIN found |-> fragments[found[i]]]
           Shown(m)  == [event |-> m.event, at |-> m.at, new |-> m.new,
                         columns |-> events[m.event], fragments |-> Of(Found(m.texts))]
           Kept(s)  == Among(s.matches, {m \in Range(s.matches) : m.event \in DOMAIN events})
           All(kept) == [i \in DOMAIN kept |-> Shown(kept[i])]
           Result(s, kept) ==
             [session |-> s.session, details |-> details[s.session],
              providers |-> {events[m.event].provider : m \in Range(kept)},
              models |-> {events[m.event].model : m \in Range(kept)},
              matchCount |-> s.matchCount, newMatchCount |-> s.newMatchCount,
              matches |-> All(kept)]
           shown == Among(page.sessions, {s \in Range(page.sessions) : s.session \in DOMAIN details})
           items == [i \in DOMAIN shown |-> Result(shown[i], Kept(shown[i]))]
<1>1. response = [total |-> page.total, more |-> offset + size < page.total, items |-> items]
  BY Zenon DEF IntoResponse
<1>2. shown = page.sessions
  <2>1. ASSUME NEW i \in DOMAIN page.sessions
        PROVE  page.sessions[i] \in {s \in Range(page.sessions) : s.session \in DOMAIN details}
    BY Zenon DEF PageIsHeld, SessionIsHeld, Range
  <2>2. IsSequence(page.sessions)
    BY DEF PageIsHeld
  <2> QED
    BY <2>1, <2>2, AllAreKept
<1>3. ASSUME NEW i \in DOMAIN page.sessions
      PROVE  Kept(page.sessions[i]) = page.sessions[i].matches
  <2>1. PICK s : s = page.sessions[i]
    OBVIOUS
  <2>2. SessionIsHeld(s, details, events, fragments)
    BY <2>1 DEF PageIsHeld
  <2>3. ASSUME NEW k \in DOMAIN s.matches
        PROVE  s.matches[k] \in {m \in Range(s.matches) : m.event \in DOMAIN events}
    BY <2>2, Zenon DEF SessionIsHeld, MatchIsHeld, Range
  <2>4. IsSequence(s.matches)
    BY <2>2 DEF SessionIsHeld
  <2>5. Kept(s) = s.matches
    BY <2>3, <2>4, AllAreKept
  <2> QED
    BY <2>1, <2>5
<1>4. ASSUME NEW m, MatchIsHeld(m, events, fragments)
      PROVE  TellsMatch(m, Shown(m), fragments)
  <2>1. Found(m.texts) = m.texts
    BY <1>4, AllAreKept DEF MatchIsHeld
  <2> HIDE DEF Found
  <2>2. Shown(m).event = m.event /\ Shown(m).new = m.new /\ Shown(m).fragments = Of(m.texts)
    BY <2>1
  <2> HIDE DEF Shown
  <2> QED
    BY <2>2 DEF TellsMatch
<1> HIDE DEF shown, Kept, Shown
<1>5. ASSUME NEW s, SessionIsHeld(s, details, events, fragments), NEW told, told = Result(s, s.matches)
      PROVE  "matches" \in DOMAIN told /\ TellsSession(s, told, told.matches, fragments)
  <2>1. /\ told.session = s.session /\ told.matchCount = s.matchCount
        /\ told.newMatchCount = s.newMatchCount /\ told.matches = All(s.matches)
        /\ "matches" \in DOMAIN told
    <3> HIDE DEF All
    <3> QED
      BY <1>5
  <2>2. \A k \in DOMAIN s.matches : TellsMatch(s.matches[k], told.matches[k], fragments)
    <3>1. \A k \in DOMAIN s.matches : told.matches[k] = Shown(s.matches[k])
      BY <2>1
    <3> QED
      BY <1>4, <1>5, <3>1 DEF SessionIsHeld
  <2>3. told.matches = [k \in DOMAIN s.matches |-> told.matches[k]]
    BY <2>1
  <2> QED
    BY <2>1, <2>2, <2>3, Zenon DEF TellsSession
<1> HIDE DEF Result
<1>6. \A i \in DOMAIN page.sessions : items[i] = Result(page.sessions[i], page.sessions[i].matches)
  BY <1>2, <1>3
<1>7. items = [i \in DOMAIN page.sessions |-> items[i]]
  BY <1>2
<1> HIDE DEF items
<1>8. /\ response.total = page.total /\ response.items = items /\ "items" \in DOMAIN response
      /\ response.more = (offset + size < page.total)
  BY <1>1
<1>9. ASSUME NEW i \in DOMAIN page.sessions
      PROVE  /\ "matches" \in DOMAIN items[i]
             /\ TellsSession(page.sessions[i], items[i], items[i].matches, fragments)
  <2>1. SessionIsHeld(page.sessions[i], details, events, fragments)
    BY DEF PageIsHeld
  <2> QED
    BY <1>5, <1>6, <2>1
<1> QED
  BY <1>7, <1>8, <1>9, Zenon DEF TellsPage

\* A response with the place of each match.
LocatesPage(page, offset, size, located, fragments) ==
  /\ located.total = page.total /\ located.more = (offset + size < page.total)
  /\ located.items = [i \in DOMAIN page.sessions |-> located.items[i]]
  /\ \A i \in DOMAIN page.sessions :
       TellsSession(page.sessions[i], located.items[i],
                    [k \in DOMAIN located.items[i].matches |-> located.items[i].matches[k].match],
                    fragments)

\* The places are found if each session has a structure.
LEMMA LocatedIsWhole ==
  ASSUME NEW page, NEW offset, NEW size, NEW response, NEW fragments,
         TellsPage(page, offset, size, response, fragments),
         NEW structures,
         \A i \in DOMAIN page.sessions : structures[page.sessions[i].session] # Sq!NotFound
  PROVE  /\ Sq!LocateSearchMatches(response, structures) # NotFound
         /\ LocatesPage(page, offset, size, Head(Sq!LocateSearchMatches(response, structures)), fragments)
<1> DEFINE place(item, m) == Sq!EventPosition(Head(structures[item.session]), m.event)
           matches(item) == [i \in DOMAIN item.matches |->
                               [match |-> item.matches[i], location |-> place(item, item.matches[i])]]
           located(item) == [item EXCEPT !.matches = matches(item)]
           all == [i \in DOMAIN response.items |-> located(response.items[i])]
           answer == [response EXCEPT !.items = all]
<1>1. Sq!LocateSearchMatches(response, structures)
        = IF \E item \in Sq!Range(response.items) :
               item.matches # <<>> /\ structures[item.session] = Sq!NotFound
          THEN Sq!NotFound ELSE <<answer>>
  BY Zenon DEF Sq!LocateSearchMatches
<1>2. \A i \in DOMAIN page.sessions : response.items[i].session = page.sessions[i].session
  BY Zenon DEF TellsPage, TellsSession
<1>3. DOMAIN response.items = DOMAIN page.sessions
  BY DEF TellsPage
<1>4. \A item \in Sq!Range(response.items) : structures[item.session] # Sq!NotFound
  BY <1>2, <1>3, Zenon DEF Sq!Range
<1> HIDE DEF answer
<1>5. Sq!LocateSearchMatches(response, structures) = <<answer>>
  BY <1>1, <1>4, Zenon
<1>6. <<answer>> # NotFound /\ Head(<<answer>>) = answer
  BY HeadOfOne DEF NotFound
<1> USE DEF answer
<1>7. answer.total = response.total /\ answer.more = response.more /\ answer.items = all
  <2> HIDE DEF all
  <2> QED
    BY DEF TellsPage
<1> HIDE DEF answer
<1>8. all = [i \in DOMAIN page.sessions |-> all[i]]
  BY <1>3
<1>9. ASSUME NEW i \in DOMAIN page.sessions
      PROVE  TellsSession(page.sessions[i], all[i],
                          [k \in DOMAIN all[i].matches |-> all[i].matches[k].match], fragments)
  <2>1. PICK item : item = response.items[i]
    OBVIOUS
  <2>2. "matches" \in DOMAIN item /\ TellsSession(page.sessions[i], item, item.matches, fragments)
    BY <2>1 DEF TellsPage
  <2>3. all[i] = located(item)
    BY <1>3, <2>1
  <2> HIDE DEF all
  <2>4. /\ located(item).session = item.session /\ located(item).matchCount = item.matchCount
        /\ located(item).newMatchCount = item.newMatchCount /\ located(item).matches = matches(item)
    <3> HIDE DEF matches
    <3> QED
      BY <2>2
  <2> HIDE DEF located
  <2>5. DOMAIN matches(item) = DOMAIN item.matches /\ \A k \in DOMAIN item.matches : matches(item)[k].match = item.matches[k]
    BY Zenon
  <2> HIDE DEF matches
  <2>6. item.matches = [k \in DOMAIN page.sessions[i].matches |-> item.matches[k]]
    BY <2>2 DEF TellsSession
  <2>7. [k \in DOMAIN matches(item) |-> matches(item)[k].match] = item.matches
    BY <2>5, <2>6
  <2> DEFINE told == all[i]
             found == [k \in DOMAIN told.matches |-> told.matches[k].match]
  <2>9. told.matches = matches(item) /\ found = item.matches
    BY <2>3, <2>4, <2>7, Zenon
  <2>10. /\ told.session = item.session /\ told.matchCount = item.matchCount
         /\ told.newMatchCount = item.newMatchCount
    BY <2>3, <2>4, Zenon
  <2> HIDE DEF told, found
  <2>11. TellsSession(page.sessions[i], told, item.matches, fragments)
    BY <2>2, <2>10, Zenon DEF TellsSession
  <2> QED
    BY <2>9, <2>11, Zenon DEF told, found
<1> HIDE DEF all
<1>10. LocatesPage(page, offset, size, answer, fragments)
  BY <1>7, <1>8, <1>9, Zenon DEF LocatesPage, TellsPage
<1> QED
  BY <1>5, <1>6, <1>10

\* Texts of a match: at least one, and each of a piece of its event that a scan finds.
AreTexts(u, scan, n, e, texts) ==
  /\ \E m \in Nat \ {0} : texts = [i \in 1..m |-> texts[i]]
  /\ \A j \in DOMAIN texts : \E h \in HitsIn(scan, n) :
       h.event = e /\ TextIs(u, texts[j], h.text)

\* The texts a match shows.
LEMMA MatchesHaveTexts ==
  ASSUME NEW u, NEW hits, HitsAreSound(hits), NEW scan, Mirrors(u, hits, scan), NEW n,
         NEW e \in EventsHit(HitsIn(hits, n))
  PROVE  AreTexts(u, scan, n, e, FragmentTexts(HitsOf(HitsIn(hits, n), e)))
<1>0. PICK own : own = HitsIn(hits, n)
  OBVIOUS
<1> PICK texts : texts = FragmentTexts(HitsOf(own, e))
  OBVIOUS
<1>1. PICK some : some = HitsOf(own, e)
  OBVIOUS
<1>2. some \in SUBSET hits /\ some \subseteq own
  BY <1>0, <1>1 DEF HitsOf, HitsIn
<1>3. HitsAreSound(some)
  BY <1>2, SomeHitsAreSound
<1>4. some # {} /\ \A g \in some : g.event = e
  BY <1>0, <1>1 DEF HitsOf, EventsHit
<1>5. \A g, h \in some : g.event = h.event
  BY <1>4
<1>6. PICK m \in Nat \ {0} : /\ texts = [i \in 1..m |-> texts[i]]
                             /\ \A i \in 1..m : \E g \in some : texts[i] = g.text
  BY <1>1, <1>3, <1>4, <1>5, FragmentTextsAreHits
<1>7. DOMAIN texts = 1..m
  BY <1>6
<1>9. ASSUME NEW j \in DOMAIN texts
      PROVE  \E h \in HitsIn(scan, n) : h.event = e /\ TextIs(u, texts[j], h.text)
  <2>1. PICK g \in some : texts[j] = g.text
    BY <1>6, <1>7
  <2>2. g \in own /\ g.event = e
    BY <1>2, <1>4, <2>1
  <2>3. Mirrors(u, own, HitsIn(scan, n))
    BY <1>0, MirrorsAgree
  <2>4. PICK h \in HitsIn(scan, n) : Same(u, g, h)
    BY <2>2, <2>3 DEF Mirrors
  <2> QED
    BY <2>1, <2>2, <2>4, Zenon DEF Same
<1> QED
  BY <1>0, <1>6, <1>9 DEF AreTexts

\* What a page shows of a match is among what it shows.
LEMMA MatchesAreShown ==
  ASSUME NEW page, NEW s \in Range(page.sessions), NEW m \in Range(s.matches)
  PROVE  m.event \in ShownEvents(page) /\ \A t \in Range(m.texts) : t \in PageTexts(page)
<1>1. PICK E : E = {x.event : x \in Range(s.matches)}
  OBVIOUS
<1>2. m.event \in E
  BY <1>1
<1>3. E \in {{x.event : x \in Range(y.matches)} : y \in Range(page.sessions)}
  BY <1>1
<1>4. m.event \in ShownEvents(page)
  BY <1>2, <1>3 DEF ShownEvents
<1>5. PICK T : T = UNION {Range(x.texts) : x \in Range(s.matches)}
  OBVIOUS
<1>6. T \in {UNION {Range(x.texts) : x \in Range(y.matches)} : y \in Range(page.sessions)}
  BY <1>5
<1>7. Range(m.texts) \in {Range(x.texts) : x \in Range(s.matches)}
  OBVIOUS
<1>8. \A t \in Range(m.texts) : t \in T
  BY <1>5, <1>7
<1>9. \A t \in Range(m.texts) : t \in PageTexts(page)
  BY <1>6, <1>8 DEF PageTexts
<1> QED
  BY <1>4, <1>9

\* What a page of ranked hits shows is there.
LEMMA PagesAreHeld ==
  ASSUME Sound(db), Searchable(db), NEW u, NEW q, NEW texts,
         NEW hits, hits = Sq!SessionHits(db, u, texts, q), HitsAreSound(hits),
         NEW scan, Mirrors(u, hits, scan),
         NEW offset, NEW size, NEW page, ShowsPage(hits, offset, size, page)
  PROVE  /\ PageIsHeld(page, Sq!SessionDetails(db, u, {s.session : s \in Range(page.sessions)}),
                       Sq!MatchedEvents(db, u, ShownEvents(page)),
                       Sq!Fragments(db, u, q.text, PageTexts(page)))
         /\ \A i \in DOMAIN page.sessions :
              Sq!SessionStructure(db, u, page.sessions[i].session) # Sq!NotFound
<1>1. PICK details : details = Sq!SessionDetails(db, u, {s.session : s \in Range(page.sessions)})
  OBVIOUS
<1>2. PICK events : events = Sq!MatchedEvents(db, u, ShownEvents(page))
  OBVIOUS
<1>3. PICK fragments : fragments = Sq!Fragments(db, u, q.text, PageTexts(page))
  OBVIOUS
<1>4. IsSequence(page.sessions)
  BY DEF ShowsPage, IsSequence
<1>5. ASSUME NEW i \in DOMAIN page.sessions
      PROVE  /\ SessionIsHeld(page.sessions[i], details, events, fragments)
             /\ Sq!SessionStructure(db, u, page.sessions[i].session) # Sq!NotFound
  <2>1. PICK s : s = page.sessions[i]
    OBVIOUS
  <2>2. s \in Range(page.sessions)
    BY <2>1 DEF Range
  <2>3. PICK n : n = s.session
    OBVIOUS
  <2>4. n \in SessionsHit(hits) /\ IsRanked(HitsIn(hits, n), s)
    BY <2>1, <2>3 DEF ShowsPage
  <2>5. PICK g \in hits : g.session = n
    BY <2>4 DEF SessionsHit
  <2>6. n \in {t.session : t \in Range(page.sessions)}
    BY <2>2, <2>3
  <2>7. n \in DOMAIN details /\ Sq!SessionStructure(db, u, n) # Sq!NotFound
    BY <1>1, <2>5, <2>6, HitsAreHeld
  <2>8. PICK own : own = HitsIn(hits, n)
    OBVIOUS
  <2>9. ShowsMatches(own, s.matches)
    BY <2>4, <2>8 DEF IsRanked
  <2>10. IsSequence(s.matches)
    BY <2>9 DEF ShowsMatches, IsSequence
  <2>11. ASSUME NEW k \in DOMAIN s.matches
         PROVE  MatchIsHeld(s.matches[k], events, fragments)
    <3>1. PICK m : m = s.matches[k]
      OBVIOUS
    <3>2. m \in Range(s.matches)
      BY <3>1 DEF Range
    <3>3. m.event \in EventsHit(own) /\ m.texts = FragmentTexts(HitsOf(own, m.event))
      BY <2>9, <3>1 DEF ShowsMatches
    <3>4. PICK h \in hits : h.event = m.event
      BY <2>8, <3>3 DEF EventsHit, HitsIn
    <3>5. m.event \in ShownEvents(page)
      BY <2>2, <3>2, MatchesAreShown
    <3>6. m.event \in DOMAIN events
      BY <1>2, <3>4, <3>5, HitsAreHeld
    <3>7. /\ IsSequence(m.texts)
          /\ \A j \in DOMAIN m.texts : \E x \in HitsIn(scan, n) : TextIs(u, m.texts[j], x.text)
      <4>1. PICK e \in EventsHit(own) : e = m.event
        BY <3>3
      <4>2. m.texts = FragmentTexts(HitsOf(own, e))
        BY <3>3, <4>1
      <4>3. /\ IsSequence(m.texts)
            /\ \A j \in DOMAIN m.texts : \E x \in HitsIn(scan, n) :
                 x.event = e /\ TextIs(u, m.texts[j], x.text)
        <5>1. AreTexts(u, scan, n, e, FragmentTexts(HitsOf(HitsIn(hits, n), e)))
          BY <2>8, <4>1, MatchesHaveTexts
        <5> QED
          BY <2>8, <4>2, <5>1 DEF AreTexts, IsSequence
      <4> QED
        BY <4>3
    <3>8. ASSUME NEW j \in DOMAIN m.texts PROVE m.texts[j] \in DOMAIN fragments
      <4>1. PICK x \in HitsIn(scan, n) : TextIs(u, m.texts[j], x.text)
        BY <3>7
      <4>2. m.texts[j] \in Range(m.texts)
        BY DEF Range
      <4>3. m.texts[j] \in PageTexts(page)
        BY <2>2, <3>2, <4>2, MatchesAreShown
      <4> QED
        BY <1>3, <4>1, <4>3, FragmentsAreHeld
    <3> QED
      BY <3>1, <3>6, <3>7, <3>8, Zenon DEF MatchIsHeld
  <2> QED
    BY <2>1, <2>3, <2>7, <2>10, <2>11, Zenon DEF SessionIsHeld
<1> QED
  BY <1>1, <1>2, <1>3, <1>4, <1>5, Zenon DEF PageIsHeld

\* A search is answered, with what a page of its ranked hits tells.
LEMMA SearchAnswers ==
  ASSUME Sound(db), Searchable(db), NEW u, NEW q, q.text \in Seq(Chars),
         Offset(q) \in Nat, q.size \in Nat,
         NEW hits, hits = Sq!SessionHits(db, u, FoundTexts(u, q.text), q),
         NEW page, page = RankSessions(hits, Offset(q), q.size),
         NEW answer, answer = Sq!SessionSearch(db, u, q)
  PROVE  /\ answer # NotFound
         /\ LocatesPage(page, Offset(q), q.size, Head(answer),
                        Sq!Fragments(db, u, q.text, PageTexts(page)))
<1>1. HitsAreSound(hits) /\ Mirrors(u, hits, Scan(u, q))
  BY HitsMirrorScan
<1>2. ShowsPage(hits, Offset(q), q.size, page)
  BY <1>1, PageIsRanked
<1>3. PICK details : details = Sq!SessionDetails(db, u, {s.session : s \in Range(page.sessions)})
  OBVIOUS
<1>4. PICK events : events = Sq!MatchedEvents(db, u, ShownEvents(page))
  OBVIOUS
<1>5. PICK fragments : fragments = Sq!Fragments(db, u, q.text, PageTexts(page))
  OBVIOUS
<1>6. PageIsHeld(page, details, events, fragments)
  BY <1>1, <1>2, <1>3, <1>4, <1>5, PagesAreHeld
<1>7. PICK response : response = IntoResponse(page, Offset(q), q.size, details, events, fragments)
  OBVIOUS
<1>8. TellsPage(page, Offset(q), q.size, response, fragments)
  BY <1>6, <1>7, ResponseIsWhole
<1> DEFINE structures == [n \in {i.session : i \in Sq!Range(response.items)} |->
                            Sq!SessionStructure(db, u, n)]
<1>9. answer = Sq!LocateSearchMatches(response, structures)
  <2> DEFINE matching == {t.id : t \in {c \in Sq!Candidates(db, u, q.text, Unknown) : Sq!Matches(q.text, c.text)}}
             Filled(p) ==
               Sq!IntoResponse(p, Sq!Offset(q), q.size,
                     Sq!SessionDetails(db, u, {s.session : s \in Sq!Range(p.sessions)}),
                     Sq!MatchedEvents(db, u, Sq!ShownEvents(p)),
                     Sq!Fragments(db, u, q.text, Sq!PageTexts(p)))
             Located(r) ==
               Sq!LocateSearchMatches(r, [n \in {i.session : i \in Sq!Range(r.items)} |->
                                            Sq!SessionStructure(db, u, n)])
             ranked == Sq!RankSessions(Sq!SessionHits(db, u, matching, q), Sq!Offset(q), q.size)
  <2>1. answer = Located(Filled(ranked))
    BY Zenon DEF Sq!SessionSearch
  <2>2. matching = FoundTexts(u, q.text)
    BY Zenon DEF FoundTexts
  <2>3. Sq!Offset(q) = Offset(q)
    BY SameAnswers
  <2> HIDE DEF matching
  <2>4. ranked = page
    <3>1. Sq!SessionHits(db, u, matching, q) = hits
      BY <2>2
    <3>2. ranked = Sq!RankSessions(hits, Offset(q), q.size)
      BY <2>3, <3>1
    <3>3. Sq!RankSessions(hits, Offset(q), q.size) = RankSessions(hits, Offset(q), q.size)
      BY SameRanking
    <3>4. page = RankSessions(hits, Offset(q), q.size)
      OBVIOUS
    <3> HIDE DEF ranked
    <3> QED
      BY <3>2, <3>3, <3>4, Zenon
  <2> HIDE DEF ranked
  <2>5. /\ Sq!Range(page.sessions) = Range(page.sessions)
        /\ Sq!ShownEvents(page) = ShownEvents(page) /\ Sq!PageTexts(page) = PageTexts(page)
    BY SameOperators, SameAnswers
  <2>6. Filled(page) = Sq!IntoResponse(page, Offset(q), q.size, details, events, fragments)
    BY <1>3, <1>4, <1>5, <2>3, <2>5, Zenon
  <2>7. Filled(page) = response
    <3>1. Sq!IntoResponse(page, Offset(q), q.size, details, events, fragments)
            = IntoResponse(page, Offset(q), q.size, details, events, fragments)
      BY SameAnswers
    <3> HIDE DEF Filled
    <3> QED
      BY <1>7, <2>6, <3>1, Zenon
  <2> HIDE DEF Filled
  <2> QED
    BY <2>1, <2>4, <2>7, Zenon
<1>10. ASSUME NEW i \in DOMAIN page.sessions
       PROVE  structures[page.sessions[i].session] # Sq!NotFound
  <2>1. PICK n : n = page.sessions[i].session
    OBVIOUS
  <2>2. Sq!SessionStructure(db, u, n) # Sq!NotFound
    BY <1>1, <1>2, <2>1, PagesAreHeld
  <2>3. response.items[i].session = n /\ i \in DOMAIN response.items
    BY <1>8, <2>1, Zenon DEF TellsPage, TellsSession
  <2>4. n \in {x.session : x \in Sq!Range(response.items)}
    BY <2>3, Zenon DEF Sq!Range
  <2> QED
    BY <2>1, <2>2, <2>4
<1> HIDE DEF structures
<1> QED
  BY <1>5, <1>8, <1>9, <1>10, LocatedIsWhole

\* A piece that a scan finds is a text that holds the query.
LEMMA ScannedTexts ==
  ASSUME Sound(db), Searchable(db), NEW u, NEW q, NEW h \in Scan(u, q)
  PROVE  h.text \in Seq(Chars) /\ Matches(q.text, h.text)
<1>1. PICK e \in RowsOf(db) : \E p \in PiecesOf(e) : Matches(q.text, p.text) /\ h = Scanned(db, e, p)
  BY ScanFinds
<1>2. PICK p \in PiecesOf(e) : Matches(q.text, p.text) /\ h = Scanned(db, e, p)
  BY <1>1
<1>3. h.text = p.text
  BY <1>2 DEF Scanned
<1>4. IsPiece(e.entries, p)
  BY PiecesAreReferred
<1> QED
  BY <1>2, <1>3, <1>4 DEF IsPiece

\* A match of an answer shows the query in pieces of its event.
LEMMA MatchIsShown ==
  ASSUME Sound(db), Searchable(db), NEW u, NEW q, q.text \in Seq(Chars), q.text # <<>>, NEW n,
         NEW m, AreTexts(u, Scan(u, q), n, m.event, m.texts),
         NEW ids, \A j \in DOMAIN m.texts : m.texts[j] \in ids,
         NEW told, TellsMatch(m, told, Sq!Fragments(db, u, q.text, ids)),
         m.new = \E h \in HitsIn(Scan(u, q), n) : h.event = m.event /\ h.new
  PROVE  ShownMatch(HitsIn(Scan(u, q), n), q, told)
<1>1. PICK own : own = HitsIn(Scan(u, q), n)
  OBVIOUS
<1>2. PICK fragments : fragments = Sq!Fragments(db, u, q.text, ids)
  OBVIOUS
<1>3. told.event = m.event /\ told.new = m.new
  BY DEF TellsMatch
<1>4. told.fragments = [j \in DOMAIN m.texts |-> fragments[m.texts[j]]]
  BY <1>2 DEF TellsMatch
<1>5. PICK k \in Nat \ {0} : DOMAIN m.texts = 1..k
  BY DEF AreTexts
<1>6. told.fragments # <<>>
  BY <1>4, <1>5
<1>7. ASSUME NEW fragment \in Range(told.fragments)
      PROVE  /\ Matches(q.text, Highlighted(fragment))
             /\ \E h \in own : h.event = m.event
                  /\ fragment = Fragment(h.text, Occurrences(q.text, h.text))
  <2>1. PICK j \in DOMAIN m.texts : fragment = fragments[m.texts[j]]
    BY <1>4 DEF Range
  <2>2. PICK h \in own : h.event = m.event /\ TextIs(u, m.texts[j], h.text)
    BY <1>1 DEF AreTexts
  <2>3. PICK id \in ids : id = m.texts[j]
    OBVIOUS
  <2>4. PICK text : text = h.text
    OBVIOUS
  <2>5. fragments[id] = Fragment(text, Occurrences(q.text, text))
    BY <1>2, <2>2, <2>3, <2>4, FragmentsAreHeld
  <2>6. h \in Scan(u, q)
    BY <1>1 DEF HitsIn
  <2>7. text \in Seq(Chars) /\ Matches(q.text, text)
    BY <2>4, <2>6, ScannedTexts
  <2>8. Matches(q.text, MarkedText(Fragment(text, Occurrences(q.text, text))))
    BY <2>7, FragmentsMatch
  <2>9. Highlighted(fragment) = MarkedText(fragment)
    BY Zenon DEF Highlighted, MarkedText
  <2> QED
    BY <2>1, <2>2, <2>3, <2>4, <2>5, <2>8, <2>9, Zenon
<1> QED
  BY <1>1, <1>3, <1>6, <1>7, Zenon DEF ShownMatch

\* A session of an answer shows its part of a scan.
LEMMA SessionIsShown ==
  ASSUME Sound(db), Searchable(db), NEW u, NEW q, q.text \in Seq(Chars), q.text # <<>>,
         NEW hits, HitsAreSound(hits), Mirrors(u, hits, Scan(u, q)),
         NEW s, NEW n, n = s.session, IsRanked(HitsIn(hits, n), s),
         NEW ids, \A k \in DOMAIN s.matches :
                    \A j \in DOMAIN s.matches[k].texts : s.matches[k].texts[j] \in ids,
         NEW item,
         TellsSession(s, item, [k \in DOMAIN item.matches |-> item.matches[k].match],
                      Sq!Fragments(db, u, q.text, ids))
  PROVE  SessionShown(Scan(u, q), q, item)
<1>1. PICK scan : scan = HitsIn(Scan(u, q), n)
  OBVIOUS
<1>2. PICK own : own = HitsIn(hits, n)
  OBVIOUS
<1>3. Mirrors(u, own, scan)
  BY <1>1, <1>2, MirrorsAgree
<1>4. /\ EventsHit(own) = {h.event : h \in scan}
      /\ FreshHit(own) = {h.event : h \in {g \in scan : g.new}}
  BY <1>3, MirrorsAgree
<1>5. PICK events, fresh : events = EventsHit(own) /\ fresh = FreshHit(own)
  OBVIOUS
<1>6. /\ item.session = n
      /\ item.matchCount = Cardinality(events) /\ item.newMatchCount = Cardinality(fresh)
  BY <1>2, <1>5 DEF TellsSession, IsRanked
<1>7. PICK told : told = [k \in DOMAIN item.matches |-> item.matches[k].match]
  OBVIOUS
<1>8. ShowsMatches(own, s.matches)
  BY <1>2 DEF IsRanked
<1>9. PICK k \in Nat : /\ k = AtMost(Cardinality(events), MatchesPerSession)
                       /\ s.matches = [i \in 1..k |-> s.matches[i]]
  BY <1>5, <1>8 DEF ShowsMatches
<1>10. /\ told = [i \in DOMAIN s.matches |-> told[i]]
       /\ \A i \in DOMAIN s.matches :
            TellsMatch(s.matches[i], told[i], Sq!Fragments(db, u, q.text, ids))
  BY <1>7 DEF TellsSession
<1>11. DOMAIN s.matches = 1..k /\ DOMAIN told = 1..k /\ DOMAIN item.matches = 1..k
  <2>1. DOMAIN s.matches = 1..k
    BY <1>9
  <2>2. DOMAIN told = 1..k
    BY <1>10, <2>1
  <2> QED
    BY <1>7, <2>1, <2>2
<1>12. Len(item.matches) = AtMost(Cardinality(events), MatchesPerSession)
  BY <1>9, <1>11
<1>13. ASSUME NEW i \in 1..k
       PROVE  /\ ShownMatch(scan, q, told[i])
              /\ told[i].event = s.matches[i].event
              /\ told[i].new = (told[i].event \in fresh)
  <2>1. PICK m : m = s.matches[i]
    OBVIOUS
  <2>2. /\ m.event \in EventsHit(own) /\ m.new = (m.event \in fresh)
        /\ m.texts = FragmentTexts(HitsOf(own, m.event))
    BY <1>5, <1>8, <1>11, <2>1 DEF ShowsMatches
  <2>3. TellsMatch(m, told[i], Sq!Fragments(db, u, q.text, ids))
    BY <1>10, <1>11, <2>1
  <2>4. told[i].event = m.event /\ told[i].new = m.new
    BY <2>3 DEF TellsMatch
  <2>5. PICK e \in EventsHit(HitsIn(hits, n)) : e = m.event
    BY <1>2, <2>2
  <2>6. AreTexts(u, Scan(u, q), n, e, FragmentTexts(HitsOf(HitsIn(hits, n), e)))
    BY MatchesHaveTexts
  <2>7. AreTexts(u, Scan(u, q), n, m.event, m.texts)
    BY <1>2, <2>2, <2>5, <2>6
  <2>8. m.new = \E h \in scan : h.event = m.event /\ h.new
    <3>1. fresh = {h.event : h \in {g \in scan : g.new}}
      BY <1>4, <1>5
    <3>2. m.event \in fresh <=> \E h \in scan : h.event = m.event /\ h.new
      BY <3>1
    <3> DEFINE P == \E h \in scan : h.event = m.event /\ h.new
    <3>3. P \in BOOLEAN
      OBVIOUS
    <3>4. m.event \in fresh <=> P
      BY <3>2
    <3> HIDE DEF P
    <3>5. m.new = P
      BY <2>2, <3>3, <3>4
    <3> QED
      BY <3>5 DEF P
  <2>9. \A j \in DOMAIN m.texts : m.texts[j] \in ids
    BY <1>11, <2>1
  <2>10. ShownMatch(scan, q, told[i])
    BY <1>1, <2>3, <2>7, <2>8, <2>9, MatchIsShown
  <2> QED
    BY <2>1, <2>2, <2>4, <2>10
<1>14. \A i \in 1..k : told[i] = item.matches[i].match
  BY <1>7, <1>11
<1>15. ASSUME NEW i \in 1..k, NEW e \in fresh
       PROVE  told[i].new \/ \E j \in 1..i : told[j].event = e
  <2>1. s.matches[i].event \in fresh \/ \E j \in 1..i : s.matches[j].event = e
    BY <1>5, <1>8, <1>11 DEF ShowsMatches
  <2>2. CASE s.matches[i].event \in fresh
    BY <1>13, <2>2
  <2>3. CASE \E j \in 1..i : s.matches[j].event = e
    <3>1. PICK j \in 1..i : s.matches[j].event = e
      BY <2>3
    <3>2. j \in 1..k
      BY <1>9
    <3> QED
      BY <1>13, <3>1, <3>2
  <2> QED
    BY <2>1, <2>2, <2>3
<1>16. {h \in Scan(u, q) : h.session = item.session} = scan
  BY <1>1, <1>6 DEF HitsIn
<1>17. /\ events = {h.event : h \in scan}
       /\ fresh = {h.event : h \in {g \in scan : g.new}}
  BY <1>4, <1>5
<1> DEFINE Fits(S, E, F) ==
             /\ item.matchCount = Cardinality(E)
             /\ item.newMatchCount = Cardinality(F)
             /\ Len(item.matches) = AtMost(Cardinality(E), MatchesPerSession)
             /\ \A i \in DOMAIN item.matches : ShownMatch(S, q, item.matches[i].match)
             /\ \A i \in DOMAIN item.matches, e \in F :
                  item.matches[i].match.new \/ \E j \in 1..i : item.matches[j].match.event = e
<1>18. Fits(scan, events, fresh)
  <2>1. \A i \in DOMAIN item.matches : ShownMatch(scan, q, item.matches[i].match)
    BY <1>11, <1>13, <1>14
  <2>2. ASSUME NEW i \in DOMAIN item.matches, NEW e \in fresh
        PROVE  item.matches[i].match.new \/ \E j \in 1..i : item.matches[j].match.event = e
    <3>1. i \in 1..k /\ item.matches[i].match = told[i]
      BY <1>11, <1>14
    <3>2. \A j \in 1..i : item.matches[j].match = told[j]
      BY <1>9, <1>14, <3>1
    <3> QED
      BY <1>15, <3>1, <3>2
  <2> QED
    BY <1>6, <1>12, <2>1, <2>2
<1>19. SessionShown(Scan(u, q), q, item)
         = Fits({h \in Scan(u, q) : h.session = item.session},
                {h.event : h \in {h \in Scan(u, q) : h.session = item.session}},
                {h.event : h \in {g \in {h \in Scan(u, q) : h.session = item.session} : g.new}})
  BY Zenon DEF SessionShown
<1> HIDE DEF Fits
<1> QED
  BY <1>16, <1>17, <1>18, <1>19, Zenon

\* A page of ranked hits, with what the store holds of it, answers a search.
LEMMA PageAnswers ==
  ASSUME Sound(db), Searchable(db), NEW u, NEW q, q.text \in Seq(Chars), q.text # <<>>,
         NEW hits, HitsAreSound(hits), Mirrors(u, hits, Scan(u, q)),
         NEW page, ShowsPage(hits, Offset(q), q.size, page),
         Offset(q) + q.size = q.page * q.size,
         NEW response,
         LocatesPage(page, Offset(q), q.size, response, Sq!Fragments(db, u, q.text, PageTexts(page)))
  PROVE  Answered(Scan(u, q), q, response)
<1>1. PICK scan : scan = Scan(u, q)
  OBVIOUS
<1>2. PICK found : found = SessionsHit(hits)
  OBVIOUS
<1>3. found = {h.session : h \in scan}
  BY <1>1, <1>2, MirrorsAgree
<1>4. \A n : LatestHit(hits, n) = LatestHit(scan, n)
  BY <1>1, MirrorsAgree
<1>5. PICK to : to = q.page * q.size
  OBVIOUS
<1>6. PICK ids : ids = PageTexts(page)
  OBVIOUS
<1>7. page.total = Cardinality(found)
  BY <1>2 DEF ShowsPage
<1>8. PICK k \in Nat : /\ k = Less(AtMost(to, page.total), Offset(q))
                       /\ page.sessions = [i \in 1..k |-> page.sessions[i]]
  BY <1>5 DEF ShowsPage
<1>9. /\ response.total = page.total /\ response.more = (to < page.total)
      /\ response.items = [i \in DOMAIN page.sessions |-> response.items[i]]
  BY <1>5 DEF LocatesPage
<1>10. DOMAIN page.sessions = 1..k /\ DOMAIN response.items = 1..k
  <2>1. DOMAIN page.sessions = 1..k
    BY <1>8
  <2> QED
    BY <1>9, <2>1
<1>11. Len(response.items) = k
  BY <1>10
<1>12. ASSUME NEW i \in 1..k
       PROVE  /\ response.items[i].session \in found
              /\ Cardinality({o \in found :
                   LatestHit(hits, o) > LatestHit(hits, response.items[i].session)}) < to
              /\ SessionShown(scan, q, response.items[i])
  <2>1. PICK s : s = page.sessions[i]
    OBVIOUS
  <2>2. s \in Range(page.sessions)
    BY <1>10, <2>1 DEF Range
  <2>3. PICK n : n = s.session
    OBVIOUS
  <2>4. /\ n \in found /\ IsRanked(HitsIn(hits, n), s)
        /\ Cardinality({o \in found : LatestHit(hits, o) > LatestHit(hits, n)}) < to
    BY <1>2, <1>5, <1>10, <2>1, <2>3 DEF ShowsPage
  <2>5. PICK item : item = response.items[i]
    OBVIOUS
  <2>6. TellsSession(s, item, [j \in DOMAIN item.matches |-> item.matches[j].match],
                     Sq!Fragments(db, u, q.text, ids))
    BY <1>6, <1>10, <2>1, <2>5 DEF LocatesPage
  <2>7. item.session = n
    BY <2>3, <2>6 DEF TellsSession
  <2>8. ASSUME NEW j \in DOMAIN s.matches, NEW l \in DOMAIN s.matches[j].texts
        PROVE  s.matches[j].texts[l] \in ids
    <3>1. PICK m \in Range(s.matches) : m = s.matches[j]
      BY DEF Range
    <3>2. m.texts[l] \in Range(m.texts)
      BY <3>1 DEF Range
    <3> QED
      BY <1>6, <2>2, <3>1, <3>2, MatchesAreShown
  <2>9. SessionShown(Scan(u, q), q, item)
    BY <2>3, <2>4, <2>6, <2>8, SessionIsShown
  <2> QED
    BY <1>1, <2>4, <2>5, <2>7, <2>9
<1>13. \A item \in Range(response.items) : \E i \in 1..k : item = response.items[i]
  BY <1>10 DEF Range
<1> DEFINE shown == {i.session : i \in Range(response.items)}
           latest(n) == Max({h.at : h \in {g \in scan : g.session = n}})
<1>14. shown \subseteq found
  <2>1. ASSUME NEW n \in shown PROVE n \in found
    <3>1. PICK i \in 1..k : n = response.items[i].session
      BY <1>13
    <3> QED
      BY <1>12, <3>1
  <2> QED
    BY <2>1, Zenon
<1>15. ASSUME NEW n \in shown
       PROVE  Cardinality({o \in found : latest(o) > latest(n)}) < to
  <2>1. PICK i \in 1..k : n = response.items[i].session
    BY <1>13
  <2>2. \A o : LatestHit(hits, o) = latest(o)
    BY <1>4, Zenon DEF LatestHit
  <2> HIDE DEF latest
  <2>3. {o \in found : LatestHit(hits, o) > LatestHit(hits, n)} = {o \in found : latest(o) > latest(n)}
    BY <2>2
  <2>4. Cardinality({o \in found : LatestHit(hits, o) > LatestHit(hits, n)}) < to
    BY <1>12, <2>1
  <2> QED
    BY <2>3, <2>4
<1>16. \A item \in Range(response.items) : SessionShown(scan, q, item)
  BY <1>12, <1>13, Zenon
<1> DEFINE Fits(F) ==
             /\ response.total = Cardinality(F)
             /\ shown \subseteq F
             /\ Len(response.items) = Less(AtMost(q.page * q.size, Cardinality(F)), Offset(q))
             /\ response.more = (q.page * q.size < Cardinality(F))
             /\ \A n \in shown : Cardinality({o \in F : latest(o) > latest(n)}) < q.page * q.size
             /\ \A item \in Range(response.items) : SessionShown(scan, q, item)
<1>17. Answered(scan, q, response) = Fits({h.session : h \in scan})
  BY Zenon DEF Answered
<1> HIDE DEF shown, latest
<1>18. Fits(found)
  BY <1>5, <1>7, <1>8, <1>9, <1>11, <1>14, <1>15, <1>16
<1> HIDE DEF Fits
<1> QED
  BY <1>1, <1>3, <1>17, <1>18, Zenon

\* What a search may ask for.
LEMMA SearchesAreValid ==
  ASSUME NEW q \in SearchQueries
  PROVE  /\ q.text \in Seq(Chars) /\ q.text # <<>>
         /\ Offset(q) \in Nat /\ q.size \in Nat
         /\ Offset(q) + q.size = q.page * q.size
<1>1. q.text \in Seq(Chars) /\ q.text # <<>>
  BY QueryConstants
<1>2. PICK a, b \in Int : a = q.page /\ b = q.size
  BY QueryConstants
<1>3. a >= 1 /\ b \in Nat
  BY <1>2, QueryConstants DEF ValidSearch
<1>4. (a - 1) * b \in Nat /\ (a - 1) * b + b = a * b
  BY <1>3
<1> QED
  BY <1>1, <1>2, <1>3, <1>4 DEF Offset

\* A search finds what a scan finds.
LEMMA SearchFindsAll ==
  ASSUME Sound(db), Searchable(db), NEW u, NEW q \in SearchQueries
  PROVE  /\ Sq!SessionSearch(db, u, q) # NotFound
         /\ Answered(Scan(u, q), q, Head(Sq!SessionSearch(db, u, q)))
<1>1. /\ q.text \in Seq(Chars) /\ q.text # <<>>
      /\ Offset(q) \in Nat /\ q.size \in Nat
      /\ Offset(q) + q.size = q.page * q.size
  BY SearchesAreValid
<1>2. PICK hits : hits = Sq!SessionHits(db, u, FoundTexts(u, q.text), q)
  OBVIOUS
<1>3. PICK page : page = RankSessions(hits, Offset(q), q.size)
  OBVIOUS
<1>4. PICK answer : answer = Sq!SessionSearch(db, u, q)
  OBVIOUS
<1>5. HitsAreSound(hits) /\ Mirrors(u, hits, Scan(u, q))
  BY <1>1, <1>2, HitsMirrorScan
<1>6. ShowsPage(hits, Offset(q), q.size, page)
  BY <1>1, <1>3, <1>5, PageIsRanked
<1>7. /\ answer # NotFound
      /\ LocatesPage(page, Offset(q), q.size, Head(answer),
                     Sq!Fragments(db, u, q.text, PageTexts(page)))
  BY <1>1, <1>2, <1>3, <1>4, SearchAnswers
<1>8. Answered(Scan(u, q), q, Head(answer))
  BY <1>1, <1>5, <1>6, <1>7, PageAnswers
<1> QED
  BY <1>4, <1>7, <1>8

\* Search through the index (src/crates/abyss-backend/src/storage/sqlite/search) answers what
\* a scan of every stored piece answers: which sessions, how many, their order by latest match,
\* each session's matches and new matches, and fragments that show the query.
THEOREM SearchIsScanHolds == Spec => []SearchIsScan
<1>1. QueriesInv /\ Searchable(db) => SearchIsScan
  BY SearchFindsAll, Zenon DEF SearchIsScan, QueriesInv
<1> QED
  BY <1>1, SearchableAlways, PTL

-----------------------------------------------------------------------------
(* Search within a session. *)

HitOrder(S) == {p \in S \X S : Sq!HitBefore(p[1], p[2])}

\* The hits of one event have its time.
TimesAgree(S) == \A g, h \in S : g.event = h.event => g.at = h.at

\* Hits are ordered by time, event and place.
LEMMA HitsAreOrdered ==
  ASSUME NEW S, HitsAreSound(S), TimesAgree(S)
  PROVE  IsOrder(HitOrder(S), S)
<1> DEFINE at == [h \in S |-> h.at]
           key == [h \in S |-> h.event]
           place == [h \in S |-> 2 * h.entry + IF h.field = "name" THEN 0 ELSE 1]
           Q == {p \in S \X S : \/ key[p[1]] < key[p[2]]
                                \/ key[p[1]] = key[p[2]] /\ place[p[1]] < place[p[2]]}
<1>1. \A h \in S : /\ at[h] = h.at /\ h.at \in Int /\ key[h] = h.event /\ h.event \in Int
                   /\ place[h] = 2 * h.entry + (IF h.field = "name" THEN 0 ELSE 1)
                   /\ h.entry \in Int /\ h.field \in {"name", "text"} /\ place[h] \in Int
  BY DEF HitsAreSound
<1>2. \A g, h \in S : <<g, h>> \in Q <=> \/ key[g] < key[h]
                                         \/ key[g] = key[h] /\ place[g] < place[h]
  BY Zenon
<1> HIDE DEF at, key, place, Q
<1>3. ASSUME NEW g \in S, NEW h \in S
      PROVE  /\ place[g] = place[h] => g.entry = h.entry /\ g.field = h.field
             /\ place[g] < place[h] <=> \/ g.entry < h.entry
                                        \/ g.entry = h.entry /\ g.field = "name" /\ h.field = "text"
  <2>1. /\ g.entry \in Int /\ h.entry \in Int
        /\ place[g] = 2 * g.entry + (IF g.field = "name" THEN 0 ELSE 1)
        /\ place[h] = 2 * h.entry + (IF h.field = "name" THEN 0 ELSE 1)
        /\ g.field \in {"name", "text"} /\ h.field \in {"name", "text"}
    BY <1>1
  <2>2. PICK a \in {0, 1}, b \in {0, 1} : /\ a = (IF g.field = "name" THEN 0 ELSE 1)
                                          /\ b = (IF h.field = "name" THEN 0 ELSE 1)
    OBVIOUS
  <2>3. (a = b => g.field = h.field) /\ (a < b <=> g.field = "name" /\ h.field = "text")
    BY <2>1, <2>2
  <2>4. PICK x, y \in Int : x = g.entry /\ y = h.entry
    BY <2>1
  <2>5. place[g] = 2 * x + a /\ place[h] = 2 * y + b
    BY <2>1, <2>2, <2>4
  <2>6. (2 * x + a = 2 * y + b => x = y /\ a = b) /\ (2 * x + a < 2 * y + b <=> x < y \/ (x = y /\ a < b))
    BY <2>2, <2>4
  <2> QED
    BY <2>3, <2>4, <2>5, <2>6
<1>4. \A g, h \in S : key[g] = key[h] /\ place[g] = place[h] => g = h
  <2>1. ASSUME NEW g \in S, NEW h \in S, key[g] = key[h], place[g] = place[h] PROVE g = h
    <3>1. g.event = h.event /\ g.entry = h.entry /\ g.field = h.field
      BY <1>1, <1>3, <2>1
    <3> QED
      BY <3>1, Zenon DEF HitsAreSound
  <2> QED
    BY <2>1
<1>5. IsOrder(Q, S)
  <2>1. \A h \in S : key[h] \in Int /\ place[h] \in Int
    BY <1>1
  <2> QED
    BY <1>2, <1>4, <2>1, NumbersOrder
<1>6. ASSUME NEW g \in S, NEW h \in S
      PROVE  <<g, h>> \in HitOrder(S) <=> at[g] < at[h] \/ (at[g] = at[h] /\ <<g, h>> \in Q)
  <2>1. <<g, h>> \in HitOrder(S) <=> Sq!HitBefore(g, h)
    BY DEF HitOrder
  <2>2. g.event = h.event => g.at = h.at
    BY DEF TimesAgree
  <2>3. g.at \in Int /\ h.at \in Int /\ g.event \in Int /\ h.event \in Int
    BY <1>1
  <2>4. PICK b \in BOOLEAN : b <=> place[g] < place[h]
    OBVIOUS
  <2>5. Sq!HitBefore(g, h) <=> \/ g.at < h.at
                               \/ g.at = h.at /\ g.event < h.event
                               \/ g.event = h.event /\ b
    BY <1>3, <2>4, Zenon DEF Sq!HitBefore
  <2>6. <<g, h>> \in Q <=> g.event < h.event \/ (g.event = h.event /\ b)
    BY <1>1, <1>2, <2>4
  <2>7. at[g] = g.at /\ at[h] = h.at
    BY <1>1
  <2> QED
    BY <2>1, <2>2, <2>3, <2>5, <2>6, <2>7
<1>7. \A h \in S : at[h] \in Int
  BY <1>1
<1> QED
  BY <1>5, <1>6, <1>7, NumberThenOrder

SortedHits(S) == Sq!Sorted(S, Sq!HitBefore)

\* They are sorted by time, event and place.
LEMMA HitsAreSorted ==
  ASSUME NEW S, HitsAreSound(S), TimesAgree(S), NEW order, order = SortedHits(S)
  PROVE  /\ Cardinality(S) \in Nat /\ Enumerates(order, S, HitOrder(S))
         /\ \A i, j \in 1..Cardinality(S) : i < j => order[i].at <= order[j].at
<1>0. IsFiniteSet(S)
  BY DEF HitsAreSound
<1>1. PICK k \in Nat : k = Cardinality(S)
  BY <1>0, FS_CardinalityType
<1> DEFINE at(m) == CHOOSE h \in S : Cardinality({g \in S : Sq!HitBefore(g, h)}) = m - 1
<1>2. order = [m \in 1..k |-> at(m)]
  BY <1>1, Zenon DEF Sq!Sorted, SortedHits, Sq!Cardinality, Cardinality
<1>3. \A m \in 1..k : at(m) = CHOOSE h \in S : Cardinality({g \in S : Sq!HitBefore(g, h)}) = m - 1
  OBVIOUS
<1> HIDE DEF at
<1>4. order = [m \in 1..k |-> order[m]]
  BY <1>2
<1>5. \A h \in S : {g \in S : Sq!HitBefore(g, h)} = {g \in S : <<g, h>> \in HitOrder(S)}
  BY DEF HitOrder
<1>6. \A h \in S : Cardinality({g \in S : Sq!HitBefore(g, h)}) = Rank(HitOrder(S), S, h)
  BY <1>5 DEF Rank
<1>7. ASSUME NEW m \in 1..k PROVE order[m] = CHOOSE h \in S : Rank(HitOrder(S), S, h) = m - 1
  <2> DEFINE before(h) == Cardinality({g \in S : Sq!HitBefore(g, h)})
  <2>1. order[m] = CHOOSE h \in S : before(h) = m - 1
    BY <1>2, <1>3
  <2>2. \A h \in S : before(h) = Rank(HitOrder(S), S, h)
    BY <1>6
  <2> HIDE DEF before
  <2> QED
    BY <2>1, <2>2
<1>8. IsOrder(HitOrder(S), S)
  BY HitsAreOrdered
<1>9. Cardinality(S) \in Nat /\ Enumerates(order, S, HitOrder(S))
  BY <1>0, <1>1, <1>4, <1>7, <1>8, OrderPlaces, Zenon
<1>10. ASSUME NEW i \in 1..k, NEW j \in 1..k, i < j PROVE order[i].at <= order[j].at
  <2>1. PICK g \in S, h \in S : g = order[i] /\ h = order[j] /\ <<g, h>> \in HitOrder(S)
    BY <1>1, <1>9, <1>10 DEF Enumerates
  <2>2. Sq!HitBefore(g, h)
    BY <2>1 DEF HitOrder
  <2>3. g.at \in Int /\ h.at \in Int /\ (g.event = h.event => g.at = h.at)
    BY DEF HitsAreSound, TimesAgree
  <2>4. g.at < h.at \/ g.at = h.at
    BY <2>2, <2>3 DEF Sq!HitBefore
  <2> QED
    BY <2>1, <2>3, <2>4
<1> QED
  BY <1>1, <1>9, <1>10

\* Hits that mirror each other are as many.
LEMMA MirrorsCount ==
  ASSUME NEW u, NEW hits, HitsAreSound(hits), NEW scan, Mirrors(u, hits, scan),
         \A g, h \in scan : g.event = h.event /\ g.entry = h.entry /\ g.field = h.field => g = h
  PROVE  IsFiniteSet(scan) /\ Cardinality(scan) = Cardinality(hits)
<1> DEFINE f == [g \in hits |-> CHOOSE h \in scan : Same(u, g, h)]
<1>1. ASSUME NEW g \in hits PROVE f[g] \in scan /\ Same(u, g, f[g])
  <2>1. \E h \in scan : Same(u, g, h)
    BY DEF Mirrors
  <2>2. f[g] = CHOOSE h \in scan : Same(u, g, h)
    OBVIOUS
  <2> HIDE DEF f
  <2> QED
    BY <2>1, <2>2, Zenon
<1> HIDE DEF f
<1>2. ASSUME NEW h \in scan PROVE \E g \in hits : h = f[g]
  <2>1. PICK g \in hits : Same(u, g, h)
    BY DEF Mirrors
  <2>2. Same(u, g, f[g]) /\ f[g] \in scan
    BY <1>1
  <2>3. f[g].event = h.event /\ f[g].entry = h.entry /\ f[g].field = h.field
    BY <2>1, <2>2 DEF Same
  <2>4. f[g] = h
    BY <2>2, <2>3
  <2> QED
    BY <2>4
<1>3. ASSUME NEW g \in hits, NEW h \in hits, f[g] = f[h] PROVE g = h
  <2>1. Same(u, g, f[g]) /\ Same(u, h, f[g])
    BY <1>1, <1>3
  <2>2. g.event = h.event /\ g.entry = h.entry /\ g.field = h.field
    BY <2>1 DEF Same
  <2> QED
    BY <2>2, Zenon DEF HitsAreSound
<1>4. scan = {f[g] : g \in hits}
  BY <1>1, <1>2
<1>5. IsFiniteSet(hits)
  BY DEF HitsAreSound
<1> QED
  BY <1>3, <1>4, <1>5, ImageIsFinite

\* A scan finds each piece once.
LEMMA ScanIsKeyed ==
  ASSUME Sound(db), Searchable(db), NEW u, NEW q, NEW g \in Scan(u, q), NEW h \in Scan(u, q),
         g.event = h.event
  PROVE  g.at = h.at /\ (g.entry = h.entry /\ g.field = h.field => g = h)
<1>1. PICK e \in RowsOf(db) : \E p \in PiecesOf(e) : Matches(q.text, p.text) /\ g = Scanned(db, e, p)
  BY ScanFinds
<1>2. PICK p \in PiecesOf(e) : g = Scanned(db, e, p)
  BY <1>1
<1>3. PICK f \in RowsOf(db) : \E r \in PiecesOf(f) : Matches(q.text, r.text) /\ h = Scanned(db, f, r)
  BY ScanFinds
<1>4. PICK r \in PiecesOf(f) : h = Scanned(db, f, r)
  BY <1>3
<1>5. e.pk = f.pk
  BY <1>2, <1>4 DEF Scanned
<1>6. e = f
  BY <1>5, RowsAreSound
<1>7. IsPiece(e.entries, p) /\ IsPiece(e.entries, r)
  BY <1>6, PiecesAreReferred
<1>8. g.at = h.at
  BY <1>2, <1>4, <1>6 DEF Scanned
<1>9. ASSUME g.entry = h.entry, g.field = h.field PROVE g = h
  <2>1. p.entry = r.entry /\ p.field = r.field
    BY <1>2, <1>4, <1>9 DEF Scanned
  <2>2. p.text = r.text
    BY <1>7, <2>1 DEF IsPiece
  <2> QED
    BY <1>2, <1>4, <1>6, <2>1, <2>2, Zenon DEF Scanned
<1> QED
  BY <1>8, <1>9

\* A stored text is a text.
LEMMA TextsAreTexts ==
  ASSUME Sound(db), Searchable(db), NEW t \in db.texts
  PROVE  t.text \in Seq(Chars)
<1>1. PICK r \in db.refs : r.text = t.id
  BY Zenon DEF Searchable, IndexTrue
<1>2. PICK x \in db.texts, e \in RowsOf(db) : \E p \in PiecesOf(e) :
        r.text = x.id /\ Tells(r, x, e.pk, e.user, p) /\ IsPiece(e.entries, p)
  BY ReferencesTell, Zenon
<1>3. x = t
  BY <1>1, <1>2, Zenon DEF Searchable, IndexTrue, TextsTrue
<1> QED
  BY <1>2, <1>3, Zenon DEF Tells, IsPiece

\* A text holds a query if there is an occurrence.
LEMMA OccurrencesMatch ==
  ASSUME NEW query \in Seq(Chars), query # <<>>, NEW text \in Seq(Chars)
  PROVE  Occurrences(query, text) # <<>> <=> Matches(query, text)
<1>1. PICK s, f, q : s = Occurrences(query, text) /\ f = Fold(text) /\ q = Fold(query)
  OBVIOUS
<1>2. AreOccurrences(s, f, q, 0)
  BY <1>1, OccurrencesAreFound
<1>3. /\ f \in Seq(Chars) /\ Len(f) = Len(text) /\ q \in Seq(Chars) /\ Len(q) = Len(query)
      /\ Len(text) \in Nat /\ Len(query) \in Nat \ {0}
  BY <1>1, FoldIsAText
<1>4. Matches(query, text) <=> \E at \in 0..Len(f) : Holds(f, at, q)
  BY <1>1, <1>3, Zenon DEF Matches
<1>5. (\E at \in 0..Len(f) : Holds(f, at, q)) => s # <<>>
  BY <1>2 DEF AreOccurrences
<1>6. ASSUME s # <<>> PROVE \E at \in 0..Len(f) : Holds(f, at, q)
  <2>1. s \in Seq(TextSpans) /\ 1 \in 1..Len(s)
    BY <1>2, <1>6 DEF AreOccurrences
  <2>2. PICK at \in Nat : at = s[1].start
    <3>1. s[1] \in TextSpans
      BY <2>1
    <3> QED
      BY <3>1 DEF TextSpans
  <2>3. Holds(f, at, q)
    BY <1>2, <2>1, <2>2 DEF AreOccurrences
  <2>4. at + Len(q) <= Len(f)
    BY <1>3, <2>3, HoldsByPlace
  <2>5. at \in 0..Len(f)
    BY <1>3, <2>4
  <2> QED
    BY <2>3, <2>5
<1> QED
  BY <1>1, <1>4, <1>5, <1>6

\* What a search within a session asks of the whole index.
Everywhere(query) ==
  [from |-> None, to |-> None, agents |-> {}, providers |-> {}, models |-> {},
   kinds |-> {}, text |-> query]

\* It is about every event of the owner.
LEMMA EverywhereIsSought ==
  ASSUME NEW u, NEW query, NEW e
  PROVE  Sought(u, Everywhere(query), e) <=> e.user = u
<1>1. PICK q : q = Everywhere(query)
  OBVIOUS
<1>2. /\ q.from = None /\ q.to = None /\ q.agents = {} /\ q.providers = {} /\ q.models = {}
      /\ q.kinds = {}
  BY <1>1 DEF Everywhere
<1>3. InWindow(q, e.at)
  BY <1>2, Zenon DEF InWindow
<1>4. /\ AnyOf(q.agents, e.agent) /\ AnyOf(q.providers, e.provider) /\ AnyOf(q.models, e.model)
      /\ AnyOf(q.kinds, e.kind)
  BY <1>2, Zenon DEF AnyOf
<1> QED
  BY <1>1, <1>3, <1>4, Zenon DEF Sought

\* The verified candidates of a search within a session.
FoundHere(u, query, key) ==
  {t \in Sq!Candidates(db, u, query, key) : Sq!Occurrences(query, t.text) # <<>>}

\* They are texts of the owner that hold the query, and all that the session refers to.
LEMMA CandidatesHere ==
  ASSUME Sound(db), Searchable(db), NEW u, NEW query \in Seq(Chars), query # <<>>, NEW key,
         NEW t \in db.texts
  PROVE  /\ t \in FoundHere(u, query, key) => t.id \in FoundTexts(u, query)
         /\ \A r \in db.refs, e \in RowsOf(db) :
              /\ t.id \in FoundTexts(u, query) /\ r.text = t.id
              /\ e.user = u /\ e.session = key /\ r.event = e.pk
              => t \in FoundHere(u, query, key)
<1> DEFINE found == {x \in db.texts :
                       /\ x.user = u
                       /\ Sq!TrigramExpression(query) = {} \/ \E f \in db.trigrams :
                            f.rowid = x.id /\ Sq!MatchesExpression(f.folded, Sq!TrigramExpression(query))}
           events == {e.pk : e \in {f \in RowsOf(db) : f.user = u /\ f.session = key}}
           here == {x \in found : \E r \in db.refs : r.event \in events /\ r.text = x.id}
<1>1. Sq!RowsOf(db) = RowsOf(db)
  BY RowsAreSound
<1>2. Sq!Candidates(db, u, query, Unknown) = found
  BY Zenon DEF Sq!Candidates
<1>3. Sq!Candidates(db, u, query, key) = IF key = Unknown THEN found ELSE here
  BY <1>1, Zenon DEF Sq!Candidates
<1>4. \A x \in db.texts : Sq!Occurrences(query, x.text) # <<>> <=> Matches(query, x.text)
  BY TextsAreTexts, OccurrencesMatch, SameMatching
<1>5. \A x \in db.texts : Sq!Matches(query, x.text) = Matches(query, x.text)
  BY SameMatching
<1> HIDE DEF found, events
<1>6. t.id \in FoundTexts(u, query) <=> t \in found /\ Matches(query, t.text)
  <2>1. t.id \in FoundTexts(u, query) <=> \E x \in found : Sq!Matches(query, x.text) /\ x.id = t.id
    BY <1>2, Zenon DEF FoundTexts
  <2>2. \A x \in found : x \in db.texts
    BY DEF found
  <2>3. \A x \in db.texts : x.id = t.id => x = t
    BY Zenon DEF Searchable, IndexTrue, TextsTrue
  <2> QED
    BY <1>5, <2>1, <2>2, <2>3
<1>7. t \in FoundHere(u, query, key) <=> t \in Sq!Candidates(db, u, query, key) /\ Matches(query, t.text)
  BY <1>4, Zenon DEF FoundHere
<1>8. t \in Sq!Candidates(db, u, query, key) => t \in found
  BY <1>3, Zenon
<1>9. ASSUME NEW r \in db.refs, NEW e \in RowsOf(db), t \in found, r.text = t.id,
             e.user = u, e.session = key, r.event = e.pk
      PROVE  t \in Sq!Candidates(db, u, query, key)
  <2>1. e.pk \in events
    BY <1>9 DEF events
  <2>2. t \in here
    BY <1>9, <2>1, Zenon
  <2> QED
    BY <1>3, <1>9, <2>2, Zenon
<1> QED
  BY <1>6, <1>7, <1>8, <1>9

\* The hits of a search within a session.
HitsHere(u, key, texts) ==
  {Sq!HitRow(db, j[1], j[2]) : j \in
     {k \in db.refs \X RowsOf(db) :
        /\ k[2].user = u /\ k[2].session = key
        /\ k[1].event = k[2].pk /\ k[1].text \in texts}}

\* They are the session's part of the hits of a search everywhere.
LEMMA HitsHereFind ==
  ASSUME Sound(db), Searchable(db), NEW u, NEW query \in Seq(Chars), query # <<>>,
         NEW key \in Existing(db),
         NEW texts, texts = {t.id : t \in FoundHere(u, query, key)}
  PROVE  HitsHere(u, key, texts)
           = HitsIn(Sq!SessionHits(db, u, FoundTexts(u, query), Everywhere(query)), db.sessions[key].pk)
<1>1. PICK q : q = Everywhere(query)
  OBVIOUS
<1>2. PICK all : all = Sq!SessionHits(db, u, FoundTexts(u, query), q)
  OBVIOUS
<1>3. PICK n : n = db.sessions[key].pk
  OBVIOUS
<1>4. \A e \in RowsOf(db) : Sought(u, q, e) <=> e.user = u
  BY <1>1, EverywhereIsSought
<1>5. \A k \in Existing(db) : db.sessions[k].pk = n => k = key
  BY <1>3 DEF Sound, SessionsAreSound
<1>6. \A r, e : Sq!HitRow(db, r, e).session = db.sessions[e.session].pk
  BY DEF Sq!HitRow
<1>7. \A t, x \in db.texts : t.id = x.id => t = x
  BY Zenon DEF Searchable, IndexTrue, TextsTrue
<1>8. \A t \in FoundHere(u, query, key) : t \in db.texts
  <2>1. \A t \in Sq!Candidates(db, u, query, key) : t \in db.texts
    BY Zenon DEF Sq!Candidates
  <2> QED
    BY <2>1, Zenon DEF FoundHere
<1>9. ASSUME NEW r \in db.refs, NEW e \in RowsOf(db), e.user = u, e.session = key, r.event = e.pk
      PROVE  r.text \in texts <=> r.text \in FoundTexts(u, query)
  <2>1. PICK t \in db.texts : r.text = t.id
    BY ReferencesTell, Zenon
  <2>2. r.text \in texts => t \in FoundHere(u, query, key)
    BY <1>7, <1>8, <2>1
  <2>3. t \in FoundHere(u, query, key) => r.text \in texts
    BY <2>1
  <2>4. t \in FoundHere(u, query, key) => t.id \in FoundTexts(u, query)
    BY CandidatesHere
  <2>5. t.id \in FoundTexts(u, query) => t \in FoundHere(u, query, key)
    BY <1>9, <2>1, CandidatesHere
  <2> QED
    BY <2>1, <2>2, <2>3, <2>4, <2>5
<1>10. ASSUME NEW g \in HitsHere(u, key, texts) PROVE g \in HitsIn(all, n)
  <2>1. PICK j \in db.refs \X RowsOf(db) :
          /\ j[2].user = u /\ j[2].session = key /\ j[1].event = j[2].pk /\ j[1].text \in texts
          /\ g = Sq!HitRow(db, j[1], j[2])
    BY DEF HitsHere
  <2>2. PICK r \in db.refs, e \in RowsOf(db) : r = j[1] /\ e = j[2]
    BY <2>1
  <2>3. /\ e.user = u /\ e.session = key /\ r.event = e.pk /\ r.text \in FoundTexts(u, query)
        /\ g = Sq!HitRow(db, r, e)
    BY <1>9, <2>1, <2>2
  <2>4. Sought(u, q, e)
    BY <1>4, <2>3
  <2>5. g \in all
    BY <1>2, <2>3, <2>4, SessionHitsFind
  <2>6. g.session = n
    BY <1>3, <1>6, <2>3
  <2> QED
    BY <2>5, <2>6 DEF HitsIn
<1>11. ASSUME NEW g \in HitsIn(all, n) PROVE g \in HitsHere(u, key, texts)
  <2>1. g \in all /\ g.session = n
    BY DEF HitsIn
  <2>2. PICK e \in RowsOf(db), r \in db.refs :
          Sought(u, q, e) /\ r.text \in FoundTexts(u, query) /\ r.event = e.pk /\ g = Sq!HitRow(db, r, e)
    BY <1>2, <2>1, SessionHitsFind
  <2>3. e.user = u
    BY <1>4, <2>2
  <2>4. e.session = key
    <3>1. e.session \in Existing(db)
      BY RowsAreSound
    <3> QED
      BY <1>5, <1>6, <2>1, <2>2, <3>1
  <2>5. r.text \in texts
    BY <1>9, <2>2, <2>3, <2>4
  <2>6. PICK j : j = <<r, e>>
    OBVIOUS
  <2>7. j \in db.refs \X RowsOf(db) /\ j[1] = r /\ j[2] = e
    BY <2>6
  <2> QED
    BY <2>2, <2>3, <2>4, <2>5, <2>7, Zenon DEF HitsHere
<1> QED
  BY <1>1, <1>2, <1>3, <1>10, <1>11

\* Offsets in code units are the same in the profile's reads.
LEMMA SameUnits ==
  ASSUME NEW text, NEW ranges, NEW at
  PROVE  /\ Sq!CharacterOffset(text, at) = CharacterOffset(text, at)
         /\ Sq!Utf16Ranges(text, ranges) = Utf16Ranges(text, ranges)
<1>1. \A s : Sq!FoldLeft(LAMBDA n, c : n + Units[c], 0, s) = FoldLeft(LAMBDA n, c : n + Units[c], 0, s)
  BY Zenon DEF Sq!FoldLeft, FoldLeft, Sq!MapThenFoldSet, MapThenFoldSet, Sq!Max, Max
<1>2. \A p : Sq!CharacterOffset(text, p) = CharacterOffset(text, p)
  <2>1. \A p : Sq!AtMost(p, Len(text)) = AtMost(p, Len(text))
    BY Zenon DEF Sq!AtMost, AtMost
  <2>2. ASSUME NEW p PROVE Sq!CharacterOffset(text, p) = CharacterOffset(text, p)
    <3>1. PICK s : s = SubSeq(text, 1, AtMost(p, Len(text)))
      OBVIOUS
    <3>2. CharacterOffset(text, p) = FoldLeft(LAMBDA n, c : n + Units[c], 0, s)
      BY <3>1, Zenon DEF CharacterOffset
    <3>3. Sq!CharacterOffset(text, p) = Sq!FoldLeft(LAMBDA n, c : n + Units[c], 0, s)
      BY <2>1, <3>1, Zenon DEF Sq!CharacterOffset
    <3> QED
      BY <1>1, <3>2, <3>3, Zenon
  <2> QED
    BY <2>2
<1>3. Sq!Utf16Ranges(text, ranges) = Utf16Ranges(text, ranges)
  <2> DEFINE a(i) == CharacterOffset(text, ranges[i].start)
             b(i) == CharacterOffset(text, ranges[i].end)
             c(i) == Sq!CharacterOffset(text, ranges[i].start)
             d(i) == Sq!CharacterOffset(text, ranges[i].end)
  <2>1. Utf16Ranges(text, ranges) = [i \in DOMAIN ranges |-> <<a(i), b(i)>>]
    BY Zenon DEF Utf16Ranges
  <2>2. Sq!Utf16Ranges(text, ranges) = [i \in DOMAIN ranges |-> <<c(i), d(i)>>]
    BY Zenon DEF Sq!Utf16Ranges
  <2>3. \A i : c(i) = a(i) /\ d(i) = b(i)
    BY <1>2, Zenon
  <2> HIDE DEF a, b, c, d
  <2> QED
    BY <2>1, <2>2, <2>3
<1> QED
  BY <1>2, <1>3

\* The first of the hits in a session, at most so many, as a scan has them.
ListsFirst(u, listed, most, scan) ==
  \E m \in Nat : /\ m = AtMost(Cardinality(scan), most)
                 /\ listed = [i \in 1..m |-> listed[i]]
                 /\ \A i \in 1..m : \E h \in scan : Same(u, listed[i], h)
                 /\ \A i, j \in 1..m : i < j => listed[i].at <= listed[j].at

\* The hits that are read for a search within a session.
LEMMA HitsHereAreListed ==
  ASSUME Sound(db), Searchable(db), NEW u, NEW query \in Seq(Chars), query # <<>>,
         NEW key \in Existing(db),
         NEW texts, texts = {t.id : t \in FoundHere(u, query, key)},
         NEW scan, scan = HitsIn(Scan(u, Everywhere(query)), db.sessions[key].pk),
         NEW listed, listed = Sq!HitsInSession(db, u, key, texts)
  PROVE  /\ Cardinality(scan) \in Nat /\ ListsFirst(u, listed, MaxInSessionHits + 1, scan)
         /\ \A i \in DOMAIN listed : listed[i] \in HitsHere(u, key, texts)
<1>1. PICK q : q = Everywhere(query)
  OBVIOUS
<1>2. PICK all : all = Sq!SessionHits(db, u, FoundTexts(u, query), q)
  OBVIOUS
<1>3. PICK hits : hits = HitsHere(u, key, texts)
  OBVIOUS
<1>4. q.text = query
  BY <1>1 DEF Everywhere
<1>5. HitsAreSound(all) /\ Mirrors(u, all, Scan(u, q))
  BY <1>2, <1>4, HitsMirrorScan
<1>6. hits = HitsIn(all, db.sessions[key].pk)
  BY <1>1, <1>2, <1>3, HitsHereFind
<1>7. HitsAreSound(hits) /\ Mirrors(u, hits, scan)
  <2>1. PICK n : n = db.sessions[key].pk
    OBVIOUS
  <2>2. PICK found : found = Scan(u, q)
    OBVIOUS
  <2>3. hits = HitsIn(all, n) /\ scan = HitsIn(found, n)
    BY <1>1, <1>6, <2>1, <2>2
  <2>4. hits \in SUBSET all
    BY <2>3 DEF HitsIn
  <2>5. HitsAreSound(hits)
    BY <1>5, <2>4, SomeHitsAreSound
  <2>6. HitsAreSound(all) /\ Mirrors(u, all, found)
    BY <1>5, <2>2
  <2>7. Mirrors(u, HitsIn(all, n), HitsIn(found, n))
    BY <2>6, MirrorsAgree
  <2> QED
    BY <2>3, <2>5, <2>7
<1>8. \A g, h \in scan : g.event = h.event =>
        g.at = h.at /\ (g.entry = h.entry /\ g.field = h.field => g = h)
  <2>1. \A h \in scan : h \in Scan(u, q)
    BY <1>1 DEF HitsIn
  <2> QED
    BY <2>1, ScanIsKeyed
<1>9. TimesAgree(hits)
  <2>1. ASSUME NEW g \in hits, NEW h \in hits, g.event = h.event PROVE g.at = h.at
    <3>1. PICK x \in scan, y \in scan : Same(u, g, x) /\ Same(u, h, y)
      BY <1>7 DEF Mirrors
    <3>2. x.event = y.event /\ g.at = x.at /\ h.at = y.at
      BY <2>1, <3>1, Zenon DEF Same
    <3>3. x.at = y.at
      BY <1>8, <3>2, Zenon
    <3> QED
      BY <3>2, <3>3
  <2> QED
    BY <2>1 DEF TimesAgree
<1>10. PICK c \in Nat : c = Cardinality(scan) /\ c = Cardinality(hits)
  <2>1. IsFiniteSet(scan) /\ Cardinality(scan) = Cardinality(hits)
    BY <1>7, <1>8, MirrorsCount
  <2> QED
    BY <2>1, FS_CardinalityType
<1>11. PICK order : order = SortedHits(hits)
  OBVIOUS
<1>12. /\ Enumerates(order, hits, HitOrder(hits))
       /\ \A i, j \in 1..c : i < j => order[i].at <= order[j].at
  BY <1>7, <1>9, <1>10, <1>11, HitsAreSorted
<1>13. order \in [1..c -> hits] /\ order \in Seq(hits) /\ Len(order) = c
  BY <1>10, <1>12 DEF Enumerates
<1>14. PICK m \in Nat : m = AtMost(c, MaxInSessionHits + 1) /\ m <= c
  BY MatchingConstants DEF AtMost
<1>15. listed = SubSeq(order, 1, m)
  <2>1. Sq!HitsInSession(db, u, key, texts)
          = SubSeq(order, 1, Sq!AtMost(MaxInSessionHits + 1, Len(order)))
    <3>1. Sq!RowsOf(db) = RowsOf(db)
      BY RowsAreSound
    <3>2. hits = {Sq!HitRow(db, j[1], j[2]) : j \in
             {k \in db.refs \X Sq!RowsOf(db) :
                /\ k[2].user = u /\ k[2].session = key
                /\ k[1].event = k[2].pk /\ k[1].text \in texts}}
      BY <1>3, <3>1, Zenon DEF HitsHere
    <3> QED
      BY <1>11, <3>2, Zenon DEF Sq!HitsInSession, SortedHits
  <2>2. Sq!AtMost(MaxInSessionHits + 1, c) = m
    BY <1>14, MatchingConstants DEF Sq!AtMost, AtMost
  <2>3. listed = SubSeq(order, 1, Sq!AtMost(MaxInSessionHits + 1, Len(order)))
    BY <2>1, Zenon
  <2>4. Sq!AtMost(MaxInSessionHits + 1, Len(order)) = m
    BY <1>13, <2>2, Zenon
  <2> QED
    BY <2>3, <2>4, Zenon
<1>16. listed \in Seq(hits) /\ Len(listed) = m /\ \A i \in 1..m : listed[i] = order[i]
  <2>1. order \in Seq(hits) /\ Len(order) = c
    BY <1>13
  <2>2. m \in Int /\ m <= Len(order)
    BY <1>14, <2>1
  <2>3. /\ SubSeq(order, 0 + 1, m) \in Seq(hits)
        /\ Len(SubSeq(order, 0 + 1, m)) = IF 0 < m THEN m - 0 ELSE 0
        /\ \A i \in 1..Len(SubSeq(order, 0 + 1, m)) : SubSeq(order, 0 + 1, m)[i] = order[0 + i]
    BY <2>1, <2>2, PageOf
  <2>4. SubSeq(order, 0 + 1, m) = listed
    BY <1>15
  <2>5. Len(listed) = m
    BY <2>3, <2>4
  <2>6. \A i \in 1..m : listed[i] = order[i]
    BY <2>3, <2>4, <2>5
  <2> QED
    BY <2>3, <2>4, <2>5, <2>6, Zenon
<1>17. listed = [i \in 1..m |-> listed[i]] /\ DOMAIN listed = 1..m
  BY <1>16
<1>18. ASSUME NEW i \in 1..m PROVE listed[i] \in hits /\ \E h \in scan : Same(u, listed[i], h)
  <2>1. listed[i] \in hits
    BY <1>16
  <2> QED
    BY <1>7, <2>1 DEF Mirrors
<1>19. \A i, j \in 1..m : i < j => listed[i].at <= listed[j].at
  <2>1. \A i \in 1..m : i \in 1..c
    BY <1>14
  <2> QED
    BY <1>12, <1>16, <2>1
<1>20. ListsFirst(u, listed, MaxInSessionHits + 1, scan)
  BY <1>10, <1>14, <1>17, <1>18, <1>19 DEF ListsFirst
<1> QED
  BY <1>3, <1>10, <1>17, <1>18, <1>20

\* A hit and one that tells the same but for its place.
TellsHit(h, g) ==
  /\ h.event = g.event /\ h.entry = g.entry /\ h.field = g.field /\ h.at = g.at /\ h.text = g.text

\* An answer to a search within a session that shows the hits that were listed.
ShowsListed(a, listed) ==
  /\ a.truncated = (Len(listed) > MaxInSessionHits)
  /\ \E m \in Nat :
       /\ m = AtMost(Len(listed), MaxInSessionHits) /\ Len(a.hits) = m /\ DOMAIN a.hits = 1..m
       /\ \A i \in 1..m : i \in DOMAIN listed /\ TellsHit(a.hits[i], listed[i])
  /\ DOMAIN a.texts = {a.hits[i].text : i \in DOMAIN a.hits}

\* The ranges of its texts.
TellsRanges(a, query) ==
  \A t \in DOMAIN a.texts :
    a.texts[t] = Utf16Ranges(Sq!TextOf(db, t), Occurrences(query, Sq!TextOf(db, t)))

\* A sequence of so many elements.
HasElements(s, n) == s = [i \in 1..n |-> s[i]]

\* It has its length, and elements of its own.
LEMMA ElementsAre ==
  ASSUME NEW s, NEW n \in Nat, HasElements(s, n)
  PROVE  DOMAIN s = 1..n /\ Len(s) = n /\ s \in Seq({s[i] : i \in 1..n})
<1>1. s \in [1..n -> {s[i] : i \in 1..n}]
  BY DEF HasElements
<1> QED
  BY <1>1

\* What an answer is made of.
LEMMA ListedAreShown ==
  ASSUME NEW listed, NEW n \in Nat, HasElements(listed, n),
         NEW located, HasElements(located, n),
         \A i \in 1..n : TellsHit(located[i], listed[i]),
         NEW ranges, NEW a, a = Sq!FromHits(located, ranges)
  PROVE  /\ ShowsListed(a, listed)
         /\ \A t \in DOMAIN a.texts : a.texts[t] = ranges[t]
<1> DEFINE T == {located[i] : i \in 1..n}
<1>1. Len(listed) = n /\ DOMAIN listed = 1..n
  BY ElementsAre
<1>2. located \in Seq(T) /\ Len(located) = n
  BY ElementsAre
<1>3. PICK m \in Nat : m = AtMost(n, MaxInSessionHits) /\ m <= n
  BY MatchingConstants DEF AtMost
<1>4. PICK kept : kept = SubSeq(located, 1, m)
  OBVIOUS
<1> HIDE DEF T
<1>5. kept \in Seq(T) /\ Len(kept) = m /\ \A i \in 1..m : kept[i] = located[i]
  <2>1. kept = SubSeq(located, 0 + 1, m) /\ m \in Int /\ m <= Len(located)
    BY <1>2, <1>3, <1>4
  <2>2. /\ kept \in Seq(T) /\ Len(kept) = IF 0 < m THEN m - 0 ELSE 0
        /\ \A i \in 1..Len(kept) : kept[i] = located[0 + i]
    BY <1>2, <2>1, PageOf
  <2> QED
    BY <1>4, <2>2
<1>6. DOMAIN kept = 1..m
  BY <1>5
<1>7. Sq!AtMost(Len(located), MaxInSessionHits) = m
  BY <1>2, <1>3 DEF Sq!AtMost, AtMost
<1>8. a = [hits |-> kept, truncated |-> Len(located) > MaxInSessionHits,
           texts |-> [t \in {h.text : h \in Sq!Range(kept)} |-> ranges[t]]]
  BY <1>4, <1>7, Zenon DEF Sq!FromHits
<1>9. {h.text : h \in Sq!Range(kept)} = {kept[i].text : i \in DOMAIN kept}
  BY Zenon DEF Sq!Range
<1>10. /\ a.hits = kept /\ a.truncated = (n > MaxInSessionHits)
       /\ a.texts = [t \in {kept[i].text : i \in DOMAIN kept} |-> ranges[t]]
  <2>1. PICK X, long : X = {h.text : h \in Sq!Range(kept)} /\ long = (Len(located) > MaxInSessionHits)
    OBVIOUS
  <2>2. a = [hits |-> kept, truncated |-> long, texts |-> [t \in X |-> ranges[t]]]
    BY <1>8, <2>1, Zenon
  <2>3. a.hits = kept /\ a.truncated = long /\ a.texts = [t \in X |-> ranges[t]]
    BY <2>2
  <2>4. long = (n > MaxInSessionHits)
    BY <1>2, <2>1, Zenon
  <2>5. X = {kept[i].text : i \in DOMAIN kept}
    BY <1>9, <2>1, Zenon
  <2> QED
    BY <2>3, <2>4, <2>5, Zenon
<1>11. \A i \in 1..m : i \in 1..n
  BY <1>3
<1>12. \A i \in 1..m : i \in DOMAIN listed /\ TellsHit(kept[i], listed[i])
  BY <1>1, <1>5, <1>11
<1>13. m = AtMost(Len(listed), MaxInSessionHits)
  BY <1>1, <1>3
<1>14. ShowsListed(a, listed)
  BY <1>1, <1>5, <1>6, <1>10, <1>12, <1>13, Zenon DEF ShowsListed
<1> QED
  BY <1>10, <1>14

\* A session of another owner is not found.
LEMMA OthersAreNotFound ==
  ASSUME Sound(db), NEW u, NEW key \in Existing(db), SessionKey[key].user # u, NEW query
  PROVE  Sq!SearchInSession(db, u, db.sessions[key].pk, query) = NotFound
<1> DEFINE own == {s \in Sq!SessionRows(db) : SessionKey[s.key].user = u /\ s.pk = db.sessions[key].pk}
<1>1. own = {}
  <2>1. ASSUME NEW s \in own PROVE FALSE
    <3>1. PICK k \in Existing(db) : s.key = k /\ s.pk = db.sessions[k].pk
      BY <2>1 DEF Sq!SessionRows, Existing
    <3>2. k = key
      BY <2>1, <3>1 DEF Sound, SessionsAreSound
    <3> QED
      BY <2>1, <3>1, <3>2
  <2> QED
    BY <2>1
<1>2. own = {} => Sq!SearchInSession(db, u, db.sessions[key].pk, query) = Sq!NotFound
  BY Zenon DEF Sq!SearchInSession
<1> QED
  BY <1>1, <1>2 DEF Sq!NotFound, NotFound

\* A search within a session of the owner shows the hits it lists, and their ranges.
LEMMA SearchHere ==
  ASSUME Sound(db), Searchable(db), NEW u, NEW query \in Seq(Chars), query # <<>>,
         NEW key \in Existing(db), SessionKey[key].user = u,
         NEW texts, texts = {t.id : t \in FoundHere(u, query, key)},
         NEW listed, listed = Sq!HitsInSession(db, u, key, texts),
         NEW n \in Nat, HasElements(listed, n),
         \A i \in 1..n : listed[i] \in HitsHere(u, key, texts)
  PROVE  \E a : /\ Sq!SearchInSession(db, u, db.sessions[key].pk, query) = <<a>>
                /\ ShowsListed(a, listed) /\ TellsRanges(a, query)
<1> DEFINE own == {s \in Sq!SessionRows(db) : SessionKey[s.key].user = u /\ s.pk = db.sessions[key].pk}
           here == (CHOOSE s \in own : TRUE).key
           ranges == [id \in texts |-> Sq!Utf16Ranges(Sq!TextOf(db, id), Sq!Occurrences(query, Sq!TextOf(db, id)))]
           structure == Sq!SessionStructure(db, u, db.sessions[key].pk)
           At(h) == [h EXCEPT !.session = Sq!EventPosition(Head(structure), h.event)]
           located == [i \in 1..n |-> At(listed[i])]
           answer == Sq!FromHits(located, ranges)
<1>1. own # {}
  <2>1. [pk |-> db.sessions[key].pk, key |-> key, device |-> db.sessions[key].device,
         started |-> db.sessions[key].started, ended |-> db.sessions[key].ended] \in Sq!SessionRows(db)
    BY DEF Sq!SessionRows, Existing
  <2> QED
    BY <2>1
<1>2. here = key
  <2>1. \A s \in own : s.key = key
    <3>1. ASSUME NEW s \in own PROVE s.key = key
      <4>1. PICK k \in Existing(db) : s.key = k /\ s.pk = db.sessions[k].pk
        BY DEF Sq!SessionRows, Existing
      <4> QED
        BY <4>1 DEF Sound, SessionsAreSound
    <3> QED
      BY <3>1
  <2> HIDE DEF own
  <2> QED
    BY <1>1, <2>1
<1>3. structure # Sq!NotFound
  BY SessionHasStructure
<1>4. {t.id : t \in {x \in Sq!Candidates(db, u, query, here) : Sq!Occurrences(query, x.text) # <<>>}} = texts
  BY <1>2, Zenon DEF FoundHere
<1>5. DOMAIN listed = 1..n
  BY ElementsAre
<1>6. Sq!SearchInSession(db, u, db.sessions[key].pk, query) = <<answer>>
  <2>1. Sq!HitsInSession(db, u, here, DOMAIN ranges) = listed
    BY <1>2
  <2> QED
    BY <1>1, <1>3, <1>4, <1>5, <2>1, Zenon DEF Sq!SearchInSession
<1>7. ASSUME NEW i \in 1..n PROVE TellsHit(located[i], listed[i])
  <2>1. PICK j : listed[i] = Sq!HitRow(db, j[1], j[2])
    BY Zenon DEF HitsHere
  <2>2. PICK h, x : h = listed[i] /\ x = Sq!EventPosition(Head(structure), h.event)
    OBVIOUS
  <2>3. located[i] = [h EXCEPT !.session = x]
    BY <2>2
  <2> HIDE DEF located
  <2> QED
    BY <2>1, <2>2, <2>3 DEF Sq!HitRow, TellsHit
<1>8. HasElements(located, n)
  BY DEF HasElements
<1>9. PICK a : a = answer
  OBVIOUS
<1> HIDE DEF located, ranges
<1>10. ShowsListed(a, listed) /\ \A t \in DOMAIN a.texts : a.texts[t] = ranges[t]
  BY <1>7, <1>8, <1>9, ListedAreShown
<1>11. \A t \in DOMAIN a.texts : t \in texts
  <2>1. ASSUME NEW t \in DOMAIN a.texts PROVE t \in texts
    <3>1. PICK i \in DOMAIN a.hits : t = a.hits[i].text
      BY <1>10 DEF ShowsListed
    <3>2. i \in 1..n /\ a.hits[i].text = listed[i].text
      BY <1>5, <1>10, <3>1, Zenon DEF ShowsListed, TellsHit
    <3>3. PICK j : listed[i] = Sq!HitRow(db, j[1], j[2]) /\ j[1].text \in texts
      BY <3>2, Zenon DEF HitsHere
    <3>4. Sq!HitRow(db, j[1], j[2]).text = j[1].text
      BY DEF Sq!HitRow
    <3> QED
      BY <3>1, <3>2, <3>3, <3>4, Zenon
  <2> QED
    BY <2>1
<1>12. TellsRanges(a, query)
  <2>1. ASSUME NEW t \in DOMAIN a.texts
        PROVE  a.texts[t] = Utf16Ranges(Sq!TextOf(db, t), Occurrences(query, Sq!TextOf(db, t)))
    <3>1. a.texts[t] = Sq!Utf16Ranges(Sq!TextOf(db, t), Sq!Occurrences(query, Sq!TextOf(db, t)))
      BY <1>10, <1>11 DEF ranges
    <3> QED
      BY <3>1, SameMatching, SameUnits, Zenon
  <2> QED
    BY <2>1 DEF TellsRanges
<1> QED
  BY <1>6, <1>9, <1>10, <1>12

-----------------------------------------------------------------------------
(* Previews of one entry. *)

\* The offset of a character is a number.
LEMMA OffsetIsNumber ==
  ASSUME NEW text \in Seq(Chars), NEW at \in Nat
  PROVE  CharacterOffset(text, at) \in Nat
<1>1. PICK w \in Nat, s \in Seq(Chars) : s = SubSeq(text, 1, AtMost(at, Len(text))) /\ w = Len(s)
  <2>0. PICK l \in Nat : l = Len(text)
    OBVIOUS
  <2>6. PICK m \in Int : m = AtMost(at, l) /\ m <= l
    BY DEF AtMost
  <2>1. m = AtMost(at, Len(text)) /\ m <= Len(text)
    BY <2>0, <2>6, Zenon
  <2>2. SubSeq(text, 0 + 1, m) \in Seq(Chars)
    BY <2>1, PageOf
  <2>3. PICK t \in Seq(Chars) : t = SubSeq(text, 0 + 1, m)
    BY <2>2, Zenon
  <2>4. t = SubSeq(text, 1, m)
    BY <2>3
  <2>5. t = SubSeq(text, 1, AtMost(at, Len(text)))
    BY <2>1, <2>4, Zenon
  <2>7. PICK w \in Nat : w = Len(t)
    BY <2>3
  <2> QED
    BY <2>5, <2>7, Zenon
<1>2. \A k \in 1..w : s[k] \in Chars /\ Units[s[k]] \in Nat
  <2>1. \A c \in Chars : Units[c] \in Nat
    BY MatchingConstants
  <2>2. \A k \in 1..w : s[k] \in Chars
    BY <1>1
  <2> QED
    BY <2>1, <2>2
<1> DEFINE Step(n, k) == n + Units[s[k]]
           step == [p \in Nat \X (1..w) |-> Step(p[1], p[2])]
           IsFold(g) == g = [T \in SUBSET DOMAIN s |->
                               IF T = {} THEN 0 ELSE Step(g[T \ {Max(T)}], Max(T))]
<1>3. ASSUME NEW n \in Nat, NEW k \in 1..w PROVE Step(n, k) \in Nat
  BY <1>2
<1>4. CharacterOffset(text, at) = (CHOOSE g : IsFold(g))[DOMAIN s]
  BY <1>1, Zenon DEF CharacterOffset, FoldLeft, MapThenFoldSet
<1>5. DOMAIN s = 1..w
  BY <1>1
<1> HIDE DEF Step
<1>6. step \in [Nat \X (1..w) -> Nat]
  BY <1>3
<1>7. \A n \in Nat, k \in 1..w : step[<<n, k>>] = Step(n, k)
  OBVIOUS
<1> HIDE DEF step
<1>8. \A T \in SUBSET (1..w) : T # {} => Max(T) \in T
  <2> TAKE T \in SUBSET (1..w)
  <2>1. IsFiniteSet(1..w)
    BY FS_Interval
  <2>2. IsFiniteSet(T) /\ T \subseteq Int
    <3>1. IsFiniteSet(T)
      BY <2>1, FS_Subset
    <3> QED
      BY <3>1
  <2> QED
    BY <2>2, MaxIsGreatest
<1>9. \E g : IsFold(g)
  <2>1. PICK g \in [SUBSET (1..w) -> Nat] : FoldTo(g, w, 0, step)
    BY <1>6, FoldIsTyped
  <2>2. g = [T \in SUBSET (1..w) |-> IF T = {} THEN 0 ELSE step[<<g[T \ {Max(T)}], Max(T)>>]]
    BY <2>1, Zenon DEF FoldTo
  <2>3. ASSUME NEW T \in SUBSET (1..w), T # {}
        PROVE  step[<<g[T \ {Max(T)}], Max(T)>>] = Step(g[T \ {Max(T)}], Max(T))
    <3>1. Max(T) \in 1..w /\ T \ {Max(T)} \in SUBSET (1..w)
      BY <1>8, <2>3
    <3>2. g[T \ {Max(T)}] \in Nat
      BY <2>1, <3>1
    <3> QED
      BY <1>7, <3>1, <3>2
  <2>4. g = [T \in SUBSET (1..w) |-> g[T]]
    BY <2>1
  <2>5. \A T \in SUBSET (1..w) : g[T] = IF T = {} THEN 0 ELSE Step(g[T \ {Max(T)}], Max(T))
    <3> TAKE T \in SUBSET (1..w)
    <3>1. g[T] = IF T = {} THEN 0 ELSE step[<<g[T \ {Max(T)}], Max(T)>>]
      BY <2>2, Zenon
    <3> QED
      BY <2>3, <3>1, Zenon
  <2>6. IsFold(g)
    BY <1>5, <2>4, <2>5
  <2> QED
    BY <2>6
<1>10. PICK f : f = (CHOOSE g : IsFold(g)) /\ IsFold(f)
  BY <1>9
<1>11. f[{}] = 0 /\ \A T \in SUBSET (1..w) : T # {} => f[T] = Step(f[T \ {Max(T)}], Max(T))
  BY <1>5, <1>10
<1> HIDE DEF IsFold
<1>12. \A k \in 0..w : f[1..k] \in Nat
  <2> DEFINE bad == {k \in 0..w : f[1..k] \notin Nat}
  <2>1. SUFFICES ASSUME bad # {} PROVE FALSE
    OBVIOUS
  <2>2. PICK k \in bad : \A j \in bad : k <= j
    <3>1. bad \in SUBSET Nat
      OBVIOUS
    <3> HIDE DEF bad
    <3> QED
      BY <2>1, <3>1, LeastNumber
  <2>3. k \in 0..w /\ f[1..k] \notin Nat
    OBVIOUS
  <2>4. k # 0
    <3>1. 1..0 = {}
      OBVIOUS
    <3> QED
      BY <1>11, <2>3, <3>1
  <2>5. 1..k # {} /\ Max(1..k) = k /\ (1..k) \ {k} = 1..(k - 1) /\ 1..k \in SUBSET (1..w)
    <3>1. k \in Nat /\ 1..k \in SUBSET (1..w)
      BY <2>3
    <3> QED
      BY <2>4, <3>1, UpTo
  <2>6. f[1..k] = Step(f[1..(k - 1)], k)
    BY <1>11, <2>5
  <2>7. k - 1 \in 0..w /\ k - 1 \notin bad
    BY <2>2, <2>3, <2>4
  <2>8. f[1..(k - 1)] \in Nat /\ k \in 1..w
    BY <2>3, <2>4, <2>7
  <2>9. Step(f[1..(k - 1)], k) \in Nat
    BY <1>3, <2>8
  <2> QED
    BY <2>3, <2>6, <2>9
<1> QED
  BY <1>1, <1>4, <1>5, <1>10, <1>12

\* A part of a text holds a match at the same offset.
KeepsMatch(part, text, query, at) ==
  /\ at \in 0..Len(part) /\ CharacterOffset(part, at) = CharacterOffset(text, at)
  /\ Holds(Fold(part), at, Fold(query))

\* The beginning of a text that is as long as a match or longer holds the match where the
\* text holds it.
LEMMA BeginningHolds ==
  ASSUME NEW text \in Seq(Chars), NEW query \in Seq(Chars), NEW at \in Nat,
         Holds(Fold(text), at, Fold(query)),
         NEW n \in Nat, at + Len(query) <= n, n <= Len(text)
  PROVE  KeepsMatch(SubSeq(text, 1, n), text, query, at)
<1>0. PICK part : part = SubSeq(text, 1, n)
  OBVIOUS
<1>1. PICK l \in Nat, k \in Nat : l = Len(query) /\ k = Len(text)
  OBVIOUS
<1>2. part \in Seq(Chars) /\ Len(part) = n /\ \A i \in 1..n : part[i] = text[i]
  <2>1. SubSeq(text, 0 + 1, n) = part
    BY <1>0
  <2>2. /\ SubSeq(text, 0 + 1, n) \in Seq(Chars)
        /\ Len(SubSeq(text, 0 + 1, n)) = IF 0 < n THEN n - 0 ELSE 0
        /\ \A i \in 1..Len(SubSeq(text, 0 + 1, n)) : SubSeq(text, 0 + 1, n)[i] = text[0 + i]
    BY PageOf
  <2>3. Len(part) = n
    BY <2>1, <2>2
  <2>4. \A i \in 1..n : part[i] = text[i]
    BY <2>1, <2>2, <2>3
  <2> QED
    BY <2>1, <2>2, <2>3, <2>4, Zenon
<1>3. at \in 0..Len(part) /\ AtMost(at, Len(part)) = at /\ AtMost(at, Len(text)) = at
  BY <1>1, <1>2 DEF AtMost
<1>4. SubSeq(part, 1, at) = SubSeq(text, 1, at)
  <2>1. at <= n /\ at <= Len(text) /\ at \in Int
    BY <1>1
  <2>2. /\ SubSeq(text, 0 + 1, at) \in Seq(Chars)
        /\ Len(SubSeq(text, 0 + 1, at)) = IF 0 < at THEN at - 0 ELSE 0
        /\ \A i \in 1..Len(SubSeq(text, 0 + 1, at)) : SubSeq(text, 0 + 1, at)[i] = text[0 + i]
    BY <2>1, PageOf
  <2>3. /\ SubSeq(part, 0 + 1, at) \in Seq(Chars)
        /\ Len(SubSeq(part, 0 + 1, at)) = IF 0 < at THEN at - 0 ELSE 0
        /\ \A i \in 1..Len(SubSeq(part, 0 + 1, at)) : SubSeq(part, 0 + 1, at)[i] = part[0 + i]
    BY <1>2, <2>1, PageOf
  <2>4. PICK s \in Seq(Chars), p \in Seq(Chars) : s = SubSeq(text, 0 + 1, at) /\ p = SubSeq(part, 0 + 1, at)
    BY <2>2, <2>3
  <2>5. Len(s) = at /\ Len(p) = at /\ \A i \in 1..at : s[i] = text[i] /\ p[i] = part[i]
    <3>1. Len(s) = at /\ Len(p) = at
      BY <2>2, <2>3, <2>4
    <3> QED
      BY <2>2, <2>3, <2>4, <3>1
  <2>6. s = p
    BY <1>2, <2>1, <2>5
  <2> QED
    BY <2>4, <2>6
<1>5. CharacterOffset(part, at) = CharacterOffset(text, at)
  BY <1>3, <1>4, Zenon DEF CharacterOffset
<1>6. PICK f \in Seq(Chars), g \in Seq(Chars), q \in Seq(Chars) :
        f = Fold(text) /\ g = Fold(part) /\ q = Fold(query)
  BY <1>2, FoldIsAText
<1>7. /\ Len(f) = k /\ Len(g) = n /\ Len(q) = l
      /\ \A i \in 1..n : g[i] = f[i]
  <2>1. Len(f) = k /\ Len(g) = n /\ Len(q) = l
    BY <1>1, <1>2, <1>6, FoldIsAText
  <2>2. \A i \in 1..Len(part) : g[i] = FoldChar[part[i]]
    BY <1>2, <1>6, FoldIsAText
  <2>3. \A i \in 1..Len(text) : f[i] = FoldChar[text[i]]
    BY <1>6, FoldIsAText
  <2>4. \A i \in 1..n : i \in 1..Len(text)
    BY <1>1
  <2>5. ASSUME NEW i \in 1..n PROVE g[i] = f[i]
    <3>1. i \in 1..Len(part) /\ i \in 1..Len(text) /\ part[i] = text[i]
      BY <1>2, <2>4
    <3>2. g[i] = FoldChar[part[i]]
      BY <2>2, <3>1, Zenon
    <3>3. f[i] = FoldChar[text[i]]
      BY <2>3, <3>1, Zenon
    <3> QED
      BY <3>1, <3>2, <3>3, Zenon
  <2> QED
    BY <2>1, <2>5
<1>8. at + Len(q) <= Len(f) /\ \A j \in 1..Len(q) : f[at + j] = q[j]
  BY <1>6, HoldsByPlace
<1>9. \A j \in 1..l : at + j \in 1..n
  BY <1>1
<1>10. at + Len(q) <= Len(g) /\ \A j \in 1..Len(q) : g[at + j] = q[j]
  BY <1>1, <1>7, <1>8, <1>9
<1>11. Holds(g, at, q)
  BY <1>10, HoldsByPlace
<1>12. KeepsMatch(part, text, query, at)
  BY <1>3, <1>5, <1>6, <1>11, Zenon DEF KeepsMatch
<1> QED
  BY <1>0, <1>12, Zenon

\* An entry that is cut to no less than the offset behind a match still holds the match.
LEMMA CutHolds ==
  ASSUME NEW entry, NEW text \in Seq(Chars), entry.text = text, NEW query \in Seq(Chars), NEW at \in Nat,
         Holds(Fold(text), at, Fold(query)), at + Len(query) <= Len(text),
         NEW limit, limit = None \/ limit = CharacterOffset(text, at + Len(query)),
         NEW shown, shown = Cut(entry, limit).text
  PROVE  \E p \in 0..Len(shown) : /\ CharacterOffset(shown, p) = CharacterOffset(text, at)
                                  /\ Holds(Fold(shown), p, Fold(query))
<1> DEFINE length == CharacterOffset(text, Len(text))
           ends == {i \in 0..Len(text) : CharacterOffset(text, i) <= limit}
<1>1. Cut(entry, limit) = IF limit = None \/ length <= limit
                          THEN [name |-> entry.name, text |-> text, length |-> None]
                          ELSE [name |-> entry.name, text |-> SubSeq(text, 1, Max(ends)), length |-> length]
  BY Zenon DEF Cut
<1>2. PICK n \in Nat : n = Len(text)
  OBVIOUS
<1>3. ASSUME shown = text
      PROVE  \E p \in 0..Len(shown) : /\ CharacterOffset(shown, p) = CharacterOffset(text, at)
                                      /\ Holds(Fold(shown), p, Fold(query))
  <2>1. at \in 0..Len(shown)
    BY <1>2, <1>3
  <2> QED
    BY <1>3, <2>1
<1>4. CASE limit = None \/ length <= limit
  <2>1. Cut(entry, limit) = [name |-> entry.name, text |-> text, length |-> None]
    BY <1>1, <1>4, Zenon
  <2> QED
    BY <1>3, <2>1
<1>5. CASE ~(limit = None \/ length <= limit)
  <2>1. Cut(entry, limit) = [name |-> entry.name, text |-> SubSeq(text, 1, Max(ends)), length |-> length]
    BY <1>1, <1>5, Zenon
  <2>2. shown = SubSeq(text, 1, Max(ends))
    <3>1. PICK part, all : part = SubSeq(text, 1, Max(ends)) /\ all = length
      OBVIOUS
    <3>2. Cut(entry, limit) = [name |-> entry.name, text |-> part, length |-> all]
      BY <2>1, <3>1, Zenon
    <3>3. shown = part
      BY <3>2
    <3> QED
      BY <3>1, <3>3, Zenon
  <2>3. PICK e \in Nat : e = at + Len(query) /\ e <= n
    BY <1>2
  <2>4. limit = CharacterOffset(text, e) /\ CharacterOffset(text, e) \in Nat
    BY <1>5, <2>3, OffsetIsNumber
  <2>5. e \in ends
    BY <1>2, <2>3, <2>4
  <2>6. ends \subseteq Int /\ IsFiniteSet(ends) /\ ends \subseteq 0..n
    <3>1. ends \subseteq 0..n /\ ends \subseteq Int
      BY <1>2
    <3> HIDE DEF ends
    <3>2. IsFiniteSet(0..n)
      BY FS_Interval
    <3>3. IsFiniteSet(ends)
      BY <3>1, <3>2, FS_Subset
    <3> QED
      BY <3>1, <3>3
  <2> HIDE DEF ends
  <2>7. Max(ends) \in ends /\ e <= Max(ends)
    BY <2>5, <2>6, MaxIsGreatest
  <2>8. Max(ends) \in 0..n
    BY <2>6, <2>7
  <2>9. PICK m \in Nat : m = Max(ends) /\ m <= n
    BY <2>8
  <2>10. at + Len(query) <= m /\ m <= Len(text)
    BY <1>2, <2>3, <2>7, <2>9
  <2>11. shown = SubSeq(text, 1, m)
    BY <2>2, <2>9
  <2>12. KeepsMatch(SubSeq(text, 1, m), text, query, at)
    BY <2>10, BeginningHolds
  <2> QED
    BY <2>11, <2>12, Zenon DEF KeepsMatch
<1> QED
  BY <1>4, <1>5

\* The profile asks for the ranges of module Previews.
LEMMA SameRangesHere ==
  ASSUME NEW window, NEW total
  PROVE  Sq!EntryRanges(window, total) = EntryRanges(window, total)
<1> DEFINE clipped == [i \in DOMAIN window.runs |-> Sq!Clipped(window.runs[i], total)]
           asked   == {r \in Sq!Range(clipped) : r.from < r.to}
<1>1. asked = {r \in Range([i \in DOMAIN window.runs |-> Clipped(window.runs[i], total)]) :
                 r.from < r.to}
  BY Zenon DEF Sq!Range, Range, Sq!Clipped, Clipped, Sq!AtMost, AtMost, Sq!Less, Less
<1>2. Sq!EntryRanges(window, total)
        = IF window.runs = <<>> THEN <<[from |-> 0, to |-> total]>>
          ELSE Sq!FoldLeft(Sq!Merge, <<>>, Sq!Sorted(asked, Sq!RangeBefore))
  BY Zenon DEF Sq!EntryRanges
<1> HIDE DEF asked
<1>3. EntryRanges(window, total)
        = IF window.runs = <<>> THEN <<[from |-> 0, to |-> total]>>
          ELSE FoldLeft(Merge, <<>>, Sorted(asked, RangeBefore))
  BY <1>1, Zenon DEF EntryRanges
<1>4. Sq!Sorted(asked, Sq!RangeBefore) = Sorted(asked, RangeBefore)
  BY Zenon DEF Sq!Sorted, Sorted, Sq!RangeBefore, RangeBefore, Sq!Cardinality, Cardinality
<1>5. \A s : Sq!FoldLeft(Sq!Merge, <<>>, s) = FoldLeft(Merge, <<>>, s)
  BY Zenon DEF Sq!FoldLeft, FoldLeft, Sq!FoldSet, FoldSet, Sq!MapThenFoldSet, MapThenFoldSet,
    Sq!Merge, Merge, Sq!Last, Last, Sq!Max, Max, Sq!AtLeast, AtLeast
<1> QED
  BY <1>2, <1>3, <1>4, <1>5, Zenon

\* Its previews are those of module Previews.
LEMMA SamePreviewHere ==
  ASSUME NEW e, NEW w
  PROVE  Sq!Preview(e, w) = Preview(e, w)
<1>1. PICK ranges : /\ ranges = Sq!EntryRanges(w, Len(e.entries))
                    /\ ranges = EntryRanges(w, Len(e.entries))
  BY SameRangesHere, Zenon
<1> DEFINE shown   == UNION {r.from..(r.to - 1) : r \in Sq!Range(ranges)}
           omitted == (0..(Len(e.entries) - 1)) \ shown
<1>2. Sq!Preview(e, w)
        = [pk |-> e.pk, total |-> Len(e.entries),
           chunks |-> [i \in DOMAIN ranges |->
              [from |-> ranges[i].from,
               entries |-> [k \in 1..(ranges[i].to - ranges[i].from) |->
                              Sq!Cut(e.entries[ranges[i].from + k], w.cut)]]],
           omittedEntries |-> Len(e.entries) - Sq!FoldLeft(LAMBDA n, r : n + r.to - r.from, 0, ranges),
           omittedCharacters |-> Sq!FoldSet(LAMBDA i, n : n + Len(e.entries[i + 1].text), 0, omitted),
           images |-> e.images]
  BY <1>1, Zenon DEF Sq!Preview
<1>3. Preview(e, w)
        = [pk |-> e.pk, total |-> Len(e.entries),
           chunks |-> [i \in DOMAIN ranges |->
              [from |-> ranges[i].from,
               entries |-> [k \in 1..(ranges[i].to - ranges[i].from) |->
                              Cut(e.entries[ranges[i].from + k], w.cut)]]],
           omittedEntries |-> Len(e.entries) - FoldLeft(LAMBDA n, r : n + r.to - r.from, 0, ranges),
           omittedCharacters |-> FoldSet(LAMBDA i, n : n + Len(e.entries[i + 1].text), 0, omitted),
           images |-> e.images]
  BY <1>1, Zenon DEF Preview, Sq!Range, Range
<1> QED
  BY <1>2, <1>3, Zenon DEF Sq!Cut, Cut, Sq!FoldLeft, FoldLeft, Sq!FoldSet, FoldSet,
    Sq!MapThenFoldSet, MapThenFoldSet, Sq!CharacterOffset, CharacterOffset,
    Sq!AtMost, AtMost, Sq!Max, Max, Sq!None, None

\* One range is merged with no other.
LEMMA OneIsMerged ==
  ASSUME NEW x
  PROVE  FoldLeft(Merge, <<>>, <<x>>) = <<x>>
<1> DEFINE IsFold(g) == g = [T \in SUBSET DOMAIN <<x>> |->
                               IF T = {} THEN <<>> ELSE Merge(g[T \ {Max(T)}], <<x>>[Max(T)])]
           f == [T \in SUBSET {1} |-> IF T = {} THEN <<>> ELSE Merge(<<>>, x)]
<1>1. FoldLeft(Merge, <<>>, <<x>>) = (CHOOSE g : IsFold(g))[DOMAIN <<x>>]
  BY Zenon DEF FoldLeft, MapThenFoldSet
<1>2. DOMAIN <<x>> = {1} /\ <<x>>[1] = x
  OBVIOUS
<1>3. Max({1}) = 1
  <2>1. {1} \subseteq Int /\ IsFiniteSet({1}) /\ {1} # {}
    BY FS_Singleton
  <2>2. Max({1}) \in {1}
    BY <2>1, MaxIsGreatest
  <2> QED
    BY <2>2
<1>4. \A T \in SUBSET {1} : T # {} => T = {1} /\ T \ {Max(T)} = {}
  BY <1>3
<1>5. f[{}] = <<>> /\ {} \in SUBSET {1} /\ {1} \in SUBSET {1} /\ {1} # {} /\ {1} \ {1} = {}
  OBVIOUS
<1>6. IsFold(f)
  <2>1. ASSUME NEW T \in SUBSET {1}, T # {}
        PROVE  Merge(f[T \ {Max(T)}], <<x>>[Max(T)]) = Merge(<<>>, x)
    <3>1. T = {1} /\ T \ {Max(T)} = {} /\ Max(T) = 1
      BY <1>3, <1>4, <2>1
    <3> HIDE DEF f
    <3> QED
      BY <1>2, <1>5, <3>1, Zenon
  <2>2. f = [T \in SUBSET {1} |-> f[T]] /\ \A T \in SUBSET {1} : f[T] = IF T = {} THEN <<>> ELSE Merge(<<>>, x)
    OBVIOUS
  <2> HIDE DEF f
  <2>3. \A T \in SUBSET {1} : f[T] = IF T = {} THEN <<>> ELSE Merge(f[T \ {Max(T)}], <<x>>[Max(T)])
    BY <2>1, <2>2, Zenon
  <2>4. f = [T \in SUBSET {1} |-> IF T = {} THEN <<>> ELSE Merge(f[T \ {Max(T)}], <<x>>[Max(T)])]
    BY <2>2, <2>3
  <2> QED
    BY <1>2, <2>4, Zenon
<1> HIDE DEF f
<1>7. PICK g : g = (CHOOSE h : IsFold(h)) /\ IsFold(g)
  BY <1>6
<1>8. g = [T \in SUBSET {1} |-> IF T = {} THEN <<>> ELSE Merge(g[T \ {Max(T)}], <<x>>[Max(T)])]
  BY <1>2, <1>7, Zenon
<1>9. g[{}] = <<>>
  BY <1>5, <1>8, Zenon
<1>10. g[{1}] = Merge(g[{1} \ {Max({1})}], <<x>>[Max({1})])
  BY <1>5, <1>8, Zenon
<1>11. g[{1}] = Merge(<<>>, x)
  BY <1>2, <1>3, <1>5, <1>9, <1>10, Zenon
<1>12. Merge(<<>>, x) = <<x>>
  BY DEF Merge
<1> HIDE DEF IsFold
<1> QED
  BY <1>1, <1>2, <1>7, <1>11, <1>12, Zenon

\* One range is sorted.
LEMMA OneIsSorted ==
  ASSUME NEW r, ~RangeBefore(r, r)
  PROVE  Sorted({r}, RangeBefore) = <<r>>
<1>1. IsFiniteSet({r}) /\ Cardinality({r}) = 1
  BY FS_Singleton
<1>2. {t \in {r} : RangeBefore(t, r)} = {} /\ Cardinality({}) = 0
  BY FS_EmptySet
<1> DEFINE at(n) == CHOOSE s \in {r} : Cardinality({t \in {r} : RangeBefore(t, s)}) = n - 1
<1>3. Sorted({r}, RangeBefore) = [n \in 1..1 |-> at(n)]
  BY <1>1, Zenon DEF Sorted
<1>4. at(1) = r
  <2>1. Cardinality({t \in {r} : RangeBefore(t, r)}) = 1 - 1
    BY <1>2
  <2>2. \E s \in {r} : Cardinality({t \in {r} : RangeBefore(t, s)}) = 1 - 1
    BY <2>1, Zenon
  <2>3. at(1) \in {r}
    BY <2>2, Zenon
  <2> QED
    BY <2>3
<1> HIDE DEF at
<1>5. [n \in 1..1 |-> at(n)] = <<r>>
  BY <1>4
<1> QED
  BY <1>3, <1>5

\* Chunks that show just one entry.
ShowsEntry(chunks, n, entry) ==
  /\ Len(chunks) = 1 /\ chunks[1].from = n /\ chunks[1].entries[1] = entry

\* The preview of the span of one entry shows this entry.
LEMMA OneEntryIsShown ==
  ASSUME NEW e, NEW t \in Nat, Len(e.entries) = t, NEW n \in Nat, n + 1 <= t, NEW limit
  PROVE  ShowsEntry(Preview(e, [runs |-> <<Span(n, n)>>, cut |-> limit]).chunks, n,
                    Cut(e.entries[n + 1], limit))
<1>1. PICK w, runs : w = [runs |-> runs, cut |-> limit] /\ runs = <<Span(n, n)>>
  OBVIOUS
<1>2. w.runs = runs /\ w.cut = limit /\ runs # <<>> /\ DOMAIN runs = {1} /\ runs[1] = Span(n, n)
  BY <1>1
<1>3. PICK r : r = [from |-> n, to |-> n + 1]
  OBVIOUS
<1>4. r.from = n /\ r.to = n + 1 /\ r.from < r.to /\ ~RangeBefore(r, r)
  BY <1>3 DEF RangeBefore
<1>5. Clipped(Span(n, n), t) = r
  <2>1. Span(n, n).kind = "span" /\ Span(n, n).from = n /\ Span(n, n).to = n
    BY DEF Span
  <2>2. AtMost(n, t) = n /\ AtMost(n + 1, t) = n + 1
    BY DEF AtMost
  <2> QED
    BY <1>3, <2>1, <2>2, Zenon DEF Clipped
<1> DEFINE clipped == [i \in DOMAIN runs |-> Clipped(runs[i], t)]
           asked   == {x \in Range(clipped) : x.from < x.to}
<1>6. EntryRanges(w, t) = FoldLeft(Merge, <<>>, Sorted(asked, RangeBefore))
  BY <1>2, Zenon DEF EntryRanges
<1>7. asked = {r}
  <2>1. DOMAIN clipped = {1} /\ clipped[1] = r
    BY <1>2, <1>5
  <2> HIDE DEF clipped
  <2>2. Range(clipped) = {r}
    BY <2>1 DEF Range
  <2> QED
    BY <1>4, <2>2
<1> HIDE DEF asked
<1>8. EntryRanges(w, t) = <<r>>
  <2>1. Sorted(asked, RangeBefore) = <<r>>
    BY <1>4, <1>7, OneIsSorted
  <2>2. FoldLeft(Merge, <<>>, Sorted(asked, RangeBefore)) = FoldLeft(Merge, <<>>, <<r>>)
    BY <2>1, Zenon
  <2> QED
    BY <1>6, <2>2, OneIsMerged, Zenon
<1> DEFINE chunks(ranges) ==
             [i \in DOMAIN ranges |->
               [from |-> ranges[i].from,
                entries |-> [k \in 1..(ranges[i].to - ranges[i].from) |->
                               Cut(e.entries[ranges[i].from + k], w.cut)]]]
<1>9. Preview(e, w).chunks = chunks(EntryRanges(w, Len(e.entries)))
  <2> DEFINE ranges == EntryRanges(w, Len(e.entries))
             shown == UNION {x.from..(x.to - 1) : x \in Range(ranges)}
             omitted == (0..(Len(e.entries) - 1)) \ shown
  <2>1. PICK a, b, c, d, f, g :
          /\ a = e.pk /\ b = Len(e.entries) /\ c = chunks(ranges)
          /\ d = Len(e.entries) - FoldLeft(LAMBDA n_1, r_1 : n_1 + r_1.to - r_1.from, 0, ranges)
          /\ f = FoldSet(LAMBDA i, n_1 : n_1 + Len(e.entries[i + 1].text), 0, omitted)
          /\ g = e.images
    BY Zenon
  <2>2. Preview(e, w) = [pk |-> a, total |-> b, chunks |-> c, omittedEntries |-> d,
                         omittedCharacters |-> f, images |-> g]
    BY <2>1, Zenon DEF Preview
  <2>3. Preview(e, w).chunks = c
    BY <2>2
  <2> QED
    BY <2>1, <2>3, Zenon
<1>10. PICK made : made = chunks(<<r>>)
  OBVIOUS
<1>11. Preview(e, w).chunks = made
  BY <1>8, <1>9, <1>10, Zenon
<1>12. ShowsEntry(made, n, Cut(e.entries[n + 1], limit))
  <2>0. DOMAIN <<r>> = {1} /\ <<r>>[1] = r
    OBVIOUS
  <2>1. PICK s : s = <<r>> /\ DOMAIN s = {1} /\ s[1] = r
    BY <2>0, Zenon
  <2>2. made = [i \in DOMAIN s |->
                  [from |-> s[i].from,
                   entries |-> [k \in 1..(s[i].to - s[i].from) |-> Cut(e.entries[s[i].from + k], w.cut)]]]
    BY <1>10, <2>1, Zenon
  <2>3. /\ made = [i \in {1} |-> made[i]]
        /\ made[1] = [from |-> s[1].from,
                      entries |-> [k \in 1..(s[1].to - s[1].from) |-> Cut(e.entries[s[1].from + k], w.cut)]]
    BY <2>1, <2>2
  <2>4. made[1] = [from |-> n, entries |-> [k \in 1..1 |-> Cut(e.entries[n + k], limit)]]
    <3>1. s[1].from = n /\ s[1].to - s[1].from = 1
      BY <1>4, <2>1
    <3> QED
      BY <1>2, <2>3, <3>1
  <2>5. made[1].from = n /\ made[1].entries[1] = Cut(e.entries[n + 1], limit)
    BY <2>4
  <2>6. Len(made) = 1
    <3>1. {1} = 1..1
      OBVIOUS
    <3>2. made \in [1..1 -> {made[1]}]
      BY <2>3, <3>1
    <3> QED
      BY <3>2
  <2> QED
    BY <2>5, <2>6 DEF ShowsEntry
<1> QED
  BY <1>1, <1>11, <1>12, Zenon

\* What is read of an event of the owner holds its entries.
LEMMA ConversationIs ==
  ASSUME Sound(db), NEW e \in RowsOf(db), NEW w
  PROVE  \E ev : /\ Sq!EventConversation(db, e.user, e.pk, w) = <<Preview(ev, w)>>
                 /\ ev.entries = e.entries
<1> DEFINE own == {x \in Sq!RowsOf(db) : x.pk = e.pk /\ x.user = e.user}
           one == CHOOSE x \in own : TRUE
           answered(x) == Sq!EventResponse(x, IF db.devices[x.device] = NoRow THEN Unknown
                                              ELSE DeviceKey[x.device].platform,
                                           Sq!LoadAttachments(db, x), TRUE)
<1>1. Sq!RowsOf(db) = RowsOf(db) /\ \A x \in RowsOf(db) : x.pk = e.pk => x = e
  BY RowsAreSound
<1>2. own = {e}
  BY <1>1
<1>3. one = e
  BY <1>2
<1>4. Sq!UsageEvent(db, e.user, e.pk) = IF own = {} THEN Sq!NotFound
                                        ELSE <<Sq!EventResponses(db, <<one>>, TRUE)[1]>>
  BY Zenon DEF Sq!UsageEvent
<1> HIDE DEF own, one
<1>5. Sq!UsageEvent(db, e.user, e.pk) = <<Sq!EventResponses(db, <<e>>, TRUE)[1]>>
  <2>1. own # {}
    BY <1>2
  <2> QED
    BY <1>3, <1>4, <2>1, Zenon
<1>6. PICK ev : ev = Sq!EventResponses(db, <<e>>, TRUE)[1]
  OBVIOUS
<1>7. ev.entries = e.entries
  <2>0. DOMAIN <<e>> = {1} /\ <<e>>[1] = e
    OBVIOUS
  <2>1. PICK s : s = <<e>> /\ DOMAIN s = {1} /\ s[1] = e
    BY <2>0, Zenon
  <2>3. Sq!EventResponses(db, s, TRUE)
          = [i \in {1} |-> Sq!EventResponse(s[i],
                             IF db.devices[s[i].device] = NoRow THEN Unknown
                             ELSE DeviceKey[s[i].device].platform,
                             IF TRUE THEN Sq!LoadAttachments(db, s[i]) ELSE <<>>, TRUE)]
    BY <2>1, Zenon DEF Sq!EventResponses
  <2>5. \A a, b, c : Sq!EventResponse(a, b, c, TRUE).entries = a.entries
    BY DEF Sq!EventResponse
  <2>6. 1 \in {1}
    OBVIOUS
  <2>7. Sq!EventResponses(db, s, TRUE)[1]
          = Sq!EventResponse(s[1], IF db.devices[s[1].device] = NoRow THEN Unknown
                                   ELSE DeviceKey[s[1].device].platform,
                             IF TRUE THEN Sq!LoadAttachments(db, s[1]) ELSE <<>>, TRUE)
    BY <2>3, <2>6, Zenon
  <2>8. ev = Sq!EventResponses(db, s, TRUE)[1]
    BY <1>6, <2>1, Zenon
  <2>9. PICK platform, images : ev = Sq!EventResponse(s[1], platform, images, TRUE)
    BY <2>7, <2>8, Zenon
  <2>10. ev.entries = s[1].entries
    BY <2>5, <2>9, Zenon
  <2> QED
    BY <2>1, <2>10
<1>8. <<ev>> # Sq!NotFound /\ Head(<<ev>>) = ev
  BY DEF Sq!NotFound
<1>9. Sq!EventConversation(db, e.user, e.pk, w) = <<Sq!Preview(ev, w)>>
  BY <1>5, <1>6, <1>8, Zenon DEF Sq!EventConversation
<1> QED
  BY <1>7, <1>9, SamePreviewHere, Zenon

\* The preview of the entry of a hit shows the hit, whatever its cut.
LEMMA HitsAreShownHere ==
  ASSUME Sound(db), Searchable(db), NEW u, NEW query \in Seq(Chars), query # <<>>,
         NEW q, q.text = query, NEW h \in Scan(u, q), h.field = "text"
  PROVE  HitIsShown(u, query, h, Utf16Ranges(h.text, Occurrences(query, h.text)))
<1>1. PICK e \in RowsOf(db) : Sought(u, q, e) /\ \E p \in PiecesOf(e) : h = Scanned(db, e, p)
  <2>1. \E e \in RowsOf(db) : /\ Sought(u, q, e)
                             /\ \E p \in PiecesOf(e) : Matches(q.text, p.text) /\ h = Scanned(db, e, p)
    BY ScanFinds
  <2> QED
    BY <2>1, Zenon
<1>2. PICK p \in PiecesOf(e) : h = Scanned(db, e, p)
  BY <1>1
<1>3. Sought(u, q, e) /\ h = Scanned(db, e, p)
  BY <1>1, <1>2
<1>4. e.user = u
  BY <1>3 DEF Sought
<1>5. h.event = e.pk /\ h.entry = p.entry /\ h.field = p.field /\ h.text = p.text
  BY <1>3 DEF Scanned
<1>6. IsPiece(e.entries, p)
  BY PiecesAreReferred
<1>7. e.entries \in Conversations
  <2>1. PICK k \in StoredEvents(db) : e = db.events[k]
    BY DEF RowsOf, StoredEvents
  <2> QED
    BY <2>1 DEF Searchable
<1>8. PICK t \in Nat : t = Len(e.entries) /\ DOMAIN e.entries = 1..t
  <2>1. PICK es : es = e.entries
    OBVIOUS
  <2>2. es \in Conversations
    BY <1>7, <2>1, Zenon
  <2>3. Len(es) \in Nat /\ DOMAIN es = 1..Len(es)
    BY <2>2 DEF Conversations
  <2> QED
    BY <2>1, <2>3, Zenon
<1>9. PICK n \in Nat : n = h.entry /\ n + 1 <= t
  <2>1. p.entry \in Nat /\ p.entry + 1 \in DOMAIN e.entries
    BY <1>6 DEF IsPiece
  <2> QED
    BY <1>5, <1>8, <2>1
<1>10. PICK entry : entry = e.entries[n + 1]
  OBVIOUS
<1>11. PICK text \in Seq(Chars) : text = h.text /\ entry.text = text
  BY <1>10, <1>5, <1>6, <1>9 DEF IsPiece
<1>12. PICK occ : occ = Occurrences(query, text)
  OBVIOUS
<1>13. AreOccurrences(occ, Fold(text), Fold(query), 0)
  BY <1>12, OccurrencesAreFound
<1>14. PICK ranges : ranges = Utf16Ranges(text, occ)
  OBVIOUS
<1>15. ASSUME NEW i \in DOMAIN ranges, NEW cut \in {None, ranges[i][2]},
              NEW chunks \in {Head(Sq!EventConversation(db, u, h.event,
                                [runs |-> <<Span(h.entry, h.entry)>>, cut |-> cut])).chunks}
       PROVE  /\ Len(chunks) = 1 /\ chunks[1].from = h.entry
              /\ \E at \in 0..Len(chunks[1].entries[1].text) :
                   /\ CharacterOffset(chunks[1].entries[1].text, at) = ranges[i][1]
                   /\ Holds(Fold(chunks[1].entries[1].text), at, Fold(query))
  <2>1. i \in DOMAIN occ /\ ranges[i] = <<CharacterOffset(text, occ[i].start), CharacterOffset(text, occ[i].end)>>
    BY <1>14, Zenon DEF Utf16Ranges
  <2>2. occ \in Seq(TextSpans) /\ i \in 1..Len(occ)
    BY <1>13, <2>1 DEF AreOccurrences
  <2>3. PICK at \in Nat, end \in Nat : at = occ[i].start /\ end = occ[i].end
    <3>1. occ[i] \in TextSpans
      BY <2>2
    <3> QED
      BY <3>1 DEF TextSpans
  <2>4. Holds(Fold(text), at, Fold(query)) /\ end = at + Len(Fold(query))
    BY <1>13, <2>2, <2>3 DEF AreOccurrences
  <2>5. Fold(text) \in Seq(Chars) /\ Fold(query) \in Seq(Chars)
        /\ Len(Fold(text)) = Len(text) /\ Len(Fold(query)) = Len(query)
    BY FoldIsAText
  <2>6. end = at + Len(query) /\ at + Len(query) <= Len(text)
    BY <2>4, <2>5, HoldsByPlace
  <2>7. ranges[i][1] = CharacterOffset(text, at) /\ ranges[i][2] = CharacterOffset(text, at + Len(query))
    BY <2>1, <2>3, <2>6
  <2>8. cut = None \/ cut = CharacterOffset(text, at + Len(query))
    BY <2>7
  <2>9. PICK w : w = [runs |-> <<Span(n, n)>>, cut |-> cut]
    OBVIOUS
  <2>10. PICK ev : /\ Sq!EventConversation(db, e.user, e.pk, w) = <<Preview(ev, w)>>
                   /\ ev.entries = e.entries
    BY ConversationIs
  <2>11. chunks = Preview(ev, w).chunks
    <3>1. chunks = Head(Sq!EventConversation(db, e.user, e.pk, w)).chunks
      BY <1>4, <1>5, <1>9, <2>9, Zenon
    <3>2. PICK v : v = Preview(ev, w) /\ Head(<<v>>) = v
      OBVIOUS
    <3> QED
      BY <2>10, <3>1, <3>2, Zenon
  <2>12. ShowsEntry(Preview(ev, [runs |-> <<Span(n, n)>>, cut |-> cut]).chunks, n, Cut(ev.entries[n + 1], cut))
    <3>1. Len(ev.entries) = t
      BY <1>8, <2>10
    <3> QED
      BY <1>9, <3>1, OneEntryIsShown
  <2>13. ShowsEntry(chunks, n, Cut(entry, cut))
    BY <1>10, <2>9, <2>10, <2>11, <2>12, Zenon
  <2>14. PICK shown : shown = Cut(entry, cut).text
    OBVIOUS
  <2>15. \E x \in 0..Len(shown) : /\ CharacterOffset(shown, x) = CharacterOffset(text, at)
                                  /\ Holds(Fold(shown), x, Fold(query))
    BY <1>11, <2>4, <2>6, <2>8, <2>14, CutHolds
  <2>16. chunks[1].entries[1].text = shown /\ Len(chunks) = 1 /\ chunks[1].from = h.entry
    BY <1>9, <2>13, <2>14, Zenon DEF ShowsEntry
  <2> QED
    BY <2>7, <2>15, <2>16, Zenon
<1>16. HitIsShown(u, query, h, ranges)
  BY <1>15, Zenon DEF HitIsShown
<1> QED
  BY <1>11, <1>12, <1>14, <1>16, Zenon

-----------------------------------------------------------------------------
(* A search within a session. *)

\* What the answer to one is, by the hits of a scan.
AnswersHere(u, query, hits, a) ==
  /\ a.truncated = (Cardinality(hits) > MaxInSessionHits)
  /\ Len(a.hits) = AtMost(Cardinality(hits), MaxInSessionHits)
  /\ \A i, j \in DOMAIN a.hits : i < j => a.hits[i].at <= a.hits[j].at
  /\ \A i \in DOMAIN a.hits : \E h \in hits :
       /\ h.event = a.hits[i].event /\ h.entry = a.hits[i].entry
       /\ h.field = a.hits[i].field
       /\ h.field = "text" => HitIsShown(u, query, h, a.texts[a.hits[i].text])
       /\ a.texts[a.hits[i].text] = Utf16Ranges(h.text, Occurrences(query, h.text))
  /\ DOMAIN a.texts = {a.hits[i].text : i \in DOMAIN a.hits}

\* Listed hits that are shown answer it.
LEMMA ShownAnswer ==
  ASSUME Sound(db), Searchable(db), NEW u, NEW query \in Seq(Chars), query # <<>>,
         NEW scan, \A h \in scan : h \in Scan(u, Everywhere(query)), Cardinality(scan) \in Nat,
         NEW listed, ListsFirst(u, listed, MaxInSessionHits + 1, scan),
         NEW a, ShowsListed(a, listed), TellsRanges(a, query)
  PROVE  AnswersHere(u, query, scan, a)
<1>1. PICK c \in Nat : c = Cardinality(scan)
  OBVIOUS
<1>2. PICK m \in Nat : /\ m = AtMost(c, MaxInSessionHits + 1) /\ HasElements(listed, m)
                       /\ \A i \in 1..m : \E h \in scan : Same(u, listed[i], h)
                       /\ \A i, j \in 1..m : i < j => listed[i].at <= listed[j].at
  BY <1>1, Zenon DEF ListsFirst, HasElements
<1>3. Len(listed) = m /\ DOMAIN listed = 1..m
  BY <1>2, ElementsAre
<1>4. PICK most \in Nat : most = MaxInSessionHits
  BY MatchingConstants
<1>5. PICK n \in Nat : /\ n = AtMost(m, most) /\ Len(a.hits) = n /\ DOMAIN a.hits = 1..n
                       /\ \A i \in 1..n : i \in DOMAIN listed /\ TellsHit(a.hits[i], listed[i])
  BY <1>3, <1>4, Zenon DEF ShowsListed
<1>6. a.truncated = (c > most)
  <2>1. a.truncated = (m > most)
    BY <1>3, <1>4, Zenon DEF ShowsListed
  <2>2. (m > most) <=> (c > most)
    BY <1>2, <1>4 DEF AtMost
  <2>3. (m > most) \in BOOLEAN /\ (c > most) \in BOOLEAN
    OBVIOUS
  <2> QED
    BY <2>1, <2>2, <2>3
<1>7. n = AtMost(c, most)
  BY <1>2, <1>4, <1>5 DEF AtMost
<1>8. ASSUME NEW i \in 1..n, NEW j \in 1..n, i < j PROVE a.hits[i].at <= a.hits[j].at
  <2>1. i \in 1..m /\ j \in 1..m
    BY <1>3, <1>5
  <2>2. listed[i].at <= listed[j].at
    BY <1>2, <1>8, <2>1
  <2>3. a.hits[i].at = listed[i].at /\ a.hits[j].at = listed[j].at
    BY <1>5, Zenon DEF TellsHit
  <2> QED
    BY <2>2, <2>3, Zenon
<1>9. ASSUME NEW i \in 1..n
      PROVE  \E h \in scan :
               /\ h.event = a.hits[i].event /\ h.entry = a.hits[i].entry
               /\ h.field = a.hits[i].field
               /\ h.field = "text" => HitIsShown(u, query, h, a.texts[a.hits[i].text])
               /\ a.texts[a.hits[i].text] = Utf16Ranges(h.text, Occurrences(query, h.text))
  <2>1. i \in 1..m
    BY <1>3, <1>5
  <2>2. PICK h \in scan : Same(u, listed[i], h)
    BY <1>2, <2>1
  <2>3. /\ a.hits[i].event = listed[i].event /\ a.hits[i].entry = listed[i].entry
        /\ a.hits[i].field = listed[i].field /\ a.hits[i].text = listed[i].text
    BY <1>5, Zenon DEF TellsHit
  <2>4. PICK id : id = a.hits[i].text
    OBVIOUS
  <2>5. TextIs(u, id, h.text)
    BY <2>2, <2>3, <2>4, Zenon DEF Same
  <2>6. Sq!TextOf(db, id) = h.text
    <3>1. PICK x \in db.texts : x.id = id /\ x.text = h.text
      BY <2>5, Zenon DEF TextIs
    <3>2. \A y \in db.texts : y.id = id => y = x
      BY <3>1, Zenon DEF Searchable, IndexTrue, TextsTrue
    <3>3. (CHOOSE y \in db.texts : y.id = id) = x
      BY <3>1, <3>2
    <3> QED
      BY <3>1, <3>3, Zenon DEF Sq!TextOf
  <2>7. id \in DOMAIN a.texts
    BY <1>5, <2>4, Zenon DEF ShowsListed
  <2>8. a.texts[id] = Utf16Ranges(h.text, Occurrences(query, h.text))
    BY <2>6, <2>7, Zenon DEF TellsRanges
  <2>9. PICK q : q = Everywhere(query) /\ q.text = query
    BY DEF Everywhere
  <2>10. h \in Scan(u, q)
    BY <2>2, <2>9, Zenon
  <2>11. h.field = "text" => HitIsShown(u, query, h, Utf16Ranges(h.text, Occurrences(query, h.text)))
    BY <2>9, <2>10, HitsAreShownHere
  <2> QED
    BY <2>2, <2>3, <2>4, <2>8, <2>11, Zenon DEF Same
<1>10. DOMAIN a.texts = {a.hits[i].text : i \in DOMAIN a.hits}
  BY Zenon DEF ShowsListed
<1> QED
  BY <1>1, <1>4, <1>5, <1>6, <1>7, <1>8, <1>9, <1>10, Zenon DEF AnswersHere

\* It answers what a scan answers.
LEMMA SearchHereFindsAll ==
  ASSUME Sound(db), Searchable(db), NEW u, NEW query \in Seq(Chars), query # <<>>,
         NEW key \in Existing(db), SessionKey[key].user = u
  PROVE  \E a : /\ Sq!SearchInSession(db, u, db.sessions[key].pk, query) = <<a>>
                /\ AnswersHere(u, query, HitsIn(Scan(u, Everywhere(query)), db.sessions[key].pk), a)
<1>1. PICK texts : texts = {t.id : t \in FoundHere(u, query, key)}
  OBVIOUS
<1>2. PICK scan : scan = HitsIn(Scan(u, Everywhere(query)), db.sessions[key].pk)
  OBVIOUS
<1>3. PICK listed : listed = Sq!HitsInSession(db, u, key, texts)
  OBVIOUS
<1>4. /\ Cardinality(scan) \in Nat /\ ListsFirst(u, listed, MaxInSessionHits + 1, scan)
      /\ \A i \in DOMAIN listed : listed[i] \in HitsHere(u, key, texts)
  BY <1>1, <1>2, <1>3, HitsHereAreListed
<1>5. PICK n \in Nat : HasElements(listed, n)
  BY <1>4, Zenon DEF ListsFirst, HasElements
<1>6. \A i \in 1..n : listed[i] \in HitsHere(u, key, texts)
  <2>1. DOMAIN listed = 1..n
    BY <1>5, ElementsAre
  <2> QED
    BY <1>4, <2>1, Zenon
<1>7. PICK a : /\ Sq!SearchInSession(db, u, db.sessions[key].pk, query) = <<a>>
               /\ ShowsListed(a, listed) /\ TellsRanges(a, query)
  BY <1>1, <1>3, <1>5, <1>6, SearchHere
<1>8. \A h \in scan : h \in Scan(u, Everywhere(query))
  BY <1>2, Zenon DEF HitsIn
<1>9. AnswersHere(u, query, scan, a)
  BY <1>4, <1>7, <1>8, ShownAnswer
<1> QED
  BY <1>2, <1>7, <1>9, Zenon

\* Search within a session (src/crates/abyss-backend/src/storage/sqlite/search) answers what
\* a scan of the session's pieces answers, in the order its events happened, and the preview
\* of each hit's entry shows the hit; a session of another owner is not found.
THEOREM InSessionSearchIsScanHolds == Spec => []InSessionSearchIsScan
<1>1. ASSUME QueriesInv, Searchable(db), NEW u \in Users, NEW s \in SessionRows(db), NEW q \in SearchQueries
      PROVE  IF SessionKey[s.key].user # u
             THEN Sq!SearchInSession(db, u, s.pk, q.text) = NotFound
             ELSE /\ Sq!SearchInSession(db, u, s.pk, q.text) # NotFound
                  /\ AnswersHere(u, q.text, HitsIn(Scan(u, Everywhere(q.text)), s.pk),
                                 Head(Sq!SearchInSession(db, u, s.pk, q.text)))
  <2>1. Sound(db)
    BY <1>1, Zenon DEF QueriesInv
  <2>2. PICK key \in Existing(db) : s.key = key /\ s.pk = db.sessions[key].pk
    BY DEF SessionRows, Existing
  <2>3. PICK query \in Seq(Chars) : query = q.text /\ query # <<>>
    BY QueryConstants
  <2>4. CASE SessionKey[key].user # u
    <3>1. Sq!SearchInSession(db, u, db.sessions[key].pk, query) = NotFound
      BY <2>1, <2>4, OthersAreNotFound
    <3> QED
      BY <2>2, <2>3, <2>4, <3>1, Zenon
  <2>5. CASE SessionKey[key].user = u
    <3>1. PICK a : /\ Sq!SearchInSession(db, u, db.sessions[key].pk, query) = <<a>>
                   /\ AnswersHere(u, query, HitsIn(Scan(u, Everywhere(query)), db.sessions[key].pk), a)
      BY <1>1, <2>1, <2>3, <2>5, SearchHereFindsAll
    <3>2. <<a>> # NotFound /\ Head(<<a>>) = a
      BY DEF NotFound
    <3> QED
      BY <2>2, <2>3, <2>5, <3>1, <3>2, Zenon
  <2> QED
    BY <2>2, <2>4, <2>5, Zenon
<1>2. QueriesInv /\ Searchable(db) => InSessionSearchIsScan
  BY <1>1, Zenon DEF InSessionSearchIsScan, AnswersHere, HitsIn, Everywhere
<1> QED
  BY <1>2, SearchableAlways, PTL
=============================================================================
