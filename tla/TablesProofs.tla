---------------------------- MODULE TablesProofs ----------------------------
(***************************************************************************)
(* Lemmas for every proof about a database: what the writes of one event     *)
(* (module Tables) change, table by table, that they keep the text index     *)
(* true, and what the matching, ranking and fragments of a search read from  *)
(* it (module Matching).                                                     *)
(***************************************************************************)
EXTENDS Tables, DataProofs

-----------------------------------------------------------------------------
(* What the writes of one event change: devices, sessions, events and titles. *)

\* A database has its tables, and a table its keys.
IsDatabase(d) ==
  /\ {"devices", "sessions", "events", "titles", "captures", "images", "texts", "trigrams",
      "refs"} \subseteq DOMAIN d
  /\ d.devices = [k \in Devices |-> d.devices[k]]
  /\ d.events = [e \in EventIds |-> d.events[e]]
  /\ d.sessions = [s \in Sessions |-> d.sessions[s]]
  /\ d.titles = [s \in Sessions |-> d.titles[s]]

\* Two databases whose devices, events, sessions and titles are the same.
SameTables(d, n) ==
  /\ DOMAIN n = DOMAIN d
  /\ n.devices = d.devices /\ n.events = d.events
  /\ n.sessions = d.sessions /\ n.titles = d.titles

\* Images, the text index and captures are written beside them.
LEMMA WritesBeside ==
  ASSUME NEW d, IsDatabase(d), NEW user, NEW s, NEW pk
  PROVE  /\ SameTables(d, InsertImages(d, user, s, pk))
         /\ SameTables(d, IndexEvent(d, user, s, pk))
         /\ SameTables(d, IngestCapture(d, user, s))
<1>1. SameTables(d, InsertImages(d, user, s, pk))
  BY Zenon DEF IsDatabase, SameTables, InsertImages
<1>2. SameTables(d, IndexEvent(d, user, s, pk))
  BY Zenon DEF IsDatabase, SameTables, IndexEvent
<1>3. SameTables(d, IngestCapture(d, user, s))
  BY Zenon DEF IsDatabase, SameTables, IngestCapture
<1> QED
  BY <1>1, <1>2, <1>3

\* The same tables are a database again.
LEMMA SameDatabase ==
  ASSUME NEW d, NEW n, IsDatabase(d), SameTables(d, n)
  PROVE  IsDatabase(n)
BY Zenon DEF IsDatabase, SameTables

\* The row of a device after an event on it.
DeviceAfter(old, s) ==
  IF old = NoRow THEN [first |-> s.at, last |-> s.at]
  ELSE [first |-> AtMost(old.first, s.at), last |-> AtLeast(old.last, s.at)]

\* The upsert of a device writes its row and nothing else of the four tables.
LEMMA DeviceWrite ==
  ASSUME NEW d, IsDatabase(d), NEW s, NEW n, n = UpsertDevice(d, s)
  PROVE  /\ IsDatabase(n) /\ n.events = d.events /\ n.sessions = d.sessions /\ n.titles = d.titles
         /\ n.devices = [d.devices EXCEPT ![s.device] = DeviceAfter(d.devices[s.device], s)]
<1> DEFINE row == DeviceAfter(d.devices[s.device], s)
<1>1. n = [d EXCEPT !.devices = [@ EXCEPT ![s.device] = row]]
  BY Zenon DEF UpsertDevice, DeviceAfter
<1> HIDE DEF row
<1>2. /\ DOMAIN n = DOMAIN d
      /\ n.events = d.events /\ n.sessions = d.sessions /\ n.titles = d.titles
      /\ n.devices = [d.devices EXCEPT ![s.device] = row]
  BY <1>1, Zenon DEF IsDatabase
<1>3. DOMAIN d.devices = Devices
  BY Zenon DEF IsDatabase
<1>4. n.devices = [k \in Devices |-> n.devices[k]]
  BY Zenon, <1>2, <1>3
<1>5. IsDatabase(n)
  BY Zenon, <1>2, <1>4 DEF IsDatabase
<1> QED
  BY Zenon, <1>2, <1>5 DEF row

\* The row of a session after an event of it.
SessionAfter(old, s, count) ==
  IF old = NoRow
  THEN [pk |-> count, device |-> s.device, started |-> s.at, ended |-> s.at, revision |-> 1]
  ELSE [old EXCEPT !.device = s.device, !.started = AtMost(@, s.at),
                   !.ended = AtLeast(@, s.at), !.revision = @ + 1]

Existing(d) == {t \in Sessions : d.sessions[t] # NoRow}

\* The title of a session after an event of it.
TitleAfter(old, s, pk) ==
  IF \/ s.kind = "response"
     \/ old # NoRow /\ (old.at < s.at \/ (old.at = s.at /\ old.pk <= pk))
  THEN old
  ELSE [at |-> s.at, pk |-> pk]

\* The upsert of a session writes its row and nothing else of them.
LEMMA SessionWrite ==
  ASSUME NEW d, IsDatabase(d), NEW s, s.session \in Sessions,
         NEW n, n = UpsertSession(d, s)
  PROVE  /\ IsDatabase(n)
         /\ n.devices = d.devices /\ n.events = d.events /\ n.titles = d.titles
         /\ n.sessions = [d.sessions EXCEPT ![s.session] =
              SessionAfter(d.sessions[s.session], s, 1 + Cardinality(Existing(d)))]
<1> DEFINE row == SessionAfter(d.sessions[s.session], s, 1 + Cardinality(Existing(d)))
<1>1. n = [d EXCEPT !.sessions[s.session] = row]
  BY Zenon DEF UpsertSession, SessionAfter, Existing
<1> HIDE DEF row
<1>2. /\ DOMAIN n = DOMAIN d
      /\ n.devices = d.devices /\ n.events = d.events /\ n.titles = d.titles
      /\ n.sessions = [d.sessions EXCEPT ![s.session] = row]
  BY <1>1 DEF IsDatabase
<1>3. DOMAIN d.sessions = Sessions
  BY DEF IsDatabase
<1>4. n.sessions = [t \in Sessions |-> n.sessions[t]]
  BY Zenon, <1>2, <1>3
<1>5. IsDatabase(n)
  BY <1>2, <1>4 DEF IsDatabase
<1> QED
  BY Zenon, <1>2, <1>5 DEF row

\* The insert of an event writes its row and nothing else of them.
LEMMA EventWrite ==
  ASSUME NEW d, IsDatabase(d), NEW user, NEW s, NEW pk, s.id \in EventIds,
         NEW n, n = InsertEvent(d, user, s, pk)
  PROVE  /\ IsDatabase(n)
         /\ n.devices = d.devices /\ n.sessions = d.sessions /\ n.titles = d.titles
         /\ n.events = [d.events EXCEPT ![s.id] = EventRow(user, s, pk)]
<1>1. n = [d EXCEPT !.events[s.id] = EventRow(user, s, pk)]
  BY Zenon DEF InsertEvent
<1>2. /\ DOMAIN n = DOMAIN d
      /\ n.devices = d.devices /\ n.sessions = d.sessions /\ n.titles = d.titles
      /\ n.events = [d.events EXCEPT ![s.id] = EventRow(user, s, pk)]
  BY <1>1 DEF IsDatabase
<1>3. DOMAIN d.events = EventIds
  BY DEF IsDatabase
<1>4. n.events = [e \in EventIds |-> n.events[e]]
  BY Zenon, <1>2, <1>3
<1> QED
  BY <1>2, <1>4 DEF IsDatabase

\* The capture of a title writes at most the title of the event's session.
LEMMA TitleWrite ==
  ASSUME NEW d, IsDatabase(d), NEW s, NEW pk, s.session \in Sessions,
         NEW n, n = CaptureTitle(d, s, pk)
  PROVE  /\ IsDatabase(n)
         /\ n.devices = d.devices /\ n.events = d.events /\ n.sessions = d.sessions
         /\ n.titles = [d.titles EXCEPT ![s.session] = TitleAfter(d.titles[s.session], s, pk)]
<1> DEFINE title == TitleAfter(d.titles[s.session], s, pk)
<1>1. /\ n.devices = d.devices /\ n.events = d.events /\ n.sessions = d.sessions
      /\ DOMAIN n = DOMAIN d
      /\ DOMAIN n.titles = Sessions
      /\ n.titles = [t \in Sessions |-> n.titles[t]]
  BY Zenon DEF CaptureTitle, IsDatabase
<1>2. n.titles[s.session] = title
  BY Zenon DEF CaptureTitle, IsDatabase, TitleAfter
<1>3. \A t \in Sessions \ {s.session} : n.titles[t] = d.titles[t]
  BY Zenon DEF CaptureTitle, IsDatabase
<1> HIDE DEF title
<1>4. IsDatabase(n)
  BY <1>1 DEF IsDatabase
<1>5. d.titles = [t \in Sessions |-> d.titles[t]]
  BY DEF IsDatabase
<1>6. n.titles = [d.titles EXCEPT ![s.session] = title]
  BY <1>1, <1>2, <1>3, <1>5
<1> QED
  BY Zenon, <1>1, <1>4, <1>6 DEF title

\* All of it: the four tables after an event that was not stored yet.
LEMMA IngestOneWrites ==
  ASSUME NEW d, IsDatabase(d), NEW user, NEW s, NEW pk,
         s.id \in EventIds, s.session \in Sessions, s.device \in Devices, d.events[s.id] = NoRow,
         NEW n, n = IngestOne(d, user, s, pk)
  PROVE  /\ IsDatabase(n)
         /\ n.events[s.id] = EventRow(user, s, pk)
         /\ \A e \in EventIds \ {s.id} : n.events[e] = d.events[e]
         /\ n.sessions[s.session] =
              SessionAfter(d.sessions[s.session], s, 1 + Cardinality(Existing(d)))
         /\ n.titles[s.session] = TitleAfter(d.titles[s.session], s, pk)
         /\ \A t \in Sessions \ {s.session} :
              n.sessions[t] = d.sessions[t] /\ n.titles[t] = d.titles[t]
         /\ n.devices[s.device] = DeviceAfter(d.devices[s.device], s)
         /\ \A k \in Devices \ {s.device} : n.devices[k] = d.devices[k]
<1>1. PICK d1 : d1 = UpsertDevice(d, s)
  OBVIOUS
<1>2. PICK d2 : d2 = UpsertSession(d1, s)
  OBVIOUS
<1>3. PICK d3 : d3 = InsertEvent(d2, user, s, pk)
  OBVIOUS
<1>4. PICK d4 : d4 = InsertImages(d3, user, s, pk)
  OBVIOUS
<1>5. PICK d5 : d5 = IndexEvent(d4, user, s, pk)
  OBVIOUS
<1>6. n = CaptureTitle(d5, s, pk)
  BY Zenon, <1>1, <1>2, <1>3, <1>4, <1>5 DEF IngestOne
<1>7. /\ IsDatabase(d1)
      /\ d1.events = d.events /\ d1.sessions = d.sessions /\ d1.titles = d.titles
      /\ d1.devices = [d.devices EXCEPT ![s.device] = DeviceAfter(d.devices[s.device], s)]
  BY <1>1, DeviceWrite
<1>8. Existing(d1) = Existing(d)
  BY Zenon, <1>7 DEF Existing
<1>9. /\ IsDatabase(d2)
      /\ d2.devices = d1.devices /\ d2.events = d1.events /\ d2.titles = d1.titles
      /\ d2.sessions = [d1.sessions EXCEPT ![s.session] =
           SessionAfter(d1.sessions[s.session], s, 1 + Cardinality(Existing(d)))]
  BY <1>2, <1>7, <1>8, SessionWrite
<1>10. /\ IsDatabase(d3)
       /\ d3.devices = d2.devices /\ d3.sessions = d2.sessions /\ d3.titles = d2.titles
       /\ d3.events = [d2.events EXCEPT ![s.id] = EventRow(user, s, pk)]
  BY <1>3, <1>9, EventWrite
<1>11. IsDatabase(d4) /\ SameTables(d3, d4)
  BY <1>4, <1>10, WritesBeside, SameDatabase
<1>12. IsDatabase(d5) /\ SameTables(d4, d5)
  BY <1>5, <1>11, WritesBeside, SameDatabase
<1>13. /\ IsDatabase(n)
       /\ n.devices = d5.devices /\ n.events = d5.events /\ n.sessions = d5.sessions
       /\ n.titles = [d5.titles EXCEPT ![s.session] = TitleAfter(d5.titles[s.session], s, pk)]
  BY <1>6, <1>12, TitleWrite
<1> QED
  <2>1. n.events = [d.events EXCEPT ![s.id] = EventRow(user, s, pk)]
    BY <1>7, <1>9, <1>10, <1>11, <1>12, <1>13 DEF SameTables
  <2>2. n.sessions = [d.sessions EXCEPT ![s.session] =
          SessionAfter(d.sessions[s.session], s, 1 + Cardinality(Existing(d)))]
    BY <1>7, <1>9, <1>10, <1>11, <1>12, <1>13 DEF SameTables
  <2>3. n.titles = [d.titles EXCEPT ![s.session] = TitleAfter(d.titles[s.session], s, pk)]
    BY <1>7, <1>9, <1>10, <1>11, <1>12, <1>13 DEF SameTables
  <2>4. n.devices = [d.devices EXCEPT ![s.device] = DeviceAfter(d.devices[s.device], s)]
    BY <1>7, <1>9, <1>10, <1>11, <1>12, <1>13 DEF SameTables
  <2>5. /\ DOMAIN d.events = EventIds /\ DOMAIN d.sessions = Sessions
        /\ DOMAIN d.titles = Sessions /\ DOMAIN d.devices = Devices
    BY DEF IsDatabase
  <2> QED
    BY <1>13, <2>1, <2>2, <2>3, <2>4, <2>5

\* Nothing is stored at first.
LEMMA EmptyIsDatabase ==
  /\ IsDatabase(Empty)
  /\ \A e \in EventIds : Empty.events[e] = NoRow
  /\ \A s \in Sessions : Empty.sessions[s] = NoRow /\ Empty.titles[s] = NoRow
BY DEF IsDatabase, Empty

-----------------------------------------------------------------------------
(* What one event writes to the index. *)

SameIndex(d, n) == n.texts = d.texts /\ n.trigrams = d.trigrams /\ n.refs = d.refs

\* The rows that the new ones among pieces add, and the references of all of them.
TextRows(d, user, pieces, new) ==
  {[id |-> NumberOf(d, new, i), user |-> user, text |-> pieces[i].text] : i \in new}

TextsAfter(d, user, pieces) == d.texts \cup TextRows(d, user, pieces, NewTexts(d, user, pieces))

TrigramRows(d, pieces, new) ==
  {[rowid |-> NumberOf(d, new, i), folded |-> Fold(pieces[i].text)] : i \in new}

RefRows(texts, user, pieces, pk) ==
  {[event |-> pk, entry |-> p.entry, field |-> p.field,
    text |-> TextId(texts, user, p.text)] : p \in Range(pieces)}

\* The other writes of an event or a capture leave the index alone.
LEMMA WritesOutside ==
  ASSUME NEW d, IsDatabase(d), NEW user, NEW s, NEW pk
  PROVE  /\ SameIndex(d, UpsertDevice(d, s))
         /\ SameIndex(d, UpsertSession(d, s))
         /\ SameIndex(d, InsertEvent(d, user, s, pk))
         /\ SameIndex(d, InsertImages(d, user, s, pk))
         /\ SameIndex(d, CaptureTitle(d, s, pk))
         /\ SameIndex(d, IngestCapture(d, user, s))
<1>1. SameIndex(d, UpsertDevice(d, s))
  BY Zenon DEF IsDatabase, SameIndex, UpsertDevice
<1>2. SameIndex(d, UpsertSession(d, s))
  BY Zenon DEF IsDatabase, SameIndex, UpsertSession
<1>3. SameIndex(d, InsertEvent(d, user, s, pk))
  BY Zenon DEF IsDatabase, SameIndex, InsertEvent
<1>4. SameIndex(d, InsertImages(d, user, s, pk))
  BY Zenon DEF IsDatabase, SameIndex, InsertImages
<1>5. SameIndex(d, CaptureTitle(d, s, pk))
  BY Zenon DEF IsDatabase, SameIndex, CaptureTitle
<1>6. SameIndex(d, IngestCapture(d, user, s))
  BY Zenon DEF IsDatabase, SameIndex, IngestCapture
<1> QED
  BY <1>1, <1>2, <1>3, <1>4, <1>5, <1>6

\* The index write itself.
LEMMA IndexWrite ==
  ASSUME NEW d, IsDatabase(d), NEW user, NEW s, NEW pk,
         NEW n, n = IndexEvent(d, user, s, pk)
  PROVE  LET pieces == Pieces(s.entries)
             new    == NewTexts(d, user, pieces)
         IN  /\ n.texts = d.texts \cup TextRows(d, user, pieces, new)
             /\ n.trigrams = d.trigrams \cup TrigramRows(d, pieces, new)
             /\ n.refs = d.refs \cup RefRows(TextsAfter(d, user, pieces), user, pieces, pk)
<1> DEFINE pieces == Pieces(s.entries)
           new == NewTexts(d, user, pieces)
           texts == d.texts \cup TextRows(d, user, pieces, new)
           trigrams == TrigramRows(d, pieces, new)
           refs == RefRows(TextsAfter(d, user, pieces), user, pieces, pk)
<1>1. n = [d EXCEPT !.texts = texts, !.trigrams = @ \cup trigrams, !.refs = @ \cup refs]
  BY Zenon DEF IndexEvent, TextRows, TrigramRows, RefRows, TextsAfter
<1>2. {"texts", "trigrams", "refs"} \subseteq DOMAIN d
  BY DEF IsDatabase
<1> HIDE DEF texts, trigrams, refs
<1>3. n.texts = texts /\ n.trigrams = d.trigrams \cup trigrams /\ n.refs = d.refs \cup refs
  BY <1>1, <1>2
<1> QED
  BY Zenon, <1>3 DEF texts, trigrams, refs

\* All of it: the index after an event that was not stored yet.
LEMMA IngestOneIndexes ==
  ASSUME NEW d, IsDatabase(d), NEW user, NEW s, NEW pk,
         s.id \in EventIds, s.session \in Sessions, d.events[s.id] = NoRow,
         NEW n, n = IngestOne(d, user, s, pk)
  PROVE  LET pieces == Pieces(s.entries)
         IN  /\ n.texts = TextsAfter(d, user, pieces)
             /\ n.trigrams = d.trigrams \cup TrigramRows(d, pieces, NewTexts(d, user, pieces))
             /\ n.refs = d.refs \cup RefRows(TextsAfter(d, user, pieces), user, pieces, pk)
<1>0. PICK pieces, new : pieces = Pieces(s.entries) /\ new = NewTexts(d, user, pieces)
  OBVIOUS
<1>1. PICK d1 : d1 = UpsertDevice(d, s)
  OBVIOUS
<1>2. PICK d2 : d2 = UpsertSession(d1, s)
  OBVIOUS
<1>3. PICK d3 : d3 = InsertEvent(d2, user, s, pk)
  OBVIOUS
<1>4. PICK d4 : d4 = InsertImages(d3, user, s, pk)
  OBVIOUS
<1>5. PICK d5 : d5 = IndexEvent(d4, user, s, pk)
  OBVIOUS
<1>6. n = CaptureTitle(d5, s, pk)
  BY Zenon, <1>1, <1>2, <1>3, <1>4, <1>5 DEF IngestOne
<1>7. IsDatabase(d1) /\ SameIndex(d, d1)
  BY <1>1, DeviceWrite, WritesOutside
<1>8. IsDatabase(d2) /\ SameIndex(d1, d2)
  BY <1>2, <1>7, SessionWrite, WritesOutside
<1>9. IsDatabase(d3) /\ SameIndex(d2, d3)
  BY <1>3, <1>8, EventWrite, WritesOutside
<1>10. IsDatabase(d4) /\ SameIndex(d3, d4)
  BY <1>4, <1>9, WritesBeside, WritesOutside, SameDatabase
<1>11. IsDatabase(d5) /\ SameIndex(d5, n)
  BY <1>5, <1>6, <1>10, WritesBeside, WritesOutside, SameDatabase
<1>12. SameIndex(d, d4)
  BY <1>7, <1>8, <1>9, <1>10 DEF SameIndex
<1>13. /\ NewTexts(d4, user, pieces) = new
       /\ TextRows(d4, user, pieces, new) = TextRows(d, user, pieces, new)
       /\ TrigramRows(d4, pieces, new) = TrigramRows(d, pieces, new)
  BY <1>0, <1>12, Zenon DEF SameIndex, NewTexts, TextRows, TrigramRows, NumberOf
<1>14. TextsAfter(d, user, pieces) = d.texts \cup TextRows(d, user, pieces, new)
  BY <1>0 DEF TextsAfter
<1>15. TextsAfter(d4, user, pieces) = TextsAfter(d, user, pieces)
  BY <1>12, <1>13, <1>14 DEF SameIndex, TextsAfter
<1>16. /\ d5.texts = d4.texts \cup TextRows(d4, user, pieces, new)
       /\ d5.trigrams = d4.trigrams \cup TrigramRows(d4, pieces, new)
       /\ d5.refs = d4.refs \cup RefRows(TextsAfter(d, user, pieces), user, pieces, pk)
  BY <1>0, <1>5, <1>10, <1>13, <1>15, IndexWrite
<1>17. /\ n.texts = TextsAfter(d, user, pieces)
       /\ n.trigrams = d.trigrams \cup TrigramRows(d, pieces, new)
       /\ n.refs = d.refs \cup RefRows(TextsAfter(d, user, pieces), user, pieces, pk)
  BY <1>11, <1>12, <1>13, <1>14, <1>16 DEF SameIndex
<1> QED
  BY <1>0, <1>17

-----------------------------------------------------------------------------
(* Pieces, and the rows of texts. *)

IsNumbered(pieces) == \E m \in Nat : DOMAIN pieces = 1..m

\* The pieces of a conversation are a sequence.
LEMMA PiecesAreASequence ==
  ASSUME NEW entries, entries \in Seq(Range(entries))
  PROVE  IsNumbered(Pieces(entries))
<1>1. PICK m \in Nat : DOMAIN entries = 1..m
  OBVIOUS
<1> DEFINE piece(i, field) == [entry |-> i - 1, field |-> field, text |-> entries[i][field]]
           S == [entry : Int, field : {"name", "text"},
                 text : {entries[i]["name"] : i \in 1..m} \cup {entries[i]["text"] : i \in 1..m}]
           of(i, field) == IF entries[i][field] = <<>> THEN <<>> ELSE <<piece(i, field)>>
           both == [i \in 1..m |-> of(i, "name") \o of(i, "text")]
<1>2. ASSUME NEW i \in 1..m, NEW field \in {"name", "text"} PROVE of(i, field) \in Seq(S)
  <2>1. PICK x : x = piece(i, field)
    OBVIOUS
  <2>2. x \in S
    BY <2>1
  <2>3. of(i, field) = <<>> \/ of(i, field) = <<x>>
    BY Zenon, <2>1
  <2> HIDE DEF S, of
  <2>4. <<x>> \in Seq(S)
    BY <2>2
  <2> QED
    BY Zenon, <2>3, <2>4, EmptySeq
<1>3. Pieces(entries) = FlattenSeq(both)
  BY <1>1, Zenon DEF Pieces
<1>4. ASSUME NEW i \in 1..m PROVE both[i] \in Seq(S)
  <2>1. both[i] = of(i, "name") \o of(i, "text")
    OBVIOUS
  <2> HIDE DEF S, of, both
  <2>2. of(i, "name") \in Seq(S) /\ of(i, "text") \in Seq(S)
    BY <1>2
  <2> QED
    BY <2>1, <2>2, ConcatProperties
<1>5. both = [i \in 1..m |-> both[i]]
  OBVIOUS
<1> HIDE DEF S, of, both
<1>6. both \in [1..m -> Seq(S)]
  BY <1>4, <1>5
<1>7. Pieces(entries) \in Seq(S)
  BY <1>3, <1>6, FlattenIsASequence
<1> QED
  BY <1>7 DEF IsNumbered

\* Rows of texts are numbered from 1, and no two have the same owner and text.
TextsTrue(texts) ==
  /\ IsFiniteSet(texts)
  /\ \A t \in texts : t.id \in 1..Cardinality(texts)
  /\ \A t, u \in texts : t.id = u.id \/ (t.user = u.user /\ t.text = u.text) => t = u

\* New rows get the numbers that follow, each its own.
LEMMA NumbersAreFresh ==
  ASSUME NEW d, IsFiniteSet(d.texts), NEW m \in Nat, NEW new \in SUBSET (1..m)
  PROVE  /\ IsFiniteSet(new) /\ Cardinality(new) \in Nat
         /\ \A i \in new : NumberOf(d, new, i) \in
              (Cardinality(d.texts) + 1)..(Cardinality(d.texts) + Cardinality(new))
         /\ \A i, j \in new : NumberOf(d, new, i) = NumberOf(d, new, j) => i = j
<1> DEFINE R == {p \in new \X new : p[1] < p[2]}
           c == Cardinality(d.texts)
<1>1. IsFiniteSet(1..m)
  BY FS_Interval
<1>2. IsFiniteSet(new) /\ Cardinality(new) \in Nat /\ c \in Nat
  BY <1>1, FS_Subset, FS_CardinalityType
<1>3. IsOrder(R, new)
  BY DEF IsOrder
<1>4. ASSUME NEW i \in new
      PROVE  NumberOf(d, new, i) = c + 1 + Rank(R, new, i)
  <2> DEFINE before == {t \in new : <<t, i>> \in R}
             upTo == {j \in new : j <= i}
  <2>1. upTo = before \cup {i}
    <3>1. \A j \in new : <<j, i>> \in R <=> j < i
      OBVIOUS
    <3>2. \A j \in Int : j <= i <=> j < i \/ j = i
      BY i \in Int
    <3> HIDE DEF R
    <3> QED
      BY <3>1, <3>2, new \subseteq Int
  <2>2. i \notin before
    OBVIOUS
  <2>3. IsFiniteSet(before)
    BY <1>2, FS_Subset
  <2> HIDE DEF before, upTo
  <2>4. Cardinality(upTo) = Cardinality(before) + 1 /\ Cardinality(before) \in Nat
    BY <2>1, <2>2, <2>3, FS_AddElement, FS_CardinalityType
  <2>5. NumberOf(d, new, i) = c + Cardinality(upTo) /\ Rank(R, new, i) = Cardinality(before)
    BY Zenon DEF NumberOf, Rank, before, upTo
  <2> HIDE DEF c, R
  <2> QED
    BY <1>2, <2>4, <2>5
<1> HIDE DEF c, R
<1>5. \A i \in new : Rank(R, new, i) \in Nat /\ Rank(R, new, i) < Cardinality(new)
  BY <1>2, <1>3, RankGrows
<1>6. \A i, j \in new : Rank(R, new, i) = Rank(R, new, j) => i = j
  BY <1>2, <1>3, RankIsBijection
<1>7. \A i \in new : NumberOf(d, new, i) \in (c + 1)..(c + Cardinality(new))
  BY <1>2, <1>4, <1>5
<1>8. \A i, j \in new : NumberOf(d, new, i) = NumberOf(d, new, j) => i = j
  BY <1>2, <1>4, <1>5, <1>6
<1> QED
  BY <1>2, <1>7, <1>8 DEF c

\* Each text of an event that is new to its owner is new where it comes first, there only.
LEMMA NewTextsAreFirst ==
  ASSUME NEW d, NEW user, NEW pieces, NEW m \in Nat, DOMAIN pieces = 1..m,
         NEW new, new = NewTexts(d, user, pieces)
  PROVE  /\ new \in SUBSET (1..m)
         /\ \A i \in new, t \in d.texts : ~(t.user = user /\ t.text = pieces[i].text)
         /\ \A i, j \in new : pieces[i].text = pieces[j].text => i = j
         /\ \A i \in 1..m : \/ \E t \in d.texts : t.user = user /\ t.text = pieces[i].text
                            \/ \E j \in new : pieces[j].text = pieces[i].text
<1>1. /\ new \in SUBSET (1..m)
      /\ \A i \in new, t \in d.texts : ~(t.user = user /\ t.text = pieces[i].text)
  BY DEF NewTexts
<1>2. \A i, j \in new : pieces[i].text = pieces[j].text => i = j
  <2>1. \A i, j \in new : j < i => pieces[i].text # pieces[j].text
    BY <1>1 DEF NewTexts
  <2> QED
    BY <1>1, <2>1
<1>3. ASSUME NEW i \in 1..m, ~ \E t \in d.texts : t.user = user /\ t.text = pieces[i].text
      PROVE  \E j \in new : pieces[j].text = pieces[i].text
  <2> DEFINE same == {j \in 1..m : pieces[j].text = pieces[i].text}
  <2>1. same \in SUBSET Nat /\ same # {}
    OBVIOUS
  <2>2. PICK j \in same : \A k \in same : j <= k
    <3> HIDE DEF same
    <3> QED
      BY <2>1, LeastNumber
  <2>3. \A k \in 1..(j - 1) : pieces[k].text # pieces[j].text
    BY <2>2
  <2>4. j \in new
    BY <1>3, <2>2, <2>3 DEF NewTexts
  <2> QED
    BY <2>2, <2>4
<1> QED
  BY <1>1, <1>2, <1>3

\* With the new rows the texts are numbered and told apart again, and every piece has one.
LEMMA TextsGrow ==
  ASSUME NEW d, TextsTrue(d.texts), NEW user, NEW pieces, IsNumbered(pieces)
  PROVE  /\ TextsTrue(TextsAfter(d, user, pieces))
         /\ \A p \in Range(pieces) :
              \E t \in TextsAfter(d, user, pieces) : t.user = user /\ t.text = p.text
<1>0. PICK m, new, texts :
        /\ m \in Nat /\ DOMAIN pieces = 1..m
        /\ new = NewTexts(d, user, pieces)
        /\ texts = TextsAfter(d, user, pieces)
        /\ texts = d.texts \cup TextRows(d, user, pieces, new)
  BY DEF IsNumbered, TextsAfter
<1> DEFINE rows == TextRows(d, user, pieces, new)
           row(i) == [id |-> NumberOf(d, new, i), user |-> user, text |-> pieces[i].text]
           c == Cardinality(d.texts)
           k == Cardinality(new)
<1>1. IsFiniteSet(d.texts) /\ c \in Nat
  BY FS_CardinalityType DEF TextsTrue
<1>2. /\ new \in SUBSET (1..m)
      /\ \A i \in new, t \in d.texts : ~(t.user = user /\ t.text = pieces[i].text)
      /\ \A i, j \in new : pieces[i].text = pieces[j].text => i = j
      /\ \A i \in 1..m : \/ \E t \in d.texts : t.user = user /\ t.text = pieces[i].text
                         \/ \E j \in new : pieces[j].text = pieces[i].text
  BY <1>0, NewTextsAreFirst
<1>3. /\ IsFiniteSet(new) /\ k \in Nat
      /\ \A i \in new : NumberOf(d, new, i) \in (c + 1)..(c + k)
      /\ \A i, j \in new : NumberOf(d, new, i) = NumberOf(d, new, j) => i = j
  <2>1. m \in Nat /\ new \in SUBSET (1..m)
    BY <1>0, <1>2
  <2> QED
    BY <1>1, <2>1, NumbersAreFresh
<1>4. rows = {row(i) : i \in new}
  BY DEF TextRows
<1>5. \A i \in new : row(i).id = NumberOf(d, new, i) /\ row(i).user = user /\ row(i).text = pieces[i].text
  OBVIOUS
<1> HIDE DEF row, rows, c, k
<1>6. \A t \in d.texts : t.id \in 1..c
  BY DEF TextsTrue, c
<1>7. \A i \in new : row(i).id \in (c + 1)..(c + k)
  BY Zenon, <1>3, <1>5
<1>8. \A i, j \in new : row(i).id = row(j).id \/ row(i).text = row(j).text => i = j
  BY <1>2, <1>3, <1>5
<1>9. IsFiniteSet(rows) /\ Cardinality(rows) = k
  <2> DEFINE f == [i \in new |-> row(i)]
  <2>1. f \in [new -> rows] /\ \A i, j \in new : f[i] = f[j] => i = j
    BY <1>4, <1>8
  <2>2. \A t \in rows : \E i \in new : f[i] = t
    BY <1>4
  <2> HIDE DEF f
  <2>3. f \in Bijection(new, rows)
    BY <2>1, <2>2 DEF Bijection, Injection, IsInjective, Surjection
  <2> QED
    BY <1>3, <2>3, FS_Bijection DEF ExistsBijection, k
<1>10. d.texts \cap rows = {}
  BY <1>1, <1>3, <1>4, <1>6, <1>7
<1>11. IsFiniteSet(texts) /\ Cardinality(texts) = c + k
  <2>1. /\ IsFiniteSet(texts)
        /\ Cardinality(texts) = c + Cardinality(rows) - Cardinality(d.texts \cap rows)
    BY <1>0, <1>1, <1>9, FS_Union DEF c, rows
  <2>2. Cardinality(d.texts \cap rows) = 0
    BY <1>10, FS_EmptySet
  <2> QED
    BY <1>1, <1>3, <1>9, <2>1, <2>2
<1>12. texts = d.texts \cup {row(i) : i \in new}
  BY <1>0, <1>4 DEF rows
<1>13. \A t \in texts : t.id \in 1..(c + k)
  BY <1>1, <1>3, <1>6, <1>7, <1>12
<1>14. \A t \in d.texts, i \in new : t.id # row(i).id /\ ~(t.user = row(i).user /\ t.text = row(i).text)
  BY <1>1, <1>2, <1>3, <1>5, <1>6, <1>7
<1>15. \A t, u \in texts : t.id = u.id \/ (t.user = u.user /\ t.text = u.text) => t = u
  BY <1>8, <1>12, <1>14 DEF TextsTrue
<1>16. \A i \in 1..m : \E t \in texts : t.user = user /\ t.text = pieces[i].text
  BY <1>2, <1>5, <1>12
<1>17. \A p \in Range(pieces) : \E t \in texts : t.user = user /\ t.text = p.text
  BY <1>0, <1>16 DEF Range
<1>18. TextsTrue(texts)
  BY <1>11, <1>13, <1>15 DEF TextsTrue
<1> QED
  BY Zenon, <1>0, <1>17, <1>18

\* A piece refers to the row of its text.
LEMMA TextIdFinds ==
  ASSUME NEW texts, TextsTrue(texts), NEW user, NEW text,
         \E t \in texts : t.user = user /\ t.text = text
  PROVE  \E t \in texts : t.user = user /\ t.text = text /\ t.id = TextId(texts, user, text)
BY DEF TextId

-----------------------------------------------------------------------------
(* The inductive invariant. *)

\* A reference tells of a piece: its event, owner, entry, field and text.
Tells(r, t, event, user, p) ==
  /\ r.text = t.id /\ r.event = event /\ t.user = user
  /\ r.entry = p.entry /\ r.field = p.field /\ t.text = p.text

Trigrams(texts) == {[rowid |-> t.id, folded |-> Fold(t.text)] : t \in texts}

PiecesOf(e) == Range(Pieces(e.entries))

\* The index of a database: it has the trigrams of its texts, a reference tells of a piece
\* of a stored event, each such piece has one, and each text is referred to.
IndexTrue(d) ==
  /\ TextsTrue(d.texts)
  /\ d.trigrams = Trigrams(d.texts)
  /\ \A r \in d.refs : \E t \in d.texts : r.text = t.id
  /\ \A r \in d.refs, t \in d.texts : r.text = t.id =>
       \E e \in EventIds : /\ d.events[e] # NoRow
                           /\ \E p \in PiecesOf(d.events[e]) :
                                Tells(r, t, d.events[e].pk, d.events[e].user, p)
  /\ \A e \in EventIds : d.events[e] # NoRow => \A p \in PiecesOf(d.events[e]) :
       \E r \in d.refs, t \in d.texts : Tells(r, t, d.events[e].pk, d.events[e].user, p)
  /\ \A t \in d.texts : \E r \in d.refs : r.text = t.id

\* Each new row has a piece that is its text's.
LEMMA RowsHavePieces ==
  ASSUME NEW d, NEW user, NEW pieces, NEW new, new = NewTexts(d, user, pieces),
         NEW t \in TextRows(d, user, pieces, new)
  PROVE  \E p \in Range(pieces) : t.user = user /\ t.text = p.text
<1>1. PICK i \in new : t = [id |-> NumberOf(d, new, i), user |-> user, text |-> pieces[i].text]
  BY DEF TextRows
<1>2. i \in DOMAIN pieces /\ pieces[i] \in Range(pieces)
  BY DEF NewTexts, Range
<1> QED
  BY <1>1, <1>2

\* The trigrams after an event are those of the texts after it.
LEMMA TrigramsGrow ==
  ASSUME NEW d, NEW user, NEW pieces, NEW new, d.trigrams = Trigrams(d.texts)
  PROVE  d.trigrams \cup TrigramRows(d, pieces, new)
           = Trigrams(d.texts \cup TextRows(d, user, pieces, new))
<1> DEFINE trigram(t) == [rowid |-> t.id, folded |-> Fold(t.text)]
           row(i) == [id |-> NumberOf(d, new, i), user |-> user, text |-> pieces[i].text]
<1>1. \A i \in new : trigram(row(i)) = [rowid |-> NumberOf(d, new, i), folded |-> Fold(pieces[i].text)]
  OBVIOUS
<1>2. TrigramRows(d, pieces, new) = {trigram(row(i)) : i \in new}
  <2> HIDE DEF trigram, row
  <2> QED
    BY <1>1 DEF TrigramRows
<1>3. TextRows(d, user, pieces, new) = {row(i) : i \in new}
  BY DEF TextRows
<1>4. \A texts : Trigrams(texts) = {trigram(t) : t \in texts}
  BY DEF Trigrams
<1> HIDE DEF trigram, row
<1> QED
  BY <1>2, <1>3, <1>4

\* Storing one new event keeps the index true.
LEMMA IngestKeepsIndex ==
  ASSUME NEW d, IsDatabase(d), IndexTrue(d), NEW user, NEW s, NEW pk,
         s.id \in EventIds, s.session \in Sessions, s.device \in Devices,
         s.entries \in Seq(Range(s.entries)), d.events[s.id] = NoRow, EventRow(user, s, pk) # NoRow,
         NEW n, n = IngestOne(d, user, s, pk)
  PROVE  IndexTrue(n)
<1>1. PICK pieces, new, texts, x :
        /\ pieces = Pieces(s.entries) /\ new = NewTexts(d, user, pieces)
        /\ texts = TextsAfter(d, user, pieces) /\ x = EventRow(user, s, pk)
  OBVIOUS
<1>2. texts = d.texts \cup TextRows(d, user, pieces, new)
  BY <1>1 DEF TextsAfter
<1>3. /\ n.texts = texts
      /\ n.trigrams = d.trigrams \cup TrigramRows(d, pieces, new)
      /\ n.refs = d.refs \cup RefRows(texts, user, pieces, pk)
  BY <1>1, IngestOneIndexes
<1>4. n.events[s.id] = x /\ \A e \in EventIds \ {s.id} : n.events[e] = d.events[e]
  BY <1>1, IngestOneWrites
<1>5. x # NoRow /\ x.pk = pk /\ x.user = user /\ PiecesOf(x) = Range(pieces)
  BY <1>1 DEF EventRow, PiecesOf
<1>6. IsNumbered(pieces)
  BY <1>1, PiecesAreASequence
<1>7. TextsTrue(texts) /\ \A p \in Range(pieces) : \E t \in texts : t.user = user /\ t.text = p.text
  BY <1>1, <1>6, TextsGrow DEF IndexTrue
<1>8. n.trigrams = Trigrams(texts)
  BY <1>2, <1>3, TrigramsGrow DEF IndexTrue
\* The reference to a piece finds its text.
<1>9. \A p \in Range(pieces) :
        \E t \in texts : t.user = user /\ t.text = p.text /\ t.id = TextId(texts, user, p.text)
  BY <1>7, TextIdFinds
<1> DEFINE ref(p) == [event |-> pk, entry |-> p.entry, field |-> p.field,
                      text |-> TextId(texts, user, p.text)]
<1>10. \A p \in Range(pieces) : /\ ref(p).event = pk /\ ref(p).entry = p.entry
                                /\ ref(p).field = p.field
                                /\ ref(p).text = TextId(texts, user, p.text)
  OBVIOUS
<1>11. n.refs = d.refs \cup {ref(p) : p \in Range(pieces)}
  BY <1>3 DEF RefRows
<1> HIDE DEF ref
<1>12. \A p \in Range(pieces), t \in texts : ref(p).text = t.id => Tells(ref(p), t, pk, user, p)
  BY <1>7, <1>9, <1>10 DEF Tells, TextsTrue
<1>13. \A p \in Range(pieces) : \E t \in texts : Tells(ref(p), t, pk, user, p)
  BY <1>9, <1>10, <1>12
<1>14. \A r \in n.refs : \E t \in texts : r.text = t.id
  <2>1. \A r \in d.refs : \E t \in texts : r.text = t.id
    BY <1>2 DEF IndexTrue
  <2>2. \A p \in Range(pieces) : \E t \in texts : ref(p).text = t.id
    BY <1>9, <1>10
  <2> QED
    BY <1>11, <2>1, <2>2
<1>15. ASSUME NEW r \in n.refs, NEW t \in texts, r.text = t.id
       PROVE  \E e \in EventIds : /\ n.events[e] # NoRow
                                  /\ \E p \in PiecesOf(n.events[e]) :
                                       Tells(r, t, n.events[e].pk, n.events[e].user, p)
  <2>1. CASE r \in d.refs
    <3>1. PICK u \in d.texts : r.text = u.id
      BY <2>1 DEF IndexTrue
    <3>2. t \in d.texts
      BY <1>2, <1>7, <1>15, <3>1 DEF TextsTrue
    <3>3. PICK e \in EventIds : /\ d.events[e] # NoRow
                                /\ \E p \in PiecesOf(d.events[e]) :
                                     Tells(r, t, d.events[e].pk, d.events[e].user, p)
      BY <1>15, <2>1, <3>2 DEF IndexTrue
    <3>4. n.events[e] = d.events[e]
      BY <1>4, <3>3
    <3> QED
      BY <3>3, <3>4
  <2>2. CASE \E p \in Range(pieces) : r = ref(p)
    <3>1. PICK p \in Range(pieces) : r = ref(p)
      BY <2>2
    <3>2. Tells(r, t, pk, user, p)
      BY <1>12, <1>15, <3>1, Zenon
    <3>3. s.id \in EventIds /\ n.events[s.id] = x /\ p \in PiecesOf(x)
      BY <1>4, <1>5
    <3>4. n.events[s.id] # NoRow /\ n.events[s.id].pk = pk /\ n.events[s.id].user = user
      BY <1>5, <3>3, Zenon
    <3>5. p \in PiecesOf(n.events[s.id])
      BY <3>3, Zenon
    <3>6. Tells(r, t, n.events[s.id].pk, n.events[s.id].user, p)
      BY <3>2, <3>4, Zenon
    <3> QED
      BY <3>3, <3>4, <3>5, <3>6, Zenon
  <2> QED
    BY <1>11, <1>15, <2>1, <2>2
<1>16. ASSUME NEW e \in EventIds, n.events[e] # NoRow, NEW p \in PiecesOf(n.events[e])
       PROVE  \E r \in n.refs, t \in texts : Tells(r, t, n.events[e].pk, n.events[e].user, p)
  <2>1. CASE e = s.id
    <3>1. n.events[e] = x
      BY <1>4, <2>1, Zenon
    <3>2. p \in Range(pieces)
      BY <1>5, <1>16, <3>1, Zenon
    <3>3. PICK t \in texts : Tells(ref(p), t, pk, user, p)
      BY <1>13, <3>2, Zenon
    <3>4. ref(p) \in n.refs
      BY <1>11, <3>2
    <3>5. Tells(ref(p), t, n.events[e].pk, n.events[e].user, p)
      BY <1>5, <3>1, <3>3, Zenon
    <3> QED
      BY <3>4, <3>5, Zenon
  <2>2. CASE e # s.id
    <3>1. n.events[e] = d.events[e]
      BY <1>4, <2>2
    <3>2. \E r \in d.refs, t \in d.texts : Tells(r, t, d.events[e].pk, d.events[e].user, p)
      BY <1>16, <3>1 DEF IndexTrue
    <3> QED
      BY <1>2, <1>11, <3>1, <3>2
  <2> QED
    BY <2>1, <2>2
<1>17. ASSUME NEW t \in texts PROVE \E r \in n.refs : r.text = t.id
  <2>1. CASE t \in d.texts
    BY <1>11, <2>1 DEF IndexTrue
  <2>2. CASE t \in TextRows(d, user, pieces, new)
    <3>1. PICK p \in Range(pieces) : t.user = user /\ t.text = p.text
      BY <1>1, <2>2, RowsHavePieces
    <3>2. t.id = TextId(texts, user, p.text)
      BY <1>7, <1>9, <3>1 DEF TextsTrue
    <3> QED
      BY <1>10, <1>11, <3>1, <3>2
  <2> QED
    BY <1>2, <2>1, <2>2
<1> QED
  <2>1. n.texts = texts
    BY <1>3
  <2> HIDE DEF Tells, PiecesOf
  <2> QED
    BY <1>7, <1>8, <1>14, <1>15, <1>16, <1>17, <2>1 DEF IndexTrue

\* The truth of an index depends on the index and the events only.
LEMMA SameIndexIsTrue ==
  ASSUME NEW d, NEW n, IndexTrue(d), SameIndex(d, n), n.events = d.events
  PROVE  IndexTrue(n)
BY Zenon DEF IndexTrue, SameIndex

\* An empty index is that of no event.
LEMMA EmptyIndexIsTrue == IndexTrue(Empty)
<1>1. Empty.texts = {} /\ Empty.trigrams = {} /\ Empty.refs = {}
  BY DEF Empty
<1> QED
  BY <1>1, EmptyIsDatabase, FS_EmptySet DEF IndexTrue, TextsTrue, Trigrams

\* Numbers by size, as a relation.
Smaller(S) == {p \in S \X S : p[1] < p[2]}

\* Numbers are ordered by size.
LEMMA SmallerIsOrder ==
  ASSUME NEW S, S \subseteq Int
  PROVE  IsOrder(Smaller(S), S)
<1>1. \A a, b \in S : <<a, b>> \in Smaller(S) <=> a < b
  BY DEF Smaller
<1>2. \A a \in S : a \in Int
  OBVIOUS
<1>3. \A a \in S : <<a, a>> \notin Smaller(S)
  BY <1>1, <1>2
<1>4. ASSUME NEW a \in S, NEW b \in S
      PROVE  a = b \/ <<a, b>> \in Smaller(S) \/ <<b, a>> \in Smaller(S)
  <2>1. a = b \/ a < b \/ b < a
    BY <1>2
  <2> QED
    BY <1>1, <2>1, Zenon
<1>5. ASSUME NEW a \in S, NEW b \in S, NEW c \in S,
             <<a, b>> \in Smaller(S), <<b, c>> \in Smaller(S)
      PROVE  <<a, c>> \in Smaller(S)
  <2>1. a < b /\ b < c
    BY <1>1, <1>5, Zenon
  <2>2. a < c
    BY <1>2, <2>1
  <2> QED
    BY <1>1, <2>2, Zenon
<1> QED
  BY <1>3, <1>4, <1>5, Zenon DEF IsOrder

\* Numbers are sorted by size.
LEMMA NumbersAreSorted ==
  ASSUME NEW S, IsFiniteSet(S), S \subseteq Int,
         NEW order, order = Sorted(S, LAMBDA i, j : i < j)
  PROVE  /\ Cardinality(S) \in Nat /\ order \in [1..Cardinality(S) -> S]
         /\ \A s \in S : \E m \in 1..Cardinality(S) : order[m] = s
         /\ \A a, b \in 1..Cardinality(S) : a < b => order[a] < order[b]
<1>1. PICK k \in Nat : k = Cardinality(S)
  BY FS_CardinalityType
<1> DEFINE at(m) == CHOOSE h \in S : Cardinality({g \in S : g < h}) = m - 1
<1>2. order = [m \in 1..k |-> at(m)]
  BY <1>1, Zenon DEF Sorted
<1>3. \A m \in 1..k : at(m) = CHOOSE h \in S : Cardinality({g \in S : g < h}) = m - 1
  OBVIOUS
<1> HIDE DEF at
<1>4. order = [m \in 1..k |-> order[m]]
  BY <1>2
<1>5. \A h \in S : {g \in S : g < h} = {g \in S : <<g, h>> \in Smaller(S)}
  BY DEF Smaller
<1>6. \A h \in S : Cardinality({g \in S : g < h}) = Rank(Smaller(S), S, h)
  BY <1>5 DEF Rank
<1>7. ASSUME NEW m \in 1..k PROVE order[m] = CHOOSE h \in S : Rank(Smaller(S), S, h) = m - 1
  <2> DEFINE before(h) == Cardinality({g \in S : g < h})
  <2>1. order[m] = CHOOSE h \in S : before(h) = m - 1
    BY <1>2, <1>3
  <2>2. \A h \in S : before(h) = Rank(Smaller(S), S, h)
    BY <1>6
  <2> HIDE DEF before
  <2> QED
    BY <2>1, <2>2
<1>8. IsOrder(Smaller(S), S)
  BY SmallerIsOrder
<1>9. Enumerates(order, S, Smaller(S))
  BY <1>1, <1>4, <1>7, <1>8, OrderPlaces, Zenon
<1>10. /\ order \in [1..k -> S]
       /\ \A s \in S : \E m \in 1..k : order[m] = s
       /\ \A a, b \in 1..k : a < b => <<order[a], order[b]>> \in Smaller(S)
  BY <1>1, <1>9, Zenon DEF Enumerates
<1>11. \A a, b \in 1..k : a < b => order[a] < order[b]
  BY <1>10 DEF Smaller
<1> QED
  BY <1>1, <1>10, <1>11

\* Those of a sequence that are in a set.
LEMMA AmongKeeps ==
  ASSUME NEW S, NEW seq \in Seq(S), NEW kept, NEW among, among = Among(seq, kept)
  PROVE  /\ among \in Seq(S)
         /\ \A n \in 1..Len(among) : among[n] \in kept /\ \E i \in 1..Len(seq) : among[n] = seq[i]
         /\ \A i \in 1..Len(seq) : seq[i] \in kept => \E n \in 1..Len(among) : among[n] = seq[i]
<1> DEFINE P == {i \in DOMAIN seq : seq[i] \in kept}
<1>1. P \subseteq Int /\ IsFiniteSet(P) /\ P \subseteq 1..Len(seq)
  <2>1. P \subseteq 1..Len(seq) /\ Len(seq) \in Nat
    OBVIOUS
  <2>2. IsFiniteSet(1..Len(seq))
    BY <2>1, FS_Interval
  <2>3. IsFiniteSet(P)
    <3> HIDE DEF P
    <3> QED
      BY <2>1, <2>2, FS_Subset
  <2> QED
    BY <2>1, <2>3
<1>2. PICK at : at = Sorted(P, LAMBDA i, j : i < j)
  OBVIOUS
<1>3. among = [n \in DOMAIN at |-> seq[at[n]]]
  BY <1>2, Zenon DEF Among
<1>0. \A i \in P : i \in 1..Len(seq) /\ seq[i] \in kept
  OBVIOUS
<1>a. \A i \in 1..Len(seq) : seq[i] \in kept => i \in P
  OBVIOUS
<1>4. PICK k \in Nat : /\ at \in [1..k -> P]
                       /\ \A s \in P : \E m \in 1..k : at[m] = s
  <2> HIDE DEF P
  <2> QED
    BY <1>1, <1>2, NumbersAreSorted
<1> HIDE DEF P
<1>5. \A n \in 1..k : at[n] \in P
  BY <1>4
<1>6. among = [n \in 1..k |-> seq[at[n]]]
  BY <1>3, <1>4
<1>7. ASSUME NEW n \in 1..k
      PROVE  /\ among[n] \in S /\ among[n] \in kept
             /\ \E i \in 1..Len(seq) : among[n] = seq[i]
  <2>1. PICK i \in 1..Len(seq) : i = at[n] /\ seq[i] \in kept
    BY <1>0, <1>5
  <2> QED
    BY <1>6, <2>1
<1>8. among \in Seq(S) /\ Len(among) = k
  BY <1>6, <1>7
<1>9. ASSUME NEW i \in 1..Len(seq), seq[i] \in kept PROVE \E n \in 1..k : among[n] = seq[i]
  <2>1. PICK n \in 1..k : at[n] = i
    BY <1>4, <1>9, <1>a
  <2> QED
    BY <1>6, <2>1
<1> QED
  BY <1>7, <1>8, <1>9

\* All of a sequence that is in the set.
LEMMA AmongAll ==
  ASSUME NEW S, NEW seq \in Seq(S), NEW kept, \A i \in 1..Len(seq) : seq[i] \in kept
  PROVE  Among(seq, kept) = seq
<1>1. PICK m \in Nat : m = Len(seq) /\ seq = [i \in 1..m |-> seq[i]]
  OBVIOUS
<1>2. {i \in DOMAIN seq : seq[i] \in kept} = 1..m
  BY <1>1
<1>3. PICK at : at = Sorted(1..m, LAMBDA i, j : i < j)
  OBVIOUS
<1>4. Among(seq, kept) = [n \in DOMAIN at |-> seq[at[n]]]
  BY <1>2, <1>3, Zenon DEF Among
<1>5. \A k \in Nat : IsFiniteSet(1..k) /\ Cardinality(1..k) = k
  <2> TAKE k \in Nat
  <2>1. IsFiniteSet(1..k) /\ Cardinality(1..k) = IF 1 > k THEN 0 ELSE k - 1 + 1
    BY FS_Interval
  <2> QED
    BY <2>1
<1> DEFINE to(n) == CHOOSE h \in 1..m : Cardinality({g \in 1..m : g < h}) = n - 1
<1>6. at = [n \in 1..m |-> to(n)]
  <2>1. at = [n \in 1..Cardinality(1..m) |-> to(n)]
    BY <1>3, Zenon DEF Sorted
  <2> HIDE DEF to
  <2> QED
    BY <1>5, <2>1
<1>7. \A h \in 1..m : Cardinality({g \in 1..m : g < h}) = h - 1
  <2> TAKE h \in 1..m
  <2>1. {g \in 1..m : g < h} = 1..(h - 1) /\ h - 1 \in Nat
    OBVIOUS
  <2> QED
    BY <1>5, <2>1
<1>8. ASSUME NEW n \in 1..m PROVE to(n) = n
  <2> DEFINE before(h) == Cardinality({g \in 1..m : g < h})
  <2>1. to(n) = CHOOSE h \in 1..m : before(h) = n - 1
    OBVIOUS
  <2>2. \A h \in 1..m : before(h) = h - 1
    BY <1>7
  <2> HIDE DEF before, to
  <2>3. before(n) = n - 1
    BY <2>2
  <2>4. to(n) \in 1..m /\ before(to(n)) = n - 1
    BY <2>1, <2>3, Zenon
  <2>5. before(to(n)) = to(n) - 1
    BY <2>2, <2>4
  <2> QED
    BY <2>4, <2>5
<1> HIDE DEF to
<1>9. at = [n \in 1..m |-> n]
  BY <1>6, <1>8
<1> QED
  BY <1>1, <1>4, <1>9

\* A folded text has the length and the alphabet of its text.
LEMMA FoldIsAText ==
  ASSUME NEW text \in Seq(Chars)
  PROVE  /\ Fold(text) \in Seq(Chars) /\ Len(Fold(text)) = Len(text)
         /\ \A i \in 1..Len(text) : Fold(text)[i] = FoldChar[text[i]]
<1>1. Fold(text) = [i \in 1..Len(text) |-> FoldChar[text[i]]]
  BY DEF Fold
<1>2. \A i \in 1..Len(text) : FoldChar[text[i]] \in Chars
  BY MatchingConstants
<1>3. Len(text) \in Nat
  OBVIOUS
<1>4. Fold(text) \in [1..Len(text) -> Chars]
  BY <1>1, <1>2
<1> QED
  BY <1>1, <1>3, <1>4

\* TextSpans of positions.
TextSpans == [start : Nat, end : Nat]

\* Occurrences from a position of a folded text on: they are matches, the first of them
\* the first there is.
AreOccurrences(s, f, q, at) ==
  /\ s \in Seq(TextSpans)
  /\ \A i \in 1..Len(s) : /\ at <= s[i].start /\ s[i].end = s[i].start + Len(q)
                          /\ Holds(f, s[i].start, q)
  /\ (\E p \in at..Len(f) : Holds(f, p, q)) => s # <<>>

\* The occurrences of a query in a text.
LEMMA OccurrencesAreFound ==
  ASSUME NEW query \in Seq(Chars), query # <<>>, NEW text \in Seq(Chars)
  PROVE  AreOccurrences(Occurrences(query, text), Fold(text), Fold(query), 0)
<1>1. PICK f, q : f = Fold(text) /\ q = Fold(query)
  OBVIOUS
<1>2. f \in Seq(Chars) /\ q \in Seq(Chars) /\ Len(q) \in Nat \ {0} /\ Len(f) \in Nat
  <2>1. f \in Seq(Chars) /\ q \in Seq(Chars) /\ Len(q) = Len(query)
    BY <1>1, FoldIsAText
  <2>2. Len(query) \in Nat \ {0}
    OBVIOUS
  <2> QED
    BY <2>1, <2>2
<1>3. PICK n \in Nat, l \in Nat \ {0} : n = Len(f) /\ l = Len(q)
  BY <1>2
<1> DEFINE D == 0..n
           one(at) == [start |-> at, end |-> at + l]
           m == [at \in D |-> n - at]
           stop == {at \in D : at + l > n}
           skip == {at \in D : ~Holds(f, at, q)}
           base == [at \in D |-> <<>>]
           pre == [at \in D |-> <<one(at)>>]
           next == [at \in D |-> IF Holds(f, at, q) THEN at + l ELSE at + 1]
           IsFrom(g) == g = [at \in 0..Len(f) |->
                               IF at + Len(q) > Len(f) THEN <<>>
                               ELSE IF Holds(f, at, q)
                                    THEN <<[start |-> at, end |-> at + Len(q)]>> \o g[at + Len(q)]
                                    ELSE g[at + 1]]
<1>4. m \in [D -> Nat] /\ \A x \in D \ stop : next[x] \in D /\ m[next[x]] < m[x]
  <2>1. \A x \in D : n - x \in Nat
    OBVIOUS
  <2>2. ASSUME NEW x \in D \ stop PROVE next[x] \in D /\ m[next[x]] < m[x]
    <3>1. x + l <= n /\ x \in D
      OBVIOUS
    <3>2. next[x] \in {x + l, x + 1} /\ x + l \in D /\ x + 1 \in D
      BY <3>1
    <3>3. m[next[x]] = n - next[x] /\ m[x] = n - x
      BY <3>1, <3>2
    <3> HIDE DEF next, m
    <3> QED
      BY <3>1, <3>2, <3>3
  <2> QED
    BY <2>1, <2>2
<1>5. PICK g0 : DescentOf(g0, D, stop, base, skip, pre, next)
  <2> HIDE DEF D, m, stop, base, skip, pre, next
  <2> QED
    BY <1>4, DescentIsDefined
<1>6. \E g : IsFrom(g)
  <2>1. \A at \in D : g0[at] = IF at \in stop THEN base[at]
                               ELSE IF at \in skip THEN g0[next[at]] ELSE pre[at] \o g0[next[at]]
    <3> HIDE DEF D, stop, base, skip, pre, next
    <3> QED
      BY <1>5, Zenon DEF DescentOf
  <2>2. ASSUME NEW at \in D
        PROVE  g0[at] = IF at + l > n THEN <<>>
                        ELSE IF Holds(f, at, q) THEN <<one(at)>> \o g0[at + l] ELSE g0[at + 1]
    <3>1. /\ at \in stop <=> at + l > n
          /\ at \in skip <=> ~Holds(f, at, q)
          /\ base[at] = <<>> /\ pre[at] = <<one(at)>>
          /\ next[at] = IF Holds(f, at, q) THEN at + l ELSE at + 1
      BY Zenon
    <3> HIDE DEF D, stop, base, skip, pre, next, one
    <3> QED
      BY <2>1, <3>1
  <2>3. g0 = [at \in D |-> g0[at]]
    <3> HIDE DEF D, stop, base, skip, pre, next
    <3> QED
      BY <1>5, Zenon DEF DescentOf
  <2>4. IsFrom(g0)
    <3>1. g0 = [at \in D |-> IF at + l > n THEN <<>>
                             ELSE IF Holds(f, at, q) THEN <<one(at)>> \o g0[at + l]
                             ELSE g0[at + 1]]
      <4> HIDE DEF one, D
      <4> QED
        BY <2>2, <2>3
    <3> QED
      BY <1>3, <3>1
  <2> QED
    BY <2>4
<1>7. PICK g : g = CHOOSE h : IsFrom(h)
  OBVIOUS
<1>8. IsFrom(g)
  BY <1>6, <1>7, Zenon
<1>9. Occurrences(query, text) = g[0]
  BY <1>1, <1>7, Zenon DEF Occurrences
<1>10. \A at \in D : g[at] = IF at + l > n THEN <<>>
                            ELSE IF Holds(f, at, q) THEN <<one(at)>> \o g[at + l] ELSE g[at + 1]
  BY <1>3, <1>8
<1> HIDE DEF IsFrom
<1> DEFINE T == {k \in 0..n : \A j \in 0..k : AreOccurrences(g[n - j], f, q, n - j)}
<1>11. ASSUME NEW at \in D, \A b \in D : b > at => AreOccurrences(g[b], f, q, b)
       PROVE  AreOccurrences(g[at], f, q, at)
  <2>1. CASE at + l > n
    <3>1. g[at] = <<>>
      BY <1>10, <2>1
    <3>2. \A p \in at..n : ~Holds(f, p, q)
      BY <1>3, <2>1 DEF Holds
    <3>3. <<>> \in Seq(TextSpans) /\ Len(<<>>) = 0
      OBVIOUS
    <3> QED
      BY <1>3, <3>1, <3>2, <3>3 DEF AreOccurrences
  <2>2. CASE at + l <= n /\ ~Holds(f, at, q)
    <3>1. g[at] = g[at + 1] /\ at + 1 \in D /\ at + 1 > at
      <4>1. at + 1 \in D /\ at + 1 > at /\ ~(at + l > n)
        BY <1>3, <2>2
      <4> HIDE DEF one
      <4> QED
        BY <1>10, <2>2, <4>1
    <3>2. AreOccurrences(g[at + 1], f, q, at + 1)
      <4>1. PICK b : b = at + 1
        OBVIOUS
      <4>2. AreOccurrences(g[b], f, q, b)
        BY <1>11, <3>1, <4>1
      <4> QED
        BY <4>1, <4>2
    <3>3. \A p \in at..n : Holds(f, p, q) => p \in (at + 1)..n
      BY <2>2
    <3>4. PICK s : s = g[at + 1]
      OBVIOUS
    <3>5. /\ s \in Seq(TextSpans)
          /\ \A i \in 1..Len(s) : /\ at + 1 <= s[i].start /\ s[i].end = s[i].start + l
                                   /\ Holds(f, s[i].start, q)
          /\ (\E p \in (at + 1)..n : Holds(f, p, q)) => s # <<>>
      BY <1>3, <3>2, <3>4 DEF AreOccurrences
    <3>6. ASSUME NEW i \in 1..Len(s) PROVE at <= s[i].start
      <4>1. at + 1 <= s[i].start /\ s[i] \in TextSpans
        BY <3>5
      <4>2. s[i].start \in Nat
        BY <4>1 DEF TextSpans
      <4> QED
        BY <4>1, <4>2
    <3>7. AreOccurrences(s, f, q, at)
      BY <1>3, <3>3, <3>5, <3>6 DEF AreOccurrences
    <3> QED
      BY <3>1, <3>4, <3>7
  <2>3. CASE at + l <= n /\ Holds(f, at, q)
    <3>1. PICK rest : rest = g[at + l]
      OBVIOUS
    <3>2. g[at] = <<one(at)>> \o rest /\ at + l \in D /\ at + l > at
      <4>1. at + l \in D /\ at + l > at /\ ~(at + l > n)
        BY <1>3, <2>3
      <4> HIDE DEF one
      <4> QED
        BY <1>10, <2>3, <3>1, <4>1
    <3>3. AreOccurrences(rest, f, q, at + l)
      BY <1>11, <3>1, <3>2
    <3>4. rest \in Seq(TextSpans)
      BY <3>3 DEF AreOccurrences
    <3>5. one(at) \in TextSpans /\ one(at).start = at /\ one(at).end = at + l
      BY DEF TextSpans
    <3> HIDE DEF one
    <3>6. /\ g[at] \in Seq(TextSpans) /\ Len(g[at]) = Len(rest) + 1
          /\ g[at][1] = one(at) /\ \A i \in 1..Len(rest) : g[at][i + 1] = rest[i]
      <4>1. PICK first \in TextSpans : first = one(at)
        BY <3>5
      <4>2. PICK all : all = <<first>> \o rest
        OBVIOUS
      <4>3. /\ all \in Seq(TextSpans) /\ Len(all) = Len(rest) + 1
            /\ all[1] = first /\ \A i \in 1..Len(rest) : all[i + 1] = rest[i]
        BY <3>4, <4>2
      <4>4. g[at] = all
        BY <3>2, <4>1, <4>2, Zenon
      <4> QED
        BY <4>1, <4>3, <4>4, Zenon
    <3>7. ASSUME NEW i \in 1..Len(g[at])
          PROVE  /\ at <= g[at][i].start /\ g[at][i].end = g[at][i].start + l
                 /\ Holds(f, g[at][i].start, q)
      <4>1. CASE i = 1
        BY <2>3, <3>5, <3>6, <4>1
      <4>2. CASE i # 1
        <5>1. PICK j \in 1..Len(rest) : i = j + 1
          <6>1. i - 1 \in 1..Len(rest) /\ i = (i - 1) + 1
            BY <3>4, <3>6, <4>2
          <6> QED
            BY <6>1
        <5>2. g[at][i] = rest[j]
          BY <3>6, <5>1
        <5>3. /\ at + l <= rest[j].start /\ rest[j].end = rest[j].start + l
              /\ Holds(f, rest[j].start, q)
          BY <1>3, <3>3, <5>1 DEF AreOccurrences
        <5>4. rest[j].start \in Nat
          <6>1. rest[j] \in TextSpans
            BY <3>4, <5>1
          <6> QED
            BY <6>1 DEF TextSpans
        <5> QED
          BY <5>2, <5>3, <5>4
      <4> QED
        BY <4>1, <4>2
    <3>8. g[at] # <<>>
      BY <3>4, <3>6
    <3> QED
      BY <1>3, <3>6, <3>7, <3>8 DEF AreOccurrences
  <2> QED
    BY <2>1, <2>2, <2>3
<1>12. 0 \in T
  <2>1. n \in D /\ \A b \in D : ~(b > n)
    OBVIOUS
  <2>2. AreOccurrences(g[n], f, q, n)
    BY <1>11, <2>1
  <2>3. \A j \in 0..0 : n - j = n
    OBVIOUS
  <2> QED
    BY <2>2, <2>3
<1>13. \A k \in 0..(n - 1) : k \in T => k + 1 \in T
  <2> SUFFICES ASSUME NEW k \in 0..(n - 1), k \in T PROVE k + 1 \in T
    OBVIOUS
  <2>1. PICK at \in D : at = n - (k + 1)
    <3>1. n - (k + 1) \in D
      OBVIOUS
    <3> QED
      BY <3>1
  <2>2. ASSUME NEW b \in D, b > at PROVE AreOccurrences(g[b], f, q, b)
    <3>1. n - b \in 0..k /\ n - (n - b) = b
      BY <2>1, <2>2
    <3>2. \A j \in 0..k : AreOccurrences(g[n - j], f, q, n - j)
      OBVIOUS
    <3> QED
      BY <3>1, <3>2
  <2>3. AreOccurrences(g[at], f, q, at)
    BY <1>11, <2>2
  <2>4. \A j \in 0..(k + 1) : AreOccurrences(g[n - j], f, q, n - j)
    <3>1. \A j \in 0..(k + 1) : j \in 0..k \/ j = k + 1
      OBVIOUS
    <3>2. \A j \in 0..k : AreOccurrences(g[n - j], f, q, n - j)
      OBVIOUS
    <3> QED
      BY <2>1, <2>3, <3>1, <3>2
  <2>5. k + 1 \in 0..n
    OBVIOUS
  <2> QED
    BY <2>4, <2>5
<1>14. n \in T
  <2>1. \A k \in 0..n : k \in T
    <3> HIDE DEF T
    <3> QED
      BY <1>12, <1>13, CountsUp
  <2> QED
    BY <2>1
<1>15. n \in 0..n /\ n - n = 0
  OBVIOUS
<1>16. AreOccurrences(g[0], f, q, 0)
  <2>1. \A j \in 0..n : AreOccurrences(g[n - j], f, q, n - j)
    BY <1>14
  <2> QED
    BY <1>15, <2>1
<1> QED
  BY <1>1, <1>9, <1>16

\* Segments of a fragment; a highlighted one has no ellipsis.
Parts == [text : Seq(Chars), highlighted : {TRUE}]
           \cup [text : Seq(Chars \cup {Ellipsis}), highlighted : {FALSE}]

\* A fragment highlights a text.
HasMark(f, part) == \E i \in 1..Len(f) : f[i].highlighted /\ f[i].text = part

\* A sequence of two has the segments of both.
LEMMA MarksStay ==
  ASSUME NEW f \in Seq(Parts), NEW g \in Seq(Parts), NEW part, HasMark(f, part) \/ HasMark(g, part)
  PROVE  f \o g \in Seq(Parts) /\ HasMark(f \o g, part)
<1>1. /\ f \o g \in Seq(Parts) /\ Len(f \o g) = Len(f) + Len(g)
      /\ \A i \in 1..Len(f \o g) : (f \o g)[i] = IF i <= Len(f) THEN f[i] ELSE g[i - Len(f)]
  BY ConcatProperties
<1>2. Len(f) \in Nat /\ Len(g) \in Nat
  OBVIOUS
<1>3. PICK h : h = f \o g
  OBVIOUS
<1>4. CASE HasMark(f, part)
  <2>1. PICK i \in 1..Len(f) : f[i].highlighted /\ f[i].text = part
    BY <1>4 DEF HasMark
  <2>2. i \in 1..Len(h) /\ h[i] = f[i]
    BY <1>1, <1>2, <1>3
  <2>3. HasMark(h, part)
    BY <2>1, <2>2 DEF HasMark
  <2> QED
    BY <1>1, <1>3, <2>3
<1>5. CASE HasMark(g, part)
  <2>1. PICK i \in 1..Len(g) : g[i].highlighted /\ g[i].text = part
    BY <1>5 DEF HasMark
  <2>2. PICK k \in 1..Len(h) : k = Len(f) + i
    <3>1. Len(f) + i \in 1..Len(h)
      BY <1>1, <1>2, <1>3
    <3> QED
      BY <3>1
  <2>3. h[k] = g[i]
    <3>1. ~(k <= Len(f)) /\ k - Len(f) = i
      BY <1>2, <2>2
    <3> QED
      BY <1>1, <1>3, <3>1
  <2>4. HasMark(h, part)
    BY <2>1, <2>3 DEF HasMark
  <2> QED
    BY <1>1, <1>3, <2>4
<1> QED
  BY <1>4, <1>5

\* A segment of a text.
LEMMA SegmentIsPart ==
  ASSUME NEW text \in Seq(Chars), NEW start \in Nat, NEW end \in Nat, end <= Len(text),
         NEW highlighted \in BOOLEAN
  PROVE  /\ Segment(text, start, end, highlighted) \in Seq(Parts)
         /\ start < end /\ highlighted =>
              HasMark(Segment(text, start, end, highlighted), SubSeq(text, start + 1, end))
<1>1. PICK sub : sub = SubSeq(text, start + 1, end)
  OBVIOUS
<1>2. sub \in Seq(Chars)
  BY <1>1, PageOf
<1>3. sub \in Seq(Chars \cup {Ellipsis})
  BY <1>2
<1>4. PICK part : part = [text |-> sub, highlighted |-> highlighted]
  OBVIOUS
<1>5. part \in Parts
  BY <1>2, <1>3, <1>4 DEF Parts
<1>6. Segment(text, start, end, highlighted) = IF start = end THEN <<>> ELSE <<part>>
  BY <1>1, <1>4 DEF Segment
<1>7. <<part>> \in Seq(Parts) /\ <<>> \in Seq(Parts) /\ Len(<<part>>) = 1 /\ <<part>>[1] = part
  BY <1>5
<1>8. ASSUME highlighted PROVE HasMark(<<part>>, sub)
  BY <1>4, <1>7, <1>8 DEF HasMark
<1>9. start < end => start # end
  OBVIOUS
<1> QED
  BY <1>1, <1>6, <1>7, <1>8, <1>9

\* The window has the first occurrence whole.
LEMMA WindowHolds ==
  ASSUME NEW first \in TextSpans, first.start < first.end, NEW n \in Nat, first.end <= n,
         NEW w, w = Window(first, n)
  PROVE  /\ w.start \in Nat /\ w.end \in Nat /\ w.end <= n
         /\ w.start <= first.start /\ first.end <= w.end
<1>1. PICK s \in Nat, e \in Nat : s = first.start /\ e = first.end /\ s < e /\ e <= n
  BY DEF TextSpans
<1>2. FragmentCharacters \in Nat
  BY MatchingConstants
<1>3. PICK width \in Nat : width = AtLeast(FragmentCharacters, e - s) /\ width >= e - s
  <2>1. AtLeast(FragmentCharacters, e - s) \in Nat /\ AtLeast(FragmentCharacters, e - s) >= e - s
    BY <1>1, <1>2 DEF AtLeast
  <2> QED
    BY <2>1
<1>4. PICK h \in Nat : h = (width - (e - s)) \div 2 /\ h <= width - (e - s)
  <2>1. PICK r \in Nat : r = width - (e - s)
    <3>1. width - (e - s) \in Nat
      BY <1>1, <1>3
    <3> QED
      BY <3>1
  <2>2. r \div 2 \in Nat /\ r \div 2 <= r
    OBVIOUS
  <2> QED
    BY <2>1, <2>2
<1>5. PICK start \in Nat : start = Less(s, h) /\ start <= s /\ s <= start + h
  <2>1. Less(s, h) \in Nat /\ Less(s, h) <= s /\ s <= Less(s, h) + h
    <3>1. s \in Nat /\ h \in Nat
      OBVIOUS
    <3>2. CASE s < h
      <4>1. Less(s, h) = 0
        BY <3>2 DEF Less
      <4> QED
        BY <3>1, <3>2, <4>1
    <3>3. CASE ~(s < h)
      <4>1. Less(s, h) = s - h
        BY <3>3 DEF Less
      <4>2. s - h \in Nat /\ s - h <= s /\ s <= (s - h) + h
        BY <3>1, <3>3
      <4> QED
        BY <4>1, <4>2
    <3> QED
      BY <3>2, <3>3
  <2> QED
    BY <2>1
<1>6. PICK end \in Nat : end = AtMost(n, start + width) /\ end <= n /\ e <= end
  <2>1. e <= start + width
    BY <1>1, <1>3, <1>4, <1>5
  <2>2. /\ AtMost(n, start + width) \in Nat /\ AtMost(n, start + width) <= n
        /\ e <= AtMost(n, start + width)
    BY <1>1, <1>3, <1>5, <2>1 DEF AtMost
  <2> QED
    BY <2>2
<1>7. w = [start |-> AtMost(Less(end, width), start), end |-> end]
  BY <1>1, <1>3, <1>4, <1>5, <1>6 DEF Window
<1>8. AtMost(Less(end, width), start) \in Nat /\ AtMost(Less(end, width), start) <= start
  BY <1>3, <1>5, <1>6 DEF AtMost, Less
<1>9. w.start \in Nat /\ w.start <= start /\ w.end = end
  BY <1>7, <1>8
<1> QED
  BY <1>1, <1>5, <1>6, <1>9

\* The occurrences in a window: each in it, and the first among them.
LEMMA VisibleShows ==
  ASSUME NEW s \in Seq(TextSpans), s # <<>>, s[1].start < s[1].end,
         NEW w \in TextSpans, w.start <= s[1].start, s[1].end <= w.end,
         NEW v, v = Visible(s, w)
  PROVE  /\ v \in Seq(TextSpans) /\ \A i \in 1..Len(v) : v[i].start <= w.end /\ v[i].end <= w.end
         /\ \E n \in 1..Len(v) : v[n].start = s[1].start /\ v[n].end = s[1].end
<1> DEFINE cut(o) == [start |-> AtLeast(o.start, w.start), end |-> AtMost(o.end, w.end)]
           kept == {o \in Range(s) : o.start < w.end /\ o.end > w.start}
<1>1. PICK inside : inside = Among(s, kept)
  OBVIOUS
<1>2. v = [i \in DOMAIN inside |-> cut(inside[i])]
  BY <1>1, Zenon DEF Visible
<1>3. ASSUME NEW o \in TextSpans, o \in kept
      PROVE  cut(o) \in TextSpans /\ cut(o).start <= w.end /\ cut(o).end <= w.end
  <2>1. /\ o.start \in Nat /\ o.end \in Nat /\ w.start \in Nat /\ w.end \in Nat
        /\ o.start < w.end
    BY <1>3 DEF TextSpans
  <2>2. w.start <= w.end
    <3>1. s[1] \in TextSpans
      OBVIOUS
    <3>2. s[1].start \in Nat /\ s[1].end \in Nat
      BY <3>1 DEF TextSpans
    <3> QED
      BY <2>1, <3>2
  <2>3. /\ AtLeast(o.start, w.start) \in Nat /\ AtMost(o.end, w.end) \in Nat
        /\ AtLeast(o.start, w.start) <= w.end /\ AtMost(o.end, w.end) <= w.end
    BY <2>1, <2>2 DEF AtLeast, AtMost
  <2> QED
    BY <2>3 DEF TextSpans
<1>4. /\ s[1] \in TextSpans /\ 1 \in 1..Len(s) /\ s[1] \in kept
      /\ cut(s[1]).start = s[1].start /\ cut(s[1]).end = s[1].end
  <2>1. s[1] \in TextSpans /\ 1 \in 1..Len(s) /\ s[1] \in Range(s)
    BY DEF Range
  <2>2. /\ s[1].start \in Nat /\ s[1].end \in Nat /\ w.start \in Nat /\ w.end \in Nat
    BY <2>1 DEF TextSpans
  <2>3. s[1].start < w.end /\ s[1].end > w.start
    BY <2>2
  <2>4. AtLeast(s[1].start, w.start) = s[1].start /\ AtMost(s[1].end, w.end) = s[1].end
    BY <2>2 DEF AtLeast, AtMost
  <2> QED
    BY <2>1, <2>3, <2>4
<1> HIDE DEF cut, kept
<1>5. /\ inside \in Seq(TextSpans)
      /\ \E n \in 1..Len(inside) : inside[n] = s[1]
      /\ \A n \in 1..Len(inside) : inside[n] \in kept
  BY <1>1, <1>4, AmongKeeps
<1>6. PICK n \in 1..Len(inside) : inside[n] = s[1]
  BY <1>5
<1>7. v = [i \in 1..Len(inside) |-> cut(inside[i])] /\ Len(inside) \in Nat
  BY <1>2, <1>5
<1>8. \A i \in 1..Len(inside) : v[i] = cut(inside[i]) /\ inside[i] \in TextSpans
                                 /\ inside[i] \in kept
  BY <1>5, <1>7
<1>9. v \in Seq(TextSpans) /\ Len(v) = Len(inside)
  BY <1>3, <1>7, <1>8
<1> QED
  BY <1>3, <1>4, <1>6, <1>8, <1>9

\* Marking a cut on the left.
LEMMA CutLeftKeeps ==
  ASSUME NEW f \in Seq(Parts), NEW part, HasMark(f, part)
  PROVE  CutLeft(f) \in Seq(Parts) /\ HasMark(CutLeft(f), part)
<1>1. PICK i \in 1..Len(f) : f[i].highlighted /\ f[i].text = part
  BY DEF HasMark
<1>2. f # <<>> /\ Head(f) = f[1] /\ f[1] \in Parts /\ Len(f) \in Nat /\ Len(f) > 0
  BY <1>1
<1>3. PICK dots : dots = <<Ellipsis>>
  OBVIOUS
<1>4. dots \in Seq(Chars \cup {Ellipsis})
  BY <1>3
<1>5. CASE ~f[1].highlighted
  <2>1. PICK first : first = Plain(dots \o f[1].text)
    OBVIOUS
  <2>2. f[1].text \in Seq(Chars \cup {Ellipsis})
    BY <1>2, <1>5 DEF Parts
  <2>3. dots \o f[1].text \in Seq(Chars \cup {Ellipsis})
    BY <1>4, <2>2
  <2>4. first \in Parts
    BY <2>1, <2>3 DEF Parts, Plain
  <2>5. Tail(f) \in Seq(Parts) /\ Len(Tail(f)) = Len(f) - 1
        /\ \A k \in 1..(Len(f) - 1) : Tail(f)[k] = f[k + 1]
    BY <1>2
  <2>6. PICK t : t = Tail(f)
    OBVIOUS
  <2>7. HasMark(t, part)
    <3>1. i # 1
      BY <1>1, <1>5
    <3>2. PICK k \in 1..(Len(f) - 1) : i = k + 1
      <4>1. i - 1 \in 1..(Len(f) - 1) /\ i = (i - 1) + 1
        BY <1>2, <3>1
      <4> QED
        BY <4>1
    <3>3. t[k] = f[i] /\ k \in 1..Len(t)
      BY <2>5, <2>6, <3>2
    <3> QED
      BY <1>1, <3>3 DEF HasMark
  <2>8. <<first>> \in Seq(Parts) /\ t \in Seq(Parts)
    BY <2>4, <2>5, <2>6
  <2>9. CutLeft(f) = <<first>> \o t
    BY <1>2, <1>3, <1>5, <2>1, <2>6 DEF CutLeft
  <2> QED
    BY <2>7, <2>8, <2>9, MarksStay
<1>6. CASE f[1].highlighted
  <2>1. PICK first : first = Plain(dots)
    OBVIOUS
  <2>2. first \in Parts
    BY <1>4, <2>1 DEF Parts, Plain
  <2>3. CutLeft(f) = <<first>> \o f
    BY <1>2, <1>3, <1>6, <2>1 DEF CutLeft
  <2>4. <<first>> \in Seq(Parts)
    BY <2>2
  <2> QED
    BY <2>3, <2>4, MarksStay
<1> QED
  BY <1>5, <1>6

\* Marking a cut on the right.
LEMMA CutRightKeeps ==
  ASSUME NEW f \in Seq(Parts), NEW part, HasMark(f, part)
  PROVE  CutRight(f) \in Seq(Parts) /\ HasMark(CutRight(f), part)
<1>1. PICK i \in 1..Len(f) : f[i].highlighted /\ f[i].text = part
  BY DEF HasMark
<1>2. PICK n \in Nat \ {0} : n = Len(f)
  BY <1>1
<1>3. f # <<>> /\ Last(f) = f[n] /\ f[n] \in Parts /\ Front(f) = SubSeq(f, 1, n - 1)
  BY <1>1, <1>2 DEF Last, Front
<1>4. PICK dots : dots = <<Ellipsis>>
  OBVIOUS
<1>5. dots \in Seq(Chars \cup {Ellipsis})
  BY <1>4
<1>6. CASE ~f[n].highlighted
  <2>1. PICK last : last = Plain(f[n].text \o dots)
    OBVIOUS
  <2>2. f[n].text \in Seq(Chars \cup {Ellipsis})
    BY <1>3, <1>6 DEF Parts
  <2>3. f[n].text \o dots \in Seq(Chars \cup {Ellipsis})
    BY <1>5, <2>2
  <2>4. last \in Parts
    BY <2>1, <2>3 DEF Parts, Plain
  <2>5. PICK t : t = Front(f)
    OBVIOUS
  <2>6. t \in Seq(Parts) /\ Len(t) = n - 1 /\ \A k \in 1..(n - 1) : t[k] = f[k]
    <3>1. t = SubSeq(f, 0 + 1, n - 1) /\ 0 \in Nat /\ n - 1 \in Int /\ n - 1 <= Len(f)
      BY <1>2, <1>3, <2>5
    <3>2. /\ t \in Seq(Parts) /\ Len(t) = IF 0 < n - 1 THEN (n - 1) - 0 ELSE 0
          /\ \A k \in 1..Len(t) : t[k] = f[0 + k]
      BY <3>1, PageOf
    <3> QED
      BY <1>2, <3>2
  <2>7. HasMark(t, part)
    <3>1. i # n
      BY <1>1, <1>6
    <3>2. i \in 1..(n - 1) /\ i \in 1..Len(t)
      BY <1>2, <2>6, <3>1
    <3> QED
      BY <1>1, <2>6, <3>2 DEF HasMark
  <2>8. <<last>> \in Seq(Parts) /\ t \in Seq(Parts)
    BY <2>4, <2>6
  <2>9. CutRight(f) = t \o <<last>>
    BY <1>3, <1>4, <1>6, <2>1, <2>5 DEF CutRight
  <2> QED
    BY <2>7, <2>8, <2>9, MarksStay
<1>7. CASE f[n].highlighted
  <2>1. PICK last : last = Plain(dots)
    OBVIOUS
  <2>2. last \in Parts
    BY <1>5, <2>1 DEF Parts, Plain
  <2>3. CutRight(f) = f \o <<last>>
    BY <1>3, <1>4, <1>7, <2>1 DEF CutRight
  <2>4. <<last>> \in Seq(Parts)
    BY <2>2
  <2> QED
    BY <2>3, <2>4, MarksStay
<1> QED
  BY <1>6, <1>7

\* A sequence holds another in one piece.
InOnePiece(flat, part) ==
  \E at \in 0..Len(flat) : /\ at + Len(part) <= Len(flat)
                           /\ \A j \in 1..Len(part) : flat[at + j] = part[j]

\* A flattened sequence holds each of its parts in one piece.
LEMMA FlattenHolds ==
  ASSUME NEW S, NEW n \in Nat, NEW ss \in [1..n -> Seq(S)], NEW i \in 1..n, ss[i] # <<>>
  PROVE  FlattenSeq(ss) \in Seq(S) /\ InOnePiece(FlattenSeq(ss), ss[i])
<1>1. PICK flat : flat = FlattenSeq(ss)
  OBVIOUS
<1>2. PICK w : flat \in Seq(S) /\ FlatPlaces(w, flat, ss, n)
  BY <1>1, FlattenPlaces
<1>3. PICK m \in Nat, l \in Nat \ {0} : m = Len(flat) /\ l = Len(ss[i])
  BY <1>2
<1>4. /\ \A p \in 1..m : /\ w[p] \in (1..n) \X Nat
                         /\ w[p][2] \in 1..Len(ss[w[p][1]]) /\ flat[p] = ss[w[p][1]][w[p][2]]
      /\ \A p, q \in 1..m :
           p < q => w[p][1] < w[q][1] \/ (w[p][1] = w[q][1] /\ w[p][2] < w[q][2])
      /\ \A j \in 1..l : \E p \in 1..m : w[p] = <<i, j>>
  BY <1>2, <1>3 DEF FlatPlaces
<1>5. PICK p \in 1..m : w[p] = <<i, 1>>
  <2>1. 1 \in 1..l
    BY <1>3
  <2> QED
    BY <1>4, <2>1
<1> DEFINE T == {j \in 0..(l - 1) : p + j \in 1..m /\ w[p + j] = <<i, j + 1>>}
<1>6. 0 \in T
  BY <1>3, <1>5
<1>7. ASSUME NEW j \in 0..(l - 2), j \in T PROVE j + 1 \in T
  <2>1. PICK a \in 1..m : a = p + j /\ w[a] = <<i, j + 1>>
    BY <1>7
  <2>2. PICK b \in 1..m : w[b] = <<i, j + 2>>
    <3>1. j + 2 \in 1..l
      BY <1>3
    <3> QED
      BY <1>4, <3>1
  <2>3. w[a][1] = i /\ w[a][2] = j + 1 /\ w[b][1] = i /\ w[b][2] = j + 2
    BY <2>1, <2>2
  <2>4. a < b
    <3>1. a # b
      BY <2>3
    <3>2. CASE b < a
      <4>1. w[b][1] < w[a][1] \/ (w[b][1] = w[a][1] /\ w[b][2] < w[a][2])
        BY <1>4, <3>2
      <4> QED
        BY <2>3, <4>1
    <3> QED
      BY <3>1, <3>2
  <2>5. ASSUME a + 1 # b PROVE FALSE
    <3>1. PICK c \in 1..m : c = a + 1 /\ a < c /\ c < b
      <4>1. a + 1 \in 1..m /\ a < a + 1 /\ a + 1 < b
        BY <2>4, <2>5
      <4> QED
        BY <4>1
    <3>2. w[c][1] \in Int /\ w[c][2] \in Int
      BY <1>4
    <3>3. w[a][1] < w[c][1] \/ (w[a][1] = w[c][1] /\ w[a][2] < w[c][2])
      BY <1>4, <3>1
    <3>4. w[c][1] < w[b][1] \/ (w[c][1] = w[b][1] /\ w[c][2] < w[b][2])
      BY <1>4, <3>1
    <3>5. PICK x \in Int, y \in Int : x = w[c][1] /\ y = w[c][2]
      BY <3>2
    <3>6. i < x \/ (i = x /\ j + 1 < y)
      BY <2>3, <3>3, <3>5, Zenon
    <3>7. x < i \/ (x = i /\ y < j + 2)
      BY <2>3, <3>4, <3>5, Zenon
    <3> QED
      BY <3>6, <3>7
  <2>6. p + (j + 1) = b /\ j + 1 \in 0..(l - 1) /\ (j + 1) + 1 = j + 2
    BY <1>3, <2>1, <2>5
  <2> QED
    BY <2>2, <2>6
<1>8. \A j \in 0..(l - 1) : j \in T
  <2>1. l - 1 \in Nat /\ (l - 1) - 1 = l - 2
    BY <1>3
  <2> HIDE DEF T
  <2> QED
    BY <1>6, <1>7, <2>1, CountsUp
<1>9. ASSUME NEW j \in 1..l PROVE (p - 1) + j \in 1..m /\ flat[(p - 1) + j] = ss[i][j]
  <2>1. PICK k \in 0..(l - 1) : k = j - 1
    <3>1. j - 1 \in 0..(l - 1)
      BY <1>3
    <3> QED
      BY <3>1
  <2>2. k \in T
    BY <1>8
  <2>3. PICK c \in 1..m : c = p + k /\ w[c] = <<i, k + 1>>
    BY <2>2
  <2>4. c = (p - 1) + j /\ w[c][1] = i /\ w[c][2] = j
    BY <2>1, <2>3
  <2>5. flat[c] = ss[w[c][1]][w[c][2]]
    BY <1>4
  <2> QED
    BY <2>4, <2>5
<1> HIDE DEF T
<1>10. PICK at \in 0..m : at = p - 1
  <2>1. p - 1 \in 0..m
    OBVIOUS
  <2> QED
    BY <2>1
<1>11. at + l <= m
  <2>1. l \in 1..l
    BY <1>3
  <2>2. (p - 1) + l \in 1..m
    BY <1>9, <2>1
  <2> QED
    BY <1>10, <2>2
<1>12. \A j \in 1..l : flat[at + j] = ss[i][j]
  BY <1>9, <1>10
<1>13. InOnePiece(flat, ss[i])
  BY <1>3, <1>11, <1>12 DEF InOnePiece
<1> QED
  BY <1>1, <1>2, <1>13

\* The segments up to the end of a visible occurrence.
LEMMA SegmentsToMark ==
  ASSUME NEW text \in Seq(Chars), NEW w \in TextSpans, w.end <= Len(text), w.start <= w.end,
         NEW v \in Seq(TextSpans), \A i \in 1..Len(v) : v[i].start <= w.end /\ v[i].end <= w.end,
         NEW i \in 1..Len(v)
  PROVE  /\ SegmentsTo(text, w, v, i) \in Seq(Parts)
         /\ v[i].start < v[i].end =>
              HasMark(SegmentsTo(text, w, v, i), SubSeq(text, v[i].start + 1, v[i].end))
<1>1. PICK from : from = IF i = 1 THEN w.start ELSE v[i - 1].end
  OBVIOUS
<1>2. Len(text) \in Nat /\ w.start \in Nat /\ w.end \in Nat
  BY DEF TextSpans
<1>3. \A k \in 1..Len(v) : /\ v[k].start \in Nat /\ v[k].end \in Nat
                           /\ v[k].start <= Len(text) /\ v[k].end <= Len(text)
  <2> TAKE k \in 1..Len(v)
  <2>1. v[k] \in TextSpans /\ v[k].start <= w.end /\ v[k].end <= w.end
    OBVIOUS
  <2> QED
    BY <1>2, <2>1 DEF TextSpans
<1>4. from \in Nat /\ from <= Len(text)
  <2>1. CASE i = 1
    BY <1>1, <1>2, <2>1
  <2>2. CASE i # 1
    <3>1. PICK k \in 1..Len(v) : k = i - 1
      <4>1. i - 1 \in 1..Len(v)
        BY <2>2
      <4> QED
        BY <4>1
    <3> QED
      BY <1>1, <1>3, <2>2, <3>1
  <2> QED
    BY <2>1, <2>2
<1>5. PICK s, e : s = v[i].start /\ e = v[i].end
  OBVIOUS
<1>6. s \in Nat /\ e \in Nat /\ s <= Len(text) /\ e <= Len(text)
  BY <1>3, <1>5
<1>7. PICK a, b : a = Segment(text, from, s, FALSE) /\ b = Segment(text, s, e, TRUE)
  OBVIOUS
<1>8. /\ a \in Seq(Parts) /\ b \in Seq(Parts)
      /\ s < e => HasMark(b, SubSeq(text, s + 1, e))
  BY <1>4, <1>6, <1>7, SegmentIsPart
<1>9. SegmentsTo(text, w, v, i) = a \o b
  BY <1>1, <1>5, <1>7 DEF SegmentsTo
<1>10. s < e => HasMark(a \o b, SubSeq(text, s + 1, e))
  BY <1>8, MarksStay
<1>11. a \o b \in Seq(Parts)
  BY <1>8
<1> QED
  BY <1>5, <1>9, <1>10, <1>11

\* A fragment highlights its first occurrence.
LEMMA FragmentShows ==
  ASSUME NEW text \in Seq(Chars), NEW s \in Seq(TextSpans), s # <<>>,
         s[1].start < s[1].end, s[1].end <= Len(text),
         NEW f, f = Fragment(text, s)
  PROVE  f \in Seq(Parts) /\ HasMark(f, SubSeq(text, s[1].start + 1, s[1].end))
<1>1. PICK n \in Nat : n = Len(text)
  OBVIOUS
<1>2. s[1] \in TextSpans /\ Head(s) = s[1]
  OBVIOUS
<1>3. PICK part : part = SubSeq(text, s[1].start + 1, s[1].end)
  OBVIOUS
<1>4. PICK w : w = Window(s[1], n)
  OBVIOUS
<1>5. /\ w.start \in Nat /\ w.end \in Nat /\ w.end <= n
      /\ w.start <= s[1].start /\ s[1].end <= w.end
  BY <1>1, <1>2, <1>4, WindowHolds
<1>6. w \in TextSpans /\ w.start <= w.end
  <2>1. s[1].start \in Nat /\ s[1].end \in Nat
    BY <1>2 DEF TextSpans
  <2>2. \E a, b : w = [start |-> a, end |-> b]
    BY <1>4 DEF Window
  <2>3. w = [start |-> w.start, end |-> w.end]
    BY <2>2
  <2> QED
    BY <1>5, <2>1, <2>3 DEF TextSpans
<1>7. PICK v : v = Visible(s, w)
  OBVIOUS
<1>8. /\ v \in Seq(TextSpans)
      /\ \A i \in 1..Len(v) : v[i].start <= w.end /\ v[i].end <= w.end
      /\ \E i \in 1..Len(v) : v[i].start = s[1].start /\ v[i].end = s[1].end
  BY <1>5, <1>6, <1>7, VisibleShows
<1>9. PICK k \in 1..Len(v) : v[k].start = s[1].start /\ v[k].end = s[1].end
  BY <1>8
<1> DEFINE ss == [i \in DOMAIN v |-> SegmentsTo(text, w, v, i)]
<1>10. DOMAIN v = 1..Len(v) /\ Len(v) \in Nat /\ v # <<>>
  BY <1>8, <1>9
<1>11. ASSUME NEW i \in 1..Len(v) PROVE SegmentsTo(text, w, v, i) \in Seq(Parts)
  BY <1>1, <1>5, <1>6, <1>8, SegmentsToMark
<1>12. /\ ss \in [1..Len(v) -> Seq(Parts)] /\ ss[k] = SegmentsTo(text, w, v, k)
  BY <1>10, <1>11
<1>13. HasMark(ss[k], part)
  <2>1. HasMark(SegmentsTo(text, w, v, k), SubSeq(text, v[k].start + 1, v[k].end))
    BY <1>1, <1>5, <1>6, <1>8, <1>9, SegmentsToMark
  <2> QED
    BY <1>3, <1>9, <1>12, <2>1
<1>14. PICK flat : flat = FlattenSeq(ss)
  OBVIOUS
<1> HIDE DEF ss
<1>15. flat \in Seq(Parts) /\ HasMark(flat, part)
  <2>1. PICK j \in 1..Len(ss[k]) : ss[k][j].highlighted /\ ss[k][j].text = part
    BY <1>13 DEF HasMark
  <2>2. ss[k] # <<>>
    <3>1. ss[k] \in Seq(Parts)
      BY <1>12
    <3> QED
      BY <2>1, <3>1
  <2>0. InOnePiece(flat, ss[k])
    BY <1>10, <1>12, <1>14, <2>2, FlattenHolds
  <2>3. PICK at \in 0..Len(flat) : /\ at + Len(ss[k]) <= Len(flat)
                                   /\ \A i \in 1..Len(ss[k]) : flat[at + i] = ss[k][i]
    BY <2>0 DEF InOnePiece
  <2>4. flat \in Seq(Parts)
    BY <1>10, <1>12, <1>14, <2>2, FlattenHolds
  <2>5. PICK p \in 1..Len(flat) : p = at + j
    <3>1. Len(flat) \in Nat /\ Len(ss[k]) \in Nat
      BY <1>12, <2>4
    <3>2. at + j \in 1..Len(flat)
      BY <2>3, <3>1
    <3> QED
      BY <3>2
  <2>6. flat[p] = ss[k][j]
    BY <2>3, <2>5
  <2> QED
    BY <2>1, <2>4, <2>6 DEF HasMark
<1>16. PICK last : last = IF v = <<>> THEN w.start ELSE Last(v).end
  OBVIOUS
<1>17. last \in Nat /\ last <= n
  <2>1. last = v[Len(v)].end /\ Len(v) \in 1..Len(v)
    BY <1>8, <1>10, <1>16 DEF Last
  <2>2. PICK z : z = v[Len(v)] /\ z \in TextSpans /\ z.end <= w.end
    BY <1>8, <2>1
  <2>3. z.end \in Nat
    BY <2>2 DEF TextSpans
  <2> QED
    BY <1>5, <2>1, <2>2, <2>3
<1>18. PICK rest : rest = Segment(text, last, w.end, FALSE)
  OBVIOUS
<1>19. rest \in Seq(Parts)
  BY <1>1, <1>5, <1>17, <1>18, SegmentIsPart
<1>20. PICK whole : whole = flat \o rest
  OBVIOUS
<1>21. whole \in Seq(Parts) /\ HasMark(whole, part)
  BY <1>15, <1>19, <1>20, MarksStay
<1>22. PICK left : left = IF w.start > 0 THEN CutLeft(whole) ELSE whole
  OBVIOUS
<1>23. left \in Seq(Parts) /\ HasMark(left, part)
  BY <1>21, <1>22, CutLeftKeeps
<1>24. f = IF w.end < n THEN CutRight(left) ELSE left
  BY <1>1, <1>2, <1>4, <1>7, <1>14, <1>16, <1>18, <1>20, <1>22 DEF Fragment, ss
<1>25. f \in Seq(Parts) /\ HasMark(f, part)
  BY <1>23, <1>24, CutRightKeeps
<1> QED
  BY <1>3, <1>25

\* One text holds another at a position, character by character.
LEMMA HoldsByPlace ==
  ASSUME NEW f \in Seq(Chars), NEW q \in Seq(Chars), NEW at \in Nat
  PROVE  Holds(f, at, q) <=> /\ at + Len(q) <= Len(f)
                             /\ \A j \in 1..Len(q) : f[at + j] = q[j]
<1> SUFFICES ASSUME at + Len(q) <= Len(f)
             PROVE  SubSeq(f, at + 1, at + Len(q)) = q
                      <=> \A j \in 1..Len(q) : f[at + j] = q[j]
  BY DEF Holds
<1>1. PICK l \in Nat : l = Len(q)
  OBVIOUS
<1>2. PICK sub : sub = SubSeq(f, at + 1, at + l)
  OBVIOUS
<1>3. /\ sub \in Seq(Chars) /\ Len(sub) = IF at < at + l THEN (at + l) - at ELSE 0
      /\ \A i \in 1..Len(sub) : sub[i] = f[at + i]
  <2>1. PICK to \in Int : to = at + l /\ to <= Len(f)
    BY <1>1
  <2>2. sub = SubSeq(f, at + 1, to)
    BY <1>2, <2>1
  <2>3. /\ sub \in Seq(Chars) /\ Len(sub) = IF at < to THEN to - at ELSE 0
        /\ \A i \in 1..Len(sub) : sub[i] = f[at + i]
    <3>1. to <= Len(f)
      BY <2>1
    <3>2. PICK part : part = SubSeq(f, at + 1, to)
      OBVIOUS
    <3>3. /\ part \in Seq(Chars) /\ Len(part) = IF at < to THEN to - at ELSE 0
          /\ \A i \in 1..Len(part) : part[i] = f[at + i]
      BY <3>1, <3>2, PageOf
    <3> QED
      BY <2>2, <3>2, <3>3, Zenon
  <2> QED
    BY <2>1, <2>3
<1>4. Len(sub) = l
  BY <1>1, <1>3
<1>5. ASSUME sub = q PROVE \A j \in 1..l : f[at + j] = q[j]
  BY <1>3, <1>4, <1>5
<1>6. ASSUME \A j \in 1..l : f[at + j] = q[j] PROVE sub = q
  <2>1. \A j \in 1..l : sub[j] = q[j]
    BY <1>3, <1>4, <1>6
  <2> QED
    BY <1>1, <1>3, <1>4, <2>1
<1> QED
  BY <1>1, <1>2, <1>5, <1>6

\* The index keeps every text that a query matches: no trigram of the query is missing.
LEMMA MatchesAreCandidates ==
  ASSUME NEW query \in Seq(Chars), NEW text \in Seq(Chars), Matches(query, text)
  PROVE  MatchesExpression(Fold(text), TrigramExpression(query))
<1>1. PICK f, q : f = Fold(text) /\ q = Fold(query)
  OBVIOUS
<1>2. f \in Seq(Chars) /\ q \in Seq(Chars) /\ Len(f) = Len(text) /\ Len(f) \in Nat /\ Len(q) \in Nat
  BY <1>1, FoldIsAText
<1>3. PICK at \in 0..Len(f) : Holds(f, at, q)
  BY <1>1, <1>2 DEF Matches
<1>4. /\ at + Len(q) <= Len(f) /\ at \in Nat
      /\ \A j \in 1..Len(q) : f[at + j] = q[j]
  BY <1>2, <1>3, HoldsByPlace
<1> SUFFICES ASSUME NEW t \in TrigramExpression(query) PROVE MatchesTerm(f, t)
  BY <1>1 DEF MatchesExpression
<1>5. t \in TrigramsOf(q) /\ NUL \notin Range(t)
  BY <1>1 DEF TrigramExpression
<1>6. PICK i \in 1..(Len(q) - 2) : t = SubSeq(q, i, i + 2)
  BY <1>5 DEF TrigramsOf
<1>7. t = <<q[i], q[i + 1], q[i + 2]>>
  <2>1. PICK from \in Nat : from = i - 1
    OBVIOUS
  <2>2. PICK to \in Int : to = i + 2 /\ to <= Len(q) /\ from + 1 = i /\ from < to /\ to - from = 3
    <3>1. i + 2 \in Int /\ i + 2 <= Len(q)
      BY <1>2
    <3> QED
      BY <2>1, <3>1
  <2>3. t = SubSeq(q, from + 1, to)
    BY <1>6, <2>2
  <2>4. /\ t \in Seq(Chars) /\ Len(t) = IF from < to THEN to - from ELSE 0
        /\ \A k \in 1..Len(t) : t[k] = q[from + k]
    BY <1>2, <2>2, <2>3, PageOf
  <2>5. t \in Seq(Chars) /\ Len(t) = 3 /\ \A k \in 1..3 : t[k] = q[from + k]
    BY <2>2, <2>4
  <2>6. t[1] = q[i] /\ t[2] = q[i + 1] /\ t[3] = q[i + 2]
    <3>1. from + 1 = i /\ from + 2 = i + 1 /\ from + 3 = i + 2
      BY <2>1
    <3>2. t[1] = q[from + 1] /\ t[2] = q[from + 2] /\ t[3] = q[from + 3]
      BY <2>5
    <3> QED
      BY <3>1, <3>2
  <2> QED
    BY <2>5, <2>6
<1>8. PICK a \in 1..Len(f), b \in 1..Len(f), c \in 1..Len(f) :
        a = at + i /\ b = at + (i + 1) /\ c = at + (i + 2)
  <2>1. at + i \in 1..Len(f) /\ at + (i + 1) \in 1..Len(f) /\ at + (i + 2) \in 1..Len(f)
    BY <1>2, <1>4
  <2> QED
    BY <2>1
<1>9. f[a] = q[i] /\ f[b] = q[i + 1] /\ f[c] = q[i + 2]
  <2>1. i \in 1..Len(q) /\ i + 1 \in 1..Len(q) /\ i + 2 \in 1..Len(q)
    BY <1>2
  <2> QED
    BY <1>4, <1>8, <2>1
<1>10. a < b /\ b < c /\ (a..c) \ {a, b, c} = {}
  BY <1>8
<1>11. DOMAIN f = 1..Len(f)
  BY <1>2
<1> QED
  BY <1>5, <1>7, <1>9, <1>10, <1>11 DEF MatchesTerm

\* What a fragment highlights, one piece after the other.
MarkedText(f) == FlattenSeq([i \in DOMAIN f |-> IF f[i].highlighted THEN f[i].text ELSE <<>>])

\* A fragment that highlights a text the query is, up to its case, shows the query.
LEMMA MarksMatch ==
  ASSUME NEW query \in Seq(Chars), query # <<>>, NEW f \in Seq(Parts), NEW part \in Seq(Chars),
         HasMark(f, part), Fold(part) = Fold(query)
  PROVE  Matches(query, MarkedText(f))
<1> DEFINE ss == [i \in DOMAIN f |-> IF f[i].highlighted THEN f[i].text ELSE <<>>]
<1>1. PICK n \in Nat : n = Len(f) /\ DOMAIN f = 1..n
  OBVIOUS
<1>2. PICK k \in 1..n : f[k].highlighted /\ f[k].text = part
  BY <1>1 DEF HasMark
<1>3. ASSUME NEW i \in 1..n PROVE (IF f[i].highlighted THEN f[i].text ELSE <<>>) \in Seq(Chars)
  <2>1. f[i] \in Parts
    BY <1>1
  <2>2. f[i].highlighted => f[i].text \in Seq(Chars)
    BY <2>1 DEF Parts
  <2> QED
    BY <2>2
<1>4. ss \in [1..n -> Seq(Chars)] /\ ss[k] = part
  BY <1>1, <1>2, <1>3
<1>5. PICK flat : flat = FlattenSeq(ss)
  OBVIOUS
<1>6. MarkedText(f) = flat
  BY <1>5 DEF MarkedText
<1> HIDE DEF ss
<1>7. PICK p, q, l : p = Fold(part) /\ q = Fold(query) /\ l = Len(query) /\ p = q
  OBVIOUS
<1>8. /\ l \in Nat \ {0} /\ Len(part) = l /\ Len(q) = l /\ q \in Seq(Chars) /\ part # <<>>
      /\ \A j \in 1..l : q[j] = FoldChar[part[j]]
  <2>1. Len(p) = Len(part) /\ Len(q) = l /\ q \in Seq(Chars) /\ Len(part) \in Nat
    BY <1>7, FoldIsAText
  <2>2. \A j \in 1..Len(part) : p[j] = FoldChar[part[j]]
    BY <1>7, FoldIsAText
  <2>3. l \in Nat \ {0}
    BY <1>7
  <2> QED
    BY <1>7, <2>1, <2>2, <2>3
<1>9. flat \in Seq(Chars) /\ InOnePiece(flat, part)
  BY <1>4, <1>5, <1>8, FlattenHolds
<1>10. PICK at \in 0..Len(flat) : /\ at + l <= Len(flat)
                                  /\ \A j \in 1..l : flat[at + j] = part[j]
  BY <1>8, <1>9 DEF InOnePiece
<1>11. PICK g : g = Fold(flat)
  OBVIOUS
<1>12. g \in Seq(Chars) /\ Len(g) = Len(flat) /\ \A i \in 1..Len(flat) : g[i] = FoldChar[flat[i]]
  BY <1>9, <1>11, FoldIsAText
<1>13. ASSUME NEW j \in 1..l PROVE g[at + j] = q[j]
  <2>1. PICK i \in 1..Len(flat) : i = at + j
    <3>1. at + j \in 1..Len(flat)
      BY <1>8, <1>9, <1>10
    <3> QED
      BY <3>1
  <2>2. flat[i] = part[j]
    BY <1>10, <2>1
  <2> QED
    BY <1>8, <1>12, <2>1, <2>2
<1>14. Holds(g, at, q)
  <2>1. at \in Nat /\ at + Len(q) <= Len(g)
    BY <1>8, <1>9, <1>10, <1>12
  <2> QED
    BY <1>8, <1>12, <1>13, <2>1, HoldsByPlace
<1> QED
  BY <1>6, <1>7, <1>11, <1>14 DEF Matches

\* A fragment of a text the query matches shows the query.
LEMMA FragmentsMatch ==
  ASSUME NEW query \in Seq(Chars), query # <<>>, NEW text \in Seq(Chars), Matches(query, text)
  PROVE  Matches(query, MarkedText(Fragment(text, Occurrences(query, text))))
<1>1. PICK s, f, q : s = Occurrences(query, text) /\ f = Fold(text) /\ q = Fold(query)
  OBVIOUS
<1>2. AreOccurrences(s, f, q, 0)
  BY <1>1, OccurrencesAreFound
<1>3. /\ f \in Seq(Chars) /\ Len(f) = Len(text) /\ q \in Seq(Chars) /\ Len(q) = Len(query)
      /\ \A i \in 1..Len(text) : f[i] = FoldChar[text[i]]
      /\ Len(text) \in Nat /\ Len(query) \in Nat \ {0}
  <2>1. Len(text) \in Nat /\ Len(query) \in Nat \ {0}
    OBVIOUS
  <2>2. /\ f \in Seq(Chars) /\ Len(f) = Len(text) /\ q \in Seq(Chars) /\ Len(q) = Len(query)
    BY <1>1, FoldIsAText
  <2>3. \A i \in 1..Len(text) : f[i] = FoldChar[text[i]]
    BY <1>1, FoldIsAText
  <2> QED
    BY <2>1, <2>2, <2>3
<1>4. \E p \in 0..Len(f) : Holds(f, p, q)
  BY <1>1, <1>3 DEF Matches
<1>5. s \in Seq(TextSpans) /\ s # <<>>
  BY <1>2, <1>4 DEF AreOccurrences
<1>6. 1 \in 1..Len(s) /\ s[1] \in TextSpans
  BY <1>5
<1>7. s[1].end = s[1].start + Len(q) /\ Holds(f, s[1].start, q)
  BY <1>2, <1>6 DEF AreOccurrences
<1>8. PICK a \in Nat, l \in Nat \ {0} : a = s[1].start /\ l = Len(q)
  BY <1>3, <1>6 DEF TextSpans
<1>9. a + l <= Len(text) /\ \A j \in 1..l : f[a + j] = q[j]
  <2>1. Holds(f, a, q) /\ Len(q) = l /\ Len(f) = Len(text)
    BY <1>3, <1>7, <1>8, Zenon
  <2>2. f \in Seq(Chars) /\ q \in Seq(Chars)
    BY <1>3
  <2>3. a + Len(q) <= Len(f) /\ \A j \in 1..Len(q) : f[a + j] = q[j]
    BY <2>1, <2>2, HoldsByPlace
  <2> QED
    BY <2>1, <2>3, Zenon
<1>10. PICK part : part = SubSeq(text, a + 1, a + l)
  OBVIOUS
<1>11. PICK fragment : fragment = Fragment(text, s)
  OBVIOUS
<1>12. fragment \in Seq(Parts) /\ HasMark(fragment, part)
  <2>1. s[1].end = a + l /\ s[1].start < s[1].end /\ s[1].end <= Len(text)
    BY <1>7, <1>8, <1>9
  <2>2. fragment \in Seq(Parts) /\ HasMark(fragment, SubSeq(text, s[1].start + 1, s[1].end))
    BY <1>5, <1>11, <2>1, FragmentShows
  <2> QED
    BY <1>8, <1>10, <2>1, <2>2
<1>13. part \in Seq(Chars) /\ Len(part) = l /\ \A j \in 1..l : part[j] = text[a + j]
  <2>1. PICK to \in Int : to = a + l /\ to <= Len(text) /\ a < to /\ to - a = l
    <3>1. a + l \in Int /\ a + l <= Len(text) /\ a < a + l /\ (a + l) - a = l
      BY <1>8, <1>9
    <3> QED
      BY <3>1
  <2>2. /\ part \in Seq(Chars) /\ Len(part) = IF a < to THEN to - a ELSE 0
        /\ \A j \in 1..Len(part) : part[j] = text[a + j]
    <3>1. part = SubSeq(text, a + 1, to)
      BY <1>10, <2>1
    <3> QED
      BY <2>1, <3>1, PageOf
  <2> QED
    BY <2>1, <2>2
<1>14. Fold(part) = q
  <2>1. PICK p : p = Fold(part)
    OBVIOUS
  <2>2. p \in Seq(Chars) /\ Len(p) = l /\ \A j \in 1..l : p[j] = FoldChar[part[j]]
    BY <1>13, <2>1, FoldIsAText
  <2>3. ASSUME NEW j \in 1..l PROVE p[j] = q[j]
    <3>1. PICK i \in 1..Len(text) : i = a + j
      <4>1. a + j \in 1..Len(text)
        BY <1>3, <1>8, <1>9
      <4> QED
        BY <4>1
    <3>2. part[j] = text[i] /\ f[i] = q[j]
      BY <1>9, <1>13, <3>1
    <3> QED
      BY <1>3, <2>2, <3>1, <3>2
  <2>4. q \in Seq(Chars) /\ Len(q) = l
    BY <1>3, <1>8
  <2>5. p = q
    BY <2>2, <2>3, <2>4
  <2> QED
    BY <2>1, <2>5
<1> QED
  BY <1>1, <1>11, <1>12, <1>13, <1>14, MarksMatch

\* The hits of a search: each is told by its event, entry and field.
HitsAreSound(hits) ==
  /\ IsFiniteSet(hits)
  /\ \A h \in hits : /\ h.at \in Int /\ h.event \in Int /\ h.session \in Int /\ h.sid \in Int
                     /\ h.new \in BOOLEAN /\ h.entry \in Int /\ h.field \in {"name", "text"}
  /\ \A g, h \in hits : g.event = h.event /\ g.entry = h.entry /\ g.field = h.field => g = h

\* Some of them are sound, too.
LEMMA SomeHitsAreSound ==
  ASSUME NEW hits, HitsAreSound(hits), NEW some \in SUBSET hits
  PROVE  HitsAreSound(some)
<1>1. IsFiniteSet(some)
  BY FS_Subset DEF HitsAreSound
<1> QED
  BY <1>1, Zenon DEF HitsAreSound

\* Hits by place, as a relation.
PieceOrder(S) == {p \in S \X S : PieceBefore(p[1], p[2])}

\* The hits of one event are ordered by their places.
LEMMA PiecesAreOrdered ==
  ASSUME NEW S, HitsAreSound(S), \A g, h \in S : g.event = h.event
  PROVE  IsOrder(PieceOrder(S), S)
<1> DEFINE age == [h \in S |-> IF h.new THEN 0 ELSE 1]
           place == [h \in S |-> h.entry]
           part == [h \in S |-> IF h.field = "name" THEN 0 ELSE 1]
           Q == {p \in S \X S : \/ place[p[1]] < place[p[2]]
                                \/ place[p[1]] = place[p[2]] /\ part[p[1]] < part[p[2]]}
<1>1. \A h \in S : /\ age[h] \in Int /\ age[h] = IF h.new THEN 0 ELSE 1
                   /\ place[h] \in Int /\ place[h] = h.entry
                   /\ part[h] \in Int /\ part[h] = IF h.field = "name" THEN 0 ELSE 1
  BY DEF HitsAreSound
<1>2. \A g, h \in S : <<g, h>> \in Q <=> \/ place[g] < place[h]
                                         \/ place[g] = place[h] /\ part[g] < part[h]
  BY Zenon
<1> HIDE DEF age, place, part, Q
<1>3. ASSUME NEW g \in S, NEW h \in S, place[g] = place[h], part[g] = part[h] PROVE g = h
  <2>1. g.entry = h.entry /\ g.event = h.event
    BY <1>1, <1>3
  <2>2. g.field = h.field
    <3>1. g.field \in {"name", "text"} /\ h.field \in {"name", "text"}
      BY DEF HitsAreSound
    <3>2. part[g] = (IF g.field = "name" THEN 0 ELSE 1) /\ part[h] = IF h.field = "name" THEN 0 ELSE 1
      BY <1>1
    <3>3. CASE g.field = "name"
      <4>1. part[h] = 0
        BY <1>3, <3>2, <3>3
      <4> QED
        BY <3>1, <3>2, <3>3, <4>1
    <3>4. CASE g.field # "name"
      <4>1. part[h] = 1
        BY <1>3, <3>2, <3>4
      <4> QED
        BY <3>1, <3>2, <3>4, <4>1
    <3> QED
      BY <3>3, <3>4
  <2> QED
    BY <2>1, <2>2, Zenon DEF HitsAreSound
<1>4. IsOrder(Q, S)
  <2>1. \A g, h \in S : place[g] = place[h] /\ part[g] = part[h] => g = h
    BY <1>3
  <2>2. \A h \in S : place[h] \in Int /\ part[h] \in Int
    BY <1>1
  <2> QED
    BY <1>2, <2>1, <2>2, NumbersOrder
<1>5. ASSUME NEW g \in S, NEW h \in S
      PROVE  <<g, h>> \in PieceOrder(S) <=> age[g] < age[h] \/ (age[g] = age[h] /\ <<g, h>> \in Q)
  <2>1. <<g, h>> \in PieceOrder(S) <=> PieceBefore(g, h)
    BY DEF PieceOrder
  <2>2. /\ g.new \in BOOLEAN /\ h.new \in BOOLEAN /\ g.entry \in Int /\ h.entry \in Int
        /\ g.field \in {"name", "text"} /\ h.field \in {"name", "text"}
    BY DEF HitsAreSound
  <2>3. /\ age[g] = (IF g.new THEN 0 ELSE 1) /\ age[h] = (IF h.new THEN 0 ELSE 1)
        /\ place[g] = g.entry /\ place[h] = h.entry
        /\ part[g] = (IF g.field = "name" THEN 0 ELSE 1) /\ part[h] = (IF h.field = "name" THEN 0 ELSE 1)
    BY <1>1
  <2>4. part[g] < part[h] <=> g.field = "name" /\ h.field = "text"
    BY <2>2, <2>3
  <2>5. <<g, h>> \in Q <=> g.entry < h.entry \/ (g.entry = h.entry /\ g.field = "name" /\ h.field = "text")
    BY <1>2, <2>3, <2>4
  <2>6. PieceBefore(g, h) <=> \/ g.new /\ ~h.new
                              \/ /\ (g.new <=> h.new)
                                 /\ \/ g.entry < h.entry
                                    \/ g.entry = h.entry /\ g.field = "name" /\ h.field = "text"
    BY <2>2 DEF PieceBefore
  <2>7. (age[g] < age[h] <=> g.new /\ ~h.new) /\ (age[g] = age[h] <=> (g.new <=> h.new))
    BY <2>2, <2>3
  <2> QED
    BY <2>1, <2>5, <2>6, <2>7
<1>6. /\ \A h \in S : age[h] \in Int
      /\ \A g, h \in S : <<g, h>> \in PieceOrder(S)
           <=> age[g] < age[h] \/ (age[g] = age[h] /\ <<g, h>> \in Q)
  BY <1>1, <1>5
<1> QED
  BY <1>4, <1>6, NumberThenOrder

\* They are sorted by their places.
LEMMA PiecesAreSorted ==
  ASSUME NEW S, HitsAreSound(S), \A g, h \in S : g.event = h.event,
         NEW order, order = Sorted(S, PieceBefore)
  PROVE  Cardinality(S) \in Nat /\ Enumerates(order, S, PieceOrder(S))
<1>0. IsFiniteSet(S)
  BY DEF HitsAreSound
<1>1. PICK k \in Nat : k = Cardinality(S)
  BY <1>0, FS_CardinalityType
<1> DEFINE at(m) == CHOOSE h \in S : Cardinality({g \in S : PieceBefore(g, h)}) = m - 1
<1>2. order = [m \in 1..k |-> at(m)]
  BY <1>1, Zenon DEF Sorted
<1>3. \A m \in 1..k : at(m) = CHOOSE h \in S : Cardinality({g \in S : PieceBefore(g, h)}) = m - 1
  OBVIOUS
<1> HIDE DEF at
<1>4. order = [m \in 1..k |-> order[m]]
  BY <1>2
<1>5. \A h \in S : {g \in S : PieceBefore(g, h)} = {g \in S : <<g, h>> \in PieceOrder(S)}
  BY DEF PieceOrder
<1>6. \A h \in S : Cardinality({g \in S : PieceBefore(g, h)}) = Rank(PieceOrder(S), S, h)
  BY <1>5 DEF Rank
<1>7. ASSUME NEW m \in 1..k PROVE order[m] = CHOOSE h \in S : Rank(PieceOrder(S), S, h) = m - 1
  <2> DEFINE before(h) == Cardinality({g \in S : PieceBefore(g, h)})
  <2>1. order[m] = CHOOSE h \in S : before(h) = m - 1
    BY <1>2, <1>3
  <2>2. \A h \in S : before(h) = Rank(PieceOrder(S), S, h)
    BY <1>6
  <2> HIDE DEF before
  <2> QED
    BY <2>1, <2>2
<1>8. IsOrder(PieceOrder(S), S)
  BY PiecesAreOrdered
<1> QED
  BY <1>0, <1>1, <1>4, <1>7, <1>8, OrderPlaces, Zenon

\* The fragments of a match come from its hits; there is one at least.
LEMMA FragmentTextsAreHits ==
  ASSUME NEW hits, HitsAreSound(hits), \A g, h \in hits : g.event = h.event, hits # {},
         NEW texts, texts = FragmentTexts(hits)
  PROVE  \E n \in Nat \ {0} : /\ texts = [i \in 1..n |-> texts[i]]
                              /\ \A i \in 1..n : \E h \in hits : texts[i] = h.text
<1> DEFINE firsts == {h \in hits : ~ \E g \in hits : g.text = h.text /\ PieceBefore(g, h)}
<1>1. PICK order : order = Sorted(firsts, PieceBefore)
  OBVIOUS
<1>2. texts = [i \in 1..AtMost(Len(order), FragmentsPerMatch) |-> order[i].text]
  BY <1>1, Zenon DEF FragmentTexts
<1>3. firsts # {}
  <2>1. IsFiniteSet(hits) /\ IsOrder(PieceOrder(hits), hits)
    BY PiecesAreOrdered DEF HitsAreSound
  <2>2. PICK s \in hits : \A t \in hits : <<t, s>> \notin PieceOrder(hits)
    BY <2>1, FirstExists
  <2>3. \A t \in hits : ~PieceBefore(t, s)
    BY <2>2 DEF PieceOrder
  <2> QED
    BY <2>3
<1>4. firsts \in SUBSET hits
  OBVIOUS
<1> HIDE DEF firsts
<1>5. HitsAreSound(firsts) /\ IsFiniteSet(firsts) /\ \A g, h \in firsts : g.event = h.event
  <2>1. HitsAreSound(firsts)
    BY <1>4, SomeHitsAreSound
  <2> QED
    BY <1>4, <2>1 DEF HitsAreSound
<1>6. PICK k \in Nat : k = Cardinality(firsts)
  BY <1>5, FS_CardinalityType
<1>7. Enumerates(order, firsts, PieceOrder(firsts))
  BY <1>1, <1>5, PiecesAreSorted
<1>8. order \in [1..k -> firsts]
  BY <1>6, <1>7 DEF Enumerates
<1>9. k # 0
  BY <1>3, <1>5, <1>6, FS_EmptySet
<1>10. Len(order) = k
  BY <1>8
<1>11. PICK n \in Nat \ {0} : n = AtMost(Len(order), FragmentsPerMatch) /\ n <= k
  <2>1. FragmentsPerMatch \in Nat \ {0}
    BY MatchingConstants
  <2> QED
    BY <1>9, <1>10, <2>1 DEF AtMost
<1>12. texts = [i \in 1..n |-> order[i].text]
  BY <1>2, <1>11
<1>13. ASSUME NEW i \in 1..n PROVE \E h \in hits : texts[i] = h.text
  <2>1. i \in 1..k
    BY <1>11
  <2>2. order[i] \in hits
    BY <1>4, <1>8, <2>1
  <2> QED
    BY <1>12, <2>2
<1> QED
  BY <1>12, <1>13

\* The events of hits, and those with a new hit.
EventsHit(hits) == {h.event : h \in hits}
FreshHit(hits) == {e \in EventsHit(hits) : HasNew(hits, e)}

\* Events by time and key, as a relation.
EventsInTime(hits, S) == {p \in S \X S : EventBefore(hits, p[1], p[2])}

\* Events of hits are ordered by time and key.
LEMMA EventsAreInTime ==
  ASSUME NEW hits, HitsAreSound(hits), NEW S \in SUBSET EventsHit(hits)
  PROVE  IsFiniteSet(S) /\ IsOrder(EventsInTime(hits, S), S)
<1> DEFINE at == [e \in S |-> AtOf(hits, e)]
           key == [e \in S |-> e]
<1>1. IsFiniteSet(S)
  <2> DEFINE f == [h \in hits |-> h.event]
  <2>1. EventsHit(hits) = {f[h] : h \in hits} /\ IsFiniteSet(hits)
    BY DEF EventsHit, HitsAreSound
  <2> HIDE DEF f
  <2>2. IsFiniteSet(EventsHit(hits))
    BY <2>1, ImageIsFinite
  <2> QED
    BY <2>2, FS_Subset
<1>2. ASSUME NEW e \in S
      PROVE  at[e] \in Int /\ key[e] \in Int /\ at[e] = AtOf(hits, e) /\ key[e] = e
  <2>1. PICK h \in hits : h.event = e
    BY DEF EventsHit
  <2>2. PICK g : g = CHOOSE k \in hits : k.event = e
    OBVIOUS
  <2>3. g \in hits
    BY <2>1, <2>2
  <2>4. AtOf(hits, e) = g.at
    BY <2>2 DEF AtOf
  <2>5. g.at \in Int /\ h.event \in Int
    BY <2>3 DEF HitsAreSound
  <2> QED
    BY <2>1, <2>4, <2>5
<1>3. ASSUME NEW a \in S, NEW b \in S
      PROVE  <<a, b>> \in EventsInTime(hits, S) <=> at[a] < at[b] \/ (at[a] = at[b] /\ key[a] < key[b])
  BY <1>2 DEF EventsInTime, EventBefore
<1>4. \A a, b \in S : at[a] = at[b] /\ key[a] = key[b] => a = b
  BY <1>2
<1>5. \A e \in S : at[e] \in Int /\ key[e] \in Int
  BY <1>2
<1>6. \A a, b \in S : <<a, b>> \in EventsInTime(hits, S)
                       <=> at[a] < at[b] \/ (at[a] = at[b] /\ key[a] < key[b])
  BY <1>3
<1> HIDE DEF at, key
<1>7. IsOrder(EventsInTime(hits, S), S)
  BY <1>4, <1>5, <1>6, NumbersOrder
<1> QED
  BY <1>1, <1>7

SortedInTime(hits, S) == Sorted(S, LAMBDA a, b : EventBefore(hits, a, b))

\* They are sorted by time and key.
LEMMA EventsAreSorted ==
  ASSUME NEW hits, HitsAreSound(hits), NEW S \in SUBSET EventsHit(hits),
         NEW order, order = SortedInTime(hits, S)
  PROVE  Cardinality(S) \in Nat /\ Enumerates(order, S, EventsInTime(hits, S))
<1>0. IsFiniteSet(S) /\ IsOrder(EventsInTime(hits, S), S)
  BY EventsAreInTime
<1>1. PICK k \in Nat : k = Cardinality(S)
  BY <1>0, FS_CardinalityType
<1> DEFINE at(m) == CHOOSE h \in S : Cardinality({g \in S : EventBefore(hits, g, h)}) = m - 1
<1>2. order = [m \in 1..k |-> at(m)]
  BY <1>1, Zenon DEF Sorted, SortedInTime
<1>3. \A m \in 1..k : at(m) = CHOOSE h \in S : Cardinality({g \in S : EventBefore(hits, g, h)}) = m - 1
  OBVIOUS
<1> HIDE DEF at
<1>4. order = [m \in 1..k |-> order[m]]
  BY <1>2
<1>5. \A h \in S : {g \in S : EventBefore(hits, g, h)} = {g \in S : <<g, h>> \in EventsInTime(hits, S)}
  BY DEF EventsInTime
<1>6. \A h \in S : Cardinality({g \in S : EventBefore(hits, g, h)}) = Rank(EventsInTime(hits, S), S, h)
  BY <1>5 DEF Rank
<1>7. ASSUME NEW m \in 1..k
      PROVE  order[m] = CHOOSE h \in S : Rank(EventsInTime(hits, S), S, h) = m - 1
  <2> DEFINE before(h) == Cardinality({g \in S : EventBefore(hits, g, h)})
  <2>1. order[m] = CHOOSE h \in S : before(h) = m - 1
    BY <1>2, <1>3
  <2>2. \A h \in S : before(h) = Rank(EventsInTime(hits, S), S, h)
    BY <1>6
  <2> HIDE DEF before
  <2> QED
    BY <2>1, <2>2
<1> QED
  BY <1>0, <1>1, <1>4, <1>7, OrderPlaces, Zenon

\* The matches a session shows: as many as fit, events with a new hit before the others.
ShowsMatches(own, matches) ==
  /\ \E n \in Nat : /\ n = AtMost(Cardinality(EventsHit(own)), MatchesPerSession)
                    /\ matches = [i \in 1..n |-> matches[i]]
  /\ \A i \in DOMAIN matches : /\ matches[i].event \in EventsHit(own)
                               /\ matches[i].new = (matches[i].event \in FreshHit(own))
                               /\ matches[i].texts = FragmentTexts(HitsOf(own, matches[i].event))
  /\ \A i \in DOMAIN matches, e \in FreshHit(own) :
       matches[i].event \in FreshHit(own) \/ \E j \in 1..i : matches[j].event = e

\* What a session is shown as.
IsRanked(own, r) ==
  /\ r.matchCount = Cardinality(EventsHit(own)) /\ r.newMatchCount = Cardinality(FreshHit(own))
  /\ ShowsMatches(own, r.matches)

HitsIn(hits, session) == {h \in hits : h.session = session}

\* The result of a session.
LEMMA SessionIsRanked ==
  ASSUME NEW hits, HitsAreSound(hits), NEW session,
         NEW r, r = RankSession(hits, session)
  PROVE  r.session = session /\ IsRanked(HitsIn(hits, session), r)
<1> DEFINE own == HitsIn(hits, session)
           events == EventsHit(own)
           fresh == FreshHit(own)
<1>1. HitsAreSound(own)
  BY SomeHitsAreSound DEF HitsIn
<1>2. PICK first : first = SortedInTime(own, fresh)
  OBVIOUS
<1>3. PICK then : then = SortedInTime(own, events \ fresh)
  OBVIOUS
<1>4. PICK order : order = first \o then
  OBVIOUS
<1> DEFINE match(i) == [event |-> order[i], at |-> AtOf(own, order[i]), new |-> order[i] \in fresh,
                        texts |-> FragmentTexts(HitsOf(own, order[i]))]
<1>5. r = [session |-> session, matchCount |-> Cardinality(events),
           newMatchCount |-> Cardinality(fresh),
           matches |-> [i \in 1..AtMost(Len(order), MatchesPerSession) |-> match(i)]]
  BY <1>2, <1>3, <1>4, Zenon DEF RankSession, EventsHit, FreshHit, HitsIn, SortedInTime
<1> HIDE DEF own
<1>6. fresh \in SUBSET events /\ events \ fresh \in SUBSET events
  BY DEF FreshHit
<1>7. /\ Cardinality(fresh) \in Nat /\ Enumerates(first, fresh, EventsInTime(own, fresh))
      /\ Cardinality(events \ fresh) \in Nat
      /\ Enumerates(then, events \ fresh, EventsInTime(own, events \ fresh))
  <2> HIDE DEF events, fresh
  <2>1. Cardinality(fresh) \in Nat /\ Enumerates(first, fresh, EventsInTime(own, fresh))
    BY <1>1, <1>2, <1>6, EventsAreSorted DEF events
  <2>2. PICK rest : rest = events \ fresh
    OBVIOUS
  <2>3. Cardinality(rest) \in Nat /\ Enumerates(then, rest, EventsInTime(own, rest))
    BY <1>1, <1>3, <1>6, <2>2, EventsAreSorted DEF events
  <2> QED
    BY <2>1, <2>2, <2>3
<1>8. PICK k \in Nat, l \in Nat : /\ k = Cardinality(fresh) /\ l = Cardinality(events \ fresh)
                                  /\ Cardinality(events) = k + l
  <2>1. IsFiniteSet(events)
    BY <1>1, EventsAreInTime
  <2>2. IsFiniteSet(fresh) /\ IsFiniteSet(events \ fresh)
    BY <1>6, <2>1, FS_Subset
  <2>3. events = fresh \cup (events \ fresh) /\ fresh \cap (events \ fresh) = {}
    BY <1>6
  <2> HIDE DEF events, fresh
  <2>4. PICK rest : rest = events \ fresh
    OBVIOUS
  <2>5. Cardinality(fresh \cup rest) = Cardinality(fresh) + Cardinality(rest) - Cardinality(fresh \cap rest)
    BY <2>2, <2>4, FS_Union
  <2>6. fresh \cap rest = {} /\ fresh \cup rest = events
    BY <2>3, <2>4
  <2>7. Cardinality(fresh \cap rest) = 0
    BY <2>6, FS_EmptySet
  <2>8. Cardinality(events) = Cardinality(fresh) + Cardinality(rest)
    <3>1. PICK a \in Nat, b \in Nat : a = Cardinality(fresh) /\ b = Cardinality(rest)
      BY <1>7, <2>4
    <3>2. Cardinality(fresh \cup rest) = a + b - 0
      BY <2>5, <2>7, <3>1
    <3>3. Cardinality(events) = a + b
      <4>1. Cardinality(events) = Cardinality(fresh \cup rest)
        BY <2>6, Zenon
      <4> QED
        BY <3>1, <3>2, <4>1
    <3> QED
      BY <3>1, <3>3
  <2> QED
    BY <1>7, <2>4, <2>8
<1>9. /\ first \in [1..k -> fresh] /\ \A e \in fresh : \E m \in 1..k : first[m] = e
      /\ then \in [1..l -> events \ fresh]
  BY <1>7, <1>8, Zenon DEF Enumerates
<1> HIDE DEF events, fresh
<1>10. first \in Seq(events) /\ Len(first) = k /\ then \in Seq(events) /\ Len(then) = l
  BY <1>6, <1>9
<1>11. /\ order \in Seq(events) /\ Len(order) = k + l
       /\ \A i \in 1..(k + l) : order[i] = IF i <= k THEN first[i] ELSE then[i - k]
  BY <1>4, <1>10, ConcatProperties
<1>12. ASSUME NEW i \in 1..(k + l), i > k PROVE order[i] \notin fresh
  <2>1. i - k \in 1..l /\ ~(i <= k)
    BY <1>12
  <2>2. order[i] = then[i - k]
    BY <1>11, <2>1
  <2> QED
    BY <1>9, <2>1, <2>2
<1>13. PICK n \in Nat : n = AtMost(k + l, MatchesPerSession) /\ n <= k + l
  <2>1. MatchesPerSession \in Nat
    BY MatchingConstants
  <2> QED
    BY <2>1 DEF AtMost
<1>14. /\ r.session = session /\ r.matchCount = k + l /\ r.newMatchCount = k
       /\ r.matches = [i \in 1..n |-> match(i)]
  <2> HIDE DEF match
  <2> QED
    BY <1>5, <1>8, <1>11, <1>13
<1>15. /\ DOMAIN r.matches = 1..n /\ r.matches = [i \in 1..n |-> r.matches[i]]
       /\ \A i \in 1..n : r.matches[i] = match(i)
  <2> HIDE DEF match
  <2> QED
    BY <1>14
<1>16. \A i \in 1..n : /\ r.matches[i].event = order[i]
                       /\ r.matches[i].new = (order[i] \in fresh)
                       /\ r.matches[i].texts = FragmentTexts(HitsOf(own, order[i]))
  <2>1. \A i : /\ match(i).event = order[i] /\ match(i).new = (order[i] \in fresh)
               /\ match(i).texts = FragmentTexts(HitsOf(own, order[i]))
    OBVIOUS
  <2> HIDE DEF match
  <2> QED
    BY <1>15, <2>1
<1> HIDE DEF match
<1>17. \A i \in 1..n : order[i] \in events
  BY <1>11, <1>13
<1>18. ASSUME NEW i \in 1..n, NEW e \in fresh, order[i] \notin fresh
       PROVE  \E j \in 1..i : r.matches[j].event = e
  <2>1. ~(i <= k)
    <3>1. CASE i <= k
      <4>1. i \in 1..k /\ order[i] = first[i]
        BY <1>11, <1>13, <3>1
      <4> QED
        BY <1>9, <1>18, <4>1
    <3> QED
      BY <3>1
  <2>2. PICK m \in 1..k : first[m] = e
    BY <1>9
  <2>3. m \in 1..i /\ m \in 1..n /\ order[m] = e
    BY <1>11, <1>13, <2>1, <2>2
  <2> QED
    BY <1>16, <2>3
<1>19. /\ \A i \in 1..n : /\ r.matches[i].event \in events
                          /\ r.matches[i].new = (r.matches[i].event \in fresh)
                          /\ r.matches[i].texts = FragmentTexts(HitsOf(own, r.matches[i].event))
       /\ \A i \in 1..n, e \in fresh :
            r.matches[i].event \in fresh \/ \E j \in 1..i : r.matches[j].event = e
  BY <1>16, <1>17, <1>18
<1>20. ShowsMatches(own, r.matches)
  <2>1. /\ n = AtMost(Cardinality(events), MatchesPerSession)
        /\ r.matches = [i \in 1..n |-> r.matches[i]] /\ DOMAIN r.matches = 1..n
    BY <1>8, <1>13, <1>15
  <2> QED
    BY <1>19, <2>1 DEF ShowsMatches, events, fresh
<1> QED
  <2>1. r.session = session /\ IsRanked(own, r)
    BY <1>8, <1>14, <1>20 DEF IsRanked, events, fresh
  <2> QED
    BY <2>1 DEF own

SessionsHit(hits) == {h.session : h \in hits}

\* Sessions by their latest hit, as a relation.
LatestOrder(hits, S) == {p \in S \X S : SessionBefore(hits, p[1], p[2])}

\* What is told of a session with a hit.
LEMMA LatestIsTold ==
  ASSUME NEW hits, HitsAreSound(hits), NEW n \in SessionsHit(hits)
  PROVE  LatestHit(hits, n) \in Int /\ SidOf(hits, n) \in Int /\ n \in Int
<1> DEFINE own == {g \in hits : g.session = n}
           f == [h \in own |-> h.at]
<1>1. PICK h \in hits : h.session = n
  BY DEF SessionsHit
<1>2. n \in Int
  BY <1>1 DEF HitsAreSound
<1>3. SidOf(hits, n) \in Int
  <2>1. PICK g : g = CHOOSE k \in hits : k.session = n
    OBVIOUS
  <2>2. g \in hits
    BY <1>1, <2>1
  <2>3. SidOf(hits, n) = g.sid
    BY <2>1 DEF SidOf
  <2> QED
    BY <2>2, <2>3 DEF HitsAreSound
<1>4. LatestHit(hits, n) \in Int
  <2>1. PICK T : T = {k.at : k \in own}
    OBVIOUS
  <2>2. LatestHit(hits, n) = Max(T)
    BY <2>1, Zenon DEF LatestHit
  <2>3. T = {f[k] : k \in own}
    BY <2>1
  <2>4. h \in own /\ own \in SUBSET hits /\ IsFiniteSet(hits)
    BY <1>1 DEF HitsAreSound
  <2>5. T \subseteq Int /\ T # {}
    BY <2>1, <2>4 DEF HitsAreSound
  <2> HIDE DEF own, f
  <2>6. IsFiniteSet(own)
    BY <2>4, FS_Subset
  <2>7. IsFiniteSet(T)
    BY <2>3, <2>6, ImageIsFinite
  <2>8. Max(T) \in T
    BY <2>5, <2>7, MaxIsGreatest
  <2> QED
    BY <2>2, <2>5, <2>8
<1> QED
  BY <1>2, <1>3, <1>4

\* Sessions with a hit are ordered by the latest one.
LEMMA SessionsAreOrdered ==
  ASSUME NEW hits, HitsAreSound(hits), NEW S, S = SessionsHit(hits)
  PROVE  IsFiniteSet(S) /\ IsOrder(LatestOrder(hits, S), S)
<1> DEFINE late == [n \in S |-> 0 - LatestHit(hits, n)]
           sid == [n \in S |-> SidOf(hits, n)]
           key == [n \in S |-> n]
           Q == {p \in S \X S : sid[p[1]] < sid[p[2]] \/ (sid[p[1]] = sid[p[2]] /\ key[p[1]] < key[p[2]])}
<1>1. IsFiniteSet(S)
  <2> DEFINE f == [h \in hits |-> h.session]
  <2>1. S = {f[h] : h \in hits} /\ IsFiniteSet(hits)
    BY DEF SessionsHit, HitsAreSound
  <2> HIDE DEF f
  <2> QED
    BY <2>1, ImageIsFinite
<1>2. \A n \in S : LatestHit(hits, n) \in Int /\ SidOf(hits, n) \in Int /\ n \in Int
  BY LatestIsTold
<1>3. \A n \in S : /\ late[n] \in Int /\ late[n] = 0 - LatestHit(hits, n)
                   /\ sid[n] \in Int /\ sid[n] = SidOf(hits, n) /\ key[n] \in Int /\ key[n] = n
  BY <1>2
<1>4. \A a, b \in S : <<a, b>> \in Q <=> sid[a] < sid[b] \/ (sid[a] = sid[b] /\ key[a] < key[b])
  BY Zenon
<1> HIDE DEF late, sid, key, Q
<1>5. IsOrder(Q, S)
  <2>1. \A a, b \in S : sid[a] = sid[b] /\ key[a] = key[b] => a = b
    BY <1>3
  <2>2. \A n \in S : sid[n] \in Int /\ key[n] \in Int
    BY <1>3
  <2> QED
    BY <1>4, <2>1, <2>2, NumbersOrder
<1>6. ASSUME NEW a \in S, NEW b \in S
      PROVE  <<a, b>> \in LatestOrder(hits, S) <=> late[a] < late[b] \/ (late[a] = late[b] /\ <<a, b>> \in Q)
  <2>1. <<a, b>> \in LatestOrder(hits, S) <=> SessionBefore(hits, a, b)
    BY DEF LatestOrder
  <2>2. PICK x \in Int, y \in Int : x = LatestHit(hits, a) /\ y = LatestHit(hits, b)
    BY <1>2
  <2>3. late[a] = 0 - x /\ late[b] = 0 - y
    BY <1>3, <2>2
  <2>4. (late[a] < late[b] <=> x > y) /\ (late[a] = late[b] <=> x = y)
    BY <2>3
  <2>5. <<a, b>> \in Q <=> \/ SidOf(hits, a) < SidOf(hits, b)
                           \/ SidOf(hits, a) = SidOf(hits, b) /\ a < b
    BY <1>3, <1>4
  <2> QED
    BY <2>1, <2>2, <2>4, <2>5 DEF SessionBefore
<1>7. /\ \A n \in S : late[n] \in Int
      /\ \A a, b \in S : <<a, b>> \in LatestOrder(hits, S)
           <=> late[a] < late[b] \/ (late[a] = late[b] /\ <<a, b>> \in Q)
  BY <1>3, <1>6
<1>8. IsOrder(LatestOrder(hits, S), S)
  BY <1>5, <1>7, NumberThenOrder
<1> QED
  BY <1>1, <1>8

SortedByLatest(hits, S) == Sorted(S, LAMBDA a, b : SessionBefore(hits, a, b))

\* They are sorted by their latest hit; the number of a session's predecessors is its place.
LEMMA SessionsAreSorted ==
  ASSUME NEW hits, HitsAreSound(hits), NEW S, S = SessionsHit(hits),
         NEW order, order = SortedByLatest(hits, S)
  PROVE  /\ Cardinality(S) \in Nat /\ order \in [1..Cardinality(S) -> S]
         /\ \A n \in 1..Cardinality(S) : Rank(LatestOrder(hits, S), S, order[n]) = n - 1
<1>0. IsFiniteSet(S) /\ IsOrder(LatestOrder(hits, S), S)
  BY SessionsAreOrdered
<1>1. PICK k \in Nat : k = Cardinality(S)
  BY <1>0, FS_CardinalityType
<1> DEFINE at(m) == CHOOSE h \in S : Cardinality({g \in S : SessionBefore(hits, g, h)}) = m - 1
<1>2. order = [m \in 1..k |-> at(m)]
  BY <1>1, Zenon DEF Sorted, SortedByLatest
<1>3. \A m \in 1..k : at(m) = CHOOSE h \in S : Cardinality({g \in S : SessionBefore(hits, g, h)}) = m - 1
  OBVIOUS
<1> HIDE DEF at
<1>5. \A h \in S : {g \in S : SessionBefore(hits, g, h)} = {g \in S : <<g, h>> \in LatestOrder(hits, S)}
  BY DEF LatestOrder
<1>6. \A h \in S : Cardinality({g \in S : SessionBefore(hits, g, h)}) = Rank(LatestOrder(hits, S), S, h)
  BY <1>5 DEF Rank
<1>7. ASSUME NEW m \in 1..k
      PROVE  order[m] \in S /\ Rank(LatestOrder(hits, S), S, order[m]) = m - 1
  <2> DEFINE before(h) == Cardinality({g \in S : SessionBefore(hits, g, h)})
  <2>1. order[m] = CHOOSE h \in S : before(h) = m - 1
    BY <1>2, <1>3
  <2>2. \A h \in S : before(h) = Rank(LatestOrder(hits, S), S, h)
    BY <1>6
  <2> HIDE DEF before
  <2>3. m - 1 \in 0..(k - 1)
    OBVIOUS
  <2>4. \A c \in 0..(k - 1) : \E s \in S : Rank(LatestOrder(hits, S), S, s) = c
    BY <1>0, <1>1, RankIsBijection
  <2>5. PICK s \in S : before(s) = m - 1
    BY <2>2, <2>3, <2>4
  <2>6. order[m] \in S /\ before(order[m]) = m - 1
    BY <2>1, <2>5, Zenon
  <2> QED
    BY <2>2, <2>6
<1>8. order \in [1..k -> S]
  BY <1>2, <1>7
<1> QED
  BY <1>1, <1>7, <1>8

\* A page of ranked sessions: how many sessions there are, and those at its places.
ShowsPage(hits, offset, size, page) ==
  /\ page.total = Cardinality(SessionsHit(hits))
  /\ \E n \in Nat : /\ n = Less(AtMost(offset + size, page.total), offset)
                    /\ page.sessions = [i \in 1..n |-> page.sessions[i]]
  /\ \A i \in DOMAIN page.sessions :
       LET session == page.sessions[i].session
       IN  /\ session \in SessionsHit(hits)
           /\ Cardinality({o \in SessionsHit(hits) : LatestHit(hits, o) > LatestHit(hits, session)})
                < offset + size
           /\ IsRanked(HitsIn(hits, session), page.sessions[i])

\* A page of a search's result.
LEMMA PageIsRanked ==
  ASSUME NEW hits, HitsAreSound(hits), NEW offset \in Nat, NEW size \in Nat,
         NEW page, page = RankSessions(hits, offset, size)
  PROVE  ShowsPage(hits, offset, size, page)
<1>1. PICK S : S = SessionsHit(hits)
  OBVIOUS
<1>2. PICK order : order = SortedByLatest(hits, S)
  OBVIOUS
<1>3. PICK sub : sub = SubSeq(order, offset + 1, AtMost(offset + size, Len(order)))
  OBVIOUS
<1>4. page = [total |-> Len(order), sessions |-> [i \in DOMAIN sub |-> RankSession(hits, sub[i])]]
  BY <1>1, <1>2, <1>3, Zenon DEF RankSessions, SessionsHit, SortedByLatest
<1>5. PICK k \in Nat : /\ k = Cardinality(S) /\ order \in [1..k -> S]
                       /\ \A n \in 1..k : Rank(LatestOrder(hits, S), S, order[n]) = n - 1
  <2>1. /\ Cardinality(S) \in Nat /\ order \in [1..Cardinality(S) -> S]
        /\ \A n \in 1..Cardinality(S) : Rank(LatestOrder(hits, S), S, order[n]) = n - 1
    BY <1>1, <1>2, SessionsAreSorted
  <2> QED
    BY <2>1, Zenon
<1>6. order \in Seq(S) /\ Len(order) = k
  BY <1>5
<1>7. PICK to \in Nat : to = AtMost(offset + size, k) /\ to <= k /\ to <= offset + size
  <2>1. AtMost(offset + size, k) \in Nat /\ AtMost(offset + size, k) <= k
        /\ AtMost(offset + size, k) <= offset + size
    BY DEF AtMost
  <2> QED
    BY <2>1
<1>8. PICK n \in Nat : n = IF offset < to THEN to - offset ELSE 0
  <2>1. (IF offset < to THEN to - offset ELSE 0) \in Nat
    OBVIOUS
  <2> QED
    BY <2>1
<1>9. /\ sub \in Seq(S) /\ Len(sub) = n /\ \A i \in 1..n : sub[i] = order[offset + i]
  <2>1. sub = SubSeq(order, offset + 1, to)
    BY <1>3, <1>6, <1>7
  <2>2. to \in Int /\ to <= Len(order)
    BY <1>6, <1>7
  <2>3. /\ sub \in Seq(S) /\ Len(sub) = IF offset < to THEN to - offset ELSE 0
        /\ \A i \in 1..Len(sub) : sub[i] = order[offset + i]
    BY <1>6, <2>1, <2>2, PageOf
  <2> QED
    BY <1>8, <2>3
<1>10. /\ page.total = k /\ DOMAIN page.sessions = 1..n
       /\ page.sessions = [i \in 1..n |-> page.sessions[i]]
       /\ \A i \in 1..n : page.sessions[i] = RankSession(hits, sub[i])
  <2>1. DOMAIN sub = 1..n
    BY <1>9
  <2> QED
    BY <1>4, <1>6, <2>1
<1>11. n = Less(AtMost(offset + size, k), offset)
  BY <1>7, <1>8 DEF Less
<1>12. ASSUME NEW i \in 1..n
       PROVE  /\ page.sessions[i].session = sub[i] /\ sub[i] \in S
              /\ IsRanked(HitsIn(hits, sub[i]), page.sessions[i])
              /\ Cardinality({o \in S : LatestHit(hits, o) > LatestHit(hits, sub[i])}) < offset + size
  <2>1. page.sessions[i].session = sub[i] /\ IsRanked(HitsIn(hits, sub[i]), page.sessions[i])
    BY <1>10, SessionIsRanked
  <2>2. PICK p \in 1..k : p = offset + i /\ p <= offset + size
    <3>1. offset + i \in 1..k /\ offset + i <= offset + size
      BY <1>7, <1>8
    <3> QED
      BY <3>1
  <2>3. sub[i] = order[p] /\ order[p] \in S /\ Rank(LatestOrder(hits, S), S, order[p]) = p - 1
    BY <1>5, <1>9, <2>2
  <2> DEFINE later == {o \in S : LatestHit(hits, o) > LatestHit(hits, sub[i])}
             ahead == {t \in S : <<t, sub[i]>> \in LatestOrder(hits, S)}
  <2>4. later \subseteq ahead
    BY <2>3 DEF LatestOrder, SessionBefore
  <2>5. IsFiniteSet(ahead)
    <3>1. IsFiniteSet(S)
      BY <1>1, SessionsAreOrdered
    <3> QED
      BY <3>1, FS_Subset
  <2>6. Cardinality(ahead) = p - 1
    BY <2>3 DEF Rank
  <2> HIDE DEF later, ahead
  <2>7. IsFiniteSet(later) /\ Cardinality(later) <= Cardinality(ahead)
    BY <2>4, <2>5, FS_Subset
  <2>8. Cardinality(later) \in Nat
    BY <2>7, FS_CardinalityType
  <2>9. Cardinality(later) < offset + size
    BY <2>2, <2>6, <2>7, <2>8
  <2> QED
    BY <2>1, <2>3, <2>9 DEF later
<1>13. \A i \in 1..n :
         /\ page.sessions[i].session \in S
         /\ Cardinality({o \in S : LatestHit(hits, o) > LatestHit(hits, page.sessions[i].session)})
              < offset + size
         /\ IsRanked(HitsIn(hits, page.sessions[i].session), page.sessions[i])
  BY <1>12
<1> QED
  BY <1>1, <1>5, <1>10, <1>11, <1>13 DEF ShowsPage
=============================================================================
