------------------------------- MODULE Tables -------------------------------
(***************************************************************************)
(* The tables of the database, and what the SQLite profile writes to them    *)
(* for one event and one diagnostic capture (storage/sqlite/repository.rs,   *)
(* search/index.rs, session_titles.rs).  A table is a function from its key  *)
(* to a row, or the set of its rows; foreign keys are keys.  Both profiles   *)
(* have the same tables, and only SQLite those of the text index.            *)
(***************************************************************************)
EXTENDS Matching

CONSTANTS
  Users,        \* owners
  Devices,      \* keys (user_id, host_name, platform)
  DeviceKey,    \* of each device: its owner, host and platform
  Sessions,     \* keys (user_id, agent_name, session_id)
  SessionKey,   \* of each session: its owner, agent and identifier
  EventIds,     \* keys event_id, global to all owners
  CaptureIds,   \* keys (user_id, capture_id)
  Pks,          \* UUIDs of event rows
  NoRow,        \* an absent row
  MaxImages,    \* MAX_IMAGE_ATTACHMENTS_PER_EVENT
  MaxImageBytes \* MAX_IMAGE_ATTACHMENT_BYTES_PER_EVENT

ASSUME TableConstants ==
  /\ Pks \subseteq Nat /\ MaxImages \in Nat /\ MaxImageBytes \in Nat
  /\ \A s \in Sessions : SessionKey[s].user \in Users
  /\ \A d \in Devices : DeviceKey[d].user \in Users

-----------------------------------------------------------------------------
(* Attachments, as they are checked before a transaction is opened. *)

Sizes(images) == FoldLeft(LAMBDA n, image : n + image.size, 0, images)

\* A digest stands for the content it is of; content is absent or one body.
ValidImages(images) ==
  /\ Len(images) <= MaxImages
  /\ Sizes(images) <= MaxImageBytes
  /\ \A i, j \in DOMAIN images :
       /\ images[i].position >= 0
       /\ i # j => images[i].position # images[j].position
       /\ images[i].size \in 1..MaxImageBytes
       /\ \A body \in Range(images[i].content) :
            Len(body) = images[i].size /\ body = images[i].digest

-----------------------------------------------------------------------------
(* One event: what ingest_one_event writes, table by table. *)

Empty ==
  [devices  |-> [d \in Devices |-> NoRow],
   sessions |-> [s \in Sessions |-> NoRow],
   events   |-> [e \in EventIds |-> NoRow],
   titles   |-> [s \in Sessions |-> NoRow],
   captures |-> [c \in CaptureIds |-> NoRow],
   images   |-> {}, texts |-> {}, trigrams |-> {}, refs |-> {}]

UpsertDevice(d, s) ==
  LET old == d.devices[s.device]
  IN  [d EXCEPT !.devices[s.device] =
         IF old = NoRow THEN [first |-> s.at, last |-> s.at]
         ELSE [first |-> AtMost(old.first, s.at), last |-> AtLeast(old.last, s.at)]]

\* Mutant: the session starts and ends with the event that arrived last.
UpsertSessionReplacing(d, s) ==
  LET old == d.sessions[s.session]
  IN  [d EXCEPT !.sessions[s.session] =
         IF old = NoRow
         THEN [pk |-> 1 + Cardinality({t \in Sessions : d.sessions[t] # NoRow}),
               device |-> s.device, started |-> s.at, ended |-> s.at, revision |-> 1]
         ELSE [old EXCEPT !.device = s.device, !.started = s.at, !.ended = s.at,
                          !.revision = @ + 1]]

UpsertSession(d, s) ==
  LET old == d.sessions[s.session]
  IN  [d EXCEPT !.sessions[s.session] =
         IF old = NoRow
         THEN [pk |-> 1 + Cardinality({t \in Sessions : d.sessions[t] # NoRow}),
               device |-> s.device, started |-> s.at, ended |-> s.at, revision |-> 1]
         ELSE [old EXCEPT !.device = s.device,
                          !.started = AtMost(@, s.at), !.ended = AtLeast(@, s.at),
                          !.revision = @ + 1]]

\* The row keeps its stream facts (newFrom) and its conversation.
EventRow(user, s, pk) ==
  [pk |-> pk, user |-> user, session |-> s.session, device |-> s.device,
   agent |-> SessionKey[s.session].agent, sid |-> SessionKey[s.session].sid,
   at |-> s.at, kind |-> s.kind, provider |-> s.provider, model |-> s.model,
   tokens |-> s.tokens, newFrom |-> s.newFrom, entries |-> s.entries]

InsertEvent(d, user, s, pk) == [d EXCEPT !.events[s.id] = EventRow(user, s, pk)]

InsertImages(d, user, s, pk) ==
  [d EXCEPT !.images = @ \cup
     {[user |-> user, event |-> pk, position |-> i.position, size |-> i.size,
       content |-> i.content] : i \in Range(s.images)}]

TextId(texts, user, text) ==
  (CHOOSE t \in texts : t.user = user /\ t.text = text).id

\* Of the pieces of an event those with a text its owner has no row for, each text where
\* it comes first.
NewTexts(d, user, pieces) ==
  {i \in DOMAIN pieces :
     /\ ~ \E t \in d.texts : t.user = user /\ t.text = pieces[i].text
     /\ \A j \in 1..(i - 1) : pieces[j].text # pieces[i].text}

\* Rows are numbered as they are inserted.
NumberOf(d, new, i) == Cardinality(d.texts) + Cardinality({j \in new : j <= i})

\* Mutant: the trigrams of a text are those of the text as it was sent.
IndexEventUnfolded(d, user, s, pk) ==
  LET pieces == Pieces(s.entries)
      new    == NewTexts(d, user, pieces)
      id(i)  == NumberOf(d, new, i)
      texts  == d.texts \cup {[id |-> id(i), user |-> user, text |-> pieces[i].text] : i \in new}
  IN  [d EXCEPT
         !.texts = texts,
         !.trigrams = @ \cup {[rowid |-> id(i), folded |-> pieces[i].text] : i \in new},
         !.refs = @ \cup {[event |-> pk, entry |-> p.entry, field |-> p.field,
                           text |-> TextId(texts, user, p.text)] : p \in Range(pieces)}]

\* Each new text is stored with its folded trigrams; each piece refers to its text.
IndexEvent(d, user, s, pk) ==
  LET pieces == Pieces(s.entries)
      new    == NewTexts(d, user, pieces)
      id(i)  == NumberOf(d, new, i)
      texts  == d.texts \cup {[id |-> id(i), user |-> user, text |-> pieces[i].text] : i \in new}
  IN  [d EXCEPT
         !.texts = texts,
         !.trigrams = @ \cup {[rowid |-> id(i), folded |-> Fold(pieces[i].text)] : i \in new},
         !.refs = @ \cup {[event |-> pk, entry |-> p.entry, field |-> p.field,
                           text |-> TextId(texts, user, p.text)] : p \in Range(pieces)}]

\* Keeps the earliest request of the session.
CaptureTitle(d, s, pk) ==
  LET old == d.titles[s.session]
  IN  IF \/ s.kind = "response"
         \/ old # NoRow /\ (old.at < s.at \/ (old.at = s.at /\ old.pk <= pk))
      THEN d
      ELSE [d EXCEPT !.titles[s.session] = [at |-> s.at, pk |-> pk]]

IngestOne(d, user, s, pk) ==
  IF d.events[s.id] # NoRow THEN d
  ELSE LET upserted == UpsertSession(UpsertDevice(d, s), s)
       IN  CaptureTitle(IndexEvent(InsertImages(InsertEvent(upserted,
             user, s, pk), user, s, pk), user, s, pk), s, pk)

-----------------------------------------------------------------------------
(* One capture. *)

OwnEvents(d, user, ids) == {e \in ids : d.events[e] # NoRow /\ d.events[e].user = user}

Correlated(d, user, ids) ==
  /\ OwnEvents(d, user, ids) = ids
  /\ \A e, f \in ids : /\ d.events[e].session = d.events[f].session
                       /\ d.events[e].device = d.events[f].device

IngestCapture(d, user, c) ==
  IF d.captures[c.id] # NoRow THEN d
  ELSE [d EXCEPT !.captures[c.id] =
          LET e == CHOOSE f \in c.events : TRUE
          IN  [session |-> d.events[e].session, device |-> d.events[e].device,
               events |-> c.events]]
=============================================================================
