------------------------------- MODULE Queries -------------------------------
(***************************************************************************)
(* Reads while collectors ingest.  db is the committed database, which grows  *)
(* by one event at a time (module SqliteStore shows that requests take effect *)
(* one after another).  A read of one transaction is an operator of           *)
(* SqliteReads or PgReads on db; the reader does what takes more than one:    *)
(* it walks through the pages of a list, draws a chart and then asks for its   *)
(* options, or searches Elasticsearch and then reads what was found.          *)
(***************************************************************************)
EXTENDS Reads

CONSTANTS
  Submitted,         \* events that collectors send
  RawQueries,        \* queries of GET /usage/events
  ListQueries,       \* queries of GET /sessions
  SummaryQueries,    \* queries of GET /usage/summary
  ComparisonQueries, \* queries of POST /usage/comparison
  SearchQueries,     \* queries of GET /search/sessions
  Windows            \* windows of GET /usage/events/{id}/conversation and of segments

Sq == INSTANCE SqliteReads
Pg == INSTANCE PgReads

ASSUME QueryConstants ==
  /\ \A s \in Sessions :
       /\ SessionKey[s].sid \in Int /\ SessionKey[s].agent # Unknown
       /\ Binary[SessionKey[s].agent] \in Int /\ Collation[SessionKey[s].agent] \in Int
  /\ \A s \in Submitted :
       /\ s.id \in EventIds /\ s.session \in Sessions /\ s.device \in Devices
       /\ s.at \in Int /\ s.kind \in {"request", "response"} /\ s.tokens \in Nat
       /\ s.newFrom \in Int /\ s.entries \in Seq([name : Seq(Chars), text : Seq(Chars)])
       /\ \A t \in Submitted : s.at..(t.at + 1) \subseteq DOMAIN Zone
  /\ \A q \in RawQueries :
       /\ q.limit \in Int
       /\ {"from", "to", "agents", "sids", "providers", "models", "kind", "session", "limit",
           "offset"} \subseteq DOMAIN q
  /\ \A q \in ListQueries :
       /\ ValidList(q) /\ q.page \in Int /\ q.from \in Int /\ q.to \in Int
       /\ {"from", "to", "agents", "providers", "models", "page", "size"} \subseteq DOMAIN q
  /\ \A q \in SearchQueries :
       /\ ValidSearch(q) /\ q.page \in Int /\ q.size \in Int
       /\ q.text \in Seq(Chars) \ {<<>>}
  /\ \A q \in SummaryQueries : q.limit \in Int
  /\ \A q \in ComparisonQueries :
       /\ ValidComparison(q) /\ q.by \in Dimensions \cup {"all"}
       /\ q.buckets \in Seq([start : Int, end : Int])
  /\ \A window \in Windows : ValidWindow(window)

\* No row is the absent row.
ASSUME RowsArePresent ==
  /\ NoRow \notin [first : Int, last : Int]
  /\ NoRow \notin [pk : Nat, device : Devices, started : Int, ended : Int, revision : Nat]
  /\ NoRow \notin [at : Int, pk : Nat]
  /\ \A s \in Submitted, pk \in Pks : EventRow(SessionKey[s.session].user, s, pk) # NoRow

VARIABLES
  db,      \* the committed database
  reader   \* what the reader is in the middle of

vars == <<db, reader>>

Idle == [job |-> "none"]

Init == db = Empty /\ reader = Idle

\* A collector's event is committed, under an identifier nobody used.
Ingest(s) ==
  /\ db.events[s.id] = NoRow
  /\ \E pk \in Pks \ {e.pk : e \in RowsOf(db)} :
       db' = IngestOne(db, SessionKey[s.session].user, s, pk)
  /\ UNCHANGED reader

-----------------------------------------------------------------------------
(* Pages of events and of sessions, one after the other. *)

\* The owner's sessions and when each was last active.
Lasts(d, u) == {<<s.pk, Max({e.at : e \in {f \in RowsOf(d) : f.session = s.key}})>>
                  : s \in {t \in SessionRows(d) : SessionKey[t.key].user = u}}

WalkEvents(u, q) ==
  /\ reader = Idle /\ Sq!RawEvents(db, u, q, FALSE) # Invalid
  /\ reader' = [job |-> "events", user |-> u, query |-> [q EXCEPT !.offset = 0], seen |-> {},
                due |-> {e.pk : e \in Sq!FilteredEvents(db, u, q)}, done |-> FALSE]
  /\ UNCHANGED db

\* The next page, from next_page_token.
NextEvents ==
  /\ reader.job = "events" /\ ~reader.done
  /\ LET page == Head(Sq!RawEvents(db, reader.user, reader.query, FALSE))
     IN  reader' = [reader EXCEPT
           !.seen = @ \cup {e.pk : e \in Range(page.events)},
           !.query.offset = IF page.next = None THEN @ ELSE page.next,
           !.done = page.next = None]
  /\ UNCHANGED db

WalkSessions(u, q) ==
  /\ reader = Idle
  /\ reader' = [job |-> "sessions", user |-> u, query |-> [q EXCEPT !.page = 1], seen |-> {},
                due |-> {l \in Lasts(db, u) : \E a \in Sq!Filtered(db, u, q) : a.pk = l[1]},
                done |-> FALSE]
  /\ UNCHANGED db

NextSessions ==
  /\ reader.job = "sessions" /\ ~reader.done
  /\ LET page == Head(Sq!ListSessions(db, reader.user, reader.query))
     IN  reader' = [reader EXCEPT
           !.seen = @ \cup {i.pk : i \in Range(page.items)},
           !.query.page = IF page.more THEN @ + 1 ELSE @,
           !.done = ~page.more]
  /\ UNCHANGED db

-----------------------------------------------------------------------------
(* A chart: its rows, and in a second statement its options. *)

ReadChart(u, q) ==
  /\ reader = Idle
  /\ reader' = [job |-> "chart", user |-> u, query |-> q, rows |-> Sq!ComparisonRows(db, u, q)]
  /\ UNCHANGED db

ReadOptions == reader.job = "chart" /\ reader' = Idle /\ UNCHANGED db

-----------------------------------------------------------------------------
(* A search of Elasticsearch, whose index may lag behind the database, and     *)
(* whose analysis and relevance are its own.                                  *)

AskElasticsearch(u, q) ==
  /\ reader = Idle
  /\ \E found \in SUBSET Pg!SearchRequest({Pg!Document(db, e) : e \in RowsOf(db)}, u, q) :
       \E ranking \in SetToSeqs(found) :
         reader' = [job |-> "search", user |-> u, query |-> q,
                    page |-> Pg!SearchMatchPage(ranking, q)]
  /\ UNCHANGED db

AnswerSearch == reader.job = "search" /\ reader' = Idle /\ UNCHANGED db

Leave == reader.job \in {"events", "sessions"} /\ reader.done /\ reader' = Idle /\ UNCHANGED db

Next ==
  \/ \E s \in Submitted : Ingest(s)
  \/ \E u \in Users :
       \/ \E q \in RawQueries : WalkEvents(u, q)
       \/ \E q \in ListQueries : WalkSessions(u, q)
       \/ \E q \in ComparisonQueries : ReadChart(u, q)
       \/ \E q \in SearchQueries : AskElasticsearch(u, q)
  \/ NextEvents \/ NextSessions \/ ReadOptions \/ AnswerSearch \/ Leave

Spec == Init /\ [][Next]_vars

-----------------------------------------------------------------------------
(* Search through the index finds what a scan of the stored conversations does. *)

\* The pieces of the owner's events within the filters that hold the query.
Scan(u, q) ==
  UNION {{[event |-> e.pk, session |-> db.sessions[e.session].pk, at |-> e.at, kind |-> e.kind,
           new |-> e.kind = "response" \/ p.entry >= e.newFrom, entry |-> p.entry,
           field |-> p.field, text |-> p.text]
            : p \in {r \in Range(Pieces(e.entries)) : Matches(q.text, r.text)}}
         : e \in {f \in RowsOf(db) :
                    /\ f.user = u /\ InWindow(q, f.at) /\ AnyOf(q.agents, f.agent)
                    /\ AnyOf(q.providers, f.provider) /\ AnyOf(q.models, f.model)
                    /\ AnyOf(q.kinds, f.kind)}}

Highlighted(fragment) ==
  FlattenSeq([i \in DOMAIN fragment |-> IF fragment[i].highlighted THEN fragment[i].text ELSE <<>>])

\* A shown match: its order, whether it is new, and fragments of its own pieces that
\* show the query.
ShownMatch(hits, q, m) ==
  /\ m.new = \E h \in hits : h.event = m.event /\ h.new
  /\ m.fragments # <<>>
  /\ \A fragment \in Range(m.fragments) :
       /\ Matches(q.text, Highlighted(fragment))
       /\ \E h \in hits : h.event = m.event
            /\ fragment = Fragment(h.text, Occurrences(q.text, h.text))

SessionShown(hits, q, item) ==
  LET own    == {h \in hits : h.session = item.session}
      events == {h.event : h \in own}
      fresh  == {h.event : h \in {g \in own : g.new}}
  IN  /\ item.matchCount = Cardinality(events)
      /\ item.newMatchCount = Cardinality(fresh)
      /\ Len(item.matches) = AtMost(Cardinality(events), MatchesPerSession)
      /\ \A i \in DOMAIN item.matches : ShownMatch(own, q, item.matches[i].match)
      /\ \A i \in DOMAIN item.matches, e \in fresh :
           item.matches[i].match.new \/ \E j \in 1..i : item.matches[j].match.event = e

\* The answer to a query, among the answers to its other pages.
Answered(hits, q, response) ==
  LET latest(n) == Max({h.at : h \in {g \in hits : g.session = n}})
      shown == {i.session : i \in Range(response.items)}
      found == {h.session : h \in hits}
  IN  /\ response.total = Cardinality(found)
      /\ shown \subseteq found
      /\ Len(response.items) = Less(AtMost(q.page * q.size, Cardinality(found)), Offset(q))
      /\ response.more = (q.page * q.size < Cardinality(found))
      /\ \A n \in shown : Cardinality({o \in found : latest(o) > latest(n)}) < q.page * q.size
      /\ \A item \in Range(response.items) : SessionShown(hits, q, item)

\* Whatever the order of arrival, whatever texts owners share, and however short the
\* query or odd its characters, session search through texts, trigrams and references
\* answers what a scan of every stored piece answers.
SearchIsScan ==
  reader = Idle =>
    \A u \in Users, q \in SearchQueries :
      /\ Sq!SessionSearch(db, u, q) # NotFound
      /\ Answered(Scan(u, q), q, Head(Sq!SessionSearch(db, u, q)))

\* The preview of just the entry of a hit, cut to no less than a range of the hit, holds
\* the query at this range.
HitIsShown(u, query, h, ranges) ==
  \A i \in DOMAIN ranges : \A cut \in {None, ranges[i][2]} :
    \A chunks \in {Head(Sq!EventConversation(db, u, h.event,
                       [runs |-> <<Span(h.entry, h.entry)>>, cut |-> cut])).chunks} :
      /\ Len(chunks) = 1 /\ chunks[1].from = h.entry
      /\ LET text == chunks[1].entries[1].text
         IN  \E p \in 0..Len(text) : /\ CharacterOffset(text, p) = ranges[i][1]
                                     /\ Holds(Fold(text), p, Fold(query))

\* A search within a session holds each occurrence of the query in the session, in the
\* order its events happened, or its first MaxInSessionHits hits and that there are more;
\* the position of each points into the preview of its event.
InSessionSearchIsScan ==
  reader = Idle =>
    \A u \in Users, s \in SessionRows(db), q \in SearchQueries :
      LET all == [from |-> None, to |-> None, agents |-> {}, providers |-> {}, models |-> {},
                  kinds |-> {}, text |-> q.text]
          hits == {h \in Scan(u, all) : h.session = s.pk}
          answer == Sq!SearchInSession(db, u, s.pk, q.text)
          Is(a) ==
            /\ a.truncated = (Cardinality(hits) > MaxInSessionHits)
            /\ Len(a.hits) = AtMost(Cardinality(hits), MaxInSessionHits)
            /\ \A i, j \in DOMAIN a.hits : i < j => a.hits[i].at <= a.hits[j].at
            /\ \A i \in DOMAIN a.hits : \E h \in hits :
                 /\ h.event = a.hits[i].event /\ h.entry = a.hits[i].entry
                 /\ h.field = a.hits[i].field
                 /\ h.field = "text" => HitIsShown(u, q.text, h, a.texts[a.hits[i].text])
                 /\ a.texts[a.hits[i].text] = Utf16Ranges(h.text, Occurrences(q.text, h.text))
            /\ DOMAIN a.texts = {a.hits[i].text : i \in DOMAIN a.hits}
      IN  IF SessionKey[s.key].user # u THEN answer = NotFound
          ELSE answer # NotFound /\ Is(Head(answer))

-----------------------------------------------------------------------------
(* What is shown can be opened, by its owner only. *)

\* A preview: the entries its window asks for, each once and in order, a text whole or
\* as long as fits, and the number of the others.
PreviewIsExact(e, window, preview) ==
  LET total == Len(e.entries)
      asked == {i \in 0..(total - 1) :
                  \/ window.runs = <<>>
                  \/ \E run \in Range(window.runs) :
                       IF run.kind = "span" THEN i \in run.from..run.to ELSE i >= total - run.count}
      shown == FlattenSeq([c \in DOMAIN preview.chunks |->
                 [k \in DOMAIN preview.chunks[c].entries |->
                    <<preview.chunks[c].from + k - 1, preview.chunks[c].entries[k].text>>]])
      units(text) == CharacterOffset(text, Len(text))
  IN  /\ {shown[i][1] : i \in DOMAIN shown} = asked
      /\ \A i, j \in DOMAIN shown : i < j => shown[i][1] < shown[j][1]
      /\ preview.omittedEntries + Cardinality(asked) = total
      /\ \A i \in DOMAIN shown :
           LET text == e.entries[shown[i][1] + 1].text
               kept == shown[i][2]
           IN  /\ kept = SubSeq(text, 1, Len(kept))
               /\ window.cut # None => units(kept) <= AtLeast(window.cut, 0)
               /\ kept # text => /\ window.cut # None
                                 /\ units(SubSeq(text, 1, Len(kept) + 1)) > window.cut

Openable(u, n, pk) ==
  /\ Sq!EventLocation(db, u, pk) # NotFound
  /\ Head(Sq!EventLocation(db, u, pk))[1] = n
  /\ Sq!UsageEvent(db, u, pk) # NotFound
  /\ \A window \in Windows : \A segment \in {Sq!SessionSegment(db, u, n, pk, window)} :
       /\ segment # NotFound
       /\ Head(segment)[1].pk = pk
       /\ \A i \in DOMAIN Head(segment) : Head(segment)[i].cards # {}

\* Whatever a list, a page of events or a search shows its owner, its links open: each
\* event has a place in the session it is shown in, and its session a header that
\* counts what the list counts.  Of another owner nothing opens.
ShownOpens ==
  /\ reader = Idle =>
       \A u \in Users :
         /\ \A e \in RowsOf(db) :
              LET n == db.sessions[e.session].pk
              IN  IF e.user = u
                  THEN /\ Openable(u, n, e.pk)
                       /\ \A window \in Windows :
                            PreviewIsExact(e, window, Head(Sq!EventConversation(db, u, e.pk, window)))
                  ELSE /\ Sq!UsageEvent(db, u, e.pk) = NotFound
                       /\ Sq!EventLocation(db, u, e.pk) = NotFound
                       /\ \A window \in Windows : Sq!SessionSegment(db, u, n, e.pk, window) = NotFound
                       /\ Sq!SessionHeader(db, u, n) = NotFound
         /\ \A q \in RawQueries :
              \A page \in {Sq!LocatedEvents(db, u, q)} :
                page # Invalid =>
                  page # NotFound /\ \A i \in DOMAIN Head(page) : Head(page)[i].location # 0
         /\ \A q \in ListQueries :
              \A page \in {Sq!ListSessions(db, u, q)} :
                /\ page # NotFound
                /\ \A item \in Range(Head(page).items) :
                     \A header \in {Sq!SessionHeader(db, u, item.pk)} :
                       /\ header # NotFound
                       /\ Head(header).events = item.events /\ Head(header).tokens = item.tokens
                       /\ Head(header).end = item.last /\ Head(header).title = item.title
  /\ reader.job = "search" =>
       \A response \in {Pg!SessionSearch(db, reader.user, reader.page, reader.query)} :
         /\ response # NotFound
         /\ Head(response).total <= Cardinality({s \in SessionRows(db) :
                                                   SessionKey[s.key].user = reader.user})
         /\ Len(Head(response).items) = Len(reader.page.sessions)
         /\ \A item \in Range(Head(response).items) : \A i \in DOMAIN item.matches :
              /\ item.matches[i].location # 0
              /\ Openable(reader.user, item.session, item.matches[i].match.event)

-----------------------------------------------------------------------------
(* The two profiles. *)

\* Of a summary, what the profiles treat alike: PostgreSQL refuses a blank event type, and
\* a wrong one also where the user filter leaves nothing to summarise.
Comparable(u, q) ==
  /\ q.kind # "blank"
  /\ u \in q.users \/ \A kind \in ExactValuesFilter({q.kind}) : ValidKind(kind)

\* Two answers to a summary: as many rows, and the same ones but for a tie the limit cuts:
\* no row that only one of them shows has more tokens than any row the other shows.
SameSummary(a, b, q) ==
  LET x == Range(Head(a))
      y == Range(Head(b))
  IN  \/ a = Invalid /\ b = Invalid
      \/ /\ a \notin {NotFound, Invalid} /\ b \notin {NotFound, Invalid}
         /\ Len(Head(a)) = Len(Head(b))
         /\ Len(Head(a)) < NormalizeLimit(q.limit, ScanLimit, 100000) => x = y
         /\ \A r \in x, t \in y : (r \notin y => r.group.tokens <= t.group.tokens)
                                  /\ (t \notin x => t.group.tokens <= r.group.tokens)

\* Both profiles answer, and every answer of one agrees with every answer of the other.
SummariesAlike(u, q) ==
  /\ Sq!UsageSummary(db, u, q) # {} /\ Pg!UsageSummary(db, u, q) # {}
  /\ \A a \in Sq!UsageSummary(db, u, q), b \in Pg!UsageSummary(db, u, q) : SameSummary(a, b, q)

\* Every read both profiles have answers the same, the day of an event in a time zone
\* among it, which SQLite looks up in a table of offsets and PostgreSQL computes.  Of a
\* summary this is said of its rows, not of their order: rows with as many tokens come as
\* each profile orders agents and days, or in no order, and where its limit cuts between
\* them the profiles may show different ones.
ProfilesAgree ==
  reader = Idle =>
    \A u \in Users :
      /\ \A q \in RawQueries, content \in BOOLEAN :
           Sq!RawEvents(db, u, q, content) = Pg!RawEvents(db, u, q, content)
      /\ \A q \in ListQueries : Sq!ListSessions(db, u, q) = Pg!ListSessions(db, u, q)
      /\ \A q \in SummaryQueries : Comparable(u, q) => SummariesAlike(u, q)
      /\ \A q \in RawQueries : Sq!LocatedEvents(db, u, q) = Pg!LocatedEvents(db, u, q)
      /\ \A q \in ComparisonQueries :
           /\ Sq!ComparisonRows(db, u, q) = Pg!Compare(db, u, q)
           /\ Sq!ComparisonOptions(db, u, q) = Pg!ComparisonOptions(db, u, q)
      /\ \A s \in SessionRows(db) : Sq!SessionHeader(db, u, s.pk) = Pg!SessionHeader(db, u, s.pk)
      /\ \A e \in RowsOf(db) :
           /\ Sq!UsageEvent(db, u, e.pk) = Pg!UsageEvent(db, u, e.pk)
           /\ Sq!EventLocation(db, u, e.pk) = Pg!EventLocation(db, u, e.pk)
           /\ \A window \in Windows, n \in {db.sessions[e.session].pk} :
                /\ Sq!EventConversation(db, u, e.pk, window) = Pg!EventConversation(db, u, e.pk, window)
                /\ Sq!SessionSegment(db, u, n, e.pk, window) = Pg!SessionSegment(db, u, n, e.pk, window)
           /\ \A position \in 0..MaxImages :
                Sq!ImageAttachment(db, u, e.pk, position) = Pg!ImageAttachment(db, u, e.pk, position)

-----------------------------------------------------------------------------
(* Sums. *)

\* The events of a row of a summary, by their identifiers.
RowPks(r) == UNION {part.pks : part \in r.group.sessions}

\* The turn an event is in as its own place tells, none or one.
OwnTurns(d, u, e) ==
  LET place == Head(Sq!EventLocation(d, u, e.pk))
      turn  == TurnOf(Head(Sq!SessionStructure(d, u, place[1])), place[2])
  IN  IF turn = None THEN {} ELSE {<<e.session, turn>>}

\* Each selected event is counted in one row, or left out of a full summary.
SummaryAgrees(d, u, selected, q, rows) ==
  LET In(r) == {e \in selected : e.pk \in RowPks(r)}
      left  == {e \in selected : \A r \in Range(rows) : e \notin In(r)}
  IN  /\ \A r \in Range(rows) : RowPks(r) \subseteq {e.pk : e \in selected}
      /\ left # {} => Len(rows) = NormalizeLimit(q.limit, ScanLimit, 100000)
      /\ \A e \in left, r \in Range(rows) : e.tokens <= r.group.tokens
      /\ \A i, j \in DOMAIN rows : i # j => RowPks(rows[i]) \cap RowPks(rows[j]) = {}
      /\ \A r \in Range(rows) :
           /\ r.group.tokens = Total(In(r))
           /\ r.group.count = Cardinality({e.session : e \in In(r)})
           /\ r.turns = Cardinality(UNION {OwnTurns(d, u, e) : e \in In(r)})

\* The rows of a chart add up to the owner's events within its buckets and filters.
ChartAgrees(d, u, q) ==
  LET charted == {e \in RowsOf(d) :
        /\ e.user = u /\ e.at >= Head(q.buckets).start /\ e.at < Last(q.buckets).end
        /\ AnyOf(q.filters.session, e.sid)
        /\ \A dim \in Dimensions : AnyOf(q.filters[dim], Sq!Value(e, dim))}
      rows == Sq!ComparisonRows(d, u, q)
  IN  /\ FoldSet(LAMBDA r, n : n + r.tokens, 0, rows) = Total(charted)
      /\ FoldSet(LAMBDA r, n : n + r.requests, 0, rows)
           = Cardinality({e \in charted : e.kind = "request"})

\* Every event a summary or a chart selects is counted in exactly one of its rows, with
\* its tokens and its session, unless a summary has as many rows as its limit and each of
\* them has at least its tokens; the turns of a row are the distinct ones its events are in
\* when each is located by itself, those without a turn left out; the rows of a chart add
\* up to what it was drawn from.
TotalsAgree ==
  reader = Idle =>
    \A u \in Users :
      /\ \A q \in SummaryQueries :
           \A summary \in Sq!UsageSummary(db, u, q) \ {Invalid} :
             /\ summary # NotFound
             /\ SummaryAgrees(db, u, IF u \in q.users THEN Selected(db, u, q) ELSE {}, q, Head(summary))
      /\ \A q \in ComparisonQueries : ChartAgrees(db, u, q)

-----------------------------------------------------------------------------
(* Reads of several steps. *)

\* Every event that was stored before a walk through the pages began was seen when it
\* ends, and every session but those that were active meanwhile.
WalkSeesEverything ==
  /\ reader.job = "events" => (reader.done => reader.due \subseteq reader.seen)
  /\ reader.job = "sessions" =>
       (reader.done => \A l \in reader.due : l \in Lasts(db, reader.user) => l[1] \in reader.seen)

\* The options that are read after a chart's rows, from a later database, offer every
\* value the rows show, and the values of the filters that led to them.
OptionsCoverChart ==
  reader.job = "chart" =>
    LET q == reader.query
        options == Sq!ComparisonOptions(db, reader.user, q)
    IN  /\ \A r \in reader.rows : q.by # "all" => <<q.by, r.value>> \in options
        /\ reader.rows # {} =>
             \A dim \in Dimensions :
               q.filters[dim] # {} => \E value \in q.filters[dim] : <<dim, value>> \in options
=============================================================================
