---------------------------- MODULE SqliteReads ----------------------------
(***************************************************************************)
(* The reads of the SQLite profile (storage/sqlite/repository.rs,            *)
(* session_list.rs, session_titles.rs, comparison.rs, day_offsets.rs and     *)
(* search/mod.rs), each query with its joins, filters and order.             *)
(***************************************************************************)
EXTENDS Reads

-----------------------------------------------------------------------------
(* Structures, headers and segments. *)

\* Mutant: the session's row is not read, its events are its existence.
SessionStructureUnowned(d, u, n) ==
  LET events == {e \in RowsOf(d) : d.sessions[e.session].pk = n}
  IN  IF events = {} THEN NotFound ELSE <<Sorted(events, SessionOrder)>>

StreamEvents(d, n) ==
  Sorted({e \in RowsOf(d) : d.sessions[e.session].pk = n}, SessionOrder)

\* Events are read by session alone: the owner is checked on the session's row.
SessionStructure(d, u, n) ==
  LET own == {s \in SessionRows(d) : SessionKey[s.key].user = u /\ s.pk = n}
  IN  IF own = {} \/ StreamEvents(d, n) = <<>> THEN NotFound ELSE <<StreamEvents(d, n)>>

StructuresOf(d, u, sessions) ==
  [s \in sessions |-> SessionStructure(d, u, d.sessions[s].pk)]

EventLocation(d, u, pk) ==
  LET own == {e \in RowsOf(d) : e.user = u /\ e.pk = pk}
      At(e, structure) ==
        IF structure = NotFound \/ EventPosition(Head(structure), pk) = 0 THEN NotFound
        ELSE <<<<d.sessions[e.session].pk, EventPosition(Head(structure), pk)>>>>
      Located(e) == At(e, SessionStructure(d, u, d.sessions[e.session].pk))
  IN  IF own = {} THEN NotFound ELSE Located(CHOOSE e \in own : TRUE)

\* The registered request of a session: it has to be a request of that session.
TitleRow(d, s) ==
  LET row == d.titles[s]
      of  == {e \in RowsOf(d) : row # NoRow /\ e.pk = row.pk
                                /\ e.session = s /\ e.kind = "request"}
  IN  IF of = {} THEN Unknown ELSE (CHOOSE e \in of : TRUE).pk

SessionHeader(d, u, n) ==
  LET own    == {s \in SessionRows(d) : SessionKey[s.key].user = u /\ s.pk = n}
      key    == (CHOOSE s \in own : TRUE).key
      events == {e \in RowsOf(d) : e.session = key}
      With(structure) ==
        IF structure = NotFound THEN NotFound
        ELSE <<Header(n, events, Head(structure), TitleRow(d, key))>>
  IN  IF own = {} THEN NotFound
      ELSE IF events = {} THEN NotFound
      ELSE With(SessionStructure(d, u, n))

-----------------------------------------------------------------------------
(* Events. *)

LoadAttachments(d, e) ==
  LET rows == {i \in d.images : i.event = e.pk}
      order == Sorted(rows, LAMBDA a, b : a.position < b.position)
  IN  [i \in DOMAIN order |-> [position |-> order[i].position, size |-> order[i].size,
                               available |-> order[i].content # <<>>]]

EventResponses(d, events, content) ==
  [i \in DOMAIN events |->
     EventResponse(events[i],
                   IF d.devices[events[i].device] = NoRow THEN Unknown
                   ELSE DeviceKey[events[i].device].platform,
                   IF content THEN LoadAttachments(d, events[i]) ELSE <<>>, content)]

UsageEvent(d, u, pk) ==
  LET own == {e \in RowsOf(d) : e.pk = pk /\ e.user = u}
  IN  IF own = {} THEN NotFound
      ELSE <<EventResponses(d, <<CHOOSE e \in own : TRUE>>, TRUE)[1]>>

EventConversation(d, u, pk, window) ==
  LET event == UsageEvent(d, u, pk)
  IN  IF event = NotFound THEN NotFound ELSE <<Preview(Head(event), window)>>

\* The responses of the owner's events among pks.
UsageEvents(d, u, pks) ==
  LET own == Sorted({e \in RowsOf(d) : e.pk \in pks /\ e.user = u},
                          LAMBDA a, b : a.pk < b.pk)
  IN  Range(EventResponses(d, own, TRUE))

SessionSegment(d, u, n, head, window) ==
  LET Of(run) == IF run = NotFound THEN NotFound
                 ELSE <<SegmentResponse(Head(run),
                          UsageEvents(d, u, {e.pk : e \in Range(Head(run))}), window)>>
      structure == SessionStructure(d, u, n)
  IN  IF structure = NotFound THEN NotFound ELSE Of(SegmentRun(Head(structure), head))

NewestFirst(a, b) ==
  \/ a.at > b.at
  \/ a.at = b.at /\ a.kind = "request" /\ b.kind = "response"
  \/ a.at = b.at /\ a.kind = b.kind /\ a.pk > b.pk

FilteredEvents(d, u, q) ==
  {e \in Selected(d, u, q) : q.session = None \/ d.sessions[e.session].pk = q.session}

LoadFilteredEvents(d, u, q, limit) ==
  LET order == Sorted(FilteredEvents(d, u, q), NewestFirst)
  IN  SubSeq(order, q.offset + 1, AtMost(q.offset + limit, Len(order)))

\* One page and, to tell whether there are more, one event after it.
RawEvents(d, u, q, content) ==
  LET size   == NormalizeLimit(q.limit, 100, 1000)
      loaded == LoadFilteredEvents(d, u, q, size + 1)
  IN  IF \E kind \in ExactValuesFilter({q.kind}) : ~ValidKind(kind) THEN Invalid
      ELSE <<RawResponse(EventResponses(d, loaded, content), size, q.offset)>>

\* A page of events with each event's place, in one transaction.
LocatedEvents(d, u, q) ==
  LET page == RawEvents(d, u, q, FALSE)
      listed == Head(page).events
  IN  IF page = Invalid THEN Invalid
      ELSE LocateEvents(listed, StructuresOf(d, u, {e.session : e \in Range(listed)}))

ImageAttachment(d, u, pk, position) ==
  LET rows == {i \in d.images : i.event = pk /\ i.position = position /\ i.user = u}
  IN  IF rows = {} THEN NotFound ELSE ImageResponse(CHOOSE i \in rows : TRUE)

-----------------------------------------------------------------------------
(* Days of a time zone: the changes of its offset are searched for a day at a   *)
(* time, and each is narrowed to its second.                                   *)

\* span[1] keeps the offset at the cursor and span[2] does not.
Narrowed[span \in Int \X Int] ==
  IF span[2] - span[1] <= 1 THEN span[2]
  ELSE LET middle == (span[1] + span[2]) \div 2
       IN  IF Zone[middle] = Zone[span[1]] THEN Narrowed[<<middle, span[2]>>]
           ELSE Narrowed[<<span[1], middle>>]

UtcOffsetChanges(first, last) ==
  LET from[cursor \in Int] ==
        IF cursor >= last THEN <<>>
        ELSE LET next   == AtMost(cursor + DayLength, last)
                 change == Narrowed[<<cursor, next>>]
             IN  IF Zone[next] = Zone[cursor] THEN from[next]
                 ELSE <<[start |-> change, offset |-> Zone[change]]>> \o from[change]
  IN  <<[start |-> first, offset |-> Zone[first]]>> \o from[first]

\* Mutant: an offset holds from the second after its change.
DayOffsetsLate(d, u, q) ==
  LET times   == {e.at : e \in {f \in RowsOf(d) : f.user = u /\ InWindow(q, f.at)}}
      changes == UtcOffsetChanges(Min(times), Max(times) + 1)
  IN  IF times = {} THEN <<[start |-> 0, offset |-> 0]>>
      ELSE [i \in DOMAIN changes |-> IF i = 1 THEN changes[i] ELSE [changes[i] EXCEPT !.start = @ + 1]]

\* The first offset covers every earlier second; without events there are no days.
DayOffsets(d, u, q) ==
  LET times == {e.at : e \in {f \in RowsOf(d) : f.user = u /\ InWindow(q, f.at)}}
  IN  IF times = {} THEN <<[start |-> 0, offset |-> 0]>>
      ELSE UtcOffsetChanges(Min(times), Max(times) + 1)

DayOf(offsets, at) ==
  LET before == {i \in DOMAIN offsets : offsets[i].start <= at}
  IN  (at + offsets[IF before = {} THEN 1 ELSE Max(before)].offset) \div DayLength

-----------------------------------------------------------------------------
(* Summaries: events are grouped by session and dimensions, then by dimensions. *)

GroupOf(d, q, offsets, e) ==
  LET Column(name, value) == IF name \in q.by THEN value ELSE Unknown
  IN  [day |-> IF "day" \in q.by THEN DayOf(offsets, e.at) ELSE None,
       device |-> Column("device", e.device), agent |-> Column("agent", e.agent),
       provider |-> Column("provider", e.provider), model |-> Column("model", e.model),
       kind |-> Column("event_type", e.kind)]

BySession(d, q, offsets, rows) ==
  LET keys == {[group |-> GroupOf(d, q, offsets, e), session |-> e.session] : e \in rows}
      In(k) == {e \in rows : e.session = k.session /\ GroupOf(d, q, offsets, e) = k.group}
  IN  {[key |-> k, pks |-> {e.pk : e \in In(k)}, tokens |-> Total(In(k)),
        requests |-> Cardinality({e \in In(k) : e.kind = "request"})] : k \in keys}

SummaryRows(d, q, offsets, rows) ==
  LET parts == BySession(d, q, offsets, rows)
      In(g) == {p \in parts : p.key.group = g}
  IN  {[group |-> g, count |-> Cardinality(In(g)),
        sessions |-> {[session |-> p.key.session, pks |-> p.pks] : p \in In(g)},
        tokens |-> FoldSet(LAMBDA p, n : n + p.tokens, 0, In(g)),
        requests |-> FoldSet(LAMBDA p, n : n + p.requests, 0, In(g))]
       : g \in {p.key.group : p \in parts}}

\* ORDER BY total_tokens DESC, agent_name ASC, day ASC; NULL is before any value.
SummaryOrder(a, b) ==
  LET AgentFirst(x, y) == y.agent # Unknown /\ (x.agent = Unknown \/ Binary[x.agent] < Binary[y.agent])
      DayFirst(x, y)   == y.day # None /\ (x.day = None \/ x.day < y.day)
  IN  \/ a.tokens > b.tokens
      \/ a.tokens = b.tokens /\ AgentFirst(a.group, b.group)
      \/ a.tokens = b.tokens /\ ~AgentFirst(b.group, a.group) /\ DayFirst(a.group, b.group)

FirstRows(rows, q) == Limited(rows, {p \in rows \X rows : SummaryOrder(p[1], p[2])}, q)

\* Every answer the order leaves open.  q.users are the owners the user filter matches, by
\* identifier, email or name.
UsageSummary(d, u, q) ==
  LET rows    == Selected(d, u, q)
      offsets == IF "day" \in q.by THEN DayOffsets(d, u, q) ELSE <<>>
      structures == StructuresOf(d, u, {e.session : e \in rows})
  IN  IF u \notin q.users THEN {<<<<>>>>}
      ELSE IF \E kind \in ExactValuesFilter({q.kind}) : ~ValidKind(kind) THEN {Invalid}
      ELSE {SummaryTurns(kept, structures)
              : kept \in FirstRows(SummaryRows(d, q, offsets, rows), q)}

-----------------------------------------------------------------------------
(* The session list. *)

\* Sessions with a device, what their events add up to, and the title.
Activity(d, u, q) ==
  LET EventsOf(s) == {e \in RowsOf(d) : e.session = s.key}
      Item(s, events) ==
        [pk |-> s.pk, sid |-> SessionKey[s.key].sid, agent |-> SessionKey[s.key].agent,
         platform |-> DeviceKey[s.device].platform, started |-> s.started, ended |-> s.ended,
         last |-> IF events = {} THEN s.started ELSE Max({e.at : e \in events}),
         events |-> Cardinality(events), tokens |-> Total(events), title |-> TitleRow(d, s.key)]
  IN  {Item(s, EventsOf(s)) : s \in
         {t \in SessionRows(d) :
            /\ SessionKey[t.key].user = u /\ d.devices[t.device] # NoRow
            /\ AnyOf(q.agents, SessionKey[t.key].agent)
            /\ q.providers = {} \/ \E e \in EventsOf(t) : e.provider \in q.providers
            /\ q.models = {} \/ \E e \in EventsOf(t) : e.model \in q.models}}

Filtered(d, u, q) ==
  {a \in Activity(d, u, q) : /\ q.from = None \/ a.last >= q.from
                             /\ q.to = None \/ a.started < q.to}

\* Mutant: a page starts one row too late.
PageLate(order, q) ==
  SubSeq(order, Offset(q) + 2, AtMost(Offset(q) + 1 + q.size, Len(order)))

Page(order, q) == SubSeq(order, Offset(q) + 1, AtMost(Offset(q) + q.size, Len(order)))

LastActiveFirst(a, b) == a.last > b.last \/ (a.last = b.last /\ a.pk > b.pk)

\* A session without a structure fails the page it is on.
ListSessions(d, u, q) ==
  LET rows  == Filtered(d, u, q)
      order == Sorted(rows, LastActiveFirst)
      page  == Page(order, q)
  IN  IF \E item \in Range(page) : SessionStructure(d, u, item.pk) = NotFound THEN NotFound
      ELSE <<ListResponse(q, Cardinality(rows), page)>>

-----------------------------------------------------------------------------
(* Comparisons: two statements without a transaction. *)

Value(e, by) ==
  CASE by = "agent" -> e.agent [] by = "model" -> e.model [] by = "provider" -> e.provider
    [] by = "platform" -> DeviceKey[e.device].platform [] by = "all" -> "all"

ComparisonFilters(e, q) ==
  /\ e.at >= Head(q.buckets).start /\ e.at < Last(q.buckets).end
  /\ \A dim \in Dimensions : AnyOf(q.filters[dim], Value(e, dim))
  /\ AnyOf(q.filters.session, e.sid)

ComparisonRows(d, u, q) ==
  LET rows == {e \in RowsOf(d) : e.user = u /\ d.devices[e.device] # NoRow
                                 /\ ComparisonFilters(e, q)}
      joined == {[start |-> b.start, event |-> e] : b \in Range(q.buckets), e \in rows}
      within == {j \in joined : \E b \in Range(q.buckets) :
                   j.start = b.start /\ j.event.at >= b.start /\ j.event.at < b.end}
      In(k) == {j.event : j \in {i \in within : i.start = k[1] /\ Value(i.event, q.by) = k[2]}}
  IN  {[bucket |-> k[1], value |-> k[2], tokens |-> Total(In(k)),
        requests |-> Cardinality({e \in In(k) : e.kind = "request"})]
       : k \in {<<j.start, Value(j.event, q.by)>> : j \in within}}

\* Mutant: the options are those of the first bucket.
ComparisonOptionsFiltered(d, u, q) ==
  LET rows == {e \in RowsOf(d) :
                 /\ e.user = u /\ d.devices[e.device] # NoRow
                 /\ e.at >= Head(q.buckets).start /\ e.at < Head(q.buckets).end}
  IN  {<<dim, Value(e, dim)>> : dim \in Dimensions, e \in rows}

ComparisonOptions(d, u, q) ==
  LET rows == {e \in RowsOf(d) :
                 /\ e.user = u /\ d.devices[e.device] # NoRow
                 /\ e.at >= Head(q.buckets).start /\ e.at < Last(q.buckets).end}
  IN  {<<dim, Value(e, dim)>> : dim \in Dimensions, e \in rows}

-----------------------------------------------------------------------------
(* Search through the index of texts. *)

\* The owner's texts with every trigram of the query, or all of them when it has
\* none; in a session, those its events refer to.
Candidates(d, u, query, session) ==
  LET terms == TrigramExpression(query)
      found == {t \in d.texts :
                  /\ t.user = u
                  /\ terms = {} \/ \E f \in d.trigrams :
                                      f.rowid = t.id /\ MatchesExpression(f.folded, terms)}
      events == {e.pk : e \in {f \in RowsOf(d) : f.user = u /\ f.session = session}}
  IN  IF session = Unknown THEN found
      ELSE {t \in found : \E r \in d.refs : r.event \in events /\ r.text = t.id}

HitRow(d, r, e) ==
  [session |-> d.sessions[e.session].pk, sid |-> e.sid, event |-> e.pk, at |-> e.at,
   entry |-> r.entry, field |-> r.field, text |-> r.text,
   new |-> IsNew(e.kind, e.newFrom, r.entry)]

\* The pieces of the owner's events that refer to the texts, within the filters.
SessionHits(d, u, texts, q) ==
  {HitRow(d, j[1], j[2]) : j \in
     {k \in d.refs \X RowsOf(d) :
        /\ k[1].text \in texts /\ k[1].event = k[2].pk
        /\ k[2].user = u /\ InWindow(q, k[2].at)
        /\ AnyOf(q.agents, k[2].agent) /\ AnyOf(q.providers, k[2].provider)
        /\ AnyOf(q.models, k[2].model) /\ AnyOf(q.kinds, k[2].kind)}}

TextOf(d, id) == (CHOOSE t \in d.texts : t.id = id).text

\* Session and device columns of the page's sessions, with their titles.
SessionDetails(d, u, pks) ==
  LET rows == {s \in SessionRows(d) : SessionKey[s.key].user = u /\ s.pk \in pks}
      Row(n) == CHOOSE s \in rows : s.pk = n
  IN  [n \in {s.pk : s \in rows} |->
         [sid |-> SessionKey[Row(n).key].sid, agent |-> SessionKey[Row(n).key].agent,
          platform |-> DeviceKey[Row(n).device].platform, started |-> Row(n).started,
          ended |-> Row(n).ended, title |-> TitleRow(d, Row(n).key)]]

MatchedEvents(d, u, pks) ==
  LET own == {e \in RowsOf(d) : e.user = u /\ e.pk \in pks}
  IN  [pk \in {e.pk : e \in own} |->
         LET e == CHOOSE f \in own : f.pk = pk
         IN  [kind |-> e.kind, provider |-> e.provider, model |-> e.model]]

Fragments(d, u, query, texts) ==
  [id \in {t.id : t \in {c \in d.texts : c.user = u /\ c.id \in texts}} |->
     Fragment(TextOf(d, id), Occurrences(query, TextOf(d, id)))]

\* Candidates are verified, their hits are ranked, and the page is filled in.
SessionSearch(d, u, q) ==
  LET matching == {t.id : t \in {c \in Candidates(d, u, q.text, Unknown) : Matches(q.text, c.text)}}
      Filled(page) ==
        IntoResponse(page, Offset(q), q.size,
                     SessionDetails(d, u, {s.session : s \in Range(page.sessions)}),
                     MatchedEvents(d, u, ShownEvents(page)),
                     Fragments(d, u, q.text, PageTexts(page)))
      Located(response) ==
        LocateSearchMatches(response, [n \in {i.session : i \in Range(response.items)} |->
                                         SessionStructure(d, u, n)])
  IN  Located(Filled(RankSessions(SessionHits(d, u, matching, q), Offset(q), q.size)))

\* By observation, event and place.
HitBefore(a, b) ==
  \/ a.at < b.at
  \/ a.at = b.at /\ a.event < b.event
  \/ a.event = b.event /\ a.entry < b.entry
  \/ a.event = b.event /\ a.entry = b.entry /\ a.field = "name" /\ b.field = "text"

\* One more of them than the response holds.
HitsInSession(d, u, key, texts) ==
  LET hits == {HitRow(d, j[1], j[2]) : j \in
                 {k \in d.refs \X RowsOf(d) :
                    /\ k[2].user = u /\ k[2].session = key
                    /\ k[1].event = k[2].pk /\ k[1].text \in texts}}
      order == Sorted(hits, HitBefore)
  IN  SubSeq(order, 1, AtMost(MaxInSessionHits + 1, Len(order)))

SearchInSession(d, u, n, query) ==
  LET own == {s \in SessionRows(d) : SessionKey[s.key].user = u /\ s.pk = n}
      key == (CHOOSE s \in own : TRUE).key
      found == {t \in Candidates(d, u, query, key) : Occurrences(query, t.text) # <<>>}
      ranges == [id \in {t.id : t \in found} |->
                   Utf16Ranges(TextOf(d, id), Occurrences(query, TextOf(d, id)))]
      hits == HitsInSession(d, u, key, DOMAIN ranges)
      structure == SessionStructure(d, u, n)
      At(h) == [h EXCEPT !.session = EventPosition(Head(structure), h.event)]
  IN  IF own = {} THEN NotFound
      ELSE IF hits # <<>> /\ structure = NotFound THEN NotFound
      ELSE <<FromHits([i \in DOMAIN hits |-> At(hits[i])], ranges)>>
=============================================================================
