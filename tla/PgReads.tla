------------------------------- MODULE PgReads -------------------------------
(***************************************************************************)
(* The reads of the PostgreSQL profile (storage/postgres/repository.rs,      *)
(* session_list.rs, session_titles.rs, comparison.rs) and its session search *)
(* (search/mod.rs, search/elasticsearch.rs): Elasticsearch finds documents,   *)
(* and PostgreSQL answers what they are documents of.                        *)
(***************************************************************************)
EXTENDS Reads

-----------------------------------------------------------------------------
(* Structures, headers and segments. *)

StreamEvents(d, n) ==
  Sorted({e \in RowsOf(d) : d.sessions[e.session].pk = n}, SessionOrder)

SessionStructure(d, u, n) ==
  LET own == \E s \in SessionRows(d) : SessionKey[s.key].user = u /\ s.pk = n
  IN  IF own /\ StreamEvents(d, n) # <<>> THEN <<StreamEvents(d, n)>> ELSE NotFound

StructuresOf(d, u, sessions) ==
  [s \in sessions |-> SessionStructure(d, u, d.sessions[s].pk)]

EventLocation(d, u, pk) ==
  LET sessions == {d.sessions[e.session].pk : e \in {f \in RowsOf(d) : f.user = u /\ f.pk = pk}}
      In(n, structure) ==
        IF structure = NotFound \/ EventPosition(Head(structure), pk) = 0 THEN NotFound
        ELSE <<<<n, EventPosition(Head(structure), pk)>>>>
      Located(n) == In(n, SessionStructure(d, u, n))
  IN  IF sessions = {} THEN NotFound ELSE Located(CHOOSE n \in sessions : TRUE)

\* The label of the registered event, whatever event that is.
Title(d, s) == IF d.titles[s] = NoRow THEN Unknown ELSE d.titles[s].pk

SessionHeader(d, u, n) ==
  LET own == {s \in SessionRows(d) : SessionKey[s.key].user = u /\ s.pk = n}
      Of(s, events, structure) ==
        IF events = {} \/ structure = NotFound THEN NotFound
        ELSE <<Header(n, events, Head(structure), Title(d, s.key))>>
  IN  IF own = {} THEN NotFound
      ELSE LET s == CHOOSE t \in own : TRUE
           IN  Of(s, {e \in RowsOf(d) : e.session = s.key}, SessionStructure(d, u, n))

-----------------------------------------------------------------------------
(* Events. *)

NewestFirst(a, b) ==
  \/ a.at > b.at
  \/ a.at = b.at /\ a.kind = "request" /\ b.kind = "response"
  \/ a.at = b.at /\ a.kind = b.kind /\ a.pk > b.pk

LoadFilteredEvents(d, u, q, limit) ==
  LET rows  == {e \in Selected(d, u, q) : q.session \in {None, d.sessions[e.session].pk}}
      order == Sorted(rows, NewestFirst)
  IN  SubSeq(order, q.offset + 1, AtMost(q.offset + limit, Len(order)))

DeviceContexts(d, events) ==
  [k \in {e.device : e \in {f \in Range(events) : d.devices[f.device] # NoRow}} |->
     DeviceKey[k].platform]

LoadAttachments(d, e) ==
  LET order == Sorted({i \in d.images : i.event = e.pk},
                            LAMBDA a, b : a.position < b.position)
  IN  [i \in DOMAIN order |-> [position |-> order[i].position, size |-> order[i].size,
                               available |-> order[i].content # <<>>]]

EventResponses(d, events, content) ==
  LET devices == DeviceContexts(d, events)
      Of(e) == EventResponse(e, IF e.device \in DOMAIN devices THEN devices[e.device] ELSE Unknown,
                             IF content THEN LoadAttachments(d, e) ELSE <<>>, content)
  IN  [i \in DOMAIN events |-> Of(events[i])]

RawEvents(d, u, q, content) ==
  LET size   == NormalizeLimit(q.limit, 100, 1000)
      loaded == LoadFilteredEvents(d, u, q, size + 1)
  IN  IF \E kind \in ExactValuesFilter({q.kind}) : ~ValidKind(kind) THEN Invalid
      ELSE <<RawResponse(EventResponses(d, loaded, content), size, q.offset)>>

UsageEvent(d, u, pk) ==
  LET own == {e \in RowsOf(d) : e.pk = pk /\ e.user = u}
  IN  IF own = {} THEN NotFound ELSE EventResponses(d, SetToSeq(own), TRUE)

EventConversation(d, u, pk, window) ==
  LET event == UsageEvent(d, u, pk)
  IN  IF event = NotFound THEN NotFound ELSE <<Preview(Head(event), window)>>

UsageEvents(d, u, pks) ==
  Range(EventResponses(d, SetToSeq({e \in RowsOf(d) : e.pk \in pks /\ e.user = u}), TRUE))

SessionSegment(d, u, n, head, window) ==
  LET Of(run) == IF run = NotFound THEN NotFound
                 ELSE <<SegmentResponse(Head(run),
                          UsageEvents(d, u, {e.pk : e \in Range(Head(run))}), window)>>
      structure == SessionStructure(d, u, n)
  IN  IF structure = NotFound THEN NotFound ELSE Of(SegmentRun(Head(structure), head))

\* A page of events with each event's place, in one transaction.
LocatedEvents(d, u, q) ==
  LET page == RawEvents(d, u, q, FALSE)
      listed == Head(page).events
  IN  IF page = Invalid THEN Invalid
      ELSE LocateEvents(listed, StructuresOf(d, u, {e.session : e \in Range(listed)}))

ImageAttachment(d, u, pk, position) ==
  LET rows == {i \in d.images : i.event = pk /\ i.position = position /\ i.user = u}
  IN  IF rows = {} THEN NotFound ELSE ImageResponse(CHOOSE i \in rows : TRUE)

-----------------------------------------------------------------------------
(* Summaries: PostgreSQL knows the time zone. *)

SummaryDimensions(q, e) ==
  LET Column(name, value) == IF name \in q.by THEN value ELSE Unknown
  IN  [day |-> IF "day" \in q.by THEN (e.at + Zone[e.at]) \div DayLength ELSE None,
       device |-> Column("device", e.device), agent |-> Column("agent", e.agent),
       provider |-> Column("provider", e.provider), model |-> Column("model", e.model),
       kind |-> Column("event_type", e.kind)]

SummaryRows(q, rows) ==
  LET In(s, g) == {e \in rows : e.session = s /\ SummaryDimensions(q, e) = g}
      groups == {SummaryDimensions(q, e) : e \in rows}
      parts(g) == {s \in {e.session : e \in rows} : In(s, g) # {}}
      Of(g) == UNION {In(s, g) : s \in parts(g)}
  IN  {[group |-> g, count |-> Cardinality(parts(g)),
        sessions |-> {[session |-> s, pks |-> {e.pk : e \in In(s, g)}] : s \in parts(g)},
        tokens |-> Total(Of(g)),
        requests |-> Cardinality({e \in Of(g) : e.kind = "request"})] : g \in groups}

\* ORDER BY total_tokens DESC, agent_name, user_email, day, each ASC NULLS LAST; a summary
\* is of one owner, with one email.
SummaryOrder(a, b) ==
  LET AgentFirst(x, y) == x.agent # Unknown /\ (y.agent = Unknown \/ Collation[x.agent] < Collation[y.agent])
      DayFirst(x, y)   == x.day # None /\ (y.day = None \/ x.day < y.day)
  IN  \/ a.tokens > b.tokens
      \/ a.tokens = b.tokens /\ AgentFirst(a.group, b.group)
      \/ a.tokens = b.tokens /\ ~AgentFirst(b.group, a.group) /\ DayFirst(a.group, b.group)

FirstRows(rows, q) == Limited(rows, {p \in rows \X rows : SummaryOrder(p[1], p[2])}, q)

\* Every answer the order leaves open.  Unlike a list of events, a summary does not take a
\* blank event type for none.
UsageSummary(d, u, q) ==
  LET rows == {e \in Selected(d, u, q) : u \in q.users}
      structures == StructuresOf(d, u, {e.session : e \in rows})
  IN  IF q.kind # Unknown /\ ~ValidKind(q.kind) THEN {Invalid}
      ELSE {SummaryTurns(kept, structures) : kept \in FirstRows(SummaryRows(q, rows), q)}

-----------------------------------------------------------------------------
(* The session list. *)

Activity(d, u, q) ==
  LET Item(s, events) ==
        [pk |-> s.pk, sid |-> SessionKey[s.key].sid, agent |-> SessionKey[s.key].agent,
         platform |-> DeviceKey[s.device].platform, started |-> s.started, ended |-> s.ended,
         last |-> IF events = {} THEN s.started ELSE Max({e.at : e \in events}),
         events |-> Cardinality(events), tokens |-> Total(events), title |-> Title(d, s.key)]
      In(s) == {e \in RowsOf(d) : e.session = s.key}
      Listed(s) ==
        /\ SessionKey[s.key].user = u /\ d.devices[s.device] # NoRow
        /\ AnyOf(q.agents, SessionKey[s.key].agent)
        /\ q.providers = {} \/ \E e \in In(s) : e.provider \in q.providers
        /\ q.models = {} \/ \E e \in In(s) : e.model \in q.models
      Recent(a) == (q.from = None \/ a.last >= q.from) /\ (q.to = None \/ a.started < q.to)
  IN  {a \in {Item(s, In(s)) : s \in {t \in SessionRows(d) : Listed(t)}} : Recent(a)}

LastActiveFirst(a, b) == a.last > b.last \/ (a.last = b.last /\ a.pk > b.pk)

ListSessions(d, u, q) ==
  LET rows  == Activity(d, u, q)
      order == Sorted(rows, LastActiveFirst)
      page  == SubSeq(order, Offset(q) + 1, AtMost(Offset(q) + q.size, Len(order)))
  IN  IF \E item \in Range(page) : SessionStructure(d, u, item.pk) = NotFound THEN NotFound
      ELSE <<ListResponse(q, Cardinality(rows), page)>>

-----------------------------------------------------------------------------
(* Comparisons. *)

ComparisonValue(e, by) ==
  CASE by = "agent" -> e.agent [] by = "model" -> e.model [] by = "provider" -> e.provider
    [] by = "platform" -> DeviceKey[e.device].platform [] by = "all" -> "all"

ComparisonFilters(e, q) ==
  /\ e.at >= Head(q.buckets).start /\ e.at < Last(q.buckets).end
  /\ \A dim \in Dimensions : AnyOf(q.filters[dim], ComparisonValue(e, dim))
  /\ AnyOf(q.filters.session, e.sid)

Compare(d, u, q) ==
  LET rows == {e \in RowsOf(d) : e.user = u /\ d.devices[e.device] # NoRow
                                 /\ ComparisonFilters(e, q)}
      In(b, value) == {e \in rows : e.at >= b.start /\ e.at < b.end
                                    /\ ComparisonValue(e, q.by) = value}
      keys == {k \in Range(q.buckets) \X {ComparisonValue(e, q.by) : e \in rows} :
                 In(k[1], k[2]) # {}}
  IN  {[bucket |-> k[1].start, value |-> k[2], tokens |-> Total(In(k[1], k[2])),
        requests |-> Cardinality({e \in In(k[1], k[2]) : e.kind = "request"})] : k \in keys}

ComparisonOptions(d, u, q) ==
  {<<dim, ComparisonValue(e, dim)>> : dim \in Dimensions, e \in
     {f \in RowsOf(d) : /\ f.user = u /\ d.devices[f.device] # NoRow
                        /\ f.at >= Head(q.buckets).start /\ f.at < Last(q.buckets).end}}

-----------------------------------------------------------------------------
(* Search: a document for each indexed event, and the rows it is a document of. *)

\* The texts and the called tools of a conversation; only calls have a name here.
SearchProjection(entries) ==
  [content |-> SelectSeq([i \in DOMAIN entries |-> entries[i].text], LAMBDA t : t # <<>>),
   tools |-> {entries[i].name : i \in DOMAIN entries} \ {<<>>}]

\* What the index holds of an event.
Document(d, e) ==
  SearchProjection(e.entries) @@
  [event |-> e.pk, user |-> e.user, session |-> d.sessions[e.session].pk, sid |-> e.sid,
   agent |-> e.agent, provider |-> e.provider, model |-> e.model, kind |-> e.kind, at |-> e.at]

\* The documents within the request's filters, the owner's among them.
SearchRequest(documents, u, q) ==
  {doc \in documents :
     /\ doc.user = u /\ InWindow(q, doc.at)
     /\ AnyOf(q.agents, doc.agent) /\ AnyOf(q.providers, doc.provider)
     /\ AnyOf(q.models, doc.model) /\ AnyOf(q.kinds, doc.kind)}

\* One hit for each session, in the order of its best document.
Collapsed(ranking) ==
  FoldLeft(LAMBDA seen, doc : IF doc.session \in Range(seen) THEN seen
                              ELSE Append(seen, doc.session), <<>>, ranking)

\* ranking: the documents that match, the most relevant first.
SearchMatchPage(ranking, q) ==
  LET sessions == Collapsed(ranking)
      page == SubSeq(sessions, Offset(q) + 1, AtMost(Offset(q) + q.size, Len(sessions)))
      Inner(n) == SelectSeq(ranking, LAMBDA doc : doc.session = n)
  IN  [total |-> Len(sessions),
       sessions |-> [i \in DOMAIN page |->
          [session |-> page[i], count |-> Len(Inner(page[i])),
           events |-> SubSeq(Inner(page[i]), 1, AtMost(MatchesPerSession, Len(Inner(page[i]))))]]]

\* Session, device and title of the sessions that are the owner's.
SessionDetails(d, u, pks) ==
  LET rows == {s \in SessionRows(d) : SessionKey[s.key].user = u /\ s.pk \in pks}
      Of(s) == [sid |-> SessionKey[s.key].sid, agent |-> SessionKey[s.key].agent,
                platform |-> DeviceKey[s.device].platform, started |-> s.started,
                ended |-> s.ended, title |-> Title(d, s.key)]
  IN  [n \in {s.pk : s \in rows} |-> Of(CHOOSE s \in rows : s.pk = n)]

\* A hit without details is left out; every match counts as new.
Hydrate(page, q, details) ==
  LET Match(doc) == [event |-> doc.event, at |-> doc.at, new |-> TRUE, kind |-> doc.kind]
      Item(s) ==
        [session |-> s.session, details |-> details[s.session],
         providers |-> {doc.provider : doc \in Range(s.events)},
         models |-> {doc.model : doc \in Range(s.events)},
         matchCount |-> s.count, newMatchCount |-> s.count,
         matches |-> [i \in DOMAIN s.events |-> Match(s.events[i])]]
      shown == SelectSeq(page.sessions, LAMBDA s : s.session \in DOMAIN details)
  IN  [total |-> page.total, more |-> q.page * q.size < page.total,
       items |-> [i \in DOMAIN shown |-> Item(shown[i])]]

\* Elasticsearch has answered; details and structures are read in one snapshot.
SessionSearch(d, u, page, q) ==
  LET found == {s.session : s \in Range(page.sessions)}
  IN  LocateSearchMatches(Hydrate(page, q, SessionDetails(d, u, found)),
                          [n \in found |-> SessionStructure(d, u, n)])
=============================================================================
