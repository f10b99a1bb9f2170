------------------------------- MODULE Reads -------------------------------
(***************************************************************************)
(* What the reads of both profiles share: validation, the structure of a     *)
(* session, and the responses (usage/*.rs, storage/event_locations.rs).      *)
(*                                                                         *)
(* A read is an operator on a committed database, for an owner and a query.  *)
(* It answers <<body>>, NotFound or Invalid.  The structure of a session is  *)
(* represented by what it is derived from, its events in session order;      *)
(* modules StreamBase to StreamTimeline model the derivation.               *)
(***************************************************************************)
EXTENDS Tables, Previews

CONSTANTS
  Zone,        \* of each second: the time zone's offset from UTC
  DayLength,   \* DAY_SECONDS
  ScanLimit,   \* ABYSS_SUMMARY_SCAN_LIMIT, of the configuration
  Unknown,     \* a list item or a column that is NULL
  TurnOf(_, _), \* the number of the turn at a position of a structure, None without one
  Binary,      \* of each agent: the place of its name in SQLite's order of texts
  Collation    \* of each agent: its place in the order of the PostgreSQL database

ASSUME ReadConstants == DayLength \in Nat \ {0} /\ ScanLimit \in Nat \ {0}

\* "no zone changes its offset more than once a day" (DAY_SECONDS in day_offsets.rs).
Changes(second) == second - 1 \in DOMAIN Zone /\ Zone[second - 1] # Zone[second]

ASSUME ZoneConstants ==
  /\ DOMAIN Zone \subseteq Int /\ \A t \in DOMAIN Zone : Zone[t] \in Int
  /\ \A s, t \in DOMAIN Zone : Changes(s) /\ Changes(t) /\ s < t => t - s >= DayLength

NotFound == <<>>
Invalid  == <<"invalid", "query">>

AnyOf(values, value) == values = {} \/ value \in values

InWindow(q, at) == (q.from = None \/ at >= q.from) /\ (q.to = None \/ at < q.to)

\* The rows of a table that is given as a function.
RowsOf(d) == {d.events[e] : e \in {f \in EventIds : d.events[f] # NoRow}}

SessionRows(d) ==
  {[pk |-> d.sessions[s].pk, key |-> s, device |-> d.sessions[s].device,
    started |-> d.sessions[s].started, ended |-> d.sessions[s].ended]
     : s \in {t \in Sessions : d.sessions[t] # NoRow}}

Total(rows) == FoldSet(LAMBDA e, n : n + e.tokens, 0, rows)

-----------------------------------------------------------------------------
(* Validation of queries. *)

\* Absent and blank values are dropped; what is left is compared exactly.
ExactValuesFilter(values) == {v \in values : v # "blank" /\ v # Unknown}

\* What validate_event_type accepts.
ValidKind(kind) == kind \in {"request", "response"}

NormalizeLimit(limit, fallback, maximum) ==
  AtLeast(1, AtMost(maximum, IF limit = None THEN fallback ELSE limit))

MaxPageSize == 100

ValidList(q) ==
  /\ q.from = None \/ q.to = None \/ q.from < q.to
  /\ q.page >= 1 /\ q.size \in 1..MaxPageSize

Offset(q) == (q.page - 1) * q.size

MaxSearchPageSize == 50
MaxResultWindow   == 10000

ValidSearch(q) ==
  /\ q.from = None \/ q.to = None \/ q.from < q.to
  /\ q.page >= 1 /\ q.size \in 1..MaxSearchPageSize
  /\ Offset(q) + q.size <= MaxResultWindow
  /\ \A kind \in q.kinds : ValidKind(kind)

Dimensions == {"agent", "model", "provider", "platform"}

ValidComparison(q) ==
  /\ q.buckets # <<>> /\ Len(q.buckets) <= 400
  /\ Last(q.buckets).end - Head(q.buckets).start <= 367 * DayLength
  /\ \A i \in DOMAIN q.buckets : q.buckets[i].start < q.buckets[i].end
  /\ \A i \in 1..(Len(q.buckets) - 1) : q.buckets[i].end = q.buckets[i + 1].start
  /\ \A dim \in DOMAIN q.filters : "blank" \notin q.filters[dim]
  /\ q.by # "all" => q.filters[q.by] = {}

\* The owner's events within the filters that lists and summaries share.
Selected(d, u, q) ==
  {e \in RowsOf(d) :
     /\ e.user = u /\ InWindow(q, e.at)
     /\ AnyOf(ExactValuesFilter(q.agents), e.agent)
     /\ AnyOf(ExactValuesFilter(q.sids), e.sid)
     /\ AnyOf(ExactValuesFilter(q.providers), e.provider)
     /\ AnyOf(ExactValuesFilter(q.models), e.model)
     /\ AnyOf(ExactValuesFilter({q.kind}), e.kind)}

-----------------------------------------------------------------------------
(* Structures and locations. *)

SessionOrder(a, b) ==
  \/ a.at < b.at
  \/ a.at = b.at /\ a.kind = "request" /\ b.kind = "response"
  \/ a.at = b.at /\ a.kind = b.kind /\ a.pk < b.pk

\* The position of an event in a structure, 0 where it is not part of it.
EventPosition(structure, pk) ==
  IF \E i \in DOMAIN structure : structure[i].pk = pk
  THEN CHOOSE i \in DOMAIN structure : structure[i].pk = pk
  ELSE 0

\* From an event to the end of the structure: here a session is one segment.
SegmentRun(structure, head) ==
  IF EventPosition(structure, head) = 0 THEN NotFound
  ELSE <<SubSeq(structure, EventPosition(structure, head), Len(structure))>>

\* Each listed event with its place; structures answers each session's structure.
LocateEvents(events, structures) ==
  IF \E e \in Range(events) : structures[e.session] = NotFound THEN NotFound
  ELSE <<[i \in DOMAIN events |->
            [event |-> events[i],
             location |-> EventPosition(Head(structures[events[i].session]), events[i].pk)]]>>

\* Each shown match with its place in the structure of its session; a result that
\* shows no match is left alone.
LocateSearchMatches(response, structures) ==
  LET Located(item) ==
        [item EXCEPT !.matches =
           [i \in DOMAIN item.matches |->
              [match |-> item.matches[i],
               location |-> EventPosition(Head(structures[item.session]), item.matches[i].event)]]]
  IN  IF \E item \in Range(response.items) :
           item.matches # <<>> /\ structures[item.session] = NotFound
      THEN NotFound
      ELSE <<[response EXCEPT !.items =
                [i \in DOMAIN response.items |-> Located(response.items[i])]]>>

\* Mutant: the events with a turn are counted, not their turns.
TurnsPerEvent(structure, pks) ==
  {pk \in {n \in pks : EventPosition(structure, n) # 0} :
     TurnOf(structure, EventPosition(structure, pk)) # None}

\* The distinct turns of some events of a session; an event without a place, or at a place
\* without a turn, has none.
DistinctTurns(structure, pks) ==
  {TurnOf(structure, EventPosition(structure, pk))
     : pk \in {n \in pks : EventPosition(structure, n) # 0}} \ {None}

\* Each group with its turns: per session those its events fall in, summed over sessions.
SummaryTurns(groups, structures) ==
  LET Turns(part) == Cardinality(DistinctTurns(Head(structures[part.session]), part.pks))
  IN  IF \E g \in Range(groups) : \E part \in g.sessions : structures[part.session] = NotFound
      THEN NotFound
      ELSE <<[i \in DOMAIN groups |->
                [group |-> groups[i],
                 turns |-> FoldSet(LAMBDA part, n : n + Turns(part), 0, groups[i].sessions)]]>>

\* Of the rows of a summary as many as its limit, the first ones by an order, a set of pairs.
\* Rows the order does not tell apart come, or stay out, in any way: all answers there can be.
Limited(rows, order, q) ==
  {kept \in [1..AtMost(NormalizeLimit(q.limit, ScanLimit, 100000), Cardinality(rows)) -> rows] :
     /\ \A i, j \in DOMAIN kept : i < j => kept[i] # kept[j] /\ <<kept[j], kept[i]>> \notin order
     /\ \A i \in DOMAIN kept, left \in rows \ Range(kept) : <<left, kept[i]>> \notin order}

-----------------------------------------------------------------------------
(* Responses. *)

\* Without content, neither the conversation nor what belongs to it is read.
EventResponse(e, platform, images, content) ==
  [pk |-> e.pk, session |-> e.session, at |-> e.at, kind |-> e.kind, agent |-> e.agent,
   sid |-> e.sid, platform |-> platform, provider |-> e.provider, model |-> e.model,
   tokens |-> e.tokens, entries |-> IF content THEN e.entries ELSE <<>>, images |-> images]

\* The exchanges of a run with what their cards show; here one event is one exchange.
SegmentResponse(run, responses, window) ==
  LET Card(r) == [at |-> r.at, model |-> r.model, tokens |-> r.tokens,
                  preview |-> Preview(r, window)]
  IN  [i \in DOMAIN run |->
         [pk |-> run[i].pk, cards |-> {Card(r) : r \in {s \in responses : s.pk = run[i].pk}}]]

Header(n, events, structure, title) ==
  [pk        |-> n,
   sid       |-> (CHOOSE e \in events : TRUE).sid,
   title     |-> title,
   agents    |-> {e.agent : e \in events},
   start     |-> Min({e.at : e \in events}),
   end       |-> Max({e.at : e \in events}),
   events    |-> Cardinality(events),
   structure |-> structure,
   tokens    |-> Total(events),
   providers |-> {e.provider : e \in events},
   models    |-> {e.model : e \in events}]

ListResponse(q, total, items) ==
  [total |-> total, more |-> Offset(q) + Len(items) < total, items |-> items]

RawResponse(events, size, offset) ==
  [events |-> SubSeq(events, 1, AtMost(size, Len(events))),
   next |-> IF Len(events) > size THEN offset + size ELSE None]

\* A stored image's content, or "not found" when only its digest was sent.
ImageResponse(row) ==
  IF row.content = <<>> THEN NotFound
  ELSE IF Len(Head(row.content)) # row.size THEN <<"internal error">>
  ELSE <<Head(row.content)>>
=============================================================================
