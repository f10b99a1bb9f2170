------------------------------ MODULE Matching ------------------------------
(***************************************************************************)
(* Literal matching and ranking shared by the search backends               *)
(* (search/matching/): folding, the pieces of an event, trigram candidates,  *)
(* occurrences, fragments, and the order and bounds of results.             *)
(*                                                                         *)
(* A text is a sequence of characters, and a position is the number of      *)
(* characters before it.  The conversion of positions to bytes is the       *)
(* identity here; that to UTF-16 code units is CharacterOffsets.            *)
(***************************************************************************)
EXTENDS Integers, Sequences, FiniteSets, SequencesExt, FiniteSetsExt

CONSTANTS
  Chars,              \* characters, as numbers
  FoldChar,           \* of each character: its lower case, if that is one character
  Units,              \* of each character: its UTF-16 code units
  NUL,                \* the character an FTS5 string ends at
  Ellipsis,           \* marks the side where a fragment cuts its text
  FragmentCharacters, \* FRAGMENT_CHARACTERS
  MatchesPerSession,  \* MATCHES_PER_SESSION
  FragmentsPerMatch,  \* FRAGMENTS_PER_MATCH
  MaxInSessionHits    \* MAX_IN_SESSION_HITS

ASSUME MatchingConstants ==
  /\ FoldChar \in [Chars -> Chars] /\ Units \in [Chars -> {1, 2}]
  /\ \A c \in Chars : FoldChar[FoldChar[c]] = FoldChar[c]
  /\ NUL \in Chars /\ FoldChar[NUL] = NUL /\ Ellipsis \notin Chars
  /\ {FragmentCharacters, MatchesPerSession, FragmentsPerMatch, MaxInSessionHits}
       \subseteq Nat \ {0}

None == -1

AtLeast(a, b) == IF a < b THEN b ELSE a
AtMost(a, b)  == IF a < b THEN a ELSE b
Less(a, b)    == IF a < b THEN 0 ELSE a - b

\* The members of S one after the other, as a strict total order has them.
Sorted(S, Before(_, _)) ==
  [n \in 1..Cardinality(S) |->
     CHOOSE s \in S : Cardinality({t \in S : Before(t, s)}) = n - 1]

\* Those of a sequence that are in S, in their order.
Among(seq, S) ==
  LET at == Sorted({i \in DOMAIN seq : seq[i] \in S}, LAMBDA i, j : i < j)
  IN  [n \in DOMAIN at |-> seq[at[n]]]

-----------------------------------------------------------------------------
(* The pattern: its candidates and its occurrences. *)

Fold(text) == [i \in DOMAIN text |-> FoldChar[text[i]]]

Holds(text, at, part) ==
  at + Len(part) <= Len(text) /\ SubSeq(text, at + 1, at + Len(part)) = part

TrigramsOf(text) == {SubSeq(text, i, i + 2) : i \in 1..(Len(text) - 2)}

\* Mutant: the last trigram with a NUL is kept, as a term no text matches.
TrigramExpressionWithNul(query) == TrigramsOf(Fold(query))

\* Every trigram of the folded query that holds no NUL; none: no expression.
TrigramExpression(query) == {t \in TrigramsOf(Fold(query)) : NUL \notin Range(t)}

\* FTS5 skips the NULs of a text it indexes; a quoted string ends at its NUL, and
\* one that is shorter than a trigram matches nothing.
MatchesTerm(folded, term) ==
  /\ NUL \notin Range(term)
  /\ \E i, j, k \in DOMAIN folded :
       /\ i < j /\ j < k /\ term = <<folded[i], folded[j], folded[k]>>
       /\ \A skipped \in (i..k) \ {i, j, k} : folded[skipped] = NUL

MatchesExpression(folded, terms) == \A t \in terms : MatchesTerm(folded, t)

Matches(query, text) ==
  \E at \in 0..Len(text) : Holds(Fold(text), at, Fold(query))

\* Non-overlapping occurrences, left to right.
Occurrences(query, text) ==
  LET q == Fold(query)
      f == Fold(text)
      from[at \in 0..Len(f)] ==
        IF at + Len(q) > Len(f) THEN <<>>
        ELSE IF Holds(f, at, q)
             THEN <<[start |-> at, end |-> at + Len(q)]>> \o from[at + Len(q)]
             ELSE from[at + 1]
  IN  from[0]

\* The offset of a character position in code units; past the end it is the end's.
CharacterOffset(text, position) ==
  FoldLeft(LAMBDA n, c : n + Units[c], 0,
           SubSeq(text, 1, AtMost(position, Len(text))))

Utf16Ranges(text, ranges) ==
  [i \in DOMAIN ranges |-> <<CharacterOffset(text, ranges[i].start),
                             CharacterOffset(text, ranges[i].end)>>]

-----------------------------------------------------------------------------
(* Fragments. *)

\* About FragmentCharacters characters with the first occurrence in the middle.
Window(first, characters) ==
  LET length == first.end - first.start
      width  == AtLeast(FragmentCharacters, length)
      start  == Less(first.start, (width - length) \div 2)
      end    == AtMost(characters, start + width)
  IN  [start |-> AtMost(Less(end, width), start), end |-> end]

Segment(text, start, end, highlighted) ==
  IF start = end THEN <<>>
  ELSE <<[text |-> SubSeq(text, start + 1, end), highlighted |-> highlighted]>>

Plain(text) == [text |-> text, highlighted |-> FALSE]

CutLeft(segments) ==
  IF segments # <<>> /\ ~Head(segments).highlighted
  THEN <<Plain(<<Ellipsis>> \o Head(segments).text)>> \o Tail(segments)
  ELSE <<Plain(<<Ellipsis>>)>> \o segments

CutRight(segments) ==
  IF segments # <<>> /\ ~Last(segments).highlighted
  THEN Front(segments) \o <<Plain(Last(segments).text \o <<Ellipsis>>)>>
  ELSE segments \o <<Plain(<<Ellipsis>>)>>

\* The occurrences in a window, cut where it cuts them.
Visible(occurrences, window) ==
  LET inside == Among(occurrences, {o \in Range(occurrences) :
                                      o.start < window.end /\ o.end > window.start})
  IN  [i \in DOMAIN inside |-> [start |-> AtLeast(inside[i].start, window.start),
                                end |-> AtMost(inside[i].end, window.end)]]

\* The segments from the end of the visible occurrence before the i-th to its own end.
SegmentsTo(text, window, visible, i) ==
  LET from == IF i = 1 THEN window.start ELSE visible[i - 1].end
  IN  Segment(text, from, visible[i].start, FALSE)
        \o Segment(text, visible[i].start, visible[i].end, TRUE)

Fragment(text, occurrences) ==
  LET window  == Window(Head(occurrences), Len(text))
      visible == Visible(occurrences, window)
      last    == IF visible = <<>> THEN window.start ELSE Last(visible).end
      whole   == FlattenSeq([i \in DOMAIN visible |-> SegmentsTo(text, window, visible, i)])
                   \o Segment(text, last, window.end, FALSE)
      left    == IF window.start > 0 THEN CutLeft(whole) ELSE whole
  IN  IF window.end < Len(text) THEN CutRight(left) ELSE left

-----------------------------------------------------------------------------
(* The pieces of an event, and which hits are new. *)

\* The nonempty name and text of each entry, in this order; entries count from 0.
Pieces(entries) ==
  LET Of(i, field) == IF entries[i][field] = <<>> THEN <<>>
                      ELSE <<[entry |-> i - 1, field |-> field, text |-> entries[i][field]]>>
  IN  FlattenSeq([i \in DOMAIN entries |-> Of(i, "name") \o Of(i, "text")])

\* Every hit of a response, and a request's from its first new entry on.
IsNew(kind, newFrom, entry) ==
  kind = "response" \/ entry >= (IF newFrom = None THEN 0 ELSE newFrom)

-----------------------------------------------------------------------------
(* Ranking.  A hit has the fields session, sid, event, at, entry, field, text  *)
(* and new; sessions and events are given by their keys, numbers here.         *)

PieceBefore(a, b) ==
  IF a.new # b.new THEN a.new
  ELSE IF a.entry # b.entry THEN a.entry < b.entry
  ELSE a.field = "name" /\ b.field = "text"

HitsOf(hits, event) == {h \in hits : h.event = event}

HasNew(hits, event) == \E h \in HitsOf(hits, event) : h.new

\* The first distinct texts of an event's hits, new ones first.
FragmentTexts(hits) ==
  LET firsts == {h \in hits : ~ \E g \in hits : g.text = h.text /\ PieceBefore(g, h)}
      order  == Sorted(firsts, PieceBefore)
  IN  [i \in 1..AtMost(Len(order), FragmentsPerMatch) |-> order[i].text]

AtOf(hits, event) == (CHOOSE h \in hits : h.event = event).at

EventBefore(hits, a, b) ==
  \/ AtOf(hits, a) < AtOf(hits, b)
  \/ AtOf(hits, a) = AtOf(hits, b) /\ a < b

\* A session's result: its events with a new hit first, each part by time and key.
RankSession(hits, session) ==
  LET own    == {h \in hits : h.session = session}
      events == {h.event : h \in own}
      fresh  == {e \in events : HasNew(own, e)}
      order  == Sorted(fresh, LAMBDA a, b : EventBefore(own, a, b))
                  \o Sorted(events \ fresh, LAMBDA a, b : EventBefore(own, a, b))
  IN  [session |-> session, matchCount |-> Cardinality(events),
       newMatchCount |-> Cardinality(fresh),
       matches |->
         [i \in 1..AtMost(Len(order), MatchesPerSession) |->
            [event |-> order[i], at |-> AtOf(own, order[i]),
             new |-> order[i] \in fresh,
             texts |-> FragmentTexts(HitsOf(own, order[i]))]]]

LatestHit(hits, session) == Max({h.at : h \in {g \in hits : g.session = session}})

SidOf(hits, session) == (CHOOSE h \in hits : h.session = session).sid

SessionBefore(hits, a, b) ==
  \/ LatestHit(hits, a) > LatestHit(hits, b)
  \/ /\ LatestHit(hits, a) = LatestHit(hits, b)
     /\ \/ SidOf(hits, a) < SidOf(hits, b)
        \/ SidOf(hits, a) = SidOf(hits, b) /\ a < b

\* One page of the sessions with a hit, the latest match first.
RankSessions(hits, offset, size) ==
  LET sessions == {h.session : h \in hits}
      order == Sorted(sessions, LAMBDA a, b : SessionBefore(hits, a, b))
      page  == SubSeq(order, offset + 1, AtMost(offset + size, Len(order)))
  IN  [total |-> Len(order),
       sessions |-> [i \in DOMAIN page |-> RankSession(hits, page[i])]]

ShownEvents(page) == UNION {{m.event : m \in Range(s.matches)} : s \in Range(page.sessions)}

\* The texts a page's fragments come from.
PageTexts(page) ==
  UNION {UNION {Range(m.texts) : m \in Range(s.matches)} : s \in Range(page.sessions)}

\* The page with what the store holds of its sessions, events and texts; what it no
\* longer holds is left out.
IntoResponse(page, offset, size, details, events, fragments) ==
  LET Found(texts) == Among(texts, DOMAIN fragments)
      Shown(m) == [event |-> m.event, at |-> m.at, new |-> m.new, columns |-> events[m.event],
                   fragments |-> [i \in DOMAIN Found(m.texts) |-> fragments[Found(m.texts)[i]]]]
      Kept(s) == Among(s.matches, {m \in Range(s.matches) : m.event \in DOMAIN events})
      Item(s, kept) ==
        [session |-> s.session, details |-> details[s.session],
         providers |-> {events[m.event].provider : m \in Range(kept)},
         models |-> {events[m.event].model : m \in Range(kept)},
         matchCount |-> s.matchCount, newMatchCount |-> s.newMatchCount,
         matches |-> [i \in DOMAIN kept |-> Shown(kept[i])]]
      shown == Among(page.sessions, {s \in Range(page.sessions) : s.session \in DOMAIN details})
  IN  [total |-> page.total, more |-> offset + size < page.total,
       items |-> [i \in DOMAIN shown |-> Item(shown[i], Kept(shown[i]))]]

-----------------------------------------------------------------------------
(* The bounded response of a search within one session. *)

\* Mutant: the hit that shows that there are more is returned with the others.
FromHitsWithExtra(hits, ranges) ==
  [hits |-> hits, truncated |-> Len(hits) > MaxInSessionHits,
   texts |-> [t \in {h.text : h \in Range(hits)} |-> ranges[t]]]

\* hits holds at most one more than the cap.
FromHits(hits, ranges) ==
  LET kept == SubSeq(hits, 1, AtMost(Len(hits), MaxInSessionHits))
  IN  [hits |-> kept, truncated |-> Len(hits) > MaxInSessionHits,
       texts |-> [t \in {h.text : h \in Range(kept)} |-> ranges[t]]]
=============================================================================
