----------------------------- MODULE MCQueries -----------------------------
(* Two owners with the same texts and session identifier, events on both sides of   *)
(* a change of the time zone's offset, and queries that the code treats differently. *)
EXTENDS Queries, TLC

CONSTANTS e1, e2, e3, e4, s1, s2, s3, d1, d2, d3, u1, u2

\* NUL, a letter in both cases, and a character of two code units.
Characters == 0..3
Folded  == <<1, 1, 3>> @@ (0 :> 0)
Utf16   == <<1, 1, 2>> @@ (0 :> 1)

Keys(u, agent, sid) == [user |-> u, agent |-> agent, sid |-> sid]
SessionKeys == s1 :> Keys(u1, "a", 1) @@ s2 :> Keys(u1, "b", 2) @@ s3 :> Keys(u2, "a", 1)
DeviceKeys  == d1 :> [user |-> u1, platform |-> "x"] @@ d2 :> [user |-> u1, platform |-> "y"]
               @@ d3 :> [user |-> u2, platform |-> "x"]

\* Two orders of the agents' names, as capitals and small letters have them.
Bytes     == "a" :> 1 @@ "b" :> 2
Alphabet  == "a" :> 2 @@ "b" :> 1

\* Each request begins a turn; an answer before any is in none.
Turns(structure, position) ==
  LET begun == Cardinality({i \in 1..position : structure[i].kind = "request"})
  IN  IF begun = 0 THEN None ELSE begun

\* Days of four seconds; the offset changes at second 5 and back at second 9.
Offsets == [second \in 0..12 |-> IF second \in 5..8 THEN 3 ELSE 2]

Entry(name, text) == [name |-> name, text |-> text]
Image(position, content) == [position |-> position, size |-> 1, digest |-> <<1>>, content |-> content]

Event(id, session, device, at, kind, tokens, newFrom, entries, images) ==
  [id |-> id, session |-> session, device |-> device, at |-> at, kind |-> kind,
   provider |-> "p", model |-> IF kind = "request" THEN "m" ELSE "n", tokens |-> tokens,
   newFrom |-> newFrom, entries |-> entries, images |-> images]

\* A request whose context holds its text, an answer with a named entry, another session
\* with the request's text and a NUL, and the other owner's request of the same text.
Request == Event(e1, s1, d1, 4, "request", 1, 1,
                 <<Entry(<<>>, <<2, 1, 3>>), Entry(<<>>, <<3, 2, 1, 3, 3>>)>>,
                 <<Image(0, <<<<1>>>>), Image(1, <<>>)>>)
Answer  == Event(e2, s1, d2, 5, "response", 2, None,
                 <<Entry(<<1, 2, 3>>, <<1>>), Entry(<<>>, <<1, 1, 3, 1, 2, 3>>)>>, <<>>)
Other   == Event(e3, s2, d2, 5, "request", 1, None,
                 <<Entry(<<>>, <<2, 1, 3>>), Entry(<<>>, <<1, 0, 1, 3>>)>>, <<>>)
Foreign == Event(e4, s3, d3, 4, "request", 8, 0, <<Entry(<<>>, <<2, 1, 3>>)>>, <<>>)

Events == {Request, Answer, Other, Foreign}

Filters(kind) ==
  [from |-> None, to |-> None, agents |-> {}, sids |-> {}, providers |-> {}, models |-> {},
   kind |-> kind]
Paged(limit) == [session |-> None, limit |-> limit, offset |-> 0]
Raws == {Filters(Unknown) @@ Paged(1), Filters(Unknown) @@ [Paged(1) EXCEPT !.session = 1],
         [Filters("blank") EXCEPT !.agents = {"a", "blank"}] @@ Paged(None),
         Filters("other") @@ Paged(1)}

Lists ==
  {[from |-> None, to |-> None, agents |-> {}, providers |-> {}, models |-> {}, page |-> 1, size |-> 1],
   [from |-> 5, to |-> 6, agents |-> {"a", "b"}, providers |-> {"p"}, models |-> {"m"}, page |-> 1, size |-> 2]}

Summaries ==
  {Filters(Unknown) @@ [by |-> {"day", "device"}, users |-> {u1, u2}, limit |-> None],
   [Filters("request") EXCEPT !.from = 4] @@ [by |-> {"agent", "event_type"}, users |-> {u1}, limit |-> 1],
   Filters("request") @@ [by |-> {"device"}, users |-> {u1, u2}, limit |-> 1],
   Filters("blank") @@ [by |-> {"provider"}, users |-> {u1, u2}, limit |-> None],
   Filters("other") @@ [by |-> {}, users |-> {u1}, limit |-> None]}

Unfiltered == [agent |-> {}, model |-> {}, provider |-> {}, platform |-> {}, session |-> {}]
TwoBuckets == <<[start |-> 3, end |-> 5], [start |-> 5, end |-> 7]>>
Comparisons ==
  {[buckets |-> TwoBuckets, by |-> "platform", filters |-> Unfiltered],
   [buckets |-> TwoBuckets, by |-> "all", filters |-> [Unfiltered EXCEPT !.model = {"n"}]]}

Search(text, page) ==
  [from |-> None, to |-> None, agents |-> {}, providers |-> {"p"}, models |-> {}, kinds |-> {},
   text |-> text, page |-> page, size |-> 1]
\* A query with its trigram, one too short for any, one with none but of a NUL.
Searches == {Search(<<1, 2, 3>>, 1), Search(<<2>>, 2), Search(<<1, 0, 1>>, 1)}

\* Everything; the last entry, and one next to it or beyond the end, texts cut within a
\* character; nothing.
ShownWindows ==
  {[runs |-> <<>>, cut |-> None],
   [runs |-> <<LastRun(1), Span(0, 0), Span(2, 9)>>, cut |-> 3],
   [runs |-> <<Span(5, 6)>>, cut |-> 0]}

Numbers == 1..4
=============================================================================
