--------------------------- MODULE MCSqliteStore ---------------------------
(* Collectors of two owners whose batches share events, texts and a session. *)
EXTENDS SqliteStore, TLC

CONSTANTS r1, r2, r3, e1, e2, e3, s1, s2, d1, d2, d3, c1, c2, u1, u2

\* NUL, a letter in both cases, and a character of two code units.
Characters == 0..3
Folded  == <<1, 1, 3>> @@ (0 :> 0)
Utf16   == <<1, 1, 2>> @@ (0 :> 1)

Keys(u, agent, sid) == [user |-> u, agent |-> agent, sid |-> sid]
SessionKeys == s1 :> Keys(u1, "a", 1) @@ s2 :> Keys(u2, "a", 1)
DeviceKeys  == d1 :> [user |-> u1, platform |-> "x"] @@ d2 :> [user |-> u1, platform |-> "y"]
               @@ d3 :> [user |-> u2, platform |-> "x"]

Event(id, session, device, at, kind, newFrom, entries) ==
  [id |-> id, session |-> session, device |-> device, at |-> at, kind |-> kind,
   provider |-> "p", model |-> "m", tokens |-> 1, newFrom |-> newFrom,
   entries |-> entries, images |-> <<>>]

Entry(name, text) == [name |-> name, text |-> text]

\* Two requests of a session at the same time, the later one sent first; a text that
\* occurs twice in an event, in two events and with two owners.
Request1 == Event(e1, s1, d1, 2, "request", None, <<Entry(<<>>, <<2, 1, 3>>), Entry(<<1>>, <<2, 1, 3>>)>>)
Request2 == Event(e2, s1, d2, 2, "request", 1, <<Entry(<<>>, <<2, 1, 3>>)>>)
Answer   == Event(e3, s1, d2, 1, "response", None, <<Entry(<<>>, <<1>>)>>)
Foreign  == Event(e1, s2, d3, 1, "request", None, <<Entry(<<>>, <<2, 1, 3>>)>>)

Capture(id, text, ids) == [id |-> id, text |-> text, events |-> ids]

AllBatches == r1 :> <<Request1, Answer>> @@ r2 :> <<Request2, Answer>> @@ r3 :> <<Foreign>>
AllCaptures ==
  r1 :> <<Capture(c1, "c1", {e1})>>
  @@ r2 :> <<Capture(c2, "c2", {e2, e3})>>
  @@ r3 :> <<Capture(c2, "c2", {e1})>>
AllOwners == r1 :> u1 @@ r2 :> u1 @@ r3 :> u2
Numbers == 1..3
=============================================================================
