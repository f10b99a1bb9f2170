---- MODULE MCPgIngest ----
(* Collectors of two owners whose batches meet in the same rows. *)
EXTENDS PgIngest, TLC

CONSTANTS r1, r2, r3, r4, e1, e2, e3, s1, s3, d1, d2, d3, c1, c2, u1, u2

Event(id, session, device, at, kind) ==
  [id |-> id, session |-> session, device |-> device, at |-> at, kind |-> kind]

Capture(id, text, ids) == [id |-> id, text |-> text, events |-> ids]

\* r1 and r2 share a session, an event and a device, and take the devices in
\* opposite orders; r3 is another owner's, with an identifier of r1's; r4 refers to
\* an event it does not hold.  Two requests of the session are simultaneous.
AllBatches ==
  r1 :> <<Event(e1, s1, d1, 2, "request"), Event(e2, s1, d2, 1, "response")>>
  @@ r2 :> <<Event(e2, s1, d2, 1, "response"), Event(e3, s1, d2, 2, "request")>>
  @@ r3 :> <<Event(e1, s3, d3, 2, "request")>>
  @@ r4 :> <<Event(e3, s1, d2, 2, "request")>>

AllCaptures ==
  r1 :> <<Capture(c1, "c1", {e1})>>
  @@ r2 :> <<Capture(c2, "c2", {e2, e3})>>
  @@ r3 :> <<>>
  @@ r4 :> <<Capture(c2, "c2", {e1})>>

AllOwners == r1 :> u1 @@ r2 :> u1 @@ r3 :> u2 @@ r4 :> u1

\* A run's collectors send some of the four.
Batches      == [r \in Requests |-> AllBatches[r]]
CaptureLists == [r \in Requests |-> AllCaptures[r]]
Owners       == [r \in Requests |-> AllOwners[r]]

Numbers == 1..3
====
