----------------------------- MODULE EventStore -----------------------------
(***************************************************************************)
(* What ingestion promises, whatever the database does in between: a batch  *)
(* is stored atomically, an event identifier is stored once, and what is    *)
(* stored never changes ("Validates and atomically ingests one batch ...    *)
(* replays are counted as duplicates without changing the original rows",   *)
(* storage/postgres/repository.rs).                                         *)
(***************************************************************************)
CONSTANTS
  Requests,      \* ingest requests
  EventIds,      \* event_id values
  Submitted,     \* of each request: the identifiers of its events
  Absent         \* what is stored under an identifier that was never accepted

VARIABLES
  content        \* of each event_id, what is stored

Stored == {e \in EventIds : content[e] # Absent}

EInit == content = [e \in EventIds |-> Absent]

\* One request is ingested: every identifier of it is stored afterwards, and
\* nothing else changes, the identifiers that were stored before included.
IngestBatch(r) ==
  /\ \A e \in EventIds : content'[e] # content[e] => e \in Submitted[r] \ Stored
  /\ \A e \in Submitted[r] : content'[e] # Absent
  /\ DOMAIN content' = EventIds

ENext == \E r \in Requests : IngestBatch(r)

ESpec == EInit /\ [][ENext]_content
=============================================================================
