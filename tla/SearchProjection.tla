-------------------------- MODULE SearchProjection --------------------------
(***************************************************************************)
(* What the search projection promises, without leases, workers or rows:    *)
(* every stored event is written to the index at least once, or given up    *)
(* after MaxAttempts recorded failures ("providing at-least-once delivery   *)
(* to Elasticsearch", storage/postgres/repository.rs; "terminal dead        *)
(* letters", migrations/.../up.sql).  SearchOutbox implements it.           *)
(***************************************************************************)
EXTENDS Naturals

CONSTANTS Events, Stored, MaxAttempts

VARIABLES
  source,     \* events in the database
  deleted,    \* events that were, and are no longer
  index,      \* documents of the search index
  tries,      \* failed deliveries that were recorded, by event
  delivered,  \* events whose delivery is recorded
  gaveUp      \* events the projection stopped trying

pvars == <<source, deleted, index, tries, delivered, gaveUp>>

PInit ==
  /\ source = Stored /\ deleted = {} /\ index = {}
  /\ tries = [e \in Events |-> 0]
  /\ delivered = {} /\ gaveUp = {}

\* An event is stored.
Store(e) ==
  /\ e \in Events \ (source \cup deleted)
  /\ source' = source \cup {e}
  /\ UNCHANGED <<deleted, index, tries, delivered, gaveUp>>

\* An event is deleted.
Delete(e) ==
  /\ e \in source
  /\ source' = source \ {e}
  /\ deleted' = deleted \cup {e}
  /\ UNCHANGED <<index, tries, delivered, gaveUp>>

\* Documents of events are written, documents of deleted events are removed.
Write(written, gone) ==
  /\ written \subseteq source \cup deleted
  /\ gone \subseteq deleted
  /\ index' = (index \cup written) \ gone
  /\ UNCHANGED <<source, deleted, tries, delivered, gaveUp>>

\* A delivery is recorded once the index holds the event, or the event is gone.
Deliver(e) ==
  /\ e \in index \cup deleted
  /\ delivered' = delivered \cup {e}
  /\ UNCHANGED <<source, deleted, index, tries, gaveUp>>

\* A failed delivery is recorded; the projection gives up after MaxAttempts.
Fail(e) ==
  /\ e \in source \cup deleted
  /\ tries' = [tries EXCEPT ![e] = @ + 1]
  /\ gaveUp' \in {gaveUp} \cup
                 (IF tries[e] + 1 >= MaxAttempts THEN {gaveUp \cup {e}} ELSE {})
  /\ UNCHANGED <<source, deleted, index, delivered>>

PNext ==
  \/ \E e \in Events : Store(e) \/ Delete(e) \/ Deliver(e) \/ Fail(e)
  \/ \E written, gone \in SUBSET Events : Write(written, gone)

PSpec == PInit /\ [][PNext]_pvars
=============================================================================
