--------------------------- MODULE SessionStreams ----------------------------
(***************************************************************************)
(* The structure the backend derives for a session while its events arrive *)
(* in any order, against what the agent in fact did.                       *)
(*                                                                         *)
(* The agent is external: it is modelled from the traffic usage/streams/    *)
(* expects.  A request starts a new context, resends the context it         *)
(* continues with what was said since, or sends only what is new.           *)
(***************************************************************************)
EXTENDS StreamTimeline

CONSTANT Clients  \* what the clients of sessions are like

ModeNames == {"resend", "trim", "pointer", "results"}

\* A client has
\*   replies   what the model may say in each exchange of the session, the bound
\*             on their number
\*   modes     how its requests may continue a context
\*   declares  the exchanges that declare their turn and sub-agent
\*   parents   the sub-agent each sub-agent declares as the one that started it: any
\*   behind    how far the clock of each exchange's device is behind
\*   waits     whether everything said so far is stored before it goes on
ASSUME StreamConstants ==
  /\ None \notin Nat
  /\ \A c \in Clients :
       /\ Len(c.replies) \in Nat /\ DOMAIN c.replies = 1..Len(c.replies)
       /\ c.modes \subseteq ModeNames
       /\ c.declares \subseteq DOMAIN c.replies
       /\ c.parents \in [DOMAIN c.replies -> {None} \cup DOMAIN c.replies]
       /\ c.behind \in [DOMAIN c.replies -> Nat]
       /\ c.waits \in BOOLEAN

VARIABLES
  client, \* the client of the session
  said,   \* the exchanges of the session as the agent knows them, in order
  clock,  \* steps of the agent
  stored, \* the events the backend has stored, as <<exchange, side>>
  derived \* the structure a query derives from them now

vars == <<client, said, clock, stored, derived>>

NoReply == <<>>

-----------------------------------------------------------------------------
(* The agent. *)

User(text)   == [role |-> "user", call |-> None, item |-> None, text |-> text]
Result(call) == [role |-> "tool_result", call |-> call, item |-> None, text |-> "done"]

FirstWords == <<User("go")>>
NextWords  == <<User("go on")>>

Calls(reply) == SelectSeq(reply, LAMBDA e : e.role = "tool_call")

\* What follows a reply: the results of its calls, else the user's words.
News(reply) ==
  IF Calls(reply) = <<>> THEN NextWords
  ELSE [i \in DOMAIN Calls(reply) |-> Result(Calls(reply)[i].call)]

\* The context exchange x left; a client may drop the words around its calls.
Left(x, mode) ==
  said[x].context \o (IF mode = "trim" THEN Calls(said[x].reply) ELSE said[x].reply)

\* What the clock of exchange x's device shows.
Reading(x) == clock - client.behind[x]

SendsContext(mode) == mode \in {"fresh", "resend", "trim"}

Occurred == {<<x, "request">> : x \in DOMAIN said}
              \cup {<<x, "response">> : x \in {y \in DOMAIN said : said[y].reply # NoReply}}

\* Everything that was said is stored.
Complete == stored = Occurred

Proceeds == client.waits => Complete

Init ==
  /\ client \in Clients
  /\ said = <<>>
  /\ clock = 1
  /\ stored = {}
  /\ derived = Structure({})

\* Exchange number Len(said) + 1 sends its request.
Ask(from, mode, context, new) ==
  /\ Len(said) < Len(client.replies)
  /\ Proceeds
  /\ said' = Append(said, [from |-> from, mode |-> mode,
                           context |-> context \o new,
                           sent |-> IF SendsContext(mode) THEN context \o new ELSE new,
                           asked |-> Reading(Len(said) + 1),
                           reply |-> NoReply, answered |-> 0])
  /\ clock' = clock + 1
  /\ UNCHANGED <<client, stored, derived>>

\* A new context: the user's first words, a task of a sub-agent, or a request of
\* the client itself.
AskAfresh == Ask(0, "fresh", <<>>, FirstWords)

\* A request continues what exchange x left; agents fork, go back, and retry.
AskOn(x, mode) ==
  /\ said[x].reply # NoReply
  /\ mode \in {"trim", "results"} => Calls(said[x].reply) # <<>>
  /\ Ask(x, mode, Left(x, mode), News(said[x].reply))

Answer(x) ==
  /\ said[x].reply = NoReply
  /\ Proceeds
  /\ \E reply \in client.replies[x] :
       said' = [said EXCEPT ![x].reply = reply,
                            ![x].answered = Reading(x)]
  /\ clock' = clock + 1
  /\ UNCHANGED <<client, stored, derived>>

\* The user speaks: in the first context, or in answer to a reply without calls.
OpensTurn(x) ==
  /\ StartsTurn(News(IF said[x].from = 0 THEN NoReply ELSE said[said[x].from].reply))
  /\ said[x].from # 0 \/ x = 1

\* The exchange that began the user input x works for: tool loops stay with theirs,
\* and a context started meanwhile belongs to the user's latest words.
TrueTurn ==
  LET turn[x \in DOMAIN said] ==
        IF OpensTurn(x) THEN x
        ELSE IF said[x].from # 0 THEN turn[said[x].from]
        ELSE Max({y \in 1..(x - 1) : OpensTurn(y)})
  IN  turn

\* The sub-agent exchange x belongs to: the contexts after the first are tasks.
TrueSubagent ==
  LET agent[x \in DOMAIN said] ==
        IF said[x].from # 0 THEN agent[said[x].from] ELSE IF x = 1 THEN None ELSE x
  IN  agent

\* The row of an event.  A client that declares names the turn by the exchange
\* that began it.
Event(x, side) ==
  [pk          |-> x,
   event_id    |-> <<x, side>>,
   side        |-> side,
   at          |-> IF side = "request" THEN said[x].asked ELSE said[x].answered,
   response_id |-> x,
   previous    |-> IF side = "request" /\ said[x].mode = "pointer"
                   THEN said[x].from ELSE None,
   subagent    |-> IF x \in client.declares THEN TrueSubagent[x] ELSE None,
   parent      |-> IF x \in client.declares /\ TrueSubagent[x] # None
                   THEN client.parents[TrueSubagent[x]] ELSE None,
   turn        |-> IF x \in client.declares THEN TrueTurn[x] ELSE None,
   entries     |-> IF side = "request" THEN said[x].sent ELSE said[x].reply]

-----------------------------------------------------------------------------
(* The backend stores events of the session: late, out of order, or never. *)

Store(event) ==
  /\ event \in Occurred \ stored
  /\ stored' = stored \cup {event}
  /\ derived' = Structure({Event(e[1], e[2]) : e \in stored'})
  /\ UNCHANGED <<client, said, clock>>

Next ==
  \/ AskAfresh
  \/ \E x \in DOMAIN said : Answer(x) \/ \E mode \in client.modes : AskOn(x, mode)
  \/ \E event \in Occurred : Store(event)

Spec == Init /\ [][Next]_vars

-----------------------------------------------------------------------------
(* What the agent did, to compare with. *)

InTime == \A x \in DOMAIN said : client.behind[x] = 0

\* The identities exchange x said, and the exchanges that said one.
Words(x)    == ToSet(IdentitiesOf(said[x].reply))
Speakers(w) == {x \in DOMAIN said : w \in Words(x)}

NothingRepeated == \A x \in DOMAIN said : \A w \in Words(x) : Speakers(w) = {x}

\* The identity a request is linked by, if any, was said once.
SaidOnce(x) ==
  LET last == RequestFacts(said[x].sent).last_identity
  IN  last # None => Cardinality(Speakers(last)) <= 1

RepeatsItself(context) ==
  LET ids == IdentitiesOf(context)
  IN  \E i, j \in DOMAIN ids : i # j /\ ids[i] = ids[j]

\* Of the derived structure: its exchanges, their place, base and turn.
Known == {derived.exchanges[i].id : i \in DOMAIN derived.exchanges}

PlaceOf(x) ==
  CHOOSE i \in DOMAIN derived.exchanges : derived.exchanges[i].id = x

BaseOf(x) ==
  LET base == derived.bases[PlaceOf(x)].base
  IN  IF base = 0 THEN 0 ELSE derived.exchanges[base].id

TurnOf(x) == derived.turns.of[PlaceOf(x)]

-----------------------------------------------------------------------------
(* Properties. *)

\* What usage/streams.rs says of a base: it is the exchange whose output the
\* request's context continues, once the session is complete.
BasesAreTrue ==
  Complete => \A x \in Known : BaseOf(x) \in {0, said[x].from}

\* Whatever is missing or late, a request linked by words that were said once is
\* never linked to the wrong exchange: blank or dropped words do not mislead.
UniqueWordsFindTrueBases ==
  \A x \in Known :
    SaidOnce(x) => BaseOf(x) \in {0, said[x].from}

\* In a complete session whose replies can all be identified, words that several
\* exchanges said mislead only when a context holds them twice itself.
RepeatsAreToldApart ==
  Complete /\ (\A x \in DOMAIN said : said[x].reply # NoReply => Words(x) # {}) =>
    \A x \in Known :
      BaseOf(x) \in {0, said[x].from} \/ RepeatsItself(said[x].sent)

\* A request finds the exchange it continues as soon as both are stored, whatever
\* else is missing, if that exchange said something identifiable, once.
ContinuationsAreFound ==
  \A x \in DOMAIN said :
    /\ said[x].from # 0
    /\ {<<x, "request">>, <<said[x].from, "response">>} \subseteq stored
    /\ Words(said[x].from) # {} /\ SaidOnce(x)
    => BaseOf(x) = said[x].from

\* Every exchange is in the turn of the user input it works for: at any time if it
\* declares it, else in a complete session without declarations, repeated words and
\* clocks that are behind.
TurnsAreTrue ==
  \A x \in Known :
    \/ x \in client.declares
    \/ Complete /\ InTime /\ NothingRepeated /\ client.declares = {}
    => /\ TurnOf(x) # 0
       /\ derived.turns.ids[TurnOf(x)] = TrueTurn[x]

\* A group's exchanges in a turn always have a main line beside which the side
\* exchanges stand.
EveryGroupHasAMainLine ==
  \A i \in DOMAIN derived.key :
      \E j \in DOMAIN derived.key \ derived.sides : derived.key[j] = derived.key[i]

\* The segments form a forest that follows session order, also when clocks put an
\* exchange before the one it continues, and after forks of forks leave a turn only
\* side exchanges: each group has a main line, the tree's node, and its parent, if any,
\* begins before it (Segmentation::cut).
SegmentsFormForest ==
  /\ EveryGroupHasAMainLine
  /\ \A i \in DOMAIN derived.head : derived.parent[i] < derived.head[i]

\* Of a turn view: the segments a node shows, in order.
ShownBy(node) ==
  FlattenSeq([n \in DOMAIN node.executors |->
                node.executors[n].main \o node.executors[n].side])

ShownIn(timeline) == FlattenSeq([n \in DOMAIN timeline |-> ShownBy(timeline[n])])

\* The turn view shows every segment of the session once, whatever parents the
\* sub-agents declare: absent ones, themselves, or each other in a cycle
\* (SessionStructure::started_first).
TimelineShowsEverySegmentOnce ==
  \A shown \in {ShownIn(SessionTurns(derived))} :
    /\ IsInjective(shown)
    /\ ToSet(shown) = Heads(derived)

\* The executors that executor i descends from, itself only when on a cycle.
AncestorsOf(executors, i) ==
  LET up[n \in 0..Len(executors)] ==
        IF n = 0 THEN {StarterOf(executors, i)} \ {0}
        ELSE up[n - 1] \cup ({StarterOf(executors, j) : j \in up[n - 1]} \ {0})
  IN  up[Len(executors)]

\* "the main line first, each executor followed by the sub-agents it started"
\* (TurnNode::executors): between an executor and one it started stand only its
\* descendants.  Only where declarations go round in a circle does an executor come
\* before the one that started it: one of the circle, or one outside that descends
\* from it, for the second pass of started_first enters a circle at its earliest
\* member or at an earlier executor that the circle leads to.
StartersComeFirst ==
  \A node \in ToSet(SessionTurns(derived)) :
    \A i \in DOMAIN node.executors :
      LET executors  == node.executors
          starter    == StarterOf(executors, i)
          follows(j) == StarterOf(executors, j) < j
          circles(j) == j \in AncestorsOf(executors, j)
      IN  starter # 0 =>
            IF starter < i
            THEN \A j \in (starter + 1)..i : starter \in AncestorsOf(executors, j)
            ELSE IF circles(i)
            THEN \A j \in AncestorsOf(executors, i) \ {i} : follows(j)
            ELSE \E j \in AncestorsOf(executors, i) : circles(j)

\* The views agree on every exchange: the node of its turn shows the segment that
\* its location names, and the run of exchanges from it goes to the end of that
\* segment; a segment's list entry, its first exchange and its turn node tell one
\* story, and the counts of the header are those of the list and of the turns
\* (session_streams, session_turns, segment_run, event_position and summary).
ViewsAgree ==
  \A timeline \in {SessionTurns(derived)}, streams \in {StreamsOf(derived)} :
    /\ \A i \in DOMAIN derived.exchanges :
         LET place == EventPosition(derived, i)
             run   == SegmentRun(derived, i)
         IN  /\ \A n \in DOMAIN timeline :
                  place.segment \in ToSet(ShownBy(timeline[n]))
                    <=> timeline[n].turn = place.turn
             /\ run[1] = i /\ Last(run) = Max(Members(derived, place.segment))
             /\ \A j \in ToSet(run) : EventPosition(derived, j).turn = place.turn
    /\ \A n \in DOMAIN streams :
         LET head == SegmentExchange(derived, streams[n].head)
         IN  /\ streams[n].parent \in {0, head.base_segment}
             /\ streams[n].turn_id = head.turn_id
             /\ streams[n].exchange_count = Len(SegmentRun(derived, streams[n].head))
    /\ \A counts \in {Summary(derived)} :
         /\ counts.segments = Len(streams)
         /\ counts.exchanges
              = FoldLeft(LAMBDA sum, node : sum + node.exchange_count, 0, timeline)
         /\ counts.turns = Cardinality({n \in DOMAIN timeline : timeline[n].turn # 0})
=============================================================================
