----------------------------- MODULE StreamBase ------------------------------
(***************************************************************************)
(* The exchanges of one session and the base of each                       *)
(* (usage/streams/base.rs): the exchange whose output a request continues.  *)
(*                                                                         *)
(* An event is a record [pk, event_id, at, side, response_id, previous,     *)
(* subagent, parent, turn, entries]; side is "request" or "response".       *)
(***************************************************************************)
EXTENDS StreamFacts, FiniteSets

(* Grouping. *)

\* The order in which a session's events are read: observation time, request
\* before response, primary key.
SessionOrder(a, b) ==
  \/ a.at < b.at
  \/ a.at = b.at /\ a.side = "request" /\ b.side = "response"
  \/ a.at = b.at /\ a.side = b.side /\ a.pk < b.pk

\* The members of S one by one, as a strict total order has them.
Ordered(S, order(_, _)) ==
  Evaluated([n \in 1..Cardinality(S) |->
               CHOOSE s \in S : Cardinality({t \in S : order(t, s)}) = n - 1])

\* The earliest of some events.
First(S) == CHOOSE e \in S : \A f \in S \ {e} : SessionOrder(e, f)

On(S, side) == {e \in S : e.side = side}

SameExchange(a, b) == a = b \/ (a.response_id # None /\ a.response_id = b.response_id)

\* The exchange that a group of events forms: an event on a side that is taken
\* counts for the end of the exchange only.
Exchange(S) ==
  LET opener    == First(S)
      requests  == On(S, "request")
      responses == On(S, "response")
      declares  == First(IF requests # {} THEN requests ELSE responses)
  IN  [id          |-> IF opener.response_id # None THEN opener.response_id
                       ELSE opener.event_id,
       response_id |-> opener.response_id,
       opener      |-> opener,
       pks         |-> {e.pk : e \in S},
       at          |-> declares.at,
       end         |-> Max({e.at : e \in S}),
       request     |-> IF requests = {} THEN None ELSE RequestFacts(declares.entries),
       previous    |-> IF requests = {} THEN None ELSE declares.previous,
       response    |-> IF responses = {} THEN None
                       ELSE ResponseFacts(First(responses).entries),
       subagent    |-> declares.subagent,
       parent      |-> declares.parent,
       turn        |-> declares.turn]

\* Exchanges by time; the sort is stable.
ExchangeOrder(x, y) ==
  x.at < y.at \/ (x.at = y.at /\ SessionOrder(x.opener, y.opener))

Exchanges(events) ==
  LET groups == {{f \in events : SameExchange(e, f)} : e \in events}
  IN  Ordered({Exchange(S) : S \in groups}, ExchangeOrder)

XStartsTurn(x) == x.request # None /\ x.request.starts_turn

ContinuesContext(x) ==
  x.request # None /\ (x.request.new_from > 0 \/ x.previous # None)

-----------------------------------------------------------------------------
(* Bases.  xs is the sequence of exchanges; a result is [base, why], where  *)
(* base is 0 when there is none and why is the rule or the reason.          *)

Found(base, rule) == [base |-> base, why |-> rule]
NoBase(reason)    == [base |-> 0, why |-> reason]

Emitters(xs, id) ==
  {i \in DOMAIN xs : xs[i].response # None
                     /\ \E n \in DOMAIN xs[i].response.emitted_ids :
                          xs[i].response.emitted_ids[n] = id}

OthersThatEmitted(xs, ids, own) == UNION {Emitters(xs, id) : id \in ids} \ {own}

\* The one exchange other than own that emitted any of ids.
OnlyEmitter(xs, ids, own, rule) ==
  LET others == OthersThatEmitted(xs, ids, own)
  IN  IF others = {} THEN NoBase("unknown_ids")
      ELSE IF Cardinality(others) > 1 THEN NoBase("multiple_responses")
      ELSE Found(CHOOSE i \in others : TRUE, rule)

\* Mutants: whatever trails is accepted; an output that was trimmed is refused.
SaidAnything(output, last, trailing) ==
  \E i \in DOMAIN output : output[i].key = last

SaidExactly(output, last, trailing) ==
  \E i \in DOMAIN output :
    /\ output[i].key = last
    /\ trailing = SpokenRoles(SubSeq(output, i + 1, Len(output)))

\* The trailing roles are among those the output said after the entry, in order.
SaidAfter(output, last, trailing) ==
  LET held == SelectLastInSeq(output, LAMBDA e : IsModelSide(e) /\ e.key = last)
  IN  /\ held # 0
      /\ trailing \in AllSubSeqs(SpokenRoles(SubSeq(output, held + 1, Len(output))))

Continued(xs, emitter, last, trailing) ==
  LET response == xs[emitter].response
  IN  IF SaidAfter(IF response = None THEN <<>> ELSE response.output_skeleton,
                   last, trailing)
      THEN Found(emitter, "last_output") ELSE NoBase("text_only")

\* Where an identity is sought: the last one of the request, else its results.
ByLastIdentity(xs, i) ==
  LET facts == xs[i].request
      only  == OnlyEmitter(xs, {facts.last_identity}, i, "last_output")
  IN  IF only.base = 0 THEN only
      ELSE Continued(xs, only.base, facts.last_identity, facts.trailing)

Pointed(xs, i) == {j \in DOMAIN xs : /\ xs[i].previous # None
                                     /\ xs[j].response_id = xs[i].previous}

FindBase(xs, i) ==
  LET facts == xs[i].request
  IN  IF facts = None THEN NoBase("missing_request")
      ELSE IF Pointed(xs, i) # {}
           THEN Found(CHOOSE j \in Pointed(xs, i) : TRUE, "pointer")
      ELSE IF facts.last_identity # None THEN ByLastIdentity(xs, i)
      ELSE IF facts.new_from > 0 THEN NoBase("text_only")
      ELSE IF facts.result_ids = {} THEN NoBase("no_output")
      ELSE OnlyEmitter(xs, {<<"call", c>> : c \in facts.result_ids}, i, "results_only")

\* An emitter of the identity saw what the request has before it: it is, or it
\* continues, the one exchange that emitted the identity before; when there is
\* none, it had no context and said the identity first.
Saw(xs, first, emitter, last, before) ==
  IF before # 0
  THEN emitter = before \/ first[emitter].base = before
  ELSE /\ first[emitter].why = "no_output"
       /\ xs[emitter].previous = None
       /\ Head(xs[emitter].response.emitted_ids) = last

\* Mutant: the first of several emitters that fit is taken.
TellApartFirst(xs, i, first) ==
  LET facts == xs[i].request
      last  == facts.last_identity
      prior == IF facts.previous_identity = None THEN Found(0, "none")
               ELSE OnlyEmitter(xs, {facts.previous_identity}, i, "before")
      kept  == {e \in Emitters(xs, last) \ {i} : Saw(xs, first, e, last, prior.base)}
  IN  IF kept = {} THEN first[i]
      ELSE Continued(xs, Min(kept), last, facts.trailing)

\* A last identity that more than one exchange emitted.
TellApart(xs, i, first) ==
  LET facts  == xs[i].request
      last   == facts.last_identity
      before == IF facts.previous_identity = None THEN Found(0, "none")
                ELSE OnlyEmitter(xs, {facts.previous_identity}, i, "before")
      kept   == {e \in Emitters(xs, last) \ {i} : Saw(xs, first, e, last, before.base)}
  IN  IF last = None \/ before.why \in {"unknown_ids", "multiple_responses"}
      THEN first[i]
      ELSE IF kept = {} THEN NoBase("unknown_ids")
      ELSE IF Cardinality(kept) > 1 THEN NoBase("multiple_responses")
      ELSE Continued(xs, CHOOSE e \in kept : TRUE, last, facts.trailing)

FindBases(xs) ==
  LET first == Evaluated([i \in DOMAIN xs |-> FindBase(xs, i)])
  IN  Evaluated([i \in DOMAIN xs |->
                   IF first[i].why = "multiple_responses" THEN TellApart(xs, i, first)
                   ELSE first[i]])
=============================================================================
