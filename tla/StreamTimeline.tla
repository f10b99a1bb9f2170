--------------------------- MODULE StreamTimeline ----------------------------
(***************************************************************************)
(* The views of a derived structure d (StreamSegments!Structure): its       *)
(* segments, the turn view of usage/streams/timeline.rs, the run of a       *)
(* segment and the location of an event (usage/streams.rs).  A segment is   *)
(* named by its first exchange, its head.                                   *)
(***************************************************************************)
EXTENDS StreamSegments

\* The members of a set of numbers one by one.
Ascending(S) == Ordered(S, LAMBDA a, b : a < b)

Heads(d)      == ToSet(d.head)
Members(d, h) == {i \in DOMAIN d.head : d.head[i] = h}

\* Times and size of some segments together.
StartOf(d, heads) == Min({d.exchanges[i].at  : i \in UNION {Members(d, h) : h \in heads}})
EndOf(d, heads)   == Max({d.exchanges[i].end : i \in UNION {Members(d, h) : h \in heads}})
ExchangeCount(d, heads) == Cardinality(UNION {Members(d, h) : h \in heads})

TurnId(d, turn) == IF turn = 0 THEN None ELSE d.turns.ids[turn]

LabelAt(d, i) ==
  IF d.exchanges[i].request = None THEN 0 ELSE d.exchanges[i].request.label

\* A segment without its exchanges, as the list of segments shows it.
StreamSegment(d, h) ==
  [head           |-> h,
   kind           |-> d.kind[h],
   parent         |-> d.parent[h],
   forked_from    |-> IF d.parent[h] = 0 THEN 0 ELSE d.bases[h].base,
   start          |-> StartOf(d, {h}),
   end            |-> EndOf(d, {h}),
   exchange_count |-> ExchangeCount(d, {h}),
   label          |-> LabelAt(d, h),
   turn_id        |-> TurnId(d, d.turns.of[h]),
   turn           |-> d.turns.of[h],
   subagent       |-> d.exchanges[h].subagent]

StreamsOf(d) ==
  LET heads == Ascending(Heads(d))
  IN  [n \in DOMAIN heads |-> StreamSegment(d, heads[n])]

\* The counts a session header shows.
Summary(d) ==
  [exchanges |-> Len(d.exchanges),
   turns     |-> Len(d.turns.ids),
   segments  |-> Cardinality(Heads(d))]

-----------------------------------------------------------------------------
(* Executors of a turn. *)

\* Segments by start, then by place.
HeadOrder(d, g, h) ==
  \/ StartOf(d, {g}) < StartOf(d, {h})
  \/ StartOf(d, {g}) = StartOf(d, {h}) /\ g < h

ByStart(d, heads) == Ordered(heads, LAMBDA g, h : HeadOrder(d, g, h))

GroupOf(d, h) == d.key[h][2]

Executor(d, group, heads) ==
  LET first    == CHOOSE h \in heads : \A g \in heads \ {h} : HeadOrder(d, h, g)
      subagent == IF group[1] = "declared" THEN group[2] ELSE None
  IN  [subagent |-> subagent,
       parent   |-> IF subagent = None THEN None ELSE d.exchanges[first].parent,
       main     |-> ByStart(d, heads \ d.sides),
       side     |-> ByStart(d, heads \cap d.sides),
       start    |-> StartOf(d, heads),
       place    |-> Min(heads)]

\* The main line first, then by start; the sort is stable.
ExecutorOrder(x, y) ==
  IF (x.subagent = None) # (y.subagent = None) THEN x.subagent = None
  ELSE x.start < y.start \/ (x.start = y.start /\ x.place < y.place)

\* The executor that started executor i, if it takes part in the turn, else 0.
StarterOf(executors, i) ==
  LET there == {j \in DOMAIN executors \ {i} :
                  executors[i].parent # None /\ executors[j].subagent = executors[i].parent}
  IN  IF there = {} THEN 0 ELSE Min(there)

StartedBy(starters, i, placed) ==
  Ascending({j \in DOMAIN starters : starters[j] = i /\ j \notin ToSet(placed)})

\* Mutants: the executors level by level, and those of a cycle left out.
LevelByLevel(starters, from, placed) ==
  LET walk[queue \in Seq(Nat), order \in Seq(Nat)] ==
        IF queue = <<>> THEN order
        ELSE IF Head(queue) \in ToSet(order) THEN walk[Tail(queue), order]
        ELSE walk[Tail(queue) \o StartedBy(starters, Head(queue), Append(order, Head(queue))),
                  Append(order, Head(queue))]
  IN  walk[<<from>>, placed]

TopLevelOnly(starters, onlyTop, placed, i) ==
  i \in ToSet(placed) \/ starters[i] # 0

\* A walk goes on: what is on top of the stack is passed over if it is placed, else
\* it is placed and what it started goes on the stack.
NextStep(starters, at) ==
  LET next  == Head(at.stack)
      order == Append(at.order, next)
  IN  IF next \in ToSet(at.order)
      THEN [stack |-> Tail(at.stack), order |-> at.order]
      ELSE [stack |-> StartedBy(starters, next, order) \o Tail(at.stack), order |-> order]

\* Depth first from one executor.
DepthFirst(starters, from, placed) ==
  LET walk[at \in [stack : Seq(Nat), order : Seq(Nat)]] ==
        IF at.stack = <<>> THEN at.order ELSE walk[NextStep(starters, at)]
  IN  walk[[stack |-> <<from>>, order |-> placed]]

\* A walk does not begin at an executor that is placed, nor in the first pass at
\* one that another executor of the turn started.
PassedOver(starters, onlyTop, placed, i) ==
  i \in ToSet(placed) \/ (onlyTop /\ starters[i] # 0)

Pass(starters, onlyTop, placed) ==
  FoldLeft(LAMBDA order, i :
             IF PassedOver(starters, onlyTop, order, i) THEN order
             ELSE DepthFirst(starters, i, order),
           placed, [i \in DOMAIN starters |-> i])

\* Executors depth first by who started whom; a cycle of declarations is never
\* reached from the top and is entered at its earliest member.
StartedFirst(executors) ==
  LET starters == Evaluated([i \in DOMAIN executors |-> StarterOf(executors, i)])
      order    == Pass(starters, FALSE, Pass(starters, TRUE, <<>>))
  IN  [n \in DOMAIN order |-> executors[order[n]]]

Executors(d, heads) ==
  StartedFirst(Ordered({Executor(d, g, {h \in heads : GroupOf(d, h) = g}) :
                          g \in {GroupOf(d, h) : h \in heads}}, ExecutorOrder))

-----------------------------------------------------------------------------
(* The turn view. *)

FirstLine(executors) == IF executors = <<>> THEN <<>> ELSE executors[1].main

\* The first labelled exchange on the main line of the first executor, or 0.
TurnLabel(d, executors) ==
  LET main == FirstLine(executors)
      line == FlattenSeq([n \in DOMAIN main |->
                Ascending(Members(d, main[n]))])
      at   == SelectInSeq(line, LAMBDA i : LabelAt(d, i) # 0)
  IN  IF at = 0 THEN 0 ELSE line[at]

NewContext(d, executors) ==
  FirstLine(executors) = <<>> \/ d.bases[FirstLine(executors)[1]].base = 0

WithExecutors(d, turn, heads, executors) ==
  [turn           |-> turn,
   turn_id        |-> TurnId(d, turn),
   start          |-> StartOf(d, heads),
   end            |-> EndOf(d, heads),
   exchange_count |-> ExchangeCount(d, heads),
   label          |-> TurnLabel(d, executors),
   new_context    |-> NewContext(d, executors),
   executors      |-> executors]

TurnNode(d, turn, heads) == WithExecutors(d, turn, heads, Executors(d, heads))

\* The segments of no turn first (0), then the turns by number.
SessionTurns(d) ==
  LET turns == Ascending({d.turns.of[h] : h \in Heads(d)})
  IN  [n \in DOMAIN turns |->
         TurnNode(d, turns[n], {h \in Heads(d) : d.turns.of[h] = turns[n]})]

-----------------------------------------------------------------------------
(* The segment of an exchange, and the place of an event. *)

\* Mutant: the run begins at the head whatever exchange is asked for.
WholeSegment(d, i) == Ascending(Members(d, d.head[i]))

\* The exchanges of the segment of exchange i, from it on.
SegmentRun(d, i) == Ascending({j \in Members(d, d.head[i]) : j >= i})

\* An exchange as the reader of a segment gets it.
SegmentExchange(d, i) ==
  LET base == d.bases[i].base
  IN  [id           |-> d.exchanges[i].id,
       request      |-> d.exchanges[i].request # None,
       response     |-> d.exchanges[i].response # None,
       base         |-> base,
       base_segment |-> IF base = 0 THEN 0 ELSE d.head[base],
       why          |-> d.bases[i].why,
       starts_turn  |-> XStartsTurn(d.exchanges[i]),
       subagent     |-> d.exchanges[i].subagent,
       parent       |-> d.exchanges[i].parent,
       turn_id      |-> TurnId(d, d.turns.of[i]),
       turn         |-> d.turns.of[i]]

\* Where the view shows exchange i.
EventPosition(d, i) ==
  [segment  |-> d.head[i],
   turn     |-> d.turns.of[i],
   kind     |-> d.kind[d.head[i]],
   exchange |-> d.exchanges[i].id]
=============================================================================
