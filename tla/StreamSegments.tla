--------------------------- MODULE StreamSegments ----------------------------
(***************************************************************************)
(* Turns and segments of one session (usage/streams/turns.rs and            *)
(* segmentation.rs), from its exchanges xs and their bases.  An exchange is *)
(* named by its place in xs; 0 stands for none.                             *)
(***************************************************************************)
EXTENDS StreamBase

(* Turns. *)

\* Mutant: every user input opens a turn, a sub-agent's task too.
OpensAlways(xs, i, begun) ==
  IF \E j \in DOMAIN xs : xs[j].turn # None THEN xs[i].turn
  ELSE IF XStartsTurn(xs[i]) THEN xs[i].id ELSE None

\* The identity of the turn that exchange i opens, or None; begun are the
\* identities of the turns before it.
Opens(xs, i, begun) ==
  IF \E j \in DOMAIN xs : xs[j].turn # None THEN xs[i].turn
  ELSE IF XStartsTurn(xs[i]) /\ (ContinuesContext(xs[i]) \/ begun = <<>>)
       THEN xs[i].id ELSE None

\* The turns with exchange i, after those before it: the turn it opens, else that
\* of an earlier base, else the one begun last.
TurnsWith(xs, bases, before, i) ==
  LET opened == Opens(xs, i, before.ids)
      known  == SelectInSeq(before.ids, LAMBDA id : id = opened)
      taken  == IF bases[i].base \in 1..(i - 1)
                THEN before.of[bases[i].base] ELSE Len(before.ids)
  IN  IF opened = None
      THEN [before EXCEPT !.of = Append(@, taken)]
      ELSE IF known # 0
      THEN [before EXCEPT !.of = Append(@, known)]
      ELSE [ids |-> Append(before.ids, opened),
            of  |-> Append(before.of, Len(before.ids) + 1)]

\* Turns by first appearance, and the number of each exchange's turn.
Turns(xs, bases) ==
  LET upTo[i \in 0..Len(xs)] ==
        IF i = 0 THEN [ids |-> <<>>, of |-> <<>>]
        ELSE TurnsWith(xs, bases, upTo[i - 1], i)
  IN  upTo[Len(xs)]

-----------------------------------------------------------------------------
(* Segments. *)

\* A base that is the exchange itself is none, and one that is later places the
\* exchange as if it had none.
Base(bases, i)    == IF bases[i].base = i THEN 0 ELSE bases[i].base

\* Mutant: a base that is later counts.
EarlierOrLater(bases, i) == Base(bases, i)

Earlier(bases, i) == IF Base(bases, i) < i THEN Base(bases, i) ELSE 0

Children(bases, j)   == {i \in DOMAIN bases : Base(bases, i) = j}
IsContinued(bases, j) == Children(bases, j) # {}
ContinuedChildren(bases, j) == {i \in Children(bases, j) : IsContinued(bases, i)}

DeclaresAny(xs) ==
  \E i \in DOMAIN xs : xs[i].turn # None \/ xs[i].subagent # None \/ xs[i].parent # None

\* The sub-agent an exchange declares; in a session without declarations its line
\* of context, which forks where more than one continued exchange has one base.
Groups(xs, bases) ==
  LET group[i \in DOMAIN xs] ==
        IF DeclaresAny(xs) THEN <<"declared", xs[i].subagent>>
        ELSE IF /\ Earlier(bases, i) # 0
                /\ ~ /\ IsContinued(bases, i)
                     /\ Cardinality(ContinuedChildren(bases, Earlier(bases, i))) > 1
             THEN group[Earlier(bases, i)]
             ELSE <<"line", i>>
  IN  Evaluated(group)

\* An exchange beside its group's main line in its turn: nothing continues it, and
\* something else is continued in its place.
LooksSide(bases, key, i) ==
  /\ ~IsContinued(bases, i)
  /\ IF Base(bases, i) = 0
     THEN \E j \in DOMAIN bases : IsContinued(bases, j) /\ key[j] = key[i]
     ELSE ContinuedChildren(bases, Base(bases, i)) # {}

\* A group all of whose exchanges in a turn look like side exchanges is a main line.
Sides(bases, key) ==
  {i \in DOMAIN bases :
     /\ LooksSide(bases, key, i)
     /\ \E j \in DOMAIN bases : key[j] = key[i] /\ ~LooksSide(bases, key, j)}

\* The exchanges of the segment of i; it is named by the first of them.
Segment(key, sides, i) ==
  IF i \in sides THEN {i} ELSE {j \in DOMAIN key \ sides : key[j] = key[i]}

HeadOf(key, sides, i) == Min(Segment(key, sides, i))

\* The segment of the earlier exchange that the first one of a segment continues.
ParentOf(bases, head, h) ==
  IF Earlier(bases, h) = 0 THEN 0 ELSE head[Earlier(bases, h)]

Kind(bases, h) ==
  IF Earlier(bases, h) = 0 THEN "root"
  ELSE IF Cardinality(Children(bases, Earlier(bases, h))) > 1 THEN "branch"
  ELSE "turn"

\* The passes of the derivation, each from the results of those before it; the
\* operators hand them on so that none is computed twice.
Segmented(xs, bases, turns, key, sides, head) ==
  [exchanges |-> xs,
   bases     |-> bases,
   turns     |-> turns,
   key       |-> key,
   sides     |-> sides,
   head      |-> head,
   parent    |-> Evaluated([i \in DOMAIN xs |-> ParentOf(bases, head, head[i])]),
   kind      |-> Evaluated([i \in DOMAIN xs |-> Kind(bases, head[i])])]

WithSides(xs, bases, turns, key, sides) ==
  Segmented(xs, bases, turns, key, sides,
            Evaluated([i \in DOMAIN xs |-> HeadOf(key, sides, i)]))

WithKey(xs, bases, turns, key) == WithSides(xs, bases, turns, key, Sides(bases, key))

WithTurns(xs, bases, turns, group) ==
  WithKey(xs, bases, turns, Evaluated([i \in DOMAIN xs |-> <<turns.of[i], group[i]>>]))

WithBases(xs, bases) == WithTurns(xs, bases, Turns(xs, bases), Groups(xs, bases))

WithExchanges(xs) == WithBases(xs, FindBases(xs))

\* The structure of a session that stores these events.
Structure(events) == WithExchanges(Exchanges(events))
=============================================================================
