---- MODULE MCSessionStreams ----
EXTENDS SessionStreams, TLC

Say(role, text) == [role |-> role, call |-> None, item |-> None, text |-> text]
Call(id) == [role |-> "tool_call", call |-> id, item |-> None, text |-> "{}"]

\* "ok" is said again and again; calls and other words are said once; thinking
\* without words has no identity.
Ok     == Say("assistant", "ok")
First1 == Say("assistant", "first")
Second == Say("assistant", "second")
Mute   == Say("reasoning", "")

Repeating ==
  << {<<Call(1)>>, <<Ok>>, <<Call(1), Ok>>, <<First1>>},
     {<<Call(2)>>, <<Ok>>, <<Mute>>, <<Call(2), Mute>>},
     {<<Ok>>} >>

Short == << {<<Call(1)>>, <<Ok>>}, {<<Call(2), Mute>>, <<Ok>>}, {<<Ok>>} >>

InTime3 == <<0, 0, 0>>
Orphans == <<None, None, None>>

\* Clients that declare nothing, with repeated and wordless replies, and clocks in
\* time or one of them behind.
Silent  == [replies |-> Repeating, modes |-> ModeNames,
            declares |-> {}, parents |-> Orphans,
            behind |-> InTime3, waits |-> FALSE]
Delayed == [replies |-> Short, modes |-> {"resend"},
            declares |-> {}, parents |-> Orphans, behind |-> <<0, 3, 0>>, waits |-> FALSE]

\* Clients that declare every turn, with a clock behind, or the turn of one exchange.
Declaring == [replies |-> Short, modes |-> {"trim", "results"},
              declares |-> {1, 2, 3}, parents |-> Orphans, behind |-> <<0, 0, 3>>, waits |-> FALSE]
Partly    == [replies |-> Short, modes |-> {"resend"},
              declares |-> {2}, parents |-> Orphans, behind |-> InTime3, waits |-> FALSE]

\* Longer sessions, stored as they go: forks of forks, and rounds of calls that end
\* in the same words.
Forking == [replies |-> <<{<<First1>>, <<Call(1)>>}, {<<Second>>, <<Ok>>},
                          {<<Call(3)>>, <<Ok>>}, {<<Ok>>}>>,
            modes |-> {"resend", "trim"},
            declares |-> {}, parents |-> <<None, None, None, None>>,
            behind |-> <<0, 0, 0, 0>>, waits |-> TRUE]

\* Agents whose sub-agents start sub-agents, in a tree and in a circle; one of the
\* declared parents may not have arrived.  They only ask.
Five     == <<0, 0, 0, 0, 0>>
Unheard  == <<{}, {}, {}, {}, {}>>
Nesting  == [replies |-> Unheard, modes |-> {}, declares |-> 1..5,
             parents |-> <<None, None, 2, 2, 3>>, behind |-> Five, waits |-> FALSE]
Circling == [replies |-> Unheard, modes |-> {}, declares |-> 1..5,
             parents |-> <<None, 4, 3, 5, 2>>, behind |-> Five, waits |-> FALSE]

\* A sub-agent that one of a circle started, before the circle.
Trailing == [replies |-> <<{}, {}, {}, {}>>, modes |-> {}, declares |-> 1..4,
             parents |-> <<None, 3, 4, 3>>, behind |-> <<0, 0, 0, 0>>, waits |-> FALSE]

AllClients    == {Silent, Delayed, Declaring, Partly, Forking, Nesting, Circling, Trailing}
SilentClients == {Silent}
====
