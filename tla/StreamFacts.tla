----------------------------- MODULE StreamFacts -----------------------------
(***************************************************************************)
(* What ingest reads from one event's conversation alone                    *)
(* (usage/streams/facts.rs): the identities of the model's words, and where *)
(* a request's own words begin.  An entry is a record [role, call, item,    *)
(* text]; call and item are None when the traffic carries no identifier,    *)
(* and a text is Empty, Blank or words.                                     *)
(***************************************************************************)
EXTENDS Integers, Sequences, SequencesExt

CONSTANT None  \* an absent value

\* The sequence s; TLC evaluates the entries of a concatenation once.
Evaluated(s) == s \o <<>>

Empty == ""
Blank == " "

ModelRoles == {"assistant", "reasoning", "tool_call"}
TextRoles  == {"assistant", "reasoning"}

IsModelSide(entry) == entry.role \in ModelRoles

\* Identities are kept apart by their prefix.  Each of these is a sequence of at
\* most one of them.
Item(entry) ==
  IF entry.item # None /\ IsModelSide(entry) THEN <<<<"item", entry.item>>>> ELSE <<>>

CallId(entry) == IF entry.call # None THEN <<<<"call", entry.call>>>> ELSE <<>>

TextIdentity(entry) ==
  IF /\ entry.role \in TextRoles
     /\ entry.call = None /\ entry.item = None
     /\ entry.text \notin {Empty, Blank}
  THEN <<<<"text", entry.role, entry.text>>>> ELSE <<>>

Identities(entry) ==
  Item(entry) \o (IF entry.role = "tool_call" THEN CallId(entry) ELSE <<>>)
              \o TextIdentity(entry)

\* What an entry is found by in the skeleton of an output.
Key(entry) ==
  LET keys == CallId(entry) \o Item(entry) \o TextIdentity(entry)
  IN  IF keys = <<>> THEN None ELSE Head(keys)

IdentitiesOf(entries) ==
  FlattenSeq([i \in DOMAIN entries |-> Identities(entries[i])])

ResultIds(entries) ==
  {entries[i].call : i \in {j \in DOMAIN entries : entries[j].role = "tool_result"}}
    \ {None}

UserSpeaks(entry) == entry.role = "user" /\ entry.text # Empty

StartsTurn(part) ==
  /\ \E i \in DOMAIN part : UserSpeaks(part[i])
  /\ \A i \in DOMAIN part : part[i].role # "tool_result"

\* The roles of the model-side entries of a part, in order.
SpokenRoles(part) ==
  LET spoken == SelectSeq(part, IsModelSide)
  IN  [i \in DOMAIN spoken |-> spoken[i].role]

(***************************************************************************)
(* The facts of a request.  "last" is its last model-side entry; the last   *)
(* run reaches back from there over the model's words and tool results, and *)
(* "held" is the last entry of it that has an identity.                     *)
(***************************************************************************)
RequestFacts(entries) ==
  LET last  == SelectLastInSeq(entries, IsModelSide)
      start == 1 + SelectLastInSubSeq(entries, 1, last - 1,
                     LAMBDA e : ~IsModelSide(e) /\ e.role # "tool_result")
      held  == SelectLastInSubSeq(entries, start, last,
                     LAMBDA e : Identities(e) # <<>>)
      said  == IdentitiesOf(SubSeq(entries, 1, held))
      other == SelectLastInSeq(said, LAMBDA id : id # Last(said))
      new   == SubSeq(entries, last + 1, Len(entries))
  IN  [new_from          |-> last,
       last_identity     |-> IF held = 0 THEN None ELSE Last(said),
       previous_identity |-> IF held = 0 \/ other = 0 THEN None ELSE said[other],
       trailing          |-> IF held = 0 THEN <<>>
                             ELSE SpokenRoles(SubSeq(entries, held + 1, last)),
       result_ids        |-> IF last = 0 THEN ResultIds(entries) ELSE {},
       starts_turn       |-> StartsTurn(new),
       label             |-> SelectLastInSubSeq(entries, last + 1, Len(entries),
                                                UserSpeaks)]

ResponseFacts(entries) ==
  [emitted_ids     |-> IdentitiesOf(entries),
   output_skeleton |-> [i \in DOMAIN entries |->
                          [role |-> entries[i].role, key |-> Key(entries[i])]]]
=============================================================================
