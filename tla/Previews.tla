----------------------------- MODULE Previews -----------------------------
(***************************************************************************)
(* What a reader is shown of a conversation (usage/preview.rs): runs of its  *)
(* entries, each text cut to a length, with what was left out counted.       *)
(*                                                                         *)
(* Indexes of entries start at 0.  A window is [runs, cut]: the runs asked   *)
(* for, none for all entries, and the most code units of a text, or None.   *)
(***************************************************************************)
EXTENDS Matching

\* A run is a span of indexes or the last so many entries.
Span(from, to) == [kind |-> "span", from |-> from, to |-> to]
LastRun(count) == [kind |-> "last", count |-> count]

ValidRun(run) == run.kind = "span" => run.from <= run.to

ValidWindow(window) == \A run \in Range(window.runs) : ValidRun(run)

\* The indexes from .from up to but not .to, where the conversation has them.
Clipped(run, total) ==
  IF run.kind = "span" THEN [from |-> AtMost(run.from, total), to |-> AtMost(run.to + 1, total)]
  ELSE [from |-> Less(total, run.count), to |-> total]

\* A range that begins within the last one or next to it extends it.
Merge(merged, range) ==
  IF merged # <<>> /\ range.from <= Last(merged).to
  THEN [merged EXCEPT ![Len(merged)].to = AtLeast(@, range.to)]
  ELSE Append(merged, range)

\* By their beginning: ranges that begin together are merged whichever comes first.
RangeBefore(a, b) == a.from < b.from \/ (a.from = b.from /\ a.to < b.to)

\* Sorted, disjoint ranges over total entries.
EntryRanges(window, total) ==
  IF window.runs = <<>> THEN <<[from |-> 0, to |-> total]>>
  ELSE LET clipped == [i \in DOMAIN window.runs |-> Clipped(window.runs[i], total)]
           asked   == {r \in Range(clipped) : r.from < r.to}
       IN  FoldLeft(Merge, <<>>, Sorted(asked, RangeBefore))

\* The longest beginning of a text within the limit that ends between characters, and
\* the length of a text that was cut.
Cut(entry, limit) ==
  LET length == CharacterOffset(entry.text, Len(entry.text))
      ends   == {i \in 0..Len(entry.text) : CharacterOffset(entry.text, i) <= limit}
  IN  IF limit = None \/ length <= limit
      THEN [name |-> entry.name, text |-> entry.text, length |-> None]
      ELSE [name |-> entry.name, text |-> SubSeq(entry.text, 1, Max(ends)), length |-> length]

Preview(event, window) ==
  LET entries == event.entries
      ranges  == EntryRanges(window, Len(entries))
      shown   == UNION {r.from..(r.to - 1) : r \in Range(ranges)}
      omitted == (0..(Len(entries) - 1)) \ shown
  IN  [pk |-> event.pk, total |-> Len(entries),
       chunks |-> [i \in DOMAIN ranges |->
          [from |-> ranges[i].from,
           entries |-> [k \in 1..(ranges[i].to - ranges[i].from) |->
                          Cut(entries[ranges[i].from + k], window.cut)]]],
       omittedEntries |-> Len(entries) - FoldLeft(LAMBDA n, r : n + r.to - r.from, 0, ranges),
       omittedCharacters |-> FoldSet(LAMBDA i, n : n + Len(entries[i + 1].text), 0, omitted),
       images |-> event.images]
=============================================================================
