--------------------------- MODULE ProfilesProofs ---------------------------
(***************************************************************************)
(* Proofs that the two profiles answer alike: SQLite's table of offsets has   *)
(* the day of every event, and every read of both is the same.               *)
(***************************************************************************)
EXTENDS QueriesProofs

-----------------------------------------------------------------------------
(* Days of a time zone. *)

\* A binary search for the change of an offset has a result for every span.
LEMMA NarrowedIsSolved ==
  Sq!Narrowed =
    [span \in Int \X Int |->
       IF span[2] - span[1] <= 1 THEN span[2]
       ELSE IF Zone[(span[1] + span[2]) \div 2] = Zone[span[1]]
            THEN Sq!Narrowed[<<(span[1] + span[2]) \div 2, span[2]>>]
            ELSE Sq!Narrowed[<<span[1], (span[1] + span[2]) \div 2>>]]
<1> DEFINE D == Int \X Int
           middle(x) == (x[1] + x[2]) \div 2
           m == [x \in D |-> IF x[2] - x[1] <= 1 THEN 0 ELSE x[2] - x[1]]
           stop == {x \in D : x[2] - x[1] <= 1}
           base == [x \in D |-> x[2]]
           next == [x \in D |-> IF Zone[middle(x)] = Zone[x[1]] THEN <<middle(x), x[2]>>
                                ELSE <<x[1], middle(x)>>]
           Solves(g) == g = [x \in D |-> IF x[2] - x[1] <= 1 THEN x[2]
                                         ELSE IF Zone[middle(x)] = Zone[x[1]] THEN g[<<middle(x), x[2]>>]
                                         ELSE g[<<x[1], middle(x)>>]]
<1>1. m \in [D -> Nat]
  OBVIOUS
<1>2. ASSUME NEW x \in D \ stop
      PROVE  next[x] \in D /\ m[next[x]] < m[x]
  <2>1. x[1] \in Int /\ x[2] \in Int /\ x[2] - x[1] > 1
    OBVIOUS
  <2>2. middle(x) \in Int /\ x[1] < middle(x) /\ middle(x) < x[2]
    BY <2>1
  <2> HIDE DEF middle
  <2> QED
    BY <2>1, <2>2
<1>3. PICK g : DescentOf(g, D, stop, base, D, base, next)
  <2> HIDE DEF D, m, stop, base, next
  <2> QED
    BY <1>1, <1>2, DescentIsDefined
<1>4. Solves(g)
  <2>1. ASSUME NEW x \in D
        PROVE  g[x] = IF x[2] - x[1] <= 1 THEN x[2]
                      ELSE IF Zone[middle(x)] = Zone[x[1]] THEN g[<<middle(x), x[2]>>]
                      ELSE g[<<x[1], middle(x)>>]
    <3>1. g[x] = IF x \in stop THEN base[x] ELSE g[next[x]]
      <4> HIDE DEF D, stop, base, next
      <4> QED
        BY <1>3, Zenon DEF DescentOf
    <3>2. x \in stop <=> x[2] - x[1] <= 1
      OBVIOUS
    <3>3. base[x] = x[2] /\ next[x] = IF Zone[middle(x)] = Zone[x[1]] THEN <<middle(x), x[2]>>
                                     ELSE <<x[1], middle(x)>>
      BY Zenon
    <3> HIDE DEF D, stop, base, next, middle
    <3> QED
      BY <3>1, <3>2, <3>3
  <2>2. g = [x \in D |-> g[x]]
    <3> HIDE DEF D, stop, base, next
    <3> QED
      BY <1>3, Zenon DEF DescentOf
  <2> HIDE DEF D, middle
  <2> QED
    BY <2>1, <2>2
<1>5. Sq!Narrowed = CHOOSE f : Solves(f)
  BY DEF Sq!Narrowed
<1> HIDE DEF Solves
<1>6. Solves(Sq!Narrowed)
  BY <1>4, <1>5, Zenon
<1> QED
  BY <1>6 DEF Solves

\* Without a change between two seconds the offset is the same.
LEMMA OffsetStays ==
  ASSUME NEW a \in Int, NEW b \in Int, a..b \subseteq DOMAIN Zone,
         \A t \in (a + 1)..b : ~Changes(t)
  PROVE  \A t \in a..b : Zone[t] = Zone[a]
<1> DEFINE C == {n \in Nat : a + n <= b /\ Zone[a + n] # Zone[a]}
<1>1. C = {}
  <2>1. SUFFICES ASSUME C # {} PROVE FALSE
    OBVIOUS
  <2>2. PICK n \in C : \A j \in C : n <= j
    <3>1. C \in SUBSET Nat
      OBVIOUS
    <3> HIDE DEF C
    <3> QED
      BY <2>1, <3>1, LeastNumber
  <2>3. n \in Nat /\ a + n <= b /\ Zone[a + n] # Zone[a]
    BY <2>2
  <2>4. n # 0
    BY <2>3
  <2>5. n - 1 \in Nat /\ a + (n - 1) <= b /\ a + (n - 1) = (a + n) - 1 /\ ~(n <= n - 1)
    BY <2>3, <2>4
  <2>6. n - 1 \notin C
    <3> HIDE DEF C
    <3> QED
      BY <2>2, <2>5
  <2>7. Zone[(a + n) - 1] = Zone[a]
    BY <2>5, <2>6
  <2>8. a + n \in (a + 1)..b /\ (a + n) - 1 \in a..b
    BY <2>3, <2>4, <2>5
  <2> QED
    BY <2>3, <2>7, <2>8 DEF Changes
<1>2. ASSUME NEW t \in a..b PROVE Zone[t] = Zone[a]
  <2>1. t - a \in Nat /\ a + (t - a) = t /\ t <= b
    OBVIOUS
  <2>2. t - a \notin C
    BY <1>1
  <2> HIDE DEF C
  <2>3. ~(a + (t - a) <= b /\ Zone[a + (t - a)] # Zone[a])
    BY <2>1, <2>2 DEF C
  <2> QED
    BY <2>1, <2>3
<1> QED
  BY <1>2

\* Within a day the offset stays, or changes once.
ChangesAt(low, high, c) ==
  /\ c \in Int /\ low < c /\ c <= high /\ Zone[low] # Zone[c]
  /\ \A t \in low..(c - 1) : Zone[t] = Zone[low]
  /\ \A t \in c..high : Zone[t] = Zone[c]

\* An offset changes at most once within a day, and so a search for its change finds it.
LEMMA OffsetChangesOnce ==
  ASSUME NEW low \in Int, NEW high \in Int, low < high, high <= low + DayLength,
         low..high \subseteq DOMAIN Zone
  PROVE  \/ \A t \in low..high : Zone[t] = Zone[low]
         \/ \E c \in Int : ChangesAt(low, high, c)
<1>0. DayLength \in Nat
  BY ReadConstants
<1>1. CASE \A t \in (low + 1)..high : ~Changes(t)
  BY <1>1, OffsetStays
<1>2. CASE \E t \in (low + 1)..high : Changes(t)
  <2>1. PICK c \in (low + 1)..high : Changes(c)
    BY <1>2
  <2>2. ASSUME NEW t \in (low + 1)..high, t # c
        PROVE  ~Changes(t)
    <3>1. c \in DOMAIN Zone /\ t \in DOMAIN Zone /\ (c < t \/ t < c)
      BY <2>2
    <3>2. ~(t - c >= DayLength) /\ ~(c - t >= DayLength)
      BY <1>0
    <3>3. \A x, y \in DOMAIN Zone : Changes(x) /\ Changes(y) /\ x < y => y - x >= DayLength
      BY ZoneConstants
    <3> QED
      BY <2>1, <3>1, <3>2, <3>3, Zenon
  <2>3. \A t \in low..(c - 1) : Zone[t] = Zone[low]
    <3>1. PICK b \in Int : b = c - 1
      OBVIOUS
    <3>2. (\A t \in (low + 1)..b : ~Changes(t)) /\ low..b \subseteq DOMAIN Zone
      BY <2>2, <3>1
    <3>3. \A t \in low..b : Zone[t] = Zone[low]
      BY <3>2, OffsetStays
    <3> QED
      BY <3>1, <3>3
  <2>4. \A t \in c..high : Zone[t] = Zone[c]
    <3>1. \A t \in (c + 1)..high : ~Changes(t)
      BY <2>2
    <3>2. c..high \subseteq DOMAIN Zone
      OBVIOUS
    <3> QED
      BY <3>1, <3>2, OffsetStays
  <2>5. Zone[c - 1] = Zone[low] /\ Zone[c - 1] # Zone[c]
    BY <2>1, <2>3 DEF Changes
  <2> QED
    BY <2>3, <2>4, <2>5 DEF ChangesAt
<1> QED
  BY <1>1, <1>2

\* The binary search finds the change.
LEMMA NarrowedFinds ==
  ASSUME NEW low \in Int, NEW high \in Int, NEW c \in Int, ChangesAt(low, high, c)
  PROVE  Sq!Narrowed[<<low, high>>] = c
<1> DEFINE Fails(n) == \E l, h \in Int : h - l = n /\ ChangesAt(l, h, c) /\ Sq!Narrowed[<<l, h>>] # c
           C == {n \in Nat : Fails(n)}
<1>1. C = {}
  <2>1. SUFFICES ASSUME C # {} PROVE FALSE
    OBVIOUS
  <2>2. PICK n \in C : \A j \in C : n <= j
    <3>1. C \in SUBSET Nat
      OBVIOUS
    <3> HIDE DEF C
    <3> QED
      BY <2>1, <3>1, LeastNumber
  <2>3. PICK l \in Int, h \in Int : h - l = n /\ ChangesAt(l, h, c) /\ Sq!Narrowed[<<l, h>>] # c
    BY <2>2
  <2> DEFINE middle == (l + h) \div 2
  <2>4. Sq!Narrowed[<<l, h>>] = IF h - l <= 1 THEN h
                                ELSE IF Zone[middle] = Zone[l] THEN Sq!Narrowed[<<middle, h>>]
                                ELSE Sq!Narrowed[<<l, middle>>]
    <3>1. <<l, h>> \in Int \X Int /\ <<l, h>>[1] = l /\ <<l, h>>[2] = h
      OBVIOUS
    <3> QED
      BY <3>1, NarrowedIsSolved
  <2>5. h - l > 1
    BY <2>3, <2>4 DEF ChangesAt
  <2>6. middle \in Int /\ l < middle /\ middle < h
    BY <2>5
  <2>7. ASSUME NEW a \in Int, NEW b \in Int, b - a < n, ChangesAt(a, b, c)
        PROVE  Sq!Narrowed[<<a, b>>] = c
    <3>1. b - a \in Nat
      BY <2>7 DEF ChangesAt
    <3>2. b - a \notin C
      <4> HIDE DEF C
      <4>1. n \in Nat /\ ~(n <= b - a)
        BY <2>7, <3>1 DEF C
      <4> QED
        BY <2>2, <4>1
    <3> QED
      BY <2>7, <3>1, <3>2
  <2> HIDE DEF middle, C
  <2>8. CASE middle < c
    <3>1. Zone[middle] = Zone[l] /\ ChangesAt(middle, h, c)
      BY <2>3, <2>6, <2>8 DEF ChangesAt
    <3>2. h - middle < n
      BY <2>3, <2>6
    <3> QED
      BY <2>3, <2>4, <2>5, <2>6, <2>7, <3>1, <3>2
  <2>9. CASE ~(middle < c)
    <3>1. Zone[middle] # Zone[l] /\ ChangesAt(l, middle, c)
      BY <2>3, <2>6, <2>9 DEF ChangesAt
    <3>2. middle - l < n
      BY <2>3, <2>6
    <3> QED
      BY <2>3, <2>4, <2>5, <2>6, <2>7, <3>1, <3>2
  <2> QED
    BY <2>8, <2>9
<1>2. high - low \in Nat
  BY DEF ChangesAt
<1>3. ~Fails(high - low)
  BY <1>1, <1>2
<1> QED
  BY <1>3

\* What the binary search answers lies in its span, whatever the offsets are.
LEMMA NarrowedIsWithin ==
  ASSUME NEW low \in Int, NEW high \in Int, low < high
  PROVE  /\ Sq!Narrowed[<<low, high>>] \in Int
         /\ low < Sq!Narrowed[<<low, high>>] /\ Sq!Narrowed[<<low, high>>] <= high
<1> DEFINE Inside(l, h, x) == x \in Int /\ l < x /\ x <= h
           Fails(n) == \E l, h \in Int : h - l = n /\ l < h /\ ~Inside(l, h, Sq!Narrowed[<<l, h>>])
           C == {n \in Nat : Fails(n)}
<1>1. C = {}
  <2>1. SUFFICES ASSUME C # {} PROVE FALSE
    OBVIOUS
  <2>2. PICK n \in C : \A j \in C : n <= j
    <3>1. C \in SUBSET Nat
      OBVIOUS
    <3> HIDE DEF C
    <3> QED
      BY <2>1, <3>1, LeastNumber
  <2>3. PICK l \in Int, h \in Int : h - l = n /\ l < h /\ ~Inside(l, h, Sq!Narrowed[<<l, h>>])
    BY <2>2
  <2> DEFINE middle == (l + h) \div 2
  <2>4. Sq!Narrowed[<<l, h>>] = IF h - l <= 1 THEN h
                                ELSE IF Zone[middle] = Zone[l] THEN Sq!Narrowed[<<middle, h>>]
                                ELSE Sq!Narrowed[<<l, middle>>]
    <3>1. <<l, h>> \in Int \X Int /\ <<l, h>>[1] = l /\ <<l, h>>[2] = h
      OBVIOUS
    <3> QED
      BY <3>1, NarrowedIsSolved
  <2>5. h - l > 1
    BY <2>3, <2>4
  <2>6. middle \in Int /\ l < middle /\ middle < h
    BY <2>5
  <2>7. ASSUME NEW a \in Int, NEW b \in Int, b - a < n, a < b
        PROVE  Inside(a, b, Sq!Narrowed[<<a, b>>])
    <3>1. b - a \in Nat
      BY <2>7
    <3>2. b - a \notin C
      <4> HIDE DEF C
      <4>1. n \in Nat /\ ~(n <= b - a)
        BY <2>7, <3>1 DEF C
      <4> QED
        BY <2>2, <4>1
    <3> QED
      BY <2>7, <3>1, <3>2
  <2>8. Inside(middle, h, Sq!Narrowed[<<middle, h>>]) /\ Inside(l, middle, Sq!Narrowed[<<l, middle>>])
    <3>1. h - middle < n /\ middle - l < n
      BY <2>3, <2>6
    <3> HIDE DEF Within, C, middle
    <3> QED
      BY <2>6, <2>7, <3>1
  <2> HIDE DEF middle, C
  <2> QED
    BY <2>3, <2>4, <2>5, <2>6, <2>8
<1>2. high - low \in Nat /\ low < high
  OBVIOUS
<1>3. ~Fails(high - low)
  BY <1>1, <1>2
<1> QED
  BY <1>3

\* The walk from one day to the next, and from a change on.
NextDay(cursor, last) == AtMost(cursor + DayLength, last)
SameOffset(cursor, last) == Zone[NextDay(cursor, last)] = Zone[cursor]
ChangeAfter(cursor, last) == Sq!Narrowed[<<cursor, NextDay(cursor, last)>>]
OffsetAt(second) == <<[start |-> second, offset |-> Zone[second]]>>

ChangesFrom(g, last) ==
  g = [cursor \in Int |->
         IF cursor >= last THEN <<>>
         ELSE IF SameOffset(cursor, last) THEN g[NextDay(cursor, last)]
         ELSE OffsetAt(ChangeAfter(cursor, last)) \o g[ChangeAfter(cursor, last)]]

\* It comes to an end.
LEMMA OffsetsAreWalked ==
  ASSUME NEW last \in Int, NEW first
  PROVE  \E g : /\ ChangesFrom(g, last)
                /\ Sq!UtcOffsetChanges(first, last) = OffsetAt(first) \o g[first]
<1> DEFINE stop == {x \in Int : x >= last}
           m == [x \in Int |-> IF x >= last THEN 0 ELSE last - x]
           skip == {x \in Int : SameOffset(x, last)}
           base == [x \in Int |-> <<>>]
           pre == [x \in Int |-> OffsetAt(ChangeAfter(x, last))]
           next == [x \in Int |-> IF SameOffset(x, last) THEN NextDay(x, last) ELSE ChangeAfter(x, last)]
<1>1. m \in [Int -> Nat]
  OBVIOUS
<1>2. ASSUME NEW x \in Int \ stop
      PROVE  next[x] \in Int /\ m[next[x]] < m[x]
  <2>1. x < last /\ x \in Int
    OBVIOUS
  <2>2. NextDay(x, last) \in Int /\ x < NextDay(x, last) /\ NextDay(x, last) <= last
    BY <2>1, ReadConstants DEF NextDay, AtMost
  <2>3. ChangeAfter(x, last) \in Int /\ x < ChangeAfter(x, last) /\ ChangeAfter(x, last) <= NextDay(x, last)
    BY <2>1, <2>2, NarrowedIsWithin DEF ChangeAfter
  <2>4. next[x] \in Int /\ x < next[x] /\ next[x] <= last
    BY <2>1, <2>2, <2>3
  <2> HIDE DEF next
  <2> QED
    BY <2>1, <2>4
<1>3. PICK g : DescentOf(g, Int, stop, base, skip, pre, next)
  <2> HIDE DEF m, stop, base, skip, pre, next
  <2> QED
    BY <1>1, <1>2, DescentIsDefined
<1>4. ChangesFrom(g, last)
  <2>1. ASSUME NEW x \in Int
        PROVE  g[x] = IF x >= last THEN <<>>
                      ELSE IF SameOffset(x, last) THEN g[NextDay(x, last)]
                      ELSE OffsetAt(ChangeAfter(x, last)) \o g[ChangeAfter(x, last)]
    <3>1. g[x] = IF x \in stop THEN base[x]
                 ELSE IF x \in skip THEN g[next[x]] ELSE pre[x] \o g[next[x]]
      <4> HIDE DEF stop, base, skip, pre, next
      <4> QED
        BY <1>3, Zenon DEF DescentOf
    <3>2. (x \in stop <=> x >= last) /\ (x \in skip <=> SameOffset(x, last))
      OBVIOUS
    <3>3. /\ base[x] = <<>> /\ pre[x] = OffsetAt(ChangeAfter(x, last))
          /\ next[x] = IF SameOffset(x, last) THEN NextDay(x, last) ELSE ChangeAfter(x, last)
      BY Zenon
    <3> HIDE DEF stop, base, skip, pre, next
    <3> QED
      BY <3>1, <3>2, <3>3, Zenon
  <2>2. g = [x \in Int |-> g[x]]
    <3> HIDE DEF stop, base, skip, pre, next
    <3> QED
      BY <1>3, Zenon DEF DescentOf
  <2> DEFINE h == [x \in Int |->
                     IF x >= last THEN <<>>
                     ELSE IF SameOffset(x, last) THEN g[NextDay(x, last)]
                     ELSE OffsetAt(ChangeAfter(x, last)) \o g[ChangeAfter(x, last)]]
  <2>3. \A x \in Int : h[x] = g[x]
    BY <2>1, Zenon
  <2>4. h = [x \in Int |-> h[x]]
    BY Zenon
  <2> HIDE DEF m, stop, base, skip, pre, next
  <2>5. h = g
    <3> HIDE DEF h
    <3> QED
      BY <2>2, <2>3, <2>4, Zenon
  <2> QED
    BY <2>5, Zenon DEF ChangesFrom
<1>5. PICK G : G = CHOOSE f : ChangesFrom(f, last)
  OBVIOUS
<1>6. ChangesFrom(G, last)
  BY <1>4, <1>5, Zenon
<1>7. Sq!UtcOffsetChanges(first, last) = OffsetAt(first) \o G[first]
  <2>1. \A a, b : Sq!AtMost(a, b) = AtMost(a, b)
    BY DEF Sq!AtMost, AtMost
  <2> QED
    BY <1>5, <2>1 DEF Sq!UtcOffsetChanges, ChangesFrom, OffsetAt, SameOffset, ChangeAfter, NextDay
<1> QED
  BY <1>6, <1>7

\* Entry i is the last one that starts by a time.
Latest(changes, i, at) ==
  /\ changes[i].start <= at
  /\ \A j \in 1..Len(changes) : i < j => changes[j].start > at

\* What the offsets after a second tell of the times up to the last one.
Tell(changes, second, last) ==
  /\ changes \in Seq([start : Int, offset : Int])
  /\ \A i \in 1..Len(changes) : changes[i].start > second
  /\ \A at \in second..last :
       /\ (\A i \in 1..Len(changes) : changes[i].start > at) => Zone[at] = Zone[second]
       /\ \A i \in 1..Len(changes) : Latest(changes, i, at) => changes[i].offset = Zone[at]

\* A day on which nothing changes.
LEMMA TellsOfSteadyDay ==
  ASSUME NEW second \in Int, NEW next \in Int, NEW last \in Int, second < next,
         \A t \in second..next : Zone[t] = Zone[second],
         NEW changes, Tell(changes, next, last)
  PROVE  Tell(changes, second, last)
<1>1. \A i \in 1..Len(changes) : changes[i].start \in Int
  <2>1. \A i \in 1..Len(changes) : changes[i] \in [start : Int, offset : Int]
    BY ElementOfSeq DEF Tell
  <2> QED
    BY <2>1
<1>2. \A i \in 1..Len(changes) : changes[i].start > next
  BY DEF Tell
<1>3. \A i \in 1..Len(changes) : changes[i].start > second
  BY <1>1, <1>2
<1>4. ASSUME NEW at \in second..last, at < next
      PROVE  /\ Zone[at] = Zone[second]
             /\ \A i \in 1..Len(changes) : ~Latest(changes, i, at)
  <2>1. \A i \in 1..Len(changes) : ~(changes[i].start <= at)
    BY <1>1, <1>2, <1>4
  <2>2. at \in second..next
    BY <1>4
  <2> QED
    BY <2>1, <2>2 DEF Latest
<1>5. ASSUME NEW at \in second..last, ~(at < next)
      PROVE  /\ (\A i \in 1..Len(changes) : changes[i].start > at) => Zone[at] = Zone[second]
             /\ \A i \in 1..Len(changes) : Latest(changes, i, at) => changes[i].offset = Zone[at]
  <2>1. at \in next..last /\ next \in second..next
    BY <1>5
  <2>2. Zone[next] = Zone[second]
    BY <2>1
  <2> QED
    BY <2>1, <2>2, Zenon DEF Tell
<1>6. \A at \in second..last :
        /\ (\A i \in 1..Len(changes) : changes[i].start > at) => Zone[at] = Zone[second]
        /\ \A i \in 1..Len(changes) : Latest(changes, i, at) => changes[i].offset = Zone[at]
  BY <1>4, <1>5
<1> QED
  BY <1>3, <1>6, Zenon DEF Tell

\* An offset from a second on, and then the changes after it.
Begins(all, change, changes) ==
  /\ all \in Seq([start : Int, offset : Int]) /\ Len(all) = Len(changes) + 1
  /\ all[1] = [start |-> change, offset |-> Zone[change]]
  /\ \A i \in 1..Len(changes) : all[i + 1] = changes[i]

\* They are put together.
LEMMA OffsetsBegin ==
  ASSUME NEW change \in Int, Zone[change] \in Int,
         NEW changes, changes \in Seq([start : Int, offset : Int])
  PROVE  Begins(OffsetAt(change) \o changes, change, changes)
<1> DEFINE all == OffsetAt(change) \o changes
<1>1. PICK n \in Nat : n = Len(changes)
  BY LenProperties
<1>2. [start |-> change, offset |-> Zone[change]] \in [start : Int, offset : Int]
  OBVIOUS
<1>3. PICK x \in [start : Int, offset : Int] : x = [start |-> change, offset |-> Zone[change]]
  BY <1>2
<1>4. /\ <<x>> \in Seq([start : Int, offset : Int]) /\ changes \in Seq([start : Int, offset : Int])
      /\ OffsetAt(change) = <<x>>
  BY <1>3 DEF OffsetAt
<1>5. all \in Seq([start : Int, offset : Int])
  BY <1>4, ConcatProperties
<1>6. Len(all) = n + 1 /\ all[1] = x /\ \A i \in 1..n : all[i + 1] = changes[i]
  <2>1. Len(<<x>>) = 1 /\ <<x>>[1] = x
    OBVIOUS
  <2>2. /\ Len(all) = 1 + n
        /\ \A i \in 1..(1 + n) : all[i] = IF i <= 1 THEN <<x>>[i] ELSE changes[i - 1]
    BY <1>1, <1>4, <2>1, ConcatProperties
  <2>3. ASSUME NEW i \in 1..n PROVE all[i + 1] = changes[i]
    <3>1. i + 1 \in 1..(1 + n) /\ ~(i + 1 <= 1) /\ (i + 1) - 1 = i
      OBVIOUS
    <3> HIDE DEF all
    <3> QED
      BY <2>2, <3>1
  <2>4. all[1] = x
    <3>1. 1 \in 1..(1 + n)
      OBVIOUS
    <3> HIDE DEF all
    <3> QED
      BY <2>1, <2>2, <3>1
  <2>5. Len(all) = n + 1
    <3> HIDE DEF all
    <3> QED
      BY <2>2
  <2> QED
    BY <2>3, <2>4, <2>5, Zenon
<1> QED
  BY <1>1, <1>3, <1>5, <1>6 DEF Begins

\* They tell the offset of each second from then on.
LEMMA OffsetsTell ==
  ASSUME NEW change \in Int, NEW last \in Int, Zone[change] \in Int,
         NEW changes, Tell(changes, change, last),
         NEW all, Begins(all, change, changes)
  PROVE  /\ all \in Seq([start : Int, offset : Int]) /\ Len(all) >= 1
         /\ all[1].start = change /\ \A i \in 1..Len(all) : all[i].start >= change
         /\ \A at \in change..last : \A i \in 1..Len(all) :
              Latest(all, i, at) => all[i].offset = Zone[at]
<1>1. PICK n \in Nat : n = Len(changes)
  BY LenProperties DEF Tell
<1>2. /\ all \in Seq([start : Int, offset : Int]) /\ Len(all) = n + 1
      /\ all[1] = [start |-> change, offset |-> Zone[change]]
      /\ \A i \in 1..n : all[i + 1] = changes[i] /\ changes[i].start \in Int
  <2>1. \A i \in 1..n : changes[i] \in [start : Int, offset : Int]
    BY <1>1, ElementOfSeq DEF Tell
  <2>2. /\ all \in Seq([start : Int, offset : Int]) /\ Len(all) = n + 1
        /\ all[1] = [start |-> change, offset |-> Zone[change]]
        /\ \A i \in 1..n : all[i + 1] = changes[i]
    BY <1>1, Zenon DEF Begins
  <2>3. \A i \in 1..n : changes[i].start \in Int
    BY <2>1
  <2> QED
    BY <2>2, <2>3, Zenon
<1>3. /\ all[1].start = change /\ all[1].offset = Zone[change]
      /\ \A i \in 1..n : all[i + 1].start = changes[i].start /\ all[i + 1].offset = changes[i].offset
  <2>1. all[1].start = change /\ all[1].offset = Zone[change]
    BY <1>2
  <2>2. ASSUME NEW i \in 1..n
        PROVE  all[i + 1].start = changes[i].start /\ all[i + 1].offset = changes[i].offset
    <3>1. all[i + 1] = changes[i]
      BY <1>2, Zenon
    <3> QED
      BY <3>1, Zenon
  <2> QED
    BY <2>1, <2>2, Zenon
<1>4. \A i \in 1..n : changes[i].start > change
  BY <1>1 DEF Tell
<1>5. \A i \in 1..(n + 1) : i = 1 \/ (i - 1 \in 1..n /\ (i - 1) + 1 = i)
  OBVIOUS
<1>6. \A i \in 1..(n + 1) : all[i].start >= change
  <2>1. all[1].start >= change
    BY <1>3
  <2>2. ASSUME NEW i \in 1..n PROVE all[i + 1].start >= change
    <3>1. PICK start \in Int : start = changes[i].start
      BY <1>2
    <3>2. all[i + 1].start = start /\ start > change
      BY <1>3, <1>4, <3>1
    <3> QED
      BY <3>2
  <2>3. ASSUME NEW i \in 1..(n + 1) PROVE all[i].start >= change
    <3>1. CASE i = 1
      BY <2>1, <3>1
    <3>2. CASE i # 1
      <4>1. PICK k \in 1..n : k + 1 = i
        BY <1>5, <3>2
      <4> QED
        BY <2>2, <4>1
    <3> QED
      BY <3>1, <3>2
  <2> QED
    BY <2>3
<1>7. ASSUME NEW at \in change..last, NEW i \in 1..(n + 1), all[i].start <= at,
             \A j \in 1..(n + 1) : i < j => all[j].start > at
      PROVE  all[i].offset = Zone[at]
  <2>2. at \in change..last
    BY <1>7
  <2>3. CASE i = 1
    <3>1. ASSUME NEW j \in 1..n PROVE changes[j].start > at
      <4>1. j + 1 \in 1..(n + 1) /\ i < j + 1
        BY <2>3
      <4> QED
        BY <1>3, <1>7, <4>1
    <3>2. Zone[at] = Zone[change]
      BY <1>1, <2>2, <3>1 DEF Tell
    <3> QED
      BY <1>3, <2>3, <3>2
  <2>4. CASE i # 1
    <3>1. PICK k \in 1..n : k + 1 = i
      BY <2>4
    <3>2. changes[k].start <= at
      BY <1>3, <1>7, <3>1
    <3>3. ASSUME NEW j \in 1..n, k < j PROVE changes[j].start > at
      <4>1. j + 1 \in 1..(n + 1) /\ i < j + 1
        BY <3>1, <3>3
      <4> QED
        BY <1>3, <1>7, <4>1
    <3>4. Latest(changes, k, at)
      BY <1>1, <3>2, <3>3 DEF Latest
    <3>5. changes[k].offset = Zone[at]
      BY <1>1, <2>2, <3>4 DEF Tell
    <3> QED
      BY <1>3, <3>1, <3>5
  <2> QED
    BY <2>3, <2>4
<1>8. \A at \in change..last : \A i \in 1..Len(all) : Latest(all, i, at) => all[i].offset = Zone[at]
  BY <1>2, <1>7 DEF Latest
<1> QED
  BY <1>2, <1>3, <1>6, <1>8

\* A change, and what follows it.
LEMMA TellsOfChange ==
  ASSUME NEW second \in Int, NEW change \in Int, NEW last \in Int, second < change,
         \A t \in second..(change - 1) : Zone[t] = Zone[second], Zone[change] \in Int,
         NEW changes, Tell(changes, change, last)
  PROVE  Tell(OffsetAt(change) \o changes, second, last)
<1>1. PICK all : all = OffsetAt(change) \o changes
  OBVIOUS
<1>2. Begins(all, change, changes)
  BY <1>1, OffsetsBegin DEF Tell
<1>3. /\ all \in Seq([start : Int, offset : Int]) /\ Len(all) >= 1 /\ Len(all) \in Nat
      /\ all[1].start = change /\ \A i \in 1..Len(all) : all[i].start >= change
      /\ \A at \in change..last : \A i \in 1..Len(all) :
           Latest(all, i, at) => all[i].offset = Zone[at]
  BY <1>2, OffsetsTell, LenProperties
<1>4. \A i \in 1..Len(all) : all[i].start \in Int
  <2>1. \A i \in 1..Len(all) : all[i] \in [start : Int, offset : Int]
    BY <1>3, ElementOfSeq
  <2> QED
    BY <2>1
<1>5. \A i \in 1..Len(all) : all[i].start > second
  BY <1>3, <1>4
<1>6. ASSUME NEW at \in second..last, at < change
      PROVE  Zone[at] = Zone[second] /\ \A i \in 1..Len(all) : ~Latest(all, i, at)
  <2>1. \A i \in 1..Len(all) : ~(all[i].start <= at)
    BY <1>3, <1>4, <1>6
  <2>2. at \in second..(change - 1)
    BY <1>6
  <2> QED
    BY <2>1, <2>2 DEF Latest
<1>7. ASSUME NEW at \in second..last, ~(at < change)
      PROVE  /\ ~ \A i \in 1..Len(all) : all[i].start > at
             /\ \A i \in 1..Len(all) : Latest(all, i, at) => all[i].offset = Zone[at]
  <2>1. at \in change..last /\ 1 \in 1..Len(all) /\ ~(change > at)
    BY <1>3, <1>7
  <2> QED
    BY <1>3, <2>1
<1>8. \A at \in second..last :
        /\ (\A i \in 1..Len(all) : all[i].start > at) => Zone[at] = Zone[second]
        /\ \A i \in 1..Len(all) : Latest(all, i, at) => all[i].offset = Zone[at]
  BY <1>6, <1>7
<1> QED
  BY <1>1, <1>3, <1>5, <1>8, Zenon DEF Tell

\* From any second on the walk finds every change.
LEMMA WalkedOffsetsTell ==
  ASSUME NEW first \in Int, NEW last \in Int, first..last \subseteq DOMAIN Zone,
         NEW g, ChangesFrom(g, last)
  PROVE  \A second \in first..last : Tell(g[second], second, last)
<1> DEFINE Fails(n) == \E second \in first..last : last - second = n /\ ~Tell(g[second], second, last)
           C == {n \in Nat : Fails(n)}
<1>1. C = {}
  <2>1. SUFFICES ASSUME C # {} PROVE FALSE
    OBVIOUS
  <2>2. PICK n \in C : \A j \in C : n <= j
    <3>1. C \in SUBSET Nat
      OBVIOUS
    <3> HIDE DEF C
    <3> QED
      BY <2>1, <3>1, LeastNumber
  <2>3. PICK x \in first..last : last - x = n /\ ~Tell(g[x], x, last)
    BY <2>2
  <2> DEFINE next == NextDay(x, last)
             change == ChangeAfter(x, last)
  <2>4. g[x] = IF x >= last THEN <<>>
               ELSE IF SameOffset(x, last) THEN g[next] ELSE OffsetAt(change) \o g[change]
    <3>1. x \in Int
      OBVIOUS
    <3> QED
      BY <3>1 DEF ChangesFrom
  <2>5. ASSUME NEW y \in first..last, x < y
        PROVE  Tell(g[y], y, last)
    <3>1. last - y \in Nat /\ n \in Nat /\ ~(n <= last - y)
      BY <2>2, <2>3, <2>5
    <3>2. last - y \notin C
      <4> HIDE DEF C
      <4> QED
        BY <2>2, <3>1
    <3> QED
      BY <3>1, <3>2
  <2> HIDE DEF C
  <2>6. CASE x >= last
    <3>1. x = last
      BY <2>6
    <3>2. g[x] = <<>>
      BY <2>4, <2>6
    <3>3. Len(<<>>) = 0 /\ <<>> \in Seq([start : Int, offset : Int])
      BY EmptySeq
    <3>4. Tell(<<>>, x, last)
      BY <3>1, <3>3 DEF Tell
    <3> QED
      BY <2>3, <3>2, <3>4
  <2>7. CASE x < last
    <3>1. /\ next \in Int /\ x < next /\ next <= last /\ next <= x + DayLength
      BY <2>7, ReadConstants DEF NextDay, AtMost
    <3> HIDE DEF next
    <3>2. x..next \subseteq DOMAIN Zone /\ x \in Int
      <4>1. x..next \subseteq first..last
        BY <3>1
      <4> QED
        BY <4>1
    <3>3. \/ \A t \in x..next : Zone[t] = Zone[x]
          \/ \E c \in Int : ChangesAt(x, next, c)
      BY <3>1, <3>2, OffsetChangesOnce
    <3>4. CASE \A t \in x..next : Zone[t] = Zone[x]
      <4>1. SameOffset(x, last)
        <5>1. next \in x..next
          BY <3>1, <3>2
        <5> QED
          BY <3>4, <5>1 DEF SameOffset, next
      <4>2. g[x] = g[next]
        BY <2>4, <2>7, <4>1, <3>2
      <4>3. Tell(g[next], next, last)
        BY <2>5, <3>1
      <4>4. Tell(g[next], x, last)
        BY <3>1, <3>2, <3>4, <4>3, TellsOfSteadyDay
      <4> QED
        BY <2>3, <4>2, <4>4
    <3>5. CASE \E c \in Int : ChangesAt(x, next, c)
      <4>1. PICK c \in Int : ChangesAt(x, next, c)
        BY <3>5
      <4>2. x < c /\ c <= next /\ Zone[x] # Zone[c] /\ Zone[next] = Zone[c]
            /\ \A t \in x..(c - 1) : Zone[t] = Zone[x]
        BY <3>1, <4>1 DEF ChangesAt
      <4>3. ~SameOffset(x, last)
        BY <4>2 DEF SameOffset, next
      <4>4. change = c
        BY <3>1, <3>2, <4>1, NarrowedFinds DEF ChangeAfter, next
      <4>5. g[x] = OffsetAt(c) \o g[c]
        <5> HIDE DEF change
        <5> QED
          BY <2>4, <2>7, <4>3, <4>4, <3>2
      <4>6. c \in first..last /\ x < c
        BY <3>1, <4>2
      <4>7. Tell(g[c], c, last)
        BY <2>5, <4>6
      <4>8. Zone[c] \in Int
        BY <4>6, ZoneConstants
      <4>9. Tell(OffsetAt(c) \o g[c], x, last)
        BY <3>2, <4>2, <4>7, <4>8, TellsOfChange
      <4> QED
        BY <2>3, <4>5, <4>9
    <3> QED
      BY <3>3, <3>4, <3>5
  <2> QED
    BY <2>6, <2>7
<1>2. ASSUME NEW second \in first..last PROVE Tell(g[second], second, last)
  <2>1. last - second \in Nat
    OBVIOUS
  <2>2. ~Fails(last - second)
    BY <1>1, <2>1
  <2> QED
    BY <2>2
<1> QED
  BY <1>2

\* The offset of each second between two is the one that is looked up, and so is its day.
LEMMA DayIsTold ==
  ASSUME NEW first \in Int, NEW last \in Int, first..last \subseteq DOMAIN Zone,
         NEW at \in first..last
  PROVE  Sq!DayOf(Sq!UtcOffsetChanges(first, last), at) = (at + Zone[at]) \div DayLength
<1>1. PICK g : /\ ChangesFrom(g, last)
               /\ Sq!UtcOffsetChanges(first, last) = OffsetAt(first) \o g[first]
  BY OffsetsAreWalked
<1>2. first \in first..last /\ Zone[first] \in Int
  BY ZoneConstants
<1>3. Tell(g[first], first, last)
  BY <1>1, <1>2, WalkedOffsetsTell
<1>4. PICK all : all = Sq!UtcOffsetChanges(first, last)
  OBVIOUS
<1>5. Begins(all, first, g[first])
  BY <1>1, <1>2, <1>3, <1>4, OffsetsBegin DEF Tell
<1>6. /\ all \in Seq([start : Int, offset : Int]) /\ Len(all) >= 1
      /\ all[1].start = first
      /\ \A i \in 1..Len(all) : Latest(all, i, at) => all[i].offset = Zone[at]
  <2>1. PICK changes : changes = g[first]
    OBVIOUS
  <2>2. Tell(changes, first, last) /\ Begins(all, first, changes)
    BY <1>3, <1>5, <2>1
  <2>3. /\ all \in Seq([start : Int, offset : Int]) /\ Len(all) >= 1
        /\ all[1].start = first /\ \A i \in 1..Len(all) : all[i].start >= first
        /\ \A t \in first..last : \A i \in 1..Len(all) :
             Latest(all, i, t) => all[i].offset = Zone[t]
    <3>1. Zone[first] \in Int /\ Tell(changes, first, last) /\ Begins(all, first, changes)
      BY <1>2, <2>2
    <3> QED
      BY <3>1, OffsetsTell
  <2> QED
    BY <2>3
<1>7. PICK n \in Nat : n = Len(all) /\ DOMAIN all = 1..n /\ n >= 1
  BY <1>6, LenProperties
<1>8. \A i \in 1..n : all[i].start \in Int
  <2>1. \A i \in 1..n : all[i] \in [start : Int, offset : Int]
    BY <1>6, <1>7, ElementOfSeq
  <2> QED
    BY <2>1
<1> DEFINE before == {i \in DOMAIN all : all[i].start <= at}
<1>9. /\ before \subseteq 1..n /\ 1 \in before
      /\ \A i \in 1..n : i \in before <=> all[i].start <= at
  <2>1. 1 \in 1..n /\ all[1].start <= at
    BY <1>6, <1>7
  <2> QED
    BY <1>7, <2>1
<1>10. Sq!DayOf(all, at) = (at + all[IF before = {} THEN 1 ELSE Sq!Max(before)].offset) \div DayLength
  BY Zenon DEF Sq!DayOf
<1> HIDE DEF before
<1>11. PICK m \in before : m = Max(before) /\ \A i \in before : i <= m
  <2>1. IsFiniteSet(before) /\ before \subseteq Int /\ before # {}
    <3>1. IsFiniteSet(1..n) /\ 1..n \subseteq Int
      BY FS_Interval
    <3> QED
      BY <1>9, <3>1, FS_Subset
  <2> QED
    BY <2>1, MaxIsGreatest
<1>12. Latest(all, m, at)
  <2>1. m \in 1..n /\ all[m].start <= at
    BY <1>9
  <2>2. ASSUME NEW j \in 1..n, m < j PROVE all[j].start > at
    <3>1. j \notin before
      BY <1>11, <2>1, <2>2
    <3>2. ~(all[j].start <= at)
      BY <1>9, <3>1
    <3> QED
      BY <1>8, <3>2
  <2> QED
    BY <1>7, <2>1, <2>2 DEF Latest
<1>13. m \in 1..Len(all) /\ before # {} /\ Sq!Max(before) = m
  BY <1>7, <1>9, <1>11, SameOperators
<1>14. all[m].offset = Zone[at]
  BY <1>6, <1>12, <1>13
<1> QED
  BY <1>4, <1>10, <1>13, <1>14

-----------------------------------------------------------------------------
(* What both profiles do alike. *)

\* The reads see the rows of a database.
LEMMA SameRows ==
  ASSUME NEW d
  PROVE  /\ Sq!RowsOf(d) = RowsOf(d) /\ Pg!RowsOf(d) = RowsOf(d)
         /\ Sq!SessionRows(d) = SessionRows(d) /\ Pg!SessionRows(d) = SessionRows(d)
<1>1. Sq!RowsOf(d) = RowsOf(d)
  BY DEF Sq!RowsOf, RowsOf
<1>2. Pg!RowsOf(d) = RowsOf(d)
  BY DEF Pg!RowsOf, RowsOf
<1>3. Sq!SessionRows(d) = SessionRows(d)
  BY DEF Sq!SessionRows, SessionRows
<1>4. Pg!SessionRows(d) = SessionRows(d)
  BY DEF Pg!SessionRows, SessionRows
<1> QED
  BY <1>1, <1>2, <1>3, <1>4

\* And what they count and add up is the same.
LEMMA PgSameOperators ==
  ASSUME NEW S
  PROVE  /\ Pg!Cardinality(S) = Cardinality(S) /\ Pg!Max(S) = Max(S) /\ Pg!Range(S) = Range(S)
         /\ Sq!Total(S) = Total(S) /\ Pg!Total(S) = Total(S)
<1>1. Pg!Cardinality(S) = Cardinality(S)
  BY Zenon DEF Pg!Cardinality, Cardinality
<1>2. Pg!Max(S) = Max(S)
  BY Zenon DEF Pg!Max, Max
<1>3. Pg!Range(S) = Range(S)
  BY Zenon DEF Pg!Range, Range
<1>4. Sq!Total(S) = Total(S)
  BY SMT DEF Sq!Total, Total, Sq!FoldSet, FoldSet, Sq!MapThenFoldSet, MapThenFoldSet
<1>5. Pg!Total(S) = Total(S)
  BY SMT DEF Pg!Total, Total, Pg!FoldSet, FoldSet, Pg!MapThenFoldSet, MapThenFoldSet
<1> QED
  BY <1>1, <1>2, <1>3, <1>4, <1>5

\* Both profiles sort by the same orders.
LEMMA SameOrders ==
  ASSUME NEW S
  PROVE  /\ Sq!Sorted(S, Sq!SessionOrder) = Pg!Sorted(S, Pg!SessionOrder)
         /\ Sq!Sorted(S, Sq!NewestFirst) = Pg!Sorted(S, Pg!NewestFirst)
         /\ Sq!Sorted(S, Sq!LastActiveFirst) = Pg!Sorted(S, Pg!LastActiveFirst)
<1>1. Sq!Sorted(S, Sq!SessionOrder) = Pg!Sorted(S, Pg!SessionOrder)
  BY Zenon DEF Sq!Sorted, Pg!Sorted, Sq!SessionOrder, Pg!SessionOrder, Sq!Cardinality, Pg!Cardinality
<1>2. Sq!Sorted(S, Sq!NewestFirst) = Pg!Sorted(S, Pg!NewestFirst)
  BY Zenon DEF Sq!Sorted, Pg!Sorted, Sq!NewestFirst, Pg!NewestFirst, Sq!Cardinality, Pg!Cardinality
<1>3. Sq!Sorted(S, Sq!LastActiveFirst) = Pg!Sorted(S, Pg!LastActiveFirst)
  BY Zenon DEF Sq!Sorted, Pg!Sorted, Sq!LastActiveFirst, Pg!LastActiveFirst, Sq!Cardinality, Pg!Cardinality
<1> QED
  BY <1>1, <1>2, <1>3

\* Both ask for the same ranges of entries.
LEMMA SameRanges ==
  ASSUME NEW window, NEW total
  PROVE  Sq!EntryRanges(window, total) = Pg!EntryRanges(window, total)
<1> DEFINE clipped == [i \in DOMAIN window.runs |-> Sq!Clipped(window.runs[i], total)]
           asked   == {r \in Sq!Range(clipped) : r.from < r.to}
<1>1. asked = {r \in Pg!Range([i \in DOMAIN window.runs |-> Pg!Clipped(window.runs[i], total)]) :
                 r.from < r.to}
  BY Zenon DEF Sq!Range, Pg!Range, Sq!Clipped, Pg!Clipped, Sq!AtMost, Pg!AtMost, Sq!Less, Pg!Less
<1>2. Sq!EntryRanges(window, total)
        = IF window.runs = <<>> THEN <<[from |-> 0, to |-> total]>>
          ELSE Sq!FoldLeft(Sq!Merge, <<>>, Sq!Sorted(asked, Sq!RangeBefore))
  BY Zenon DEF Sq!EntryRanges
<1> HIDE DEF asked
<1>3. Pg!EntryRanges(window, total)
        = IF window.runs = <<>> THEN <<[from |-> 0, to |-> total]>>
          ELSE Pg!FoldLeft(Pg!Merge, <<>>, Pg!Sorted(asked, Pg!RangeBefore))
  BY <1>1, Zenon DEF Pg!EntryRanges
<1>4. Sq!Sorted(asked, Sq!RangeBefore) = Pg!Sorted(asked, Pg!RangeBefore)
  BY Zenon DEF Sq!Sorted, Pg!Sorted, Sq!RangeBefore, Pg!RangeBefore, Sq!Cardinality, Pg!Cardinality
<1>5. \A s : Sq!FoldLeft(Sq!Merge, <<>>, s) = Pg!FoldLeft(Pg!Merge, <<>>, s)
  BY Zenon DEF Sq!FoldLeft, Pg!FoldLeft, Sq!FoldSet, Pg!FoldSet, Sq!MapThenFoldSet, Pg!MapThenFoldSet,
    Sq!Merge, Pg!Merge, Sq!Last, Pg!Last, Sq!Max, Pg!Max, Sq!AtLeast, Pg!AtLeast
<1> QED
  BY <1>2, <1>3, <1>4, <1>5, Zenon

\* Previews are cut alike.
LEMMA SamePreview ==
  ASSUME NEW e, NEW w
  PROVE  Sq!Preview(e, w) = Pg!Preview(e, w)
<1>1. PICK ranges : /\ ranges = Sq!EntryRanges(w, Len(e.entries))
                    /\ ranges = Pg!EntryRanges(w, Len(e.entries))
  BY SameRanges, Zenon
<1> DEFINE shown   == UNION {r.from..(r.to - 1) : r \in Sq!Range(ranges)}
           omitted == (0..(Len(e.entries) - 1)) \ shown
<1>2. Sq!Preview(e, w)
        = [pk |-> e.pk, total |-> Len(e.entries),
           chunks |-> [i \in DOMAIN ranges |->
              [from |-> ranges[i].from,
               entries |-> [k \in 1..(ranges[i].to - ranges[i].from) |->
                              Sq!Cut(e.entries[ranges[i].from + k], w.cut)]]],
           omittedEntries |-> Len(e.entries) - Sq!FoldLeft(LAMBDA n, r : n + r.to - r.from, 0, ranges),
           omittedCharacters |-> Sq!FoldSet(LAMBDA i, n : n + Len(e.entries[i + 1].text), 0, omitted),
           images |-> e.images]
  BY <1>1, Zenon DEF Sq!Preview
<1>3. Pg!Preview(e, w)
        = [pk |-> e.pk, total |-> Len(e.entries),
           chunks |-> [i \in DOMAIN ranges |->
              [from |-> ranges[i].from,
               entries |-> [k \in 1..(ranges[i].to - ranges[i].from) |->
                              Pg!Cut(e.entries[ranges[i].from + k], w.cut)]]],
           omittedEntries |-> Len(e.entries) - Pg!FoldLeft(LAMBDA n, r : n + r.to - r.from, 0, ranges),
           omittedCharacters |-> Pg!FoldSet(LAMBDA i, n : n + Len(e.entries[i + 1].text), 0, omitted),
           images |-> e.images]
  BY <1>1, Zenon DEF Pg!Preview, Sq!Range, Pg!Range
<1> QED
  BY <1>2, <1>3, Zenon DEF Sq!Cut, Pg!Cut, Sq!FoldLeft, Pg!FoldLeft, Sq!FoldSet, Pg!FoldSet,
    Sq!MapThenFoldSet, Pg!MapThenFoldSet, Sq!CharacterOffset, Pg!CharacterOffset,
    Sq!AtMost, Pg!AtMost, Sq!Max, Pg!Max, Sq!None, Pg!None

\* An image is answered alike.
LEMMA SameImages ==
  ASSUME NEW d, NEW u, NEW pk, NEW position
  PROVE  Sq!ImageAttachment(d, u, pk, position) = Pg!ImageAttachment(d, u, pk, position)
BY Zenon DEF Sq!ImageAttachment, Pg!ImageAttachment, Sq!ImageResponse, Pg!ImageResponse, Sq!NotFound, Pg!NotFound

\* So are positions, runs, headers and pages of the same rows.
LEMMA SameResponses ==
  ASSUME NEW a, NEW b, NEW c, NEW f
  PROVE  /\ Sq!EventPosition(a, b) = Pg!EventPosition(a, b)
         /\ Sq!SegmentRun(a, b) = Pg!SegmentRun(a, b)
         /\ Sq!LocateEvents(a, b) = Pg!LocateEvents(a, b)
         /\ Sq!EventResponse(a, b, c, f) = Pg!EventResponse(a, b, c, f)
         /\ Sq!Header(a, b, c, f) = Pg!Header(a, b, c, f)
         /\ Sq!ListResponse(a, b, c) = Pg!ListResponse(a, b, c)
         /\ Sq!RawResponse(a, b, c) = Pg!RawResponse(a, b, c)
<1>1. Sq!EventPosition(a, b) = Pg!EventPosition(a, b)
  BY Zenon DEF Sq!EventPosition, Pg!EventPosition
<1>2. Sq!SegmentRun(a, b) = Pg!SegmentRun(a, b)
  BY Zenon DEF Sq!SegmentRun, Pg!SegmentRun, Sq!EventPosition, Pg!EventPosition, Sq!NotFound, Pg!NotFound
<1>3. Sq!LocateEvents(a, b) = Pg!LocateEvents(a, b)
  BY Zenon DEF Sq!LocateEvents, Pg!LocateEvents, Sq!EventPosition, Pg!EventPosition, Sq!NotFound, Pg!NotFound, Sq!Range, Pg!Range
<1>4. Sq!EventResponse(a, b, c, f) = Pg!EventResponse(a, b, c, f)
  BY Zenon DEF Sq!EventResponse, Pg!EventResponse
<1>5. Sq!Header(a, b, c, f) = Pg!Header(a, b, c, f)
  BY Zenon DEF Sq!Header, Pg!Header, Sq!Min, Pg!Min, Sq!Max, Pg!Max, Sq!Cardinality, Pg!Cardinality, Sq!Total, Pg!Total,
    Sq!FoldSet, Pg!FoldSet, Sq!MapThenFoldSet, Pg!MapThenFoldSet
<1>6. Sq!ListResponse(a, b, c) = Pg!ListResponse(a, b, c)
  BY Zenon DEF Sq!ListResponse, Pg!ListResponse, Sq!Offset, Pg!Offset
<1>7. Sq!RawResponse(a, b, c) = Pg!RawResponse(a, b, c)
  BY Zenon DEF Sq!RawResponse, Pg!RawResponse, Sq!AtMost, Pg!AtMost, Sq!None, Pg!None
<1> QED
  BY <1>1, <1>2, <1>3, <1>4, <1>5, <1>6, <1>7

\* And segments.
LEMMA SameSegments ==
  ASSUME NEW run, NEW responses, NEW window
  PROVE  Sq!SegmentResponse(run, responses, window) = Pg!SegmentResponse(run, responses, window)
<1>1. \A r : Sq!Preview(r, window) = Pg!Preview(r, window)
  BY SamePreview, Zenon
<1> DEFINE SqCard(r) == [at |-> r.at, model |-> r.model, tokens |-> r.tokens,
                         preview |-> Sq!Preview(r, window)]
           PgCard(r) == [at |-> r.at, model |-> r.model, tokens |-> r.tokens,
                         preview |-> Pg!Preview(r, window)]
<1>2. \A r : SqCard(r) = PgCard(r)
  BY <1>1, Zenon
<1>3. Sq!SegmentResponse(run, responses, window)
        = [i \in DOMAIN run |->
             [pk |-> run[i].pk, cards |-> {SqCard(r) : r \in {s \in responses : s.pk = run[i].pk}}]]
  BY Zenon DEF Sq!SegmentResponse
<1>4. Pg!SegmentResponse(run, responses, window)
        = [i \in DOMAIN run |->
             [pk |-> run[i].pk, cards |-> {PgCard(r) : r \in {s \in responses : s.pk = run[i].pk}}]]
  BY Zenon DEF Pg!SegmentResponse
<1> HIDE DEF SqCard, PgCard
<1>5. \A S : {SqCard(r) : r \in S} = {PgCard(r) : r \in S}
  BY <1>2
<1> QED
  BY <1>3, <1>4, <1>5

\* Both select the same events.
LEMMA SameSelection ==
  ASSUME NEW d, NEW u, NEW q
  PROVE  Sq!Selected(d, u, q) = Selected(d, u, q) /\ Pg!Selected(d, u, q) = Selected(d, u, q)
<1>1. Sq!Selected(d, u, q) = Selected(d, u, q)
  BY Zenon DEF Sq!Selected, Selected, Sq!RowsOf, RowsOf, Sq!InWindow, InWindow, Sq!AnyOf, AnyOf,
    Sq!ExactValuesFilter, ExactValuesFilter, Sq!None, None
<1>2. Pg!Selected(d, u, q) = Selected(d, u, q)
  BY Zenon DEF Pg!Selected, Selected, Pg!RowsOf, RowsOf, Pg!InWindow, InWindow, Pg!AnyOf, AnyOf,
    Pg!ExactValuesFilter, ExactValuesFilter, Pg!None, None
<1> QED
  BY <1>1, <1>2

\* Every structure.
LEMMA SameStructures ==
  ASSUME NEW d, NEW u
  PROVE  /\ \A n : Sq!SessionStructure(d, u, n) = Pg!SessionStructure(d, u, n)
         /\ \A sessions : Sq!StructuresOf(d, u, sessions) = Pg!StructuresOf(d, u, sessions)
<1>1. ASSUME NEW n PROVE Sq!SessionStructure(d, u, n) = Pg!SessionStructure(d, u, n)
  <2> DEFINE own == {s \in Sq!SessionRows(d) : SessionKey[s.key].user = u /\ s.pk = n}
  <2>1. Sq!StreamEvents(d, n) = Pg!StreamEvents(d, n)
    BY Zenon DEF Sq!StreamEvents, Pg!StreamEvents, Sq!Sorted, Pg!Sorted, Sq!SessionOrder, Pg!SessionOrder,
      Sq!Cardinality, Pg!Cardinality, Sq!RowsOf, Pg!RowsOf
  <2>2. Sq!SessionRows(d) = Pg!SessionRows(d)
    BY SameRows
  <2>3. own = {} <=> ~ \E s \in Pg!SessionRows(d) : SessionKey[s.key].user = u /\ s.pk = n
    BY <2>2
  <2>4. Sq!SessionStructure(d, u, n) =
          IF own = {} \/ Sq!StreamEvents(d, n) = <<>> THEN Sq!NotFound ELSE <<Sq!StreamEvents(d, n)>>
    BY Zenon DEF Sq!SessionStructure
  <2>5. Pg!SessionStructure(d, u, n) =
          IF (\E s \in Pg!SessionRows(d) : SessionKey[s.key].user = u /\ s.pk = n) /\ Pg!StreamEvents(d, n) # <<>>
          THEN <<Pg!StreamEvents(d, n)>> ELSE Pg!NotFound
    BY Zenon DEF Pg!SessionStructure
  <2>6. Sq!NotFound = Pg!NotFound
    BY DEF Sq!NotFound, Pg!NotFound
  <2> HIDE DEF own
  <2> QED
    BY <2>1, <2>3, <2>4, <2>5, <2>6, SMT
<1>2. ASSUME NEW sessions PROVE Sq!StructuresOf(d, u, sessions) = Pg!StructuresOf(d, u, sessions)
  BY <1>1 DEF Sq!StructuresOf, Pg!StructuresOf
<1> QED
  BY <1>1, <1>2, Zenon

-----------------------------------------------------------------------------
(* What the answers are drawn from. *)

\* A registered title is that of a stored request of its session, an event was sent when it
\* says it was, and its agent is that of its session.
TitlesAreBacked(d) ==
  \A s \in Sessions : d.titles[s] # NoRow =>
    \E e \in RowsOf(d) : e.pk = d.titles[s].pk /\ e.session = s /\ e.kind = "request"
TimesAreSubmitted(d) == \A e \in RowsOf(d) : \E s \in Submitted : e.at = s.at
AgentsAreKeyed(d) == \A e \in RowsOf(d) : e.session \in Sessions /\ e.agent = SessionKey[e.session].agent

Backed(d) == TitlesAreBacked(d) /\ TimesAreSubmitted(d) /\ AgentsAreKeyed(d)

\* An event that is ingested is its title, and its time is its own.
LEMMA IngestKeepsBacked ==
  ASSUME NEW d, Sound(d), Backed(d), NEW s \in Submitted, d.events[s.id] = NoRow,
         NEW pk \in Pks, \A e \in StoredEvents(d) : d.events[e].pk # pk,
         NEW n, n = IngestOne(d, SessionKey[s.session].user, s, pk)
  PROVE  Backed(n)
<1> DEFINE user == SessionKey[s.session].user
           x == EventRow(user, s, pk)
<1>1. /\ s.id \in EventIds /\ s.session \in Sessions /\ s.device \in Devices
      /\ s.kind \in {"request", "response"} /\ x # NoRow
  BY QueryConstants, RowsArePresent
<1>2. /\ x.at = s.at /\ x.kind = s.kind /\ x.pk = pk /\ x.session = s.session
      /\ x.agent = SessionKey[s.session].agent
  BY DEF EventRow
<1> HIDE DEF x
<1>3. /\ n.events[s.id] = x
      /\ \A e \in EventIds \ {s.id} : n.events[e] = d.events[e]
      /\ n.titles[s.session] = TitleAfter(d.titles[s.session], s, pk)
      /\ \A t \in Sessions \ {s.session} : n.titles[t] = d.titles[t]
  BY <1>1, IngestOneWrites DEF Sound, x
<1>4. Sound(n) /\ Grows(d, n)
  BY IngestGrows
<1>5. RowsOf(d) \subseteq RowsOf(n) /\ x \in RowsOf(n)
  <2>1. x \in RowsOf(n)
    BY <1>1, <1>3 DEF RowsOf
  <2> QED
    BY <1>4, <2>1, RowsGrow
<1>6. ASSUME NEW e \in RowsOf(n) PROVE e \in RowsOf(d) \/ e = x
  <2>1. PICK k \in EventIds : n.events[k] # NoRow /\ e = n.events[k]
    BY Zenon DEF RowsOf
  <2>2. CASE k = s.id
    BY <1>3, <2>1, <2>2, Zenon
  <2>3. CASE k # s.id
    <3>1. n.events[k] = d.events[k]
      BY <1>3, <2>3
    <3> QED
      BY <2>1, <3>1, Zenon DEF RowsOf
  <2> QED
    BY <2>2, <2>3
<1>7. ASSUME NEW t \in Sessions, n.titles[t] # NoRow
      PROVE  \E e \in RowsOf(n) : e.pk = n.titles[t].pk /\ e.session = t /\ e.kind = "request"
  <2>1. CASE n.titles[t] = d.titles[t]
    BY <1>5, <1>7, <2>1 DEF Backed, TitlesAreBacked
  <2>2. CASE n.titles[t] # d.titles[t]
    <3>1. t = s.session
      BY <1>3, <2>2
    <3>2. n.titles[t] = [at |-> s.at, pk |-> pk] /\ s.kind # "response"
      BY <1>3, <2>2, <3>1 DEF TitleAfter
    <3>3. n.titles[t].pk = pk /\ s.kind = "request"
      BY <1>1, <3>2
    <3> QED
      BY <1>2, <1>5, <3>1, <3>3
  <2> QED
    BY <2>1, <2>2
<1>8. TimesAreSubmitted(n)
  BY <1>2, <1>6 DEF Backed, TimesAreSubmitted
<1>9. AgentsAreKeyed(n)
  BY <1>1, <1>2, <1>6 DEF Backed, AgentsAreKeyed
<1> QED
  BY <1>7, <1>8, <1>9 DEF Backed, TitlesAreBacked

\* The inductive invariant: a sound database whose titles and times are backed.
AnswersInv == QueriesInv /\ Backed(db)

\* Whatever is ingested, and whoever reads, keeps it.
LEMMA AnswersInvariance == Spec => []AnswersInv
<1>1. Init => AnswersInv
  <2> SUFFICES ASSUME Init PROVE AnswersInv
    OBVIOUS
  <2>1. db = Empty
    BY DEF Init
  <2>2. \A s \in Sessions : Empty.titles[s] = NoRow
    BY DEF Empty
  <2>3. RowsOf(Empty) = {}
    BY DEF Empty, RowsOf
  <2>4. Backed(Empty)
    BY <2>2, <2>3 DEF Backed, TitlesAreBacked, TimesAreSubmitted, AgentsAreKeyed
  <2> QED
    BY <2>1, <2>4, InitQueries DEF AnswersInv
<1>2. AnswersInv /\ [Next]_vars => AnswersInv'
  <2> SUFFICES ASSUME AnswersInv, [Next]_vars PROVE AnswersInv'
    OBVIOUS
  <2>1. QueriesInv' /\ Sound(db)
    BY NextQueries DEF AnswersInv, QueriesInv
  <2>2. CASE \E s \in Submitted : Ingest(s)
    <3>1. PICK s \in Submitted : Ingest(s)
      BY <2>2
    <3>2. PICK pk \in Pks \ {e.pk : e \in RowsOf(db)} :
            db' = IngestOne(db, SessionKey[s.session].user, s, pk)
      BY <3>1 DEF Ingest
    <3>3. \A e \in StoredEvents(db) : db.events[e].pk # pk
      BY <3>2 DEF StoredEvents, RowsOf
    <3>4. db.events[s.id] = NoRow
      BY <3>1 DEF Ingest
    <3>5. Backed(db')
      BY <2>1, <3>2, <3>3, <3>4, IngestKeepsBacked DEF AnswersInv
    <3> QED
      BY <2>1, <3>5 DEF AnswersInv
  <2>3. CASE ~ \E s \in Submitted : Ingest(s)
    <3>1. UNCHANGED db
      BY <2>3, Zenon DEF Next, vars, WalkEvents, WalkSessions, ReadChart, AskElasticsearch, NextEvents, NextSessions,
        ReadOptions, AnswerSearch, Leave
    <3>2. Backed(db')
      BY <3>1 DEF AnswersInv
    <3> QED
      BY <2>1, <3>2 DEF AnswersInv
  <2> QED
    BY <2>2, <2>3
<1> QED
  BY <1>1, <1>2, PTL DEF Spec

-----------------------------------------------------------------------------
(* Headers, places, events and segments. *)

\* The title that SQLite joins to a request of its session is the one that is registered.
LEMMA TitlesAgree ==
  ASSUME NEW d, Sound(d), Backed(d), NEW s \in Sessions
  PROVE  Sq!TitleRow(d, s) = Pg!Title(d, s)
<1> DEFINE row == d.titles[s]
           of  == {e \in Sq!RowsOf(d) : row # NoRow /\ e.pk = row.pk
                                /\ e.session = s /\ e.kind = "request"}
<1>1. Sq!TitleRow(d, s) = IF of = {} THEN Unknown ELSE (CHOOSE e \in of : TRUE).pk
  BY Zenon DEF Sq!TitleRow
<1>2. Pg!Title(d, s) = IF row = NoRow THEN Unknown ELSE row.pk
  BY Zenon DEF Pg!Title
<1>3. Sq!RowsOf(d) = RowsOf(d)
  BY SameRows
<1>4. CASE row = NoRow
  BY <1>1, <1>2, <1>4
<1>5. CASE row # NoRow
  <2>1. of # {}
    BY <1>3, <1>5 DEF Backed, TitlesAreBacked
  <2>2. (CHOOSE e \in of : TRUE) \in of
    <3> HIDE DEF of
    <3> QED
      BY <2>1
  <2>3. (CHOOSE e \in of : TRUE).pk = row.pk
    BY <2>2
  <2> HIDE DEF of
  <2> QED
    BY <1>1, <1>2, <1>5, <2>1, <2>3
<1> QED
  BY <1>4, <1>5

\* The header of a session is the same.
LEMMA HeadersAgree ==
  ASSUME NEW d, Sound(d), Backed(d), NEW u, NEW n
  PROVE  Sq!SessionHeader(d, u, n) = Pg!SessionHeader(d, u, n)
<1> DEFINE own == {s \in SessionRows(d) : SessionKey[s.key].user = u /\ s.pk = n}
           first == CHOOSE s \in own : TRUE
           events == {e \in RowsOf(d) : e.session = first.key}
<1>1. /\ Sq!RowsOf(d) = RowsOf(d) /\ Pg!RowsOf(d) = RowsOf(d)
      /\ Sq!SessionRows(d) = SessionRows(d) /\ Pg!SessionRows(d) = SessionRows(d)
  BY SameRows
<1>2. Sq!SessionStructure(d, u, n) = Pg!SessionStructure(d, u, n)
  BY SameStructures
<1>3. Sq!SessionHeader(d, u, n) =
        IF own = {} THEN Sq!NotFound ELSE IF events = {} THEN Sq!NotFound
        ELSE IF Sq!SessionStructure(d, u, n) = Sq!NotFound THEN Sq!NotFound
        ELSE <<Sq!Header(n, events, Head(Sq!SessionStructure(d, u, n)), Sq!TitleRow(d, first.key))>>
  BY Zenon DEF Sq!SessionHeader, Sq!RowsOf, RowsOf, Sq!SessionRows, SessionRows
<1>4. Pg!SessionHeader(d, u, n) =
        IF own = {} THEN Pg!NotFound
        ELSE IF events = {} \/ Pg!SessionStructure(d, u, n) = Pg!NotFound THEN Pg!NotFound
        ELSE <<Pg!Header(n, events, Head(Pg!SessionStructure(d, u, n)), Pg!Title(d, first.key))>>
  BY Zenon DEF Pg!SessionHeader, Pg!RowsOf, RowsOf, Pg!SessionRows, SessionRows
<1>5. Sq!NotFound = Pg!NotFound
  BY DEF Sq!NotFound, Pg!NotFound
<1>6. CASE own = {}
  BY <1>3, <1>4, <1>5, <1>6
<1>7. CASE own # {}
  <2>1. first \in own
    <3> HIDE DEF own
    <3> QED
      BY <1>7
  <2>2. first.key \in Sessions
    <3>1. \A s \in SessionRows(d) : s.key \in Sessions
      BY DEF SessionRows
    <3> HIDE DEF first
    <3> QED
      BY <2>1, <3>1
  <2> HIDE DEF first, events, own
  <2>3. Sq!TitleRow(d, first.key) = Pg!Title(d, first.key)
    BY <2>2, TitlesAgree
  <2> DEFINE structure == Sq!SessionStructure(d, u, n)
             title == Sq!TitleRow(d, first.key)
  <2>4. Sq!Header(n, events, Head(structure), title) = Pg!Header(n, events, Head(structure), title)
    BY SameResponses
  <2> QED
    BY <1>2, <1>3, <1>4, <1>5, <1>7, <2>3, <2>4
<1> QED
  BY <1>6, <1>7

\* The place of an event is the same.
LEMMA LocationsAgree ==
  ASSUME NEW d, Sound(d), NEW u, NEW pk
  PROVE  Sq!EventLocation(d, u, pk) = Pg!EventLocation(d, u, pk)
<1> DEFINE own == {e \in RowsOf(d) : e.user = u /\ e.pk = pk}
           sessions == {d.sessions[e.session].pk : e \in own}
           first == CHOOSE e \in own : TRUE
           At(n, structure) ==
             IF structure = Sq!NotFound \/ Sq!EventPosition(Head(structure), pk) = 0 THEN Sq!NotFound
             ELSE <<<<n, Sq!EventPosition(Head(structure), pk)>>>>
           Located(n) == At(n, Sq!SessionStructure(d, u, n))
<1>1. Sq!RowsOf(d) = RowsOf(d) /\ Pg!RowsOf(d) = RowsOf(d)
  BY SameRows
<1>2. {e \in RowsOf(d) : e.user = u /\ e.pk = pk} = {e \in Sq!RowsOf(d) : e.user = u /\ e.pk = pk}
      /\ {f \in Pg!RowsOf(d) : f.user = u /\ f.pk = pk} = own
  BY <1>1
<1>3. Sq!EventLocation(d, u, pk) =
        IF own = {} THEN Sq!NotFound ELSE Located(d.sessions[first.session].pk)
  BY Zenon DEF Sq!EventLocation, Sq!RowsOf, RowsOf
<1>4. PICK m : m = CHOOSE n \in sessions : TRUE
  OBVIOUS
<1>5. ASSUME NEW n
      PROVE  Located(n) = IF \/ Pg!SessionStructure(d, u, n) = Pg!NotFound
                             \/ Pg!EventPosition(Head(Pg!SessionStructure(d, u, n)), pk) = 0
                          THEN Pg!NotFound
                          ELSE <<<<n, Pg!EventPosition(Head(Pg!SessionStructure(d, u, n)), pk)>>>>
  <2>1. PICK structure : structure = Sq!SessionStructure(d, u, n) /\ structure = Pg!SessionStructure(d, u, n)
    BY SameStructures
  <2>2. Sq!EventPosition(Head(structure), pk) = Pg!EventPosition(Head(structure), pk)
    BY SameResponses
  <2>3. Sq!NotFound = Pg!NotFound
    BY DEF Sq!NotFound, Pg!NotFound
  <2> QED
    BY <2>1, <2>2, <2>3
<1>6. Pg!EventLocation(d, u, pk) = IF sessions = {} THEN Pg!NotFound ELSE Located(m)
  <2> DEFINE In(n, structure) ==
               IF structure = Pg!NotFound \/ Pg!EventPosition(Head(structure), pk) = 0 THEN Pg!NotFound
               ELSE <<<<n, Pg!EventPosition(Head(structure), pk)>>>>
             known == {d.sessions[e.session].pk : e \in {f \in Pg!RowsOf(d) : f.user = u /\ f.pk = pk}}
  <2>1. known = sessions
    BY <1>2, Zenon
  <2>2. Located(m) = In(m, Pg!SessionStructure(d, u, m))
    <3> HIDE DEF Located
    <3> QED
      BY <1>5, Zenon
  <2>3. m = CHOOSE n \in known : TRUE
    <3> HIDE DEF known, sessions
    <3> QED
      BY <1>4, <2>1
  <2> HIDE DEF sessions, Located, own
  <2>4. Pg!EventLocation(d, u, pk) = IF known = {} THEN Pg!NotFound ELSE In(m, Pg!SessionStructure(d, u, m))
    <3>1. Pg!EventLocation(d, u, pk) =
            IF known = {} THEN Pg!NotFound
            ELSE In(CHOOSE n \in known : TRUE, Pg!SessionStructure(d, u, CHOOSE n \in known : TRUE))
      BY DEF Pg!EventLocation
    <3> HIDE DEF known, In
    <3> QED
      BY <2>3, <3>1
  <2> HIDE DEF In
  <2> QED
    BY <2>1, <2>2, <2>4, Zenon
<1>7. Sq!NotFound = Pg!NotFound
  BY DEF Sq!NotFound, Pg!NotFound
<1>8. CASE own = {}
  BY <1>3, <1>6, <1>7, <1>8
<1>9. CASE own # {}
  <2>1. first \in own
    <3> HIDE DEF own
    <3> QED
      BY <1>9
  <2>2. \A e \in own : e = first
    BY <2>1, RowsAreSound
  <2>3. sessions = {d.sessions[first.session].pk}
    <3> HIDE DEF own, first
    <3> QED
      BY <2>1, <2>2
  <2>4. m = d.sessions[first.session].pk
    <3> HIDE DEF sessions, own, first
    <3> QED
      BY <1>4, <2>3
  <2> HIDE DEF own, first, sessions, Located
  <2> QED
    BY <1>3, <1>6, <1>9, <2>3, <2>4
<1> QED
  BY <1>8, <1>9

\* The response of one event.
ResponseTo(d, e, content) ==
  Sq!EventResponse(e, IF d.devices[e.device] = NoRow THEN Unknown ELSE DeviceKey[e.device].platform,
                   IF content THEN Sq!LoadAttachments(d, e) ELSE <<>>, content)

\* Both profiles respond to each event alike.
LEMMA ResponsesAgree ==
  ASSUME NEW d, NEW events, NEW content
  PROVE  /\ Sq!EventResponses(d, events, content)
              = [i \in DOMAIN events |-> ResponseTo(d, events[i], content)]
         /\ Pg!EventResponses(d, events, content)
              = [i \in DOMAIN events |-> ResponseTo(d, events[i], content)]
<1>1. Sq!EventResponses(d, events, content)
        = [i \in DOMAIN events |-> ResponseTo(d, events[i], content)]
  BY Zenon DEF Sq!EventResponses, ResponseTo
<1>2. \A e : Sq!LoadAttachments(d, e) = Pg!LoadAttachments(d, e)
  BY Zenon DEF Sq!LoadAttachments, Pg!LoadAttachments, Sq!Sorted, Pg!Sorted, Sq!Cardinality, Pg!Cardinality
<1> DEFINE keys == {e.device : e \in {f \in Pg!Range(events) : d.devices[f.device] # NoRow}}
           devices == Pg!DeviceContexts(d, events)
           Of(e) == Pg!EventResponse(e, IF e.device \in DOMAIN devices THEN devices[e.device] ELSE Unknown,
                             IF content THEN Pg!LoadAttachments(d, e) ELSE <<>>, content)
<1>3. Pg!EventResponses(d, events, content) = [i \in DOMAIN events |-> Of(events[i])]
  BY Zenon DEF Pg!EventResponses
<1>4. ASSUME NEW i \in DOMAIN events PROVE Of(events[i]) = ResponseTo(d, events[i], content)
  <2>1. PICK e : e = events[i]
    OBVIOUS
  <2>2. devices = [k \in keys |-> DeviceKey[k].platform]
    BY Zenon DEF Pg!DeviceContexts
  <2>3. e \in Pg!Range(events)
    BY <2>1, Zenon DEF Pg!Range
  <2>4. e.device \in keys <=> d.devices[e.device] # NoRow
    BY <2>3
  <2> HIDE DEF keys
  <2>5. (IF e.device \in DOMAIN devices THEN devices[e.device] ELSE Unknown)
          = IF d.devices[e.device] = NoRow THEN Unknown ELSE DeviceKey[e.device].platform
    BY <2>2, <2>4
  <2> HIDE DEF devices
  <2>6. Of(e) = ResponseTo(d, e, content)
    BY <1>2, <2>5, SameResponses DEF ResponseTo
  <2> QED
    BY <2>1, <2>6
<1> HIDE DEF Of
<1> QED
  BY <1>1, <1>3, <1>4

\* A page of events is the same.
LEMMA PagesAgree ==
  ASSUME NEW d, NEW u, NEW q, NEW content
  PROVE  Sq!RawEvents(d, u, q, content) = Pg!RawEvents(d, u, q, content)
<1>1. Sq!NormalizeLimit(q.limit, 100, 1000) = Pg!NormalizeLimit(q.limit, 100, 1000)
  BY SMT DEF Sq!NormalizeLimit, Pg!NormalizeLimit, Sq!AtMost, Pg!AtMost, Sq!AtLeast, Pg!AtLeast,
    Sq!None, Pg!None
<1>2. PICK size : size = Sq!NormalizeLimit(q.limit, 100, 1000) /\ size = Pg!NormalizeLimit(q.limit, 100, 1000)
  BY <1>1
<1>3. Sq!FilteredEvents(d, u, q) = {e \in Pg!Selected(d, u, q) : q.session \in {Pg!None, d.sessions[e.session].pk}}
  <2>1. Sq!Selected(d, u, q) = Pg!Selected(d, u, q)
    BY SameSelection
  <2> QED
    BY <2>1 DEF Sq!FilteredEvents, Sq!None, Pg!None
<1>4. Sq!LoadFilteredEvents(d, u, q, size + 1) = Pg!LoadFilteredEvents(d, u, q, size + 1)
  <2>1. PICK rows : /\ rows = Sq!FilteredEvents(d, u, q)
                    /\ rows = {e \in Pg!Selected(d, u, q) : q.session \in {Pg!None, d.sessions[e.session].pk}}
    BY <1>3
  <2>2. PICK order : order = Sq!Sorted(rows, Sq!NewestFirst) /\ order = Pg!Sorted(rows, Pg!NewestFirst)
    BY SameOrders
  <2>3. Sq!LoadFilteredEvents(d, u, q, size + 1)
          = SubSeq(order, q.offset + 1, Sq!AtMost(q.offset + (size + 1), Len(order)))
    BY <2>1, <2>2 DEF Sq!LoadFilteredEvents
  <2>4. Pg!LoadFilteredEvents(d, u, q, size + 1)
          = SubSeq(order, q.offset + 1, Pg!AtMost(q.offset + (size + 1), Len(order)))
    BY <2>1, <2>2 DEF Pg!LoadFilteredEvents
  <2>5. \A a, b : Sq!AtMost(a, b) = Pg!AtMost(a, b)
    BY DEF Sq!AtMost, Pg!AtMost
  <2> QED
    BY <2>3, <2>4, <2>5
<1>5. PICK loaded : /\ loaded = Sq!LoadFilteredEvents(d, u, q, size + 1)
                    /\ loaded = Pg!LoadFilteredEvents(d, u, q, size + 1)
  BY <1>4
<1>6. PICK events : /\ events = Sq!EventResponses(d, loaded, content)
                    /\ events = Pg!EventResponses(d, loaded, content)
  BY ResponsesAgree
<1>7. (\E kind \in Sq!ExactValuesFilter({q.kind}) : ~Sq!ValidKind(kind))
        <=> (\E kind \in Pg!ExactValuesFilter({q.kind}) : ~Pg!ValidKind(kind))
  BY Zenon DEF Sq!ExactValuesFilter, Pg!ExactValuesFilter, Sq!ValidKind, Pg!ValidKind
<1>8. Sq!RawEvents(d, u, q, content) =
        IF \E kind \in Sq!ExactValuesFilter({q.kind}) : ~Sq!ValidKind(kind) THEN Sq!Invalid
        ELSE <<Sq!RawResponse(events, size, q.offset)>>
  BY <1>2, <1>5, <1>6 DEF Sq!RawEvents
<1>9. Pg!RawEvents(d, u, q, content) =
        IF \E kind \in Pg!ExactValuesFilter({q.kind}) : ~Pg!ValidKind(kind) THEN Pg!Invalid
        ELSE <<Pg!RawResponse(events, size, q.offset)>>
  BY <1>2, <1>5, <1>6 DEF Pg!RawEvents
<1>10. Sq!Invalid = Pg!Invalid /\ Sq!RawResponse(events, size, q.offset) = Pg!RawResponse(events, size, q.offset)
  BY SameResponses DEF Sq!Invalid, Pg!Invalid
<1> QED
  BY <1>7, <1>8, <1>9, <1>10

\* A page of events with their places is the same.
LEMMA LocatedAgree ==
  ASSUME NEW d, NEW u, NEW q
  PROVE  Sq!LocatedEvents(d, u, q) = Pg!LocatedEvents(d, u, q)
<1>1. PICK page : page = Sq!RawEvents(d, u, q, FALSE) /\ page = Pg!RawEvents(d, u, q, FALSE)
  BY PagesAgree
<1>2. PICK listed : listed = Head(page).events
  OBVIOUS
<1>3. PICK sessions : sessions = {e.session : e \in Sq!Range(listed)} /\ sessions = {e.session : e \in Pg!Range(listed)}
  BY SameOperators, PgSameOperators
<1>4. PICK structures : structures = Sq!StructuresOf(d, u, sessions) /\ structures = Pg!StructuresOf(d, u, sessions)
  BY SameStructures
<1>5. Sq!LocatedEvents(d, u, q) = IF page = Sq!Invalid THEN Sq!Invalid ELSE Sq!LocateEvents(listed, structures)
  BY <1>1, <1>2, <1>3, <1>4 DEF Sq!LocatedEvents
<1>6. Pg!LocatedEvents(d, u, q) = IF page = Pg!Invalid THEN Pg!Invalid ELSE Pg!LocateEvents(listed, structures)
  BY <1>1, <1>2, <1>3, <1>4 DEF Pg!LocatedEvents
<1>7. Sq!Invalid = Pg!Invalid /\ Sq!LocateEvents(listed, structures) = Pg!LocateEvents(listed, structures)
  BY SameResponses DEF Sq!Invalid, Pg!Invalid
<1> QED
  BY <1>5, <1>6, <1>7

\* The responses with content.
LEMMA FullResponses ==
  ASSUME NEW d, NEW events
  PROVE  \E responses :
           /\ responses = [i \in DOMAIN events |-> ResponseTo(d, events[i], TRUE)]
           /\ responses = Sq!EventResponses(d, events, TRUE)
           /\ responses = Pg!EventResponses(d, events, TRUE)
<1>1. \A content : Sq!EventResponses(d, events, content)
                     = [i \in DOMAIN events |-> ResponseTo(d, events[i], content)]
  BY ResponsesAgree
<1>2. \A content : Pg!EventResponses(d, events, content)
                     = [i \in DOMAIN events |-> ResponseTo(d, events[i], content)]
  BY ResponsesAgree
<1>3. Sq!EventResponses(d, events, TRUE) = [i \in DOMAIN events |-> ResponseTo(d, events[i], TRUE)]
  BY <1>1, Zenon
<1>4. Pg!EventResponses(d, events, TRUE) = [i \in DOMAIN events |-> ResponseTo(d, events[i], TRUE)]
  BY <1>2, Zenon
<1> QED
  BY <1>3, <1>4, Zenon

\* An event is the same.
LEMMA EventsAgree ==
  ASSUME NEW d, Sound(d), NEW u, NEW pk
  PROVE  Sq!UsageEvent(d, u, pk) = Pg!UsageEvent(d, u, pk)
<1> DEFINE own == {e \in RowsOf(d) : e.pk = pk /\ e.user = u}
           first == CHOOSE e \in own : TRUE
<1>1. Sq!UsageEvent(d, u, pk) =
        IF own = {} THEN Sq!NotFound ELSE <<Sq!EventResponses(d, <<first>>, TRUE)[1]>>
  BY Zenon DEF Sq!UsageEvent, Sq!RowsOf, RowsOf
<1>2. Pg!UsageEvent(d, u, pk) =
        IF own = {} THEN Pg!NotFound ELSE Pg!EventResponses(d, Pg!SetToSeq(own), TRUE)
  BY Zenon DEF Pg!UsageEvent, Pg!RowsOf, RowsOf
<1>3. Sq!NotFound = Pg!NotFound
  BY DEF Sq!NotFound, Pg!NotFound
<1>4. \A e, f \in own : e = f
  BY RowsAreSound
<1> HIDE DEF own
<1>5. CASE own # {}
  <2>1. PICK e : e = first /\ e \in own
    BY <1>5
  <2>2. own = {e}
    BY <1>4, <2>1
  <2>3. Pg!SetToSeq(own) = <<e>>
    <3>1. Pg!SetToSeq(own) = SetToSeq(own)
      BY Zenon DEF Pg!SetToSeq, SetToSeq, Pg!Cardinality, Cardinality, Pg!IsInjective, IsInjective
    <3> QED
      BY <2>2, <3>1, OneToSeq
  <2>4. PICK events : events = <<e>>
    OBVIOUS
  <2>5. PICK responses : /\ responses = [i \in DOMAIN events |-> ResponseTo(d, events[i], TRUE)]
                         /\ responses = Sq!EventResponses(d, events, TRUE)
                         /\ responses = Pg!EventResponses(d, events, TRUE)
    BY FullResponses
  <2>6. PICK x : x = ResponseTo(d, events[1], TRUE)
    OBVIOUS
  <2>7. DOMAIN events = 1..1
    BY <2>4
  <2>8. responses = [i \in 1..1 |-> x]
    <3>1. \A i \in 1..1 : ResponseTo(d, events[i], TRUE) = x
      <4>1. \A i \in 1..1 : i = 1
        OBVIOUS
      <4> QED
        BY <2>6, <4>1, Zenon
    <3>2. [i \in 1..1 |-> ResponseTo(d, events[i], TRUE)] = [i \in 1..1 |-> x]
      BY <3>1, Zenon
    <3> QED
      BY <2>5, <2>7, <3>2, Zenon
  <2>9. <<responses[1]>> = responses
    BY <2>8
  <2> QED
    BY <1>1, <1>2, <1>5, <2>1, <2>3, <2>4, <2>5, <2>9, Zenon
<1> QED
  BY <1>1, <1>2, <1>3, <1>5

\* The preview of a conversation is the same.
LEMMA ConversationsAgree ==
  ASSUME NEW d, Sound(d), NEW u, NEW pk, NEW window
  PROVE  Sq!EventConversation(d, u, pk, window) = Pg!EventConversation(d, u, pk, window)
<1>1. PICK event : event = Sq!UsageEvent(d, u, pk) /\ event = Pg!UsageEvent(d, u, pk)
  BY EventsAgree
<1>2. Sq!EventConversation(d, u, pk, window)
        = IF event = Sq!NotFound THEN Sq!NotFound ELSE <<Sq!Preview(Head(event), window)>>
  BY <1>1 DEF Sq!EventConversation
<1>3. Pg!EventConversation(d, u, pk, window)
        = IF event = Pg!NotFound THEN Pg!NotFound ELSE <<Pg!Preview(Head(event), window)>>
  BY <1>1 DEF Pg!EventConversation
<1>4. Sq!NotFound = Pg!NotFound /\ Sq!Preview(Head(event), window) = Pg!Preview(Head(event), window)
  BY SamePreview DEF Sq!NotFound, Pg!NotFound
<1> QED
  BY <1>2, <1>3, <1>4

\* The order of identifiers.
ByPk(rows) == {p \in rows \X rows : p[1].pk < p[2].pk}

\* The responses to the events of a segment are the same.
LEMMA SegmentEventsAgree ==
  ASSUME NEW d, Sound(d), NEW u, NEW pks
  PROVE  Sq!UsageEvents(d, u, pks) = Pg!UsageEvents(d, u, pks)
<1> DEFINE rows == {e \in RowsOf(d) : e.pk \in pks /\ e.user = u}
           Before(a, b) == a.pk < b.pk
           order == Sq!Sorted(rows, Before)
           all == Pg!SetToSeq(rows)
           R == ByPk(rows)
<1>1. Sq!UsageEvents(d, u, pks) = Sq!Range(Sq!EventResponses(d, order, TRUE))
  BY Zenon DEF Sq!UsageEvents, Sq!RowsOf, RowsOf
<1>2. Pg!UsageEvents(d, u, pks) = Pg!Range(Pg!EventResponses(d, all, TRUE))
  BY Zenon DEF Pg!UsageEvents, Pg!RowsOf, RowsOf
<1>3. /\ IsFiniteSet(rows)
      /\ \A e \in rows : e.pk \in Nat
      /\ \A e, f \in rows : e.pk = f.pk => e = f
  BY RowsAreSound, FS_Subset
<1>4. order = [m \in 1..Cardinality(rows) |->
                 CHOOSE s \in rows : Cardinality({t \in rows : t.pk < s.pk}) = m - 1]
  BY Zenon DEF Sq!Sorted, Sq!Cardinality, Cardinality
<1>5. all = SetToSeq(rows)
  BY Zenon DEF Pg!SetToSeq, SetToSeq, Pg!Cardinality, Cardinality, Pg!IsInjective, IsInjective
<1> HIDE DEF rows, order, all
<1>6. \A a, b \in rows : <<a, b>> \in R <=> a.pk < b.pk
  BY DEF ByPk
<1> HIDE DEF R
<1>7. IsOrder(R, rows)
  BY <1>3, <1>6 DEF IsOrder
<1>8. \A s \in rows : {t \in rows : t.pk < s.pk} = {t \in rows : <<t, s>> \in R}
  BY <1>6
<1>9. \A s \in rows : Cardinality({t \in rows : t.pk < s.pk}) = Rank(R, rows, s)
  BY <1>8 DEF Rank
<1>10. order = [m \in 1..Cardinality(rows) |-> CHOOSE s \in rows : Rank(R, rows, s) = m - 1]
  BY <1>4, <1>9
<1>11. Range(order) = rows /\ Range(all) = rows
  BY <1>3, <1>5, <1>7, <1>10, OrderIsWhole, SetToSeqIsWhole
<1>12. ASSUME NEW events, Range(events) = rows
       PROVE  /\ Range(Sq!EventResponses(d, events, TRUE)) = {ResponseTo(d, e, TRUE) : e \in rows}
              /\ Range(Pg!EventResponses(d, events, TRUE)) = {ResponseTo(d, e, TRUE) : e \in rows}
  <2>1. PICK responses : /\ responses = [i \in DOMAIN events |-> ResponseTo(d, events[i], TRUE)]
                         /\ responses = Sq!EventResponses(d, events, TRUE)
                         /\ responses = Pg!EventResponses(d, events, TRUE)
    BY FullResponses
  <2>2. Range(responses) = {ResponseTo(d, events[i], TRUE) : i \in DOMAIN events}
    BY <2>1 DEF Range
  <2>3. rows = {events[i] : i \in DOMAIN events}
    BY <1>12 DEF Range
  <2>4. Range(responses) = {ResponseTo(d, e, TRUE) : e \in rows}
    BY <2>2, <2>3
  <2> QED
    BY <2>1, <2>4
<1>13. PICK sq, pg : sq = Sq!EventResponses(d, order, TRUE) /\ pg = Pg!EventResponses(d, all, TRUE)
  OBVIOUS
<1>14. Range(sq) = Range(pg)
  BY <1>11, <1>12, <1>13, Zenon
<1>15. Sq!Range(sq) = Range(sq) /\ Pg!Range(pg) = Range(pg)
  BY Zenon DEF Sq!Range, Pg!Range, Range
<1> QED
  BY <1>1, <1>2, <1>13, <1>14, <1>15, Zenon

\* A segment of a session is the same.
LEMMA SegmentsAgree ==
  ASSUME NEW d, Sound(d), NEW u, NEW n, NEW head, NEW window
  PROVE  Sq!SessionSegment(d, u, n, head, window) = Pg!SessionSegment(d, u, n, head, window)
<1>1. PICK structure : structure = Sq!SessionStructure(d, u, n) /\ structure = Pg!SessionStructure(d, u, n)
  BY SameStructures
<1>2. PICK run : run = Sq!SegmentRun(Head(structure), head) /\ run = Pg!SegmentRun(Head(structure), head)
  BY SameResponses
<1>3. PICK pks : pks = {e.pk : e \in Sq!Range(Head(run))} /\ pks = {e.pk : e \in Pg!Range(Head(run))}
  BY SameOperators, PgSameOperators
<1>4. PICK events : events = Sq!UsageEvents(d, u, pks) /\ events = Pg!UsageEvents(d, u, pks)
  BY SegmentEventsAgree
<1>5. Sq!SessionSegment(d, u, n, head, window) =
        IF structure = Sq!NotFound THEN Sq!NotFound
        ELSE IF run = Sq!NotFound THEN Sq!NotFound
        ELSE <<Sq!SegmentResponse(Head(run), events, window)>>
  BY <1>1, <1>2, <1>3, <1>4 DEF Sq!SessionSegment
<1>6. Pg!SessionSegment(d, u, n, head, window) =
        IF structure = Pg!NotFound THEN Pg!NotFound
        ELSE IF run = Pg!NotFound THEN Pg!NotFound
        ELSE <<Pg!SegmentResponse(Head(run), events, window)>>
  BY <1>1, <1>2, <1>3, <1>4 DEF Pg!SessionSegment
<1>7. Sq!NotFound = Pg!NotFound
  BY DEF Sq!NotFound, Pg!NotFound
<1>8. Sq!SegmentResponse(Head(run), events, window) = Pg!SegmentResponse(Head(run), events, window)
  BY SameSegments
<1> QED
  BY <1>5, <1>6, <1>7, <1>8

-----------------------------------------------------------------------------
(* The session list. *)

\* The sessions within the filters of a list are the same, with what their rows hold.
LEMMA ListingsAgree ==
  ASSUME NEW d, Sound(d), Backed(d), NEW u, NEW q
  PROVE  Sq!Filtered(d, u, q) = Pg!Activity(d, u, q)
<1> DEFINE Of(s) == {e \in RowsOf(d) : e.session = s.key}
           Row(s, title) ==
             [pk |-> s.pk, sid |-> SessionKey[s.key].sid, agent |-> SessionKey[s.key].agent,
              platform |-> DeviceKey[s.device].platform, started |-> s.started, ended |-> s.ended,
              last |-> IF Of(s) = {} THEN s.started ELSE Max({e.at : e \in Of(s)}),
              events |-> Cardinality(Of(s)), tokens |-> Total(Of(s)), title |-> title]
           listed == {t \in SessionRows(d) :
             /\ SessionKey[t.key].user = u /\ d.devices[t.device] # NoRow
             /\ AnyOf(q.agents, SessionKey[t.key].agent)
             /\ q.providers = {} \/ \E e \in Of(t) : e.provider \in q.providers
             /\ q.models = {} \/ \E e \in Of(t) : e.model \in q.models}
           Kept(rows) == {a \in rows : (q.from = None \/ a.last >= q.from) /\ (q.to = None \/ a.started < q.to)}
<1>1. Sq!Filtered(d, u, q) = Kept({Row(s, Sq!TitleRow(d, s.key)) : s \in listed})
  BY Zenon DEF Sq!Filtered, Sq!Activity, Sq!RowsOf, RowsOf, Sq!SessionRows, SessionRows, Sq!Max, Max,
    Sq!Cardinality, Cardinality, Sq!Total, Total, Sq!FoldSet, FoldSet, Sq!MapThenFoldSet, MapThenFoldSet,
    Sq!AnyOf, AnyOf, Sq!None, None
<1>2. Pg!Activity(d, u, q) = Kept({Row(s, Pg!Title(d, s.key)) : s \in listed})
  BY Zenon DEF Pg!Activity, Pg!RowsOf, RowsOf, Pg!SessionRows, SessionRows, Pg!Max, Max,
    Pg!Cardinality, Cardinality, Pg!Total, Total, Pg!FoldSet, FoldSet, Pg!MapThenFoldSet, MapThenFoldSet,
    Pg!AnyOf, AnyOf, Pg!None, None
<1>3. \A s \in listed : Sq!TitleRow(d, s.key) = Pg!Title(d, s.key)
  <2>1. \A s \in SessionRows(d) : s.key \in Sessions
    BY DEF SessionRows
  <2> QED
    BY <2>1, TitlesAgree
<1> HIDE DEF Row, listed, Kept
<1>4. {Row(s, Sq!TitleRow(d, s.key)) : s \in listed} = {Row(s, Pg!Title(d, s.key)) : s \in listed}
  BY <1>3
<1> QED
  BY <1>1, <1>2, <1>4

\* A page of the session list is the same.
LEMMA ListsAgree ==
  ASSUME NEW d, Sound(d), Backed(d), NEW u, NEW q
  PROVE  Sq!ListSessions(d, u, q) = Pg!ListSessions(d, u, q)
<1>1. PICK rows : rows = Sq!Filtered(d, u, q) /\ rows = Pg!Activity(d, u, q)
  BY ListingsAgree
<1>2. PICK order : order = Sq!Sorted(rows, Sq!LastActiveFirst) /\ order = Pg!Sorted(rows, Pg!LastActiveFirst)
  BY SameOrders
<1> DEFINE pg == SubSeq(order, Pg!Offset(q) + 1, Pg!AtMost(Pg!Offset(q) + q.size, Len(order)))
<1>3. PICK page : page = Sq!Page(order, q) /\ page = pg
  <2>1. Sq!Offset(q) = Pg!Offset(q) /\ \A a, b : Sq!AtMost(a, b) = Pg!AtMost(a, b)
    BY DEF Sq!Offset, Pg!Offset, Sq!AtMost, Pg!AtMost
  <2> QED
    BY <2>1 DEF Sq!Page
<1>4. PICK count : count = Sq!Cardinality(rows) /\ count = Pg!Cardinality(rows)
  BY SameOperators, PgSameOperators
<1> DEFINE sqMissing == \E item \in Sq!Range(page) : Sq!SessionStructure(d, u, item.pk) = Sq!NotFound
           pgMissing == \E item \in Pg!Range(page) : Pg!SessionStructure(d, u, item.pk) = Pg!NotFound
<1>5. Sq!ListSessions(d, u, q) =
        IF sqMissing THEN Sq!NotFound ELSE <<Sq!ListResponse(q, count, page)>>
  BY <1>1, <1>2, <1>3, <1>4 DEF Sq!ListSessions
<1>6. Pg!ListSessions(d, u, q) =
        IF pgMissing THEN Pg!NotFound ELSE <<Pg!ListResponse(q, count, page)>>
  BY <1>1, <1>2, <1>3, <1>4 DEF Pg!ListSessions
<1>7. Sq!NotFound = Pg!NotFound
  BY DEF Sq!NotFound, Pg!NotFound
<1>8. sqMissing <=> pgMissing
  <2>1. Sq!Range(page) = Pg!Range(page)
    BY SameOperators, PgSameOperators
  <2> QED
    BY <1>7, <2>1, SameStructures
<1>9. Sq!ListResponse(q, count, page) = Pg!ListResponse(q, count, page)
  BY SameResponses
<1> HIDE DEF sqMissing, pgMissing
<1> QED
  BY <1>5, <1>6, <1>7, <1>8, <1>9

-----------------------------------------------------------------------------
(* Charts and summaries. *)

\* And so are those of the PostgreSQL profile's.
LEMMA ChartsAgree ==
  ASSUME NEW d, Sound(d), NEW u, NEW q \in ComparisonQueries
  PROVE  Sq!ComparisonRows(d, u, q) = Pg!Compare(d, u, q)
<1> DEFINE rows == {e \in Pg!RowsOf(d) : e.user = u /\ d.devices[e.device] # NoRow
                                 /\ Pg!ComparisonFilters(e, q)}
           In(b, value) == {e \in rows : e.at >= b.start /\ e.at < b.end
                                    /\ Pg!ComparisonValue(e, q.by) = value}
           keys == {k \in Pg!Range(q.buckets) \X {Pg!ComparisonValue(e, q.by) : e \in rows} :
                 In(k[1], k[2]) # {}}
           Row(k) == [bucket |-> k[1].start, value |-> k[2], tokens |-> Pg!Total(In(k[1], k[2])),
                      requests |-> Pg!Cardinality({e \in In(k[1], k[2]) : e.kind = "request"})]
           charted == Charted(d, u, q)
           Of(k)   == {e \in charted : ChartKey(q, e) = k}
<1>0. Sq!ComparisonRows(d, u, q) = {ChartRow(k, Of(k)) : k \in {ChartKey(q, e) : e \in charted}}
  <2>1. Sq!ComparisonRows(d, u, q) = KeyedRows(d, u, q)
    BY ChartIsKeyed
  <2>2. KeyedRows(d, u, q) = {ChartRow(k, Of(k)) : k \in {ChartKey(q, e) : e \in charted}}
    BY Zenon DEF KeyedRows
  <2> QED
    BY <2>1, <2>2, Zenon
<1>1. Pg!Compare(d, u, q) = {Row(k) : k \in keys}
  BY DEF Pg!Compare
<1>2. \A e, by : Pg!ComparisonValue(e, by) = Sq!Value(e, by)
  BY Zenon DEF Pg!ComparisonValue, Sq!Value
<1>3. rows = charted
  <2>1. \A e : Pg!ComparisonFilters(e, q) <=> Sq!ComparisonFilters(e, q)
    BY Zenon DEF Pg!ComparisonFilters, Sq!ComparisonFilters, Pg!ComparisonValue, Sq!Value, Pg!AnyOf, Sq!AnyOf,
      Pg!Dimensions, Sq!Dimensions, Pg!Last, Sq!Last
  <2> QED
    BY <2>1, SameRows DEF Charted
<1>4. \A e \in charted :
        /\ BucketOf(q, e) \in Sq!Range(q.buckets) /\ Within(BucketOf(q, e), e.at)
        /\ \A b \in Sq!Range(q.buckets) : Within(b, e.at) => b = BucketOf(q, e)
  BY BucketIsFound
<1>5. \A b, c \in Sq!Range(q.buckets) : b.start = c.start => b = c
  BY OneBucket
<1>6. Pg!Range(q.buckets) = Sq!Range(q.buckets)
  BY SameOperators, PgSameOperators
<1> DEFINE pair(e) == <<BucketOf(q, e), Sq!Value(e, q.by)>>
<1> HIDE DEF charted, rows
<1>7. \A b \in Sq!Range(q.buckets) : \A value : In(b, value) = {e \in charted : BucketOf(q, e) = b /\ Sq!Value(e, q.by) = value}
  <2> SUFFICES ASSUME NEW b \in Sq!Range(q.buckets), NEW value
               PROVE  In(b, value) = {e \in charted : BucketOf(q, e) = b /\ Sq!Value(e, q.by) = value}
    OBVIOUS
  <2>1. \A e \in charted : e.at >= b.start /\ e.at < b.end <=> BucketOf(q, e) = b
    BY <1>4 DEF Within
  <2> QED
    BY <1>2, <1>3, <2>1
<1> HIDE DEF In
<1>8. keys = {pair(e) : e \in charted}
  <2>1. \A e \in charted : pair(e) \in keys
    <3> SUFFICES ASSUME NEW e \in charted PROVE pair(e) \in keys
      OBVIOUS
    <3>1. e \in In(BucketOf(q, e), Sq!Value(e, q.by))
      BY <1>4, <1>7
    <3>2. Sq!Value(e, q.by) \in {Pg!ComparisonValue(f, q.by) : f \in rows}
      BY <1>2, <1>3
    <3> QED
      BY <1>4, <1>6, <3>1, <3>2
  <2>2. ASSUME NEW k \in keys PROVE \E e \in charted : k = pair(e)
    <3>1. k = <<k[1], k[2]>> /\ k[1] \in Sq!Range(q.buckets) /\ In(k[1], k[2]) # {}
      BY <1>6
    <3>2. PICK e \in charted : BucketOf(q, e) = k[1] /\ Sq!Value(e, q.by) = k[2]
      BY <1>7, <3>1
    <3> QED
      BY <3>1, <3>2
  <2> HIDE DEF keys, pair
  <2> QED
    BY <2>1, <2>2
<1> HIDE DEF keys
<1>9. ASSUME NEW e \in charted
      PROVE  Row(pair(e)) = ChartRow(ChartKey(q, e), Of(ChartKey(q, e)))
  <2>1. In(BucketOf(q, e), Sq!Value(e, q.by)) = Of(ChartKey(q, e))
    <3>1. \A f \in charted : ChartKey(q, f) = ChartKey(q, e) <=>
             BucketOf(q, f) = BucketOf(q, e) /\ Sq!Value(f, q.by) = Sq!Value(e, q.by)
      BY <1>4, <1>5 DEF ChartKey
    <3> QED
      BY <1>4, <1>7, <3>1
  <2>2. PICK in : in = Of(ChartKey(q, e))
    OBVIOUS
  <2>3. pair(e)[1] = BucketOf(q, e) /\ pair(e)[2] = Sq!Value(e, q.by)
        /\ ChartKey(q, e)[1] = BucketOf(q, e).start /\ ChartKey(q, e)[2] = Sq!Value(e, q.by)
    BY DEF ChartKey
  <2> HIDE DEF pair, Of
  <2>4. Pg!Total(in) = Sq!Total(in) /\ \A S : Pg!Cardinality(S) = Sq!Cardinality(S)
    BY SameOperators, PgSameOperators
  <2> QED
    BY <2>1, <2>2, <2>3, <2>4 DEF ChartRow
<1> HIDE DEF Row, pair, Of
<1>10. Pg!Compare(d, u, q) = {ChartRow(ChartKey(q, e), Of(ChartKey(q, e))) : e \in charted}
  BY <1>1, <1>8, <1>9
<1> QED
  BY <1>0, <1>10

\* The options of a chart are the same.
LEMMA OptionsAgree ==
  ASSUME NEW d, NEW u, NEW q
  PROVE  Sq!ComparisonOptions(d, u, q) = Pg!ComparisonOptions(d, u, q)
<1> DEFINE rows == {e \in RowsOf(d) :
                      /\ e.user = u /\ d.devices[e.device] # NoRow
                      /\ e.at >= Head(q.buckets).start /\ e.at < Sq!Last(q.buckets).end}
           options == {<<dim, Sq!Value(e, dim)>> : dim \in Dimensions, e \in rows}
<1>1. Sq!ComparisonOptions(d, u, q) = options
  BY SMT DEF Sq!ComparisonOptions, Sq!RowsOf, RowsOf, Sq!Dimensions, Dimensions
<1>2. Pg!ComparisonOptions(d, u, q) = options
  <2>1. \A e, by : Pg!ComparisonValue(e, by) = Sq!Value(e, by)
    BY Zenon DEF Pg!ComparisonValue, Sq!Value
  <2>2. {f \in Pg!RowsOf(d) : /\ f.user = u /\ d.devices[f.device] # NoRow
                        /\ f.at >= Head(q.buckets).start /\ f.at < Pg!Last(q.buckets).end} = rows
    BY Zenon DEF Pg!RowsOf, RowsOf, Pg!Last, Sq!Last
  <2>3. Pg!Dimensions = Dimensions
    BY DEF Pg!Dimensions, Dimensions
  <2> HIDE DEF rows
  <2>4. Pg!ComparisonOptions(d, u, q) = {<<dim, Pg!ComparisonValue(e, dim)>> : dim \in Dimensions, e \in rows}
    BY <2>2, <2>3 DEF Pg!ComparisonOptions
  <2> QED
    BY <2>1, <2>4
<1> QED
  BY <1>1, <1>2

\* A row of a summary, of the events that are in its group.
GroupRow(g, in) ==
  [group |-> g, count |-> Cardinality({e.session : e \in in}),
   sessions |-> {[session |-> s, pks |-> {e.pk : e \in {f \in in : f.session = s}}]
                   : s \in {e.session : e \in in}},
   tokens |-> Total(in), requests |-> Cardinality({e \in in : e.kind = "request"})]

\* The rows of events whose groups group tells.
GroupRows(rows, group) ==
  {GroupRow(g, {e \in rows : group[e] = g}) : g \in {group[e] : e \in rows}}

\* The rows SQLite groups by session and then adds up are those of the groups.
LEMMA SqliteSummaryIsGrouped ==
  ASSUME NEW d, NEW q, NEW offsets, NEW rows, IsFiniteSet(rows), \A e \in rows : e.tokens \in Nat,
         NEW group, \A e \in rows : group[e] = Sq!GroupOf(d, q, offsets, e)
  PROVE  Sq!SummaryRows(d, q, offsets, rows) = GroupRows(rows, group)
<1>1. PICK summary : summary = Sq!SummaryRows(d, q, offsets, rows)
  OBVIOUS
<1>2. /\ \A g, h \in summary : g.group = h.group => g = h
      /\ \A e \in rows : \E g \in summary : g.group = group[e]
      /\ \A g \in summary : RowIsTrue(d, q, offsets, rows, g)
  BY <1>1, SummaryIsDivided
<1> DEFINE in(g) == {e \in rows : group[e] = g}
<1>3. \A g \in summary :
        g = [group |-> g.group, count |-> g.count, sessions |-> g.sessions,
             tokens |-> g.tokens, requests |-> g.requests]
  <2> DEFINE parts == Sq!BySession(d, q, offsets, rows)
             In(g) == {p \in parts : p.key.group = g}
             Row(g) == [group |-> g, count |-> Sq!Cardinality(In(g)),
                        sessions |-> {[session |-> p.key.session, pks |-> p.pks] : p \in In(g)},
                        tokens |-> Sq!FoldSet(LAMBDA p, n : n + p.tokens, 0, In(g)),
                        requests |-> Sq!FoldSet(LAMBDA p, n : n + p.requests, 0, In(g))]
  <2>1. summary = {Row(g) : g \in {p.key.group : p \in parts}}
    BY <1>1 DEF Sq!SummaryRows
  <2>2. \A g : Row(g) = [group |-> Row(g).group, count |-> Row(g).count, sessions |-> Row(g).sessions,
                         tokens |-> Row(g).tokens, requests |-> Row(g).requests]
    OBVIOUS
  <2> HIDE DEF Row
  <2> QED
    BY <2>1, <2>2
<1>4. ASSUME NEW r \in summary
      PROVE  r = GroupRow(r.group, in(r.group)) /\ r.group \in {group[e] : e \in rows}
  <2> DEFINE I == GroupEvents(d, q, offsets, rows, r.group)
  <2>1. I = in(r.group)
    BY DEF GroupEvents
  <2>2. /\ I # {}
        /\ r.sessions = {[session |-> s, pks |-> {e.pk : e \in {f \in I : f.session = s}}]
                           : s \in {e.session : e \in I}}
        /\ r.tokens = Total(I)
        /\ r.count = Cardinality({e.session : e \in I})
        /\ r.requests = Cardinality({e \in I : e.kind = "request"})
    BY <1>2, Zenon DEF RowIsTrue
  <2> HIDE DEF I
  <2>3. r = GroupRow(r.group, I)
    <3> DEFINE Of(c, s, t, n) ==
                 [group |-> r.group, count |-> c, sessions |-> s, tokens |-> t, requests |-> n]
    <3>1. r = Of(r.count, r.sessions, r.tokens, r.requests)
      BY <1>3
    <3>2. GroupRow(r.group, I) =
            Of(Cardinality({e.session : e \in I}),
               {[session |-> s, pks |-> {e.pk : e \in {f \in I : f.session = s}}] : s \in {e.session : e \in I}},
               Total(I), Cardinality({e \in I : e.kind = "request"}))
      BY Zenon DEF GroupRow
    <3> HIDE DEF Of
    <3> QED
      BY <2>2, <3>1, <3>2, Zenon
  <2>4. r.group \in {group[e] : e \in rows}
    BY <2>1, <2>2
  <2> QED
    BY <2>1, <2>3, <2>4
<1>5. ASSUME NEW e \in rows PROVE GroupRow(group[e], in(group[e])) \in summary
  <2>1. PICK r \in summary : r.group = group[e]
    BY <1>2
  <2> QED
    BY <1>4, <2>1
<1> HIDE DEF in
<1>6. summary = {GroupRow(g, in(g)) : g \in {group[e] : e \in rows}}
  BY <1>4, <1>5
<1> QED
  BY <1>1, <1>6 DEF GroupRows, in

\* The rows PostgreSQL collects in one pass are those of the groups.
LEMMA PostgresSummaryIsGrouped ==
  ASSUME NEW q, NEW rows, NEW group, \A e \in rows : group[e] = Pg!SummaryDimensions(q, e)
  PROVE  Pg!SummaryRows(q, rows) = GroupRows(rows, group)
<1> DEFINE In(s, g) == {e \in rows : e.session = s /\ Pg!SummaryDimensions(q, e) = g}
           groups == {Pg!SummaryDimensions(q, e) : e \in rows}
           parts(g) == {s \in {e.session : e \in rows} : In(s, g) # {}}
           Of(g) == UNION {In(s, g) : s \in parts(g)}
           in(g) == {e \in rows : group[e] = g}
           Row(g) == [group |-> g, count |-> Pg!Cardinality(parts(g)),
                      sessions |-> {[session |-> s, pks |-> {e.pk : e \in In(s, g)}] : s \in parts(g)},
                      tokens |-> Pg!Total(Of(g)),
                      requests |-> Pg!Cardinality({e \in Of(g) : e.kind = "request"})]
<1>1. Pg!SummaryRows(q, rows) = {Row(g) : g \in groups}
  BY DEF Pg!SummaryRows
<1>2. groups = {group[e] : e \in rows}
  OBVIOUS
<1>3. ASSUME NEW g PROVE Row(g) = GroupRow(g, in(g))
  <2>1. \A s : In(s, g) = {f \in in(g) : f.session = s}
    OBVIOUS
  <2>2. parts(g) = {e.session : e \in in(g)}
    OBVIOUS
  <2>3. Of(g) = in(g)
    OBVIOUS
  <2> DEFINE part(s) == [session |-> s, pks |-> {e.pk : e \in In(s, g)}]
             own(s)  == [session |-> s, pks |-> {e.pk : e \in {f \in in(g) : f.session = s}}]
  <2>4. \A s : part(s) = own(s)
    <3> HIDE DEF In, in
    <3> QED
      BY <2>1
  <2>5. {part(s) : s \in parts(g)} = {own(s) : s \in {e.session : e \in in(g)}}
    <3> HIDE DEF part, own, parts, in
    <3> QED
      BY <2>2, <2>4
  <2>6. PICK I, P, T : /\ I = in(g) /\ P = parts(g) /\ T = Of(g)
    OBVIOUS
  <2>7. Row(g) = [group |-> g, count |-> Cardinality(P), sessions |-> {part(s) : s \in parts(g)},
                  tokens |-> Total(T), requests |-> Cardinality({e \in T : e.kind = "request"})]
    <3> HIDE DEF In, parts, Of
    <3>1. /\ Pg!Cardinality(P) = Cardinality(P) /\ Pg!Total(T) = Total(T)
          /\ Pg!Cardinality({e \in T : e.kind = "request"}) = Cardinality({e \in T : e.kind = "request"})
      BY PgSameOperators
    <3> QED
      BY <2>6, <3>1
  <2>8. GroupRow(g, I) = [group |-> g, count |-> Cardinality({e.session : e \in I}),
                          sessions |-> {own(s) : s \in {e.session : e \in in(g)}},
                  tokens |-> Total(I), requests |-> Cardinality({e \in I : e.kind = "request"})]
    BY <2>6 DEF GroupRow
  <2> HIDE DEF part, own, parts, in, Of, In, Row
  <2>9. I = T /\ P = {e.session : e \in I}
    BY <2>2, <2>3, <2>6
  <2> QED
    BY <2>5, <2>6, <2>7, <2>8, <2>9
<1> HIDE DEF Row, groups, in
<1>4. Pg!SummaryRows(q, rows) = {GroupRow(g, in(g)) : g \in {group[e] : e \in rows}}
  BY <1>1, <1>2, <1>3
<1> QED
  BY <1>4 DEF GroupRows, in

\* The day of an event in the table of offsets is its day in the time zone.
LEMMA DaysAgree ==
  ASSUME NEW d, Sound(d), TimesAreSubmitted(d), NEW u, NEW q, NEW e \in Selected(d, u, q)
  PROVE  Sq!DayOf(Sq!DayOffsets(d, u, q), e.at) = (e.at + Zone[e.at]) \div DayLength
<1> DEFINE times == {x.at : x \in {f \in Sq!RowsOf(d) : f.user = u /\ Sq!InWindow(q, f.at)}}
<1>1. /\ times \subseteq Int /\ IsFiniteSet(times) /\ e.at \in times
      /\ \A t \in times : \E s \in Submitted : t = s.at
  <2> DEFINE mine == {f \in RowsOf(d) : f.user = u /\ Sq!InWindow(q, f.at)}
             at == [f \in mine |-> f.at]
  <2>1. Sq!RowsOf(d) = RowsOf(d) /\ IsFiniteSet(mine) /\ \A f \in mine : f.at \in Int
    BY RowsAreSound, FS_Subset
  <2>2. times = {at[f] : f \in mine}
    BY <2>1
  <2>3. e \in mine
    BY DEF Selected, InWindow, Sq!InWindow, None, Sq!None
  <2>4. \A f \in mine : \E s \in Submitted : f.at = s.at
    BY DEF TimesAreSubmitted
  <2>5. IsFiniteSet({at[f] : f \in mine})
    <3> HIDE DEF mine, at
    <3> QED
      BY <2>1, ImageIsFinite
  <2>6. \A t \in times : \E f \in mine : t = f.at
    BY <2>2
  <2>7. e.at \in times
    BY <2>2, <2>3
  <2>8. times \subseteq Int
    BY <2>1, <2>6
  <2> HIDE DEF times, mine, at
  <2> QED
    BY <2>2, <2>4, <2>5, <2>6, <2>7, <2>8
<1>2. Sq!DayOffsets(d, u, q) =
        IF times = {} THEN <<[start |-> 0, offset |-> 0]>>
        ELSE Sq!UtcOffsetChanges(Sq!Min(times), Sq!Max(times) + 1)
  BY Zenon DEF Sq!DayOffsets
<1> HIDE DEF times
<1>3. PICK first \in times : first = Sq!Min(times) /\ \A t \in times : first <= t
  <2>1. Sq!Min(times) = Min(times)
    BY Zenon DEF Sq!Min, Min
  <2> QED
    BY <1>1, <2>1, MinIsLeast
<1>4. PICK last \in times : last = Sq!Max(times) /\ \A t \in times : t <= last
  <2>1. Sq!Max(times) = Max(times)
    BY SameOperators
  <2> QED
    BY <1>1, <2>1, MaxIsGreatest
<1>5. first..(last + 1) \subseteq DOMAIN Zone
  <2>1. PICK s \in Submitted : first = s.at
    BY <1>1
  <2>2. PICK t \in Submitted : last = t.at
    BY <1>1
  <2>3. s.at..(t.at + 1) \subseteq DOMAIN Zone
    BY QueryConstants
  <2> QED
    BY <2>1, <2>2, <2>3
<1>6. PICK at \in Int : at = e.at /\ at \in first..(last + 1)
  <2>1. PICK at \in Int : at = e.at /\ at \in times
    BY <1>1
  <2>2. first \in Int /\ last \in Int /\ first <= at /\ at <= last
    BY <1>1, <1>3, <1>4, <2>1
  <2> QED
    BY <2>1, <2>2
<1>7. first \in Int /\ last + 1 \in Int
  BY <1>1
<1>8. Sq!DayOf(Sq!UtcOffsetChanges(first, last + 1), at) = (at + Zone[at]) \div DayLength
  <2>1. PICK end \in Int : end = last + 1
    BY <1>7
  <2>2. first..end \subseteq DOMAIN Zone /\ at \in first..end
    BY <1>5, <1>6, <2>1
  <2>3. Sq!DayOf(Sq!UtcOffsetChanges(first, end), at) = (at + Zone[at]) \div DayLength
    BY <1>7, <2>2, DayIsTold
  <2> QED
    BY <2>1, <2>3, Zenon
<1> QED
  BY <1>1, <1>2, <1>3, <1>4, <1>6, <1>8

\* An event is in the same group of a summary.
LEMMA GroupsAgree ==
  ASSUME NEW d, Sound(d), TimesAreSubmitted(d), NEW u, NEW q, NEW e \in Selected(d, u, q),
         NEW offsets, "day" \in q.by => offsets = Sq!DayOffsets(d, u, q)
  PROVE  Sq!GroupOf(d, q, offsets, e) = Pg!SummaryDimensions(q, e)
<1> DEFINE Column(name, value) == IF name \in q.by THEN value ELSE Unknown
           Group(day) == [day |-> day,
                          device |-> Column("device", e.device), agent |-> Column("agent", e.agent),
                          provider |-> Column("provider", e.provider), model |-> Column("model", e.model),
                          kind |-> Column("event_type", e.kind)]
<1>1. Sq!GroupOf(d, q, offsets, e) = Group(IF "day" \in q.by THEN Sq!DayOf(offsets, e.at) ELSE Sq!None)
  BY DEF Sq!GroupOf
<1>2. Pg!SummaryDimensions(q, e) =
        Group(IF "day" \in q.by THEN (e.at + Zone[e.at]) \div DayLength ELSE Pg!None)
  BY DEF Pg!SummaryDimensions
<1>3. Sq!None = Pg!None
  BY DEF Sq!None, Pg!None
<1> HIDE DEF Group
<1>4. CASE "day" \in q.by
  <2>1. Sq!DayOf(offsets, e.at) = (e.at + Zone[e.at]) \div DayLength
    BY <1>4, DaysAgree, Zenon
  <2> QED
    BY <1>1, <1>2, <1>4, <2>1, Zenon
<1>5. CASE "day" \notin q.by
  BY <1>1, <1>2, <1>3, <1>5, Zenon
<1> QED
  BY <1>4, <1>5

\* Of the same rows both count the same turns.
LEMMA SameTurns ==
  ASSUME NEW kept, NEW structures
  PROVE  Sq!SummaryTurns(kept, structures) = Pg!SummaryTurns(kept, structures)
<1> DEFINE sqTurns(part) == Sq!Cardinality(Sq!DistinctTurns(Head(structures[part.session]), part.pks))
           pgTurns(part) == Pg!Cardinality(Pg!DistinctTurns(Head(structures[part.session]), part.pks))
           sqSum(parts) == Sq!FoldSet(LAMBDA part, n : n + sqTurns(part), 0, parts)
           pgSum(parts) == Pg!FoldSet(LAMBDA part, n : n + pgTurns(part), 0, parts)
           missing == \E g \in Range(kept) : \E part \in g.sessions : structures[part.session] = <<>>
<1>1. \A parts : sqSum(parts) = pgSum(parts)
  BY Zenon DEF Sq!FoldSet, Pg!FoldSet, Sq!MapThenFoldSet, Pg!MapThenFoldSet, Sq!Cardinality, Pg!Cardinality,
    Sq!DistinctTurns, Pg!DistinctTurns, Sq!EventPosition, Pg!EventPosition, Sq!None, Pg!None
<1>2. Sq!Range(kept) = Range(kept) /\ Pg!Range(kept) = Range(kept)
  BY SameOperators, PgSameOperators
<1>3. Sq!SummaryTurns(kept, structures)
        = IF missing THEN <<>> ELSE <<[i \in DOMAIN kept |-> [group |-> kept[i], turns |-> sqSum(kept[i].sessions)]]>>
  BY <1>2, Zenon DEF Sq!SummaryTurns, Sq!NotFound
<1>4. Pg!SummaryTurns(kept, structures)
        = IF missing THEN <<>> ELSE <<[i \in DOMAIN kept |-> [group |-> kept[i], turns |-> pgSum(kept[i].sessions)]]>>
  BY <1>2, Zenon DEF Pg!SummaryTurns, Pg!NotFound
<1> HIDE DEF sqSum, pgSum, missing
<1> QED
  BY <1>1, <1>3, <1>4

\* An order, and where it does not tell members apart another one.
LEMMA OrderThenOrder ==
  ASSUME NEW S, NEW A, IsWeakOrder(A, S), NEW D, IsWeakOrder(D, S), NEW B,
         \A a, b \in S : <<a, b>> \in B <=> <<a, b>> \in A \/ (<<b, a>> \notin A /\ <<a, b>> \in D)
  PROVE  IsWeakOrder(B, S)
<1>1. ASSUME NEW a \in S, NEW b \in S, <<a, b>> \in B PROVE <<b, a>> \notin B
  BY <1>1, Zenon DEF IsWeakOrder
<1>2. ASSUME NEW a \in S, NEW b \in S, NEW c \in S, <<a, c>> \in B PROVE <<a, b>> \in B \/ <<b, c>> \in B
  <2>1. /\ <<a, c>> \in A => <<a, b>> \in A \/ <<b, c>> \in A
        /\ <<a, c>> \in D => <<a, b>> \in D \/ <<b, c>> \in D
        /\ <<b, a>> \in A => <<b, c>> \in A \/ <<c, a>> \in A
        /\ <<c, b>> \in A => <<c, a>> \in A \/ <<a, b>> \in A
    BY Zenon DEF IsWeakOrder
  <2>2. /\ <<a, c>> \in A \/ (<<c, a>> \notin A /\ <<a, c>> \in D)
        /\ <<a, b>> \in A \/ (<<b, a>> \notin A /\ <<a, b>> \in D) => <<a, b>> \in B
        /\ <<b, c>> \in A \/ (<<c, b>> \notin A /\ <<b, c>> \in D) => <<b, c>> \in B
    BY <1>2
  <2> QED
    BY <2>1, <2>2
<1> QED
  BY <1>1, <1>2, Zenon DEF IsWeakOrder

\* Rows whose agents have a place in both orders of texts, when there is one.
AreRanked(rows) ==
  \A r \in rows :
    /\ r.tokens \in Int /\ r.group.day \in Int
    /\ r.group.agent # Unknown => Binary[r.group.agent] \in Int /\ Collation[r.group.agent] \in Int

\* The pairs of rows an order tells apart.
SqliteOrder(rows)   == {p \in rows \X rows : Sq!SummaryOrder(p[1], p[2])}
PostgresOrder(rows) == {p \in rows \X rows : Pg!SummaryOrder(p[1], p[2])}

\* Each profile compares rows by tokens, then by agents, then by days.
LEMMA OrdersAreWeak ==
  ASSUME NEW rows, AreRanked(rows)
  PROVE  IsWeakOrder(SqliteOrder(rows), rows) /\ IsWeakOrder(PostgresOrder(rows), rows)
<1> DEFINE T == {p \in rows \X rows : p[1].tokens > p[2].tokens}
<1>1. IsWeakOrder(T, rows)
  BY DEF AreRanked, IsWeakOrder
<1>2. IsWeakOrder(SqliteOrder(rows), rows)
  <2> DEFINE agent(x, y) == /\ y.group.agent # Unknown
                            /\ x.group.agent = Unknown \/ Binary[x.group.agent] < Binary[y.group.agent]
             day(x, y) == y.group.day # Sq!None /\ (x.group.day = Sq!None \/ x.group.day < y.group.day)
             A == {p \in rows \X rows : agent(p[1], p[2])}
             D == {p \in rows \X rows : day(p[1], p[2])}
             AD == {p \in rows \X rows : agent(p[1], p[2]) \/ (~agent(p[2], p[1]) /\ day(p[1], p[2]))}
  <2>1. IsWeakOrder(A, rows)
    BY DEF AreRanked, IsWeakOrder
  <2>2. IsWeakOrder(D, rows)
    BY DEF AreRanked, IsWeakOrder
  <2>3. \A a, b \in rows : Sq!SummaryOrder(a, b) <=>
          \/ a.tokens > b.tokens
          \/ ~(b.tokens > a.tokens) /\ (agent(a, b) \/ (~agent(b, a) /\ day(a, b)))
    BY DEF Sq!SummaryOrder, AreRanked
  <2> HIDE DEF agent, day
  <2>4. IsWeakOrder(AD, rows)
    <3>1. \A a, b \in rows : <<a, b>> \in AD <=> <<a, b>> \in A \/ (<<b, a>> \notin A /\ <<a, b>> \in D)
      OBVIOUS
    <3> HIDE DEF A, D, AD
    <3> QED
      BY <2>1, <2>2, <3>1, OrderThenOrder
  <2>5. \A a, b \in rows : <<a, b>> \in SqliteOrder(rows)
                             <=> <<a, b>> \in T \/ (<<b, a>> \notin T /\ <<a, b>> \in AD)
    BY <2>3 DEF SqliteOrder
  <2> HIDE DEF T, AD
  <2> QED
    BY <1>1, <2>4, <2>5, OrderThenOrder
<1>3. IsWeakOrder(PostgresOrder(rows), rows)
  <2> DEFINE agent(x, y) == /\ x.group.agent # Unknown
                            /\ y.group.agent = Unknown \/ Collation[x.group.agent] < Collation[y.group.agent]
             day(x, y) == x.group.day # Pg!None /\ (y.group.day = Pg!None \/ x.group.day < y.group.day)
             A == {p \in rows \X rows : agent(p[1], p[2])}
             D == {p \in rows \X rows : day(p[1], p[2])}
             AD == {p \in rows \X rows : agent(p[1], p[2]) \/ (~agent(p[2], p[1]) /\ day(p[1], p[2]))}
  <2>1. IsWeakOrder(A, rows)
    BY DEF AreRanked, IsWeakOrder
  <2>2. IsWeakOrder(D, rows)
    BY DEF AreRanked, IsWeakOrder
  <2>3. \A a, b \in rows : Pg!SummaryOrder(a, b) <=>
          \/ a.tokens > b.tokens
          \/ ~(b.tokens > a.tokens) /\ (agent(a, b) \/ (~agent(b, a) /\ day(a, b)))
    BY DEF Pg!SummaryOrder, AreRanked
  <2> HIDE DEF agent, day
  <2>4. IsWeakOrder(AD, rows)
    <3>1. \A a, b \in rows : <<a, b>> \in AD <=> <<a, b>> \in A \/ (<<b, a>> \notin A /\ <<a, b>> \in D)
      OBVIOUS
    <3> HIDE DEF A, D, AD
    <3> QED
      BY <2>1, <2>2, <3>1, OrderThenOrder
  <2>5. \A a, b \in rows : <<a, b>> \in PostgresOrder(rows)
                             <=> <<a, b>> \in T \/ (<<b, a>> \notin T /\ <<a, b>> \in AD)
    BY <2>3 DEF PostgresOrder
  <2> HIDE DEF T, AD
  <2> QED
    BY <1>1, <2>4, <2>5, OrderThenOrder
<1> QED
  BY <1>2, <1>3

\* How many of some rows a summary shows.
ShownOf(q, rows) == IF LimitOf(q) <= Cardinality(rows) THEN LimitOf(q) ELSE Cardinality(rows)

\* The rows each profile shows are the first ones.
LEMMA BothShowFirst ==
  ASSUME NEW rows, IsFiniteSet(rows), NEW q, q.limit \in Int, NEW n, n = ShownOf(q, rows), NEW kept
  PROVE  /\ n \in Nat /\ n <= Cardinality(rows)
         /\ kept \in Sq!FirstRows(rows, q) <=> AreFirst(kept, n, rows, SqliteOrder(rows))
         /\ kept \in Pg!FirstRows(rows, q) <=> AreFirst(kept, n, rows, PostgresOrder(rows))
<1>1. PICK limit \in Nat : /\ limit = LimitOf(q)
                           /\ limit = Sq!NormalizeLimit(q.limit, ScanLimit, 100000)
                           /\ limit = Pg!NormalizeLimit(q.limit, ScanLimit, 100000)
  <2>1. LimitOf(q) \in Nat /\ Sq!NormalizeLimit(q.limit, ScanLimit, 100000) = LimitOf(q)
    BY LimitIsNatural
  <2>2. Pg!NormalizeLimit(q.limit, ScanLimit, 100000) = Sq!NormalizeLimit(q.limit, ScanLimit, 100000)
    BY SMT DEF Sq!NormalizeLimit, Pg!NormalizeLimit, Sq!AtMost, Pg!AtMost, Sq!AtLeast, Pg!AtLeast,
      Sq!None, Pg!None
  <2> QED
    BY <2>1, <2>2
<1>2. PICK m \in Nat : m = Cardinality(rows) /\ m = Sq!Cardinality(rows) /\ m = Pg!Cardinality(rows)
  BY FS_CardinalityType, SameOperators, PgSameOperators
<1>3. n = Sq!AtMost(limit, m) /\ n = Pg!AtMost(limit, m) /\ n \in Nat /\ n <= m
  BY <1>1, <1>2 DEF ShownOf, Sq!AtMost, Pg!AtMost
<1>4. Sq!Range(kept) = Range(kept) /\ Pg!Range(kept) = Range(kept)
  BY SameOperators, PgSameOperators
<1>5. ASSUME NEW order
      PROVE  AreFirst(kept, n, rows, order) <=>
               /\ kept \in [1..n -> rows]
               /\ \A i, j \in DOMAIN kept : i < j => kept[i] # kept[j] /\ <<kept[j], kept[i]>> \notin order
               /\ \A i \in DOMAIN kept, b \in rows \ Range(kept) : <<b, kept[i]>> \notin order
  <2>1. CASE kept \notin [1..n -> rows]
    BY <2>1, Zenon DEF AreFirst
  <2>2. CASE kept \in [1..n -> rows]
    <3>1. DOMAIN kept = 1..n
      BY <2>2
    <3>2. \A b : b \in Range(kept) <=> \E j \in 1..n : b = kept[j]
      BY <3>1 DEF Range
    <3>3. ASSUME NEW i \in 1..n
          PROVE  (\A b \in rows \ Range(kept) : <<b, kept[i]>> \notin order)
                   <=> \A b \in rows : <<b, kept[i]>> \in order => \E j \in 1..n : b = kept[j]
      BY <3>2, Zenon
    <3>4. AreFirst(kept, n, rows, order) <=>
            /\ \A i, j \in 1..n : i < j => kept[i] # kept[j] /\ <<kept[j], kept[i]>> \notin order
            /\ \A i \in 1..n : \A b \in rows : <<b, kept[i]>> \in order => \E j \in 1..n : b = kept[j]
      BY <2>2, Zenon DEF AreFirst
    <3> QED
      BY <2>2, <3>1, <3>3, <3>4, Zenon
  <2> QED
    BY <2>1, <2>2
<1>6. kept \in Sq!FirstRows(rows, q) <=> AreFirst(kept, n, rows, SqliteOrder(rows))
  <2>1. PICK order : order = SqliteOrder(rows)
    OBVIOUS
  <2>2. Sq!FirstRows(rows, q) = Sq!Limited(rows, order, q)
    BY <2>1, Zenon DEF Sq!FirstRows, SqliteOrder
  <2>3. kept \in Sq!Limited(rows, order, q) <=>
          /\ kept \in [1..n -> rows]
          /\ \A i, j \in DOMAIN kept : i < j => kept[i] # kept[j] /\ <<kept[j], kept[i]>> \notin order
          /\ \A i \in DOMAIN kept, b \in rows \ Range(kept) : <<b, kept[i]>> \notin order
    BY <1>1, <1>2, <1>3, <1>4, SMT DEF Sq!Limited
  <2> QED
    BY <1>5, <2>1, <2>2, <2>3, Zenon
<1>7. kept \in Pg!FirstRows(rows, q) <=> AreFirst(kept, n, rows, PostgresOrder(rows))
  <2>1. PICK order : order = PostgresOrder(rows)
    OBVIOUS
  <2>2. Pg!FirstRows(rows, q) = Pg!Limited(rows, order, q)
    BY <2>1, Zenon DEF Pg!FirstRows, PostgresOrder
  <2>3. kept \in Pg!Limited(rows, order, q) <=>
          /\ kept \in [1..n -> rows]
          /\ \A i, j \in DOMAIN kept : i < j => kept[i] # kept[j] /\ <<kept[j], kept[i]>> \notin order
          /\ \A i \in DOMAIN kept, b \in rows \ Range(kept) : <<b, kept[i]>> \notin order
    BY <1>1, <1>2, <1>3, <1>4, SMT DEF Pg!Limited
  <2> QED
    BY <1>5, <2>1, <2>2, <2>3, Zenon
<1> QED
  BY <1>2, <1>3, <1>6, <1>7

\* So both show some, and none that is left out has more tokens.
LEMMA BothShowTop ==
  ASSUME NEW rows, IsFiniteSet(rows), AreRanked(rows), NEW q, q.limit \in Int, NEW n, n = ShownOf(q, rows)
  PROVE  /\ Sq!FirstRows(rows, q) # {} /\ Pg!FirstRows(rows, q) # {}
         /\ \A kept \in Sq!FirstRows(rows, q) \cup Pg!FirstRows(rows, q) :
              /\ kept \in [1..n -> rows] /\ \A i, j \in 1..n : i < j => kept[i] # kept[j]
              /\ \A i \in 1..n, b \in rows \ Range(kept) : b.tokens <= kept[i].tokens
<1>1. n \in Nat /\ n <= Cardinality(rows)
  BY BothShowFirst
<1>2. IsWeakOrder(SqliteOrder(rows), rows) /\ IsWeakOrder(PostgresOrder(rows), rows)
  BY OrdersAreWeak
<1>3. Sq!FirstRows(rows, q) # {}
  <2>1. PICK kept : AreFirst(kept, n, rows, SqliteOrder(rows))
    BY <1>1, <1>2, FirstsExist
  <2> QED
    BY <2>1, BothShowFirst
<1>4. Pg!FirstRows(rows, q) # {}
  <2>1. PICK kept : AreFirst(kept, n, rows, PostgresOrder(rows))
    BY <1>1, <1>2, FirstsExist
  <2> QED
    BY <2>1, BothShowFirst
<1>5. ASSUME NEW kept \in Sq!FirstRows(rows, q) \cup Pg!FirstRows(rows, q)
      PROVE  /\ kept \in [1..n -> rows] /\ \A i, j \in 1..n : i < j => kept[i] # kept[j]
             /\ \A i \in 1..n, b \in rows \ Range(kept) : b.tokens <= kept[i].tokens
  <2>1. PICK B : AreFirst(kept, n, rows, B) /\ B \in {SqliteOrder(rows), PostgresOrder(rows)}
    BY BothShowFirst
  <2>2. /\ kept \in [1..n -> rows] /\ \A i, j \in 1..n : i < j => kept[i] # kept[j]
        /\ \A i \in 1..n, b \in rows : <<b, kept[i]>> \in B => \E j \in 1..n : b = kept[j]
    BY <2>1, Zenon DEF AreFirst
  <2>3. \A a, b \in rows : a.tokens > b.tokens => <<a, b>> \in B
    BY <2>1 DEF SqliteOrder, PostgresOrder, Sq!SummaryOrder, Pg!SummaryOrder
  <2>4. ASSUME NEW i \in 1..n, NEW b \in rows \ Range(kept) PROVE b.tokens <= kept[i].tokens
    <3>1. kept[i] \in rows /\ ~ \E j \in 1..n : b = kept[j]
      BY <2>2 DEF Range
    <3>2. <<b, kept[i]>> \notin B
      BY <2>2, <3>1, Zenon
    <3>3. ~(b.tokens > kept[i].tokens)
      BY <2>3, <3>1, <3>2, Zenon
    <3>4. b.tokens \in Int /\ kept[i].tokens \in Int
      BY <3>1 DEF AreRanked
    <3> QED
      BY <3>3, <3>4
  <2> QED
    BY <2>2, <2>4
<1> QED
  BY <1>3, <1>4, <1>5

\* Of the same rows any two answers agree.
LEMMA AnswersOfRows ==
  ASSUME NEW rows, IsFiniteSet(rows), AreRanked(rows), NEW q, q.limit \in Int, NEW structures,
         NEW x \in Sq!FirstRows(rows, q), NEW y \in Pg!FirstRows(rows, q)
  PROVE  SameSummary(<<AnsweredRows(x, structures)>>, <<AnsweredRows(y, structures)>>, q)
<1>1. PICK n \in Nat : n = ShownOf(q, rows)
  BY BothShowFirst
<1>2. PICK limit \in Nat : limit = LimitOf(q)
  BY LimitIsNatural
<1> DEFINE answer(r) == [group |-> r, turns |-> TurnsCounted(structures, r.sessions)]
<1>3. ASSUME NEW kept \in Sq!FirstRows(rows, q) \cup Pg!FirstRows(rows, q)
      PROVE  /\ Len(AnsweredRows(kept, structures)) = n
             /\ Range(AnsweredRows(kept, structures)) = {answer(r) : r \in Range(kept)}
             /\ n = limit \/ Range(kept) = rows
             /\ Range(kept) \subseteq rows
             /\ \A r \in Range(kept), b \in rows \ Range(kept) : b.tokens <= r.tokens
  <2>1. /\ kept \in [1..n -> rows] /\ \A i, j \in 1..n : i < j => kept[i] # kept[j]
        /\ \A i \in 1..n, b \in rows \ Range(kept) : b.tokens <= kept[i].tokens
    BY <1>1, BothShowTop
  <2>2. DOMAIN kept = 1..n /\ \A r : r \in Range(kept) <=> \E i \in 1..n : r = kept[i]
    <3>1. DOMAIN kept = 1..n
      BY <2>1
    <3> QED
      BY <3>1 DEF Range
  <2>3. AnsweredRows(kept, structures) = [i \in 1..n |-> answer(kept[i])]
    BY <2>2 DEF AnsweredRows
  <2> HIDE DEF answer
  <2>4. /\ Len(AnsweredRows(kept, structures)) = n
        /\ Range(AnsweredRows(kept, structures)) = {answer(r) : r \in Range(kept)}
    <3>1. PICK all : all = AnsweredRows(kept, structures) /\ all = [i \in 1..n |-> answer(kept[i])]
      BY <2>3
    <3>2. Len(all) = n /\ DOMAIN all = 1..n /\ \A i \in 1..n : all[i] = answer(kept[i])
      BY <3>1
    <3>3. Range(all) = {answer(r) : r \in Range(kept)}
      <4>1. ASSUME NEW z \in Range(all) PROVE z \in {answer(r) : r \in Range(kept)}
        <5>1. PICK i \in 1..n : z = all[i]
          BY <3>2 DEF Range
        <5>2. kept[i] \in Range(kept) /\ z = answer(kept[i])
          BY <2>2, <3>2, <5>1, Zenon
        <5> QED
          BY <5>2, Zenon
      <4>2. ASSUME NEW r \in Range(kept) PROVE answer(r) \in Range(all)
        <5>1. PICK i \in 1..n : r = kept[i]
          BY <2>2, Zenon
        <5> QED
          BY <3>2, <5>1 DEF Range
      <4> QED
        BY <4>1, <4>2
    <3> QED
      BY <3>1, <3>2, <3>3, Zenon
  <2>5. n = IF limit <= Cardinality(rows) THEN limit ELSE Cardinality(rows)
    BY <1>1, <1>2 DEF ShownOf
  <2>6. (n = limit \/ Range(kept) = rows) /\ Range(kept) \subseteq rows
    BY <2>1, <2>5, KeptIsPrefix
  <2>7. \A r \in Range(kept), b \in rows \ Range(kept) : b.tokens <= r.tokens
    BY <2>1, <2>2, Zenon
  <2> QED
    BY <2>4, <2>6, <2>7
<1>4. \A r : answer(r).group = r
  OBVIOUS
<1> DEFINE a == AnsweredRows(x, structures)
           b == AnsweredRows(y, structures)
<1>5. /\ Len(a) = n /\ Range(a) = {answer(r) : r \in Range(x)}
      /\ n = limit \/ Range(x) = rows
      /\ Range(x) \subseteq rows
      /\ \A r \in Range(x), t \in rows \ Range(x) : t.tokens <= r.tokens
  BY <1>3
<1>6. /\ Len(b) = n /\ Range(b) = {answer(r) : r \in Range(y)}
      /\ n = limit \/ Range(y) = rows
      /\ Range(y) \subseteq rows
      /\ \A r \in Range(y), t \in rows \ Range(y) : t.tokens <= r.tokens
  BY <1>3
<1> HIDE DEF a, b, answer
<1>7. n < limit => Range(a) = Range(b)
  BY <1>5, <1>6
<1>8. ASSUME NEW r \in Range(a), NEW t \in Range(b)
      PROVE  /\ r \notin Range(b) => r.group.tokens <= t.group.tokens
             /\ t \notin Range(a) => t.group.tokens <= r.group.tokens
  <2>1. PICK g \in Range(x) : r = answer(g)
    BY <1>5
  <2>2. PICK h \in Range(y) : t = answer(h)
    BY <1>6
  <2>3. r.group = g /\ t.group = h
    BY <1>4, <2>1, <2>2
  <2>4. r \notin Range(b) => g \notin Range(y)
    BY <1>6, <2>1
  <2>5. t \notin Range(a) => h \notin Range(x)
    BY <1>5, <2>2
  <2> QED
    BY <1>5, <1>6, <2>3, <2>4, <2>5
<1>9. /\ <<a>> \notin {NotFound, Invalid} /\ <<b>> \notin {NotFound, Invalid}
      /\ Head(<<a>>) = a /\ Head(<<b>>) = b
  BY DEF NotFound, Invalid
<1>10. SameSummary(<<a>>, <<b>>, q) <=>
         /\ Len(a) = Len(b)
         /\ Len(a) < limit => Range(a) = Range(b)
         /\ \A r \in Range(a), t \in Range(b) :
              /\ r \notin Range(b) => r.group.tokens <= t.group.tokens
              /\ t \notin Range(a) => t.group.tokens <= r.group.tokens
  BY <1>2, <1>9, SMT DEF SameSummary, LimitOf
<1>11. SameSummary(<<a>>, <<b>>, q)
  BY <1>5, <1>6, <1>7, <1>8, <1>10
<1> QED
  BY <1>11 DEF a, b

\* The agents and days of the rows of a summary have their places.
LEMMA RowsAreRanked ==
  ASSUME NEW d, Sound(d), Backed(d), NEW u, NEW q, NEW offsets, "day" \in q.by => offsets = Sq!DayOffsets(d, u, q),
         NEW groups, groups = Sq!SummaryRows(d, q, offsets, Selected(d, u, q))
  PROVE  IsFiniteSet(groups) /\ AreRanked(groups)
<1> DEFINE selected == Selected(d, u, q)
<1>1. /\ selected \in SUBSET RowsOf(d) /\ IsFiniteSet(selected)
      /\ \A e \in selected : e.tokens \in Nat
  BY SelectedIsSound
<1>2. IsFiniteSet(groups) /\ \A g \in groups : RowIsTrue(d, q, offsets, selected, g)
  BY <1>1, SummaryIsDivided
<1>3. ASSUME NEW e \in selected
      PROVE  /\ Sq!GroupOf(d, q, offsets, e).day \in Int
             /\ Sq!GroupOf(d, q, offsets, e).agent \in {e.agent, Unknown}
  <2>1. Sq!GroupOf(d, q, offsets, e) = Pg!SummaryDimensions(q, e)
    BY GroupsAgree DEF Backed
  <2>2. PICK s \in Submitted : e.at = s.at
    BY <1>1 DEF Backed, TimesAreSubmitted
  <2>3. s.at \in Int /\ s.at \in DOMAIN Zone
    <3>1. s.at \in Int /\ s.at..(s.at + 1) \subseteq DOMAIN Zone
      BY QueryConstants
    <3> QED
      BY <3>1
  <2>4. Zone[s.at] \in Int /\ DayLength \in Nat \ {0}
    BY <2>3, ZoneConstants, ReadConstants
  <2>5. (e.at + Zone[e.at]) \div DayLength \in Int
    BY <2>2, <2>3, <2>4
  <2>6. /\ Pg!SummaryDimensions(q, e).day \in {(e.at + Zone[e.at]) \div DayLength, Pg!None}
        /\ Pg!SummaryDimensions(q, e).agent \in {e.agent, Unknown}
    BY DEF Pg!SummaryDimensions
  <2>7. Pg!None \in Int
    BY DEF Pg!None
  <2> QED
    BY <2>1, <2>5, <2>6, <2>7, Zenon
<1>4. \A e \in selected : Binary[e.agent] \in Int /\ Collation[e.agent] \in Int
  BY <1>1, QueryConstants DEF Backed, AgentsAreKeyed
<1> HIDE DEF selected
<1>5. ASSUME NEW g \in groups
      PROVE  /\ g.tokens \in Int /\ g.group.day \in Int
             /\ g.group.agent # Unknown => Binary[g.group.agent] \in Int /\ Collation[g.group.agent] \in Int
  <2>1. g.tokens \in Nat
    BY <1>1, <1>2, RowHasTokens
  <2>2. PICK e \in selected : Sq!GroupOf(d, q, offsets, e) = g.group
    BY <1>2 DEF RowIsTrue, GroupEvents
  <2> QED
    BY <1>3, <1>4, <2>1, <2>2
<1> QED
  BY <1>2, <1>5 DEF AreRanked

\* Of nothing the one answer is no row.
LEMMA NothingIsAnswered ==
  ASSUME NEW q, q.limit \in Int, NEW structures
  PROVE  /\ {Pg!SummaryTurns(kept, structures) : kept \in Pg!FirstRows({}, q)} = {<<<<>>>>}
         /\ SameSummary(<<<<>>>>, <<<<>>>>, q)
<1>1. PICK rows : rows = {}
  OBVIOUS
<1>2. IsFiniteSet(rows) /\ Cardinality(rows) = 0 /\ AreRanked(rows)
  BY <1>1, FS_EmptySet DEF AreRanked
<1>3. ShownOf(q, rows) = 0
  BY <1>2, LimitIsNatural DEF ShownOf
<1>4. /\ Pg!FirstRows(rows, q) # {}
      /\ \A kept \in Pg!FirstRows(rows, q) : kept \in [1..0 -> rows]
  BY <1>2, <1>3, BothShowTop
<1>5. \A kept \in Pg!FirstRows(rows, q) : kept = <<>>
  <2>1. \A kept \in [1..0 -> rows] : kept = <<>>
    OBVIOUS
  <2> QED
    BY <1>4, <2>1
<1>6. Pg!SummaryTurns(<<>>, structures) = <<<<>>>>
  <2> DEFINE missing == \E g \in Pg!Range(<<>>) : \E part \in g.sessions : structures[part.session] = Pg!NotFound
             turns(parts) == Pg!FoldSet(LAMBDA part, n : n +
               Pg!Cardinality(Pg!DistinctTurns(Head(structures[part.session]), part.pks)), 0, parts)
             empty == <<>>
             all == [i \in DOMAIN empty |-> [group |-> empty[i], turns |-> turns(empty[i].sessions)]]
  <2>1. Pg!SummaryTurns(<<>>, structures) = IF missing THEN Pg!NotFound ELSE <<all>>
    BY Zenon DEF Pg!SummaryTurns
  <2>2. ~missing
    BY DEF Pg!Range
  <2> HIDE DEF turns, missing
  <2>3. all = <<>>
    OBVIOUS
  <2> HIDE DEF all
  <2> QED
    BY <2>1, <2>2, <2>3
<1>7. SameSummary(<<<<>>>>, <<<<>>>>, q)
  <2>1. PICK limit : limit = NormalizeLimit(q.limit, ScanLimit, 100000)
    OBVIOUS
  <2>2. Range(<<>>) = {} /\ Head(<<<<>>>>) = <<>> /\ <<<<>>>> # NotFound /\ <<<<>>>> # Invalid
    BY DEF Range, NotFound, Invalid
  <2> QED
    BY <2>1, <2>2, SMT DEF SameSummary
<1> QED
  BY <1>1, <1>4, <1>5, <1>6, <1>7

\* A summary shows as many rows, and the same but where its limit cuts between alike ones.
LEMMA SummariesAgree ==
  ASSUME NEW d, Sound(d), Backed(d), NEW u, NEW q \in SummaryQueries, Comparable(u, q)
  PROVE  /\ Sq!UsageSummary(d, u, q) # {} /\ Pg!UsageSummary(d, u, q) # {}
         /\ \A a \in Sq!UsageSummary(d, u, q), b \in Pg!UsageSummary(d, u, q) : SameSummary(a, b, q)
<1> DEFINE offsets == IF "day" \in q.by THEN Sq!DayOffsets(d, u, q) ELSE <<>>
           sqWrong == \E kind \in Sq!ExactValuesFilter({q.kind}) : ~Sq!ValidKind(kind)
           pgWrong == q.kind # Unknown /\ ~Pg!ValidKind(q.kind)
           pgRows  == {e \in Pg!Selected(d, u, q) : u \in q.users}
<1>1. PICK rows : rows = Selected(d, u, q) /\ rows = Sq!Selected(d, u, q) /\ rows = Pg!Selected(d, u, q)
  BY SameSelection
<1>2. sqWrong <=> pgWrong
  <2>1. q.kind # "blank"
    BY DEF Comparable
  <2>2. Sq!ValidKind(q.kind) <=> Pg!ValidKind(q.kind)
    BY DEF Sq!ValidKind, Pg!ValidKind
  <2> QED
    BY <2>1, <2>2 DEF Sq!ExactValuesFilter
<1>3. q.limit \in Int
  BY QueryConstants
<1> DEFINE sqAnswers == {Sq!SummaryTurns(kept, Sq!StructuresOf(d, u, {e.session : e \in rows}))
                           : kept \in Sq!FirstRows(Sq!SummaryRows(d, q, offsets, rows), q)}
           pgAnswers == {Pg!SummaryTurns(kept, Pg!StructuresOf(d, u, {e.session : e \in pgRows}))
                           : kept \in Pg!FirstRows(Pg!SummaryRows(q, pgRows), q)}
<1>4. Sq!UsageSummary(d, u, q) =
        IF u \notin q.users THEN {<<<<>>>>} ELSE IF sqWrong THEN {Sq!Invalid} ELSE sqAnswers
  BY <1>1, Zenon DEF Sq!UsageSummary
<1>5. Pg!UsageSummary(d, u, q) = IF pgWrong THEN {Pg!Invalid} ELSE pgAnswers
  BY Zenon DEF Pg!UsageSummary
<1>6. CASE u \notin q.users
  <2>1. pgRows = {}
    BY <1>6
  <2>2. ~sqWrong
    BY <1>6 DEF Comparable, ExactValuesFilter, ValidKind, Sq!ExactValuesFilter, Sq!ValidKind
  <2> HIDE DEF pgRows, pgWrong, sqWrong
  <2>3. Pg!SummaryRows(q, pgRows) = {}
    BY <2>1 DEF Pg!SummaryRows
  <2>4. pgAnswers = {<<<<>>>>} /\ SameSummary(<<<<>>>>, <<<<>>>>, q)
    BY <1>3, <2>3, NothingIsAnswered, Zenon
  <2> HIDE DEF pgAnswers, sqAnswers
  <2> QED
    BY <1>2, <1>4, <1>5, <1>6, <2>2, <2>4
<1>7. CASE u \in q.users
  <2>1. pgRows = rows
    BY <1>1, <1>7
  <2> HIDE DEF pgRows, pgWrong, sqWrong
  <2>2. IsFiniteSet(rows) /\ \A e \in rows : e.tokens \in Nat
    BY <1>1, SelectedIsSound
  <2> DEFINE group == [e \in rows |-> Pg!SummaryDimensions(q, e)]
  <2>3. Pg!SummaryRows(q, rows) = GroupRows(rows, group)
    <3>1. \A e \in rows : group[e] = Pg!SummaryDimensions(q, e)
      OBVIOUS
    <3> HIDE DEF group
    <3> QED
      BY <3>1, PostgresSummaryIsGrouped
  <2>4. "day" \in q.by => offsets = Sq!DayOffsets(d, u, q)
    OBVIOUS
  <2>5. Sq!SummaryRows(d, q, offsets, rows) = GroupRows(rows, group)
    <3>1. \A e \in rows : group[e] = Pg!SummaryDimensions(q, e)
      OBVIOUS
    <3> HIDE DEF group, offsets
    <3>2. ASSUME NEW e \in rows PROVE group[e] = Sq!GroupOf(d, q, offsets, e)
      <4>1. e \in Selected(d, u, q)
        BY <1>1
      <4>2. Sq!GroupOf(d, q, offsets, e) = Pg!SummaryDimensions(q, e)
        BY <2>4, <4>1, GroupsAgree DEF Backed
      <4> QED
        BY <3>1, <4>2
    <3> QED
      BY <2>2, <3>2, SqliteSummaryIsGrouped
  <2> HIDE DEF group, offsets
  <2>6. PICK groups : groups = Sq!SummaryRows(d, q, offsets, rows) /\ groups = Pg!SummaryRows(q, rows)
    BY <2>3, <2>5
  <2>7. IsFiniteSet(groups) /\ AreRanked(groups)
    BY <1>1, <2>4, <2>6, RowsAreRanked
  <2>8. PICK structures : /\ structures = Sq!StructuresOf(d, u, {e.session : e \in rows})
                          /\ structures = Pg!StructuresOf(d, u, {e.session : e \in rows})
    BY SameStructures
  <2>9. AreStructured(d, Selected(d, u, q), structures)
    BY <1>1, <2>8, StructuresAreRead
  <2>10. \A kept \in Sq!FirstRows(groups, q) \cup Pg!FirstRows(groups, q) :
           /\ Sq!SummaryTurns(kept, structures) = <<AnsweredRows(kept, structures)>>
           /\ Pg!SummaryTurns(kept, structures) = <<AnsweredRows(kept, structures)>>
    <3> SUFFICES ASSUME NEW kept \in Sq!FirstRows(groups, q) \cup Pg!FirstRows(groups, q)
                 PROVE  /\ Sq!SummaryTurns(kept, structures) = <<AnsweredRows(kept, structures)>>
                        /\ Pg!SummaryTurns(kept, structures) = <<AnsweredRows(kept, structures)>>
      OBVIOUS
    <3>1. PICK n \in Nat : n = ShownOf(q, groups)
      BY <1>3, <2>7, BothShowFirst
    <3>2. Range(kept) \subseteq groups
      <4>1. kept \in [1..n -> groups]
        BY <1>3, <2>7, <3>1, BothShowTop
      <4> QED
        BY <4>1 DEF Range
    <3>3. groups = Sq!SummaryRows(d, q, offsets, Selected(d, u, q))
      BY <1>1, <2>6, Zenon
    <3>4. Sq!SummaryTurns(kept, structures) = <<AnsweredRows(kept, structures)>>
      BY <2>9, <3>2, <3>3, TurnsAreFound
    <3> QED
      BY <3>4, SameTurns, Zenon
  <2>11. Sq!FirstRows(groups, q) # {} /\ Pg!FirstRows(groups, q) # {}
    BY <1>3, <2>7, BothShowTop
  <2>12. sqAnswers = {<<AnsweredRows(kept, structures)>> : kept \in Sq!FirstRows(groups, q)}
    BY <2>6, <2>8, <2>10
  <2>13. pgAnswers = {<<AnsweredRows(kept, structures)>> : kept \in Pg!FirstRows(groups, q)}
    BY <2>1, <2>6, <2>8, <2>10
  <2> HIDE DEF sqAnswers, pgAnswers
  <2>14. sqAnswers # {} /\ pgAnswers # {} /\ \A a \in sqAnswers, b \in pgAnswers : SameSummary(a, b, q)
    <3>1. \A x \in Sq!FirstRows(groups, q), y \in Pg!FirstRows(groups, q) :
            SameSummary(<<AnsweredRows(x, structures)>>, <<AnsweredRows(y, structures)>>, q)
      BY <1>3, <2>7, AnswersOfRows
    <3> QED
      BY <2>11, <2>12, <2>13, <3>1
  <2>15. SameSummary(Sq!Invalid, Pg!Invalid, q)
    BY DEF SameSummary, Sq!Invalid, Pg!Invalid, Invalid
  <2> QED
    BY <1>2, <1>4, <1>5, <1>7, <2>14, <2>15
<1> QED
  BY <1>6, <1>7

-----------------------------------------------------------------------------
(* The two profiles. *)

\* What is stored suffices for the profiles to agree.
LEMMA AnswersAgree == AnswersInv => ProfilesAgree
<1> SUFFICES ASSUME AnswersInv, NEW u \in Users
             PROVE  /\ \A q \in RawQueries, content \in BOOLEAN :
                         Sq!RawEvents(db, u, q, content) = Pg!RawEvents(db, u, q, content)
                    /\ \A q \in ListQueries : Sq!ListSessions(db, u, q) = Pg!ListSessions(db, u, q)
                    /\ \A q \in SummaryQueries : Comparable(u, q) => SummariesAlike(u, q)
                    /\ \A q \in RawQueries : Sq!LocatedEvents(db, u, q) = Pg!LocatedEvents(db, u, q)
                    /\ \A q \in ComparisonQueries :
                         /\ Sq!ComparisonRows(db, u, q) = Pg!Compare(db, u, q)
                         /\ Sq!ComparisonOptions(db, u, q) = Pg!ComparisonOptions(db, u, q)
                    /\ \A s \in SessionRows(db) :
                         Sq!SessionHeader(db, u, s.pk) = Pg!SessionHeader(db, u, s.pk)
                    /\ \A e \in RowsOf(db) :
                         /\ Sq!UsageEvent(db, u, e.pk) = Pg!UsageEvent(db, u, e.pk)
                         /\ Sq!EventLocation(db, u, e.pk) = Pg!EventLocation(db, u, e.pk)
                         /\ \A window \in Windows, n \in {db.sessions[e.session].pk} :
                              /\ Sq!EventConversation(db, u, e.pk, window)
                                   = Pg!EventConversation(db, u, e.pk, window)
                              /\ Sq!SessionSegment(db, u, n, e.pk, window)
                                   = Pg!SessionSegment(db, u, n, e.pk, window)
                         /\ \A position \in 0..MaxImages :
                              Sq!ImageAttachment(db, u, e.pk, position)
                                = Pg!ImageAttachment(db, u, e.pk, position)
  BY DEF ProfilesAgree
<1>1. Sound(db) /\ Backed(db)
  BY DEF AnswersInv, QueriesInv
<1>2. \A q \in RawQueries, content \in BOOLEAN :
        Sq!RawEvents(db, u, q, content) = Pg!RawEvents(db, u, q, content)
  BY PagesAgree
<1>3. \A q \in ListQueries : Sq!ListSessions(db, u, q) = Pg!ListSessions(db, u, q)
  BY <1>1, ListsAgree
<1>4. \A q \in SummaryQueries : Comparable(u, q) => SummariesAlike(u, q)
  BY <1>1, SummariesAgree, Zenon DEF SummariesAlike
<1>5. \A q \in RawQueries : Sq!LocatedEvents(db, u, q) = Pg!LocatedEvents(db, u, q)
  BY LocatedAgree
<1>6. \A q \in ComparisonQueries :
        /\ Sq!ComparisonRows(db, u, q) = Pg!Compare(db, u, q)
        /\ Sq!ComparisonOptions(db, u, q) = Pg!ComparisonOptions(db, u, q)
  BY <1>1, ChartsAgree, OptionsAgree
<1>7. \A s \in SessionRows(db) : Sq!SessionHeader(db, u, s.pk) = Pg!SessionHeader(db, u, s.pk)
  BY <1>1, HeadersAgree
<1>8. ASSUME NEW e \in RowsOf(db)
      PROVE  /\ Sq!UsageEvent(db, u, e.pk) = Pg!UsageEvent(db, u, e.pk)
             /\ Sq!EventLocation(db, u, e.pk) = Pg!EventLocation(db, u, e.pk)
             /\ \A window \in Windows, n \in {db.sessions[e.session].pk} :
                  /\ Sq!EventConversation(db, u, e.pk, window) = Pg!EventConversation(db, u, e.pk, window)
                  /\ Sq!SessionSegment(db, u, n, e.pk, window) = Pg!SessionSegment(db, u, n, e.pk, window)
             /\ \A position \in 0..MaxImages :
                  Sq!ImageAttachment(db, u, e.pk, position) = Pg!ImageAttachment(db, u, e.pk, position)
  <2>1. /\ Sq!UsageEvent(db, u, e.pk) = Pg!UsageEvent(db, u, e.pk)
        /\ Sq!EventLocation(db, u, e.pk) = Pg!EventLocation(db, u, e.pk)
    BY <1>1, EventsAgree, LocationsAgree
  <2>2. \A window \in Windows, n \in {db.sessions[e.session].pk} :
          /\ Sq!EventConversation(db, u, e.pk, window) = Pg!EventConversation(db, u, e.pk, window)
          /\ Sq!SessionSegment(db, u, n, e.pk, window) = Pg!SessionSegment(db, u, n, e.pk, window)
    BY <1>1, ConversationsAgree, SegmentsAgree
  <2>3. \A position \in 0..MaxImages :
          Sq!ImageAttachment(db, u, e.pk, position) = Pg!ImageAttachment(db, u, e.pk, position)
    BY SameImages
  <2> QED
    BY <2>1, <2>2, <2>3
<1> QED
  BY <1>2, <1>3, <1>4, <1>5, <1>6, <1>7, <1>8

\* Every read both profiles have answers the same, of any stored events; of a summary the
\* same rows, where its limit cuts between rows with as many tokens up to their choice.
THEOREM ProfilesAgreeHolds == Spec => []ProfilesAgree
BY AnswersInvariance, AnswersAgree, PTL
=============================================================================
