---------------------------- MODULE StreamProofs ----------------------------
(***************************************************************************)
(* Proofs about the structure of a session, for any clients and whatever     *)
(* part of their events is stored: what Segmentation::cut promises on any    *)
(* exchanges and any bases.                                                 *)
(***************************************************************************)
EXTENDS SessionStreams, DataProofs

-----------------------------------------------------------------------------
(* Sequences and least numbers. *)

\* A function whose domain is 1..n is the sequence that TLC evaluates.
LEMMA EvaluatedIsItself ==
  ASSUME NEW n \in Nat, NEW f, f = [i \in 1..n |-> f[i]]
  PROVE  Evaluated(f) = f
<1>1. f \in Seq({f[i] : i \in 1..n})
  BY SeqDef
<1> QED
  BY <1>1, ConcatEmptySeq DEF Evaluated

\* Min is the least of some natural numbers, however many.
LEMMA MinOfNumbers ==
  ASSUME NEW T \in SUBSET Nat, T # {}
  PROVE  Min(T) \in T /\ \A t \in T : Min(T) <= t
<1>1. PICK x \in T : \A y \in T : x <= y
  BY LeastNumber
<1> QED
  BY <1>1 DEF Min

-----------------------------------------------------------------------------
(* Bases. *)

\* What is needed of bases: each is an exchange, or none.
AreBases(bases, n) ==
  /\ bases = [i \in 1..n |-> bases[i]]
  /\ \A i \in 1..n : bases[i].base \in 0..n

\* The one exchange that said an identity is an exchange.
LEMMA OnlyEmitterIsExchange ==
  ASSUME NEW n \in Nat, NEW xs, DOMAIN xs = 1..n, NEW ids, NEW own, NEW rule
  PROVE  OnlyEmitter(xs, ids, own, rule).base \in 0..n
<1>1. OthersThatEmitted(xs, ids, own) \subseteq 1..n
  BY DEF OthersThatEmitted, Emitters
<1>2. ASSUME OthersThatEmitted(xs, ids, own) # {}
      PROVE  (CHOOSE i \in OthersThatEmitted(xs, ids, own) : TRUE) \in 1..n
  BY <1>1, <1>2
<1> QED
  BY <1>2 DEF OnlyEmitter, NoBase, Found

\* An exchange that is continued, or none.
LEMMA ContinuedIsExchange ==
  ASSUME NEW n \in Nat, NEW xs, NEW emitter \in 1..n, NEW last, NEW trailing
  PROVE  Continued(xs, emitter, last, trailing).base \in 0..n
BY DEF Continued, Found, NoBase

\* Both passes find exchanges.
LEMMA FoundIsExchange ==
  ASSUME NEW n \in Nat, NEW xs, DOMAIN xs = 1..n, NEW i \in 1..n
  PROVE  FindBase(xs, i).base \in 0..n
<1>1. Pointed(xs, i) \subseteq 1..n
  BY DEF Pointed
<1>2. ASSUME Pointed(xs, i) # {}
      PROVE  Found(CHOOSE j \in Pointed(xs, i) : TRUE, "pointer").base \in 0..n
  BY <1>1, <1>2 DEF Found
<1>3. ByLastIdentity(xs, i).base \in 0..n
  <2> DEFINE facts == xs[i].request
             only  == OnlyEmitter(xs, {facts.last_identity}, i, "last_output")
  <2>1. only.base \in 0..n
    BY OnlyEmitterIsExchange
  <2>2. ASSUME only.base # 0
        PROVE  Continued(xs, only.base, facts.last_identity, facts.trailing).base \in 0..n
    <3>1. only.base \in 1..n
      BY <2>1, <2>2
    <3> HIDE DEF only
    <3> QED
      BY <3>1, ContinuedIsExchange
  <2> QED
    BY <2>1, <2>2 DEF ByLastIdentity
<1>4. \A reason : NoBase(reason).base \in 0..n
  BY DEF NoBase
<1> QED
  BY <1>2, <1>3, <1>4, OnlyEmitterIsExchange DEF FindBase

\* Of the exchanges that said the same, the one that is chosen is an exchange, or none is.
LEMMA ToldApartIsExchange ==
  ASSUME NEW n \in Nat, NEW xs, DOMAIN xs = 1..n, NEW i \in 1..n,
         NEW first, first[i].base \in 0..n
  PROVE  TellApart(xs, i, first).base \in 0..n
<1> DEFINE facts  == xs[i].request
           last   == facts.last_identity
           before == IF facts.previous_identity = None THEN Found(0, "none")
                     ELSE OnlyEmitter(xs, {facts.previous_identity}, i, "before")
           kept   == {e \in Emitters(xs, last) \ {i} : Saw(xs, first, e, last, before.base)}
<1>1. kept \subseteq 1..n
  BY DEF Emitters
<1>2. ASSUME kept # {}
      PROVE  Continued(xs, CHOOSE e \in kept : TRUE, last, facts.trailing).base \in 0..n
  <2>1. (CHOOSE e \in kept : TRUE) \in 1..n
    BY <1>1, <1>2
  <2> HIDE DEF kept
  <2> QED
    BY <2>1, ContinuedIsExchange
<1>3. \A reason : NoBase(reason).base \in 0..n
  BY DEF NoBase
<1>4. TellApart(xs, i, first)
        = IF last = None \/ before.why \in {"unknown_ids", "multiple_responses"}
          THEN first[i]
          ELSE IF kept = {} THEN NoBase("unknown_ids")
          ELSE IF Cardinality(kept) > 1 THEN NoBase("multiple_responses")
          ELSE Continued(xs, CHOOSE e \in kept : TRUE, last, facts.trailing)
  BY Zenon DEF TellApart
<1> HIDE DEF kept, before, last, facts
<1> QED
  BY <1>2, <1>3, <1>4

\* FindBases finds bases.
LEMMA FindBasesAreBases ==
  ASSUME NEW n \in Nat, NEW xs, DOMAIN xs = 1..n
  PROVE  AreBases(FindBases(xs), n)
<1> DEFINE first == [i \in 1..n |-> FindBase(xs, i)]
           told  == [i \in 1..n |->
                       IF first[i].why = "multiple_responses" THEN TellApart(xs, i, first)
                       ELSE first[i]]
<1>1. Evaluated(first) = first
  BY EvaluatedIsItself, Zenon
<1>2. Evaluated(told) = told
  BY EvaluatedIsItself, Zenon
<1>3. FindBases(xs) = told
  <2>1. FindBases(xs)
          = LET f == Evaluated([i \in 1..n |-> FindBase(xs, i)])
            IN  Evaluated([i \in 1..n |->
                  IF f[i].why = "multiple_responses" THEN TellApart(xs, i, f) ELSE f[i]])
    BY Zenon DEF FindBases
  <2> QED
    BY <1>1, <1>2, <2>1, Zenon
<1>4. \A i \in 1..n : first[i].base \in 0..n
  BY FoundIsExchange
<1> HIDE DEF first
<1>5. \A i \in 1..n : told[i].base \in 0..n
  <2>1. ASSUME NEW i \in 1..n PROVE TellApart(xs, i, first).base \in 0..n
    BY <1>4, ToldApartIsExchange
  <2> QED
    BY <1>4, <2>1
<1> QED
  BY <1>3, <1>5, Zenon DEF AreBases
-----------------------------------------------------------------------------
(* Segments. *)

\* An exchange is in its own segment, which has a first one.
LEMMA HeadIsFirst ==
  ASSUME NEW n \in Nat, NEW key, DOMAIN key = 1..n, NEW sides, NEW i \in 1..n
  PROVE  HeadOf(key, sides, i) \in 1..i
<1>1. Segment(key, sides, i) \in SUBSET Nat /\ i \in Segment(key, sides, i)
  BY DEF Segment
<1>2. Segment(key, sides, i) \subseteq 1..n
  BY DEF Segment
<1>3. /\ HeadOf(key, sides, i) \in Segment(key, sides, i)
      /\ HeadOf(key, sides, i) <= i
  BY <1>1, MinOfNumbers DEF HeadOf
<1> QED
  BY <1>2, <1>3

\* What a derived structure is made of.
IsCut(d, n) ==
  /\ AreBases(d.bases, n)
  /\ DOMAIN d.key = 1..n
  /\ d.sides = Sides(d.bases, d.key)
  /\ d.head = [i \in 1..n |-> HeadOf(d.key, d.sides, i)]
  /\ d.parent = [i \in 1..n |-> ParentOf(d.bases, d.head, d.head[i])]

\* The passes of the derivation, put together.
LEMMA CutIsCut ==
  ASSUME NEW n \in Nat, NEW xs, DOMAIN xs = 1..n
  PROVE  IsCut(WithExchanges(xs), n)
<1> DEFINE bases  == FindBases(xs)
           turns  == Turns(xs, bases)
           group  == Groups(xs, bases)
           key    == [i \in 1..n |-> <<turns.of[i], group[i]>>]
           sides  == Sides(bases, key)
           head   == [i \in 1..n |-> HeadOf(key, sides, i)]
           parent == [i \in 1..n |-> ParentOf(bases, head, head[i])]
<1>1. AreBases(bases, n)
  BY FindBasesAreBases
<1>2. Evaluated(key) = key
  BY EvaluatedIsItself, Zenon
<1>3. Evaluated(head) = head
  BY EvaluatedIsItself, Zenon
<1>4. Evaluated(parent) = parent
  BY EvaluatedIsItself, Zenon
<1>5. WithExchanges(xs) = WithKey(xs, bases, turns, key)
  BY <1>2, Zenon DEF WithExchanges, WithBases, WithTurns
<1> HIDE DEF bases, turns, group, key
<1>6. WithKey(xs, bases, turns, key) = Segmented(xs, bases, turns, key, sides, head)
  BY <1>3, Zenon DEF WithKey, WithSides
<1>7. DOMAIN key = 1..n
  BY DEF key
<1> HIDE DEF sides, head
<1>8. /\ WithExchanges(xs).bases = bases /\ WithExchanges(xs).key = key
      /\ WithExchanges(xs).sides = sides /\ WithExchanges(xs).head = head
      /\ WithExchanges(xs).parent = Evaluated(parent)
  <2>1. WithExchanges(xs) = Segmented(xs, bases, turns, key, sides, head)
    BY <1>5, <1>6
  <2>2. parent = [i \in DOMAIN xs |-> ParentOf(bases, head, head[i])]
    BY Zenon
  <2> HIDE DEF parent
  <2> QED
    BY <2>1, <2>2 DEF Segmented
<1> QED
  BY <1>1, <1>4, <1>7, <1>8, Zenon DEF IsCut, sides, head

\* The parent of a segment begins before it, whatever the bases are.
LEMMA ParentsComeBefore ==
  ASSUME NEW n \in Nat, NEW d, IsCut(d, n), NEW i \in DOMAIN d.head
  PROVE  d.parent[i] < d.head[i]
<1> DEFINE h == d.head[i]
           e == Earlier(d.bases, h)
<1>1. i \in 1..n /\ \A j \in 1..n : d.head[j] \in 1..j
  BY HeadIsFirst DEF IsCut
<1>2. h \in 1..n
  BY <1>1
<1>3. d.parent[i] = ParentOf(d.bases, d.head, h)
  BY <1>1 DEF IsCut
<1>4. e \in 0..n /\ (e = 0 \/ e < h)
  <2>1. Base(d.bases, h) \in 0..n
    BY <1>2 DEF IsCut, AreBases, Base
  <2> QED
    BY <1>2, <2>1 DEF Earlier
<1> HIDE DEF h, e
<1>5. CASE e = 0
  BY <1>2, <1>3, <1>5 DEF ParentOf, e, h
<1>6. CASE e # 0
  <2>1. e \in 1..n /\ d.head[e] \in 1..e
    BY <1>1, <1>4, <1>6
  <2>2. d.parent[i] = d.head[e]
    BY <1>3, <1>6 DEF ParentOf, e
  <2>3. d.parent[i] < h
    BY <1>2, <1>4, <1>6, <2>1, <2>2
  <2> QED
    BY <2>3 DEF h
<1> QED
  BY <1>5, <1>6

\* A group that looks beside itself everywhere is its own main line.
LEMMA GroupsHaveMainLines ==
  ASSUME NEW n \in Nat, NEW d, IsCut(d, n), NEW i \in DOMAIN d.key
  PROVE  \E j \in DOMAIN d.key \ d.sides : d.key[j] = d.key[i]
<1>1. d.sides = Sides(d.bases, d.key) /\ DOMAIN d.key = 1..n /\ DOMAIN d.bases = 1..n
  BY Zenon DEF IsCut, AreBases
<1> QED
  BY <1>1 DEF Sides

-----------------------------------------------------------------------------
(* Sets of numbers one by one. *)

\* The order of numbers.
Less(S) == {p \in S \X S : p[1] < p[2]}

\* Numbers are in order.
LEMMA LessIsOrder ==
  ASSUME NEW S, S \subseteq Int
  PROVE  IsOrder(Less(S), S)
BY DEF IsOrder, Less

\* Ascending enumerates finitely many numbers.
LEMMA AscendingPlaces ==
  ASSUME NEW S, S \subseteq Int, IsFiniteSet(S)
  PROVE  Cardinality(S) \in Nat /\ Enumerates(Ascending(S), S, Less(S))
<1>1. PICK n \in Nat : n = Cardinality(S)
  BY FS_CardinalityType
<1>2. PICK order : order = [m \in 1..n |->
                              CHOOSE s \in S : Cardinality({t \in S : t < s}) = m - 1]
  OBVIOUS
<1>3. Ascending(S) = Evaluated(order)
  BY <1>1, <1>2, Zenon DEF Ascending, Ordered
<1>4. order = [m \in 1..n |-> order[m]]
  BY <1>2
<1>5. \A s \in S : {t \in S : t < s} = {t \in S : <<t, s>> \in Less(S)}
  BY DEF Less
<1>6. \A s \in S : Cardinality({t \in S : t < s}) = Rank(Less(S), S, s)
  BY <1>5 DEF Rank
<1>7. ASSUME NEW m \in 1..n PROVE order[m] = CHOOSE s \in S : Rank(Less(S), S, s) = m - 1
  <2> DEFINE before(s) == Cardinality({t \in S : t < s})
  <2>1. order[m] = CHOOSE s \in S : before(s) = m - 1
    BY <1>2
  <2>2. \A s \in S : before(s) = Rank(Less(S), S, s)
    BY <1>6
  <2> HIDE DEF before
  <2> QED
    BY <2>1, <2>2
<1>8. Enumerates(order, S, Less(S))
  BY <1>1, <1>4, <1>7, LessIsOrder, OrderPlaces, Zenon
<1> QED
  BY <1>1, <1>3, <1>4, <1>8, EvaluatedIsItself, Zenon

\* A sequence of the members of S, each once.
Lists(s, S) ==
  /\ s \in Seq(S) /\ Len(s) = Cardinality(S) /\ Len(s) \in Nat
  /\ \A x \in S : \E m \in 1..Len(s) : s[m] = x
  /\ \A m \in 1..Len(s) : s[m] \in S
  /\ \A a, b \in 1..Len(s) : s[a] = s[b] => a = b

\* An enumeration is one.
LEMMA EnumerationLists ==
  ASSUME NEW S, NEW R, NEW s, Cardinality(S) \in Nat, Enumerates(s, S, R)
  PROVE  Lists(s, S)
<1>1. PICK n \in Nat : n = Cardinality(S)
  OBVIOUS
<1>2. /\ s \in [1..n -> S]
      /\ \A x \in S : \E m \in 1..n : s[m] = x
      /\ \A a, b \in 1..n : s[a] = s[b] => a = b
  BY <1>1 DEF Enumerates
<1>3. s \in Seq(S) /\ Len(s) = n
  BY <1>2
<1> QED
  BY <1>1, <1>2, <1>3 DEF Lists

\* Numbers one by one are a sequence of them, each once, that goes up.
LEMMA AscendingLists ==
  ASSUME NEW S, S \subseteq Int, IsFiniteSet(S), NEW s, s = Ascending(S)
  PROVE  Lists(s, S) /\ \A a, b \in 1..Len(s) : a < b => s[a] < s[b]
<1>1. PICK n \in Nat : n = Cardinality(S)
  BY FS_CardinalityType
<1>2. Enumerates(s, S, Less(S))
  BY AscendingPlaces, Zenon
<1>3. Cardinality(S) \in Nat
  BY <1>1
<1>4. Lists(s, S)
  BY <1>2, <1>3, EnumerationLists
<1>5. Len(s) = n /\ \A m \in 1..n : s[m] \in S
  BY <1>1, <1>4 DEF Lists
<1>6. \A a, b \in 1..n : a < b => <<s[a], s[b]>> \in Less(S)
  BY <1>1, <1>2 DEF Enumerates
<1>7. \A a, b \in 1..n : a < b => s[a] < s[b]
  BY <1>6 DEF Less
<1> QED
  BY <1>4, <1>5, <1>7

-----------------------------------------------------------------------------
(* Who started whom: q is the starter of each of n executors, or 0. *)

AreStarters(q, n) == n \in Nat /\ q \in [1..n -> 0..n] /\ \A i \in 1..n : q[i] # i

\* A set that has the starter of each of its members, if it has one.
UpClosed(q, C) == \A c \in C : q[c] \in C \cup {0}

\* The executors that i descends from.
Above(q, n, i) ==
  {a \in 1..n : \A C \in SUBSET (1..n) : UpClosed(q, C) /\ q[i] \in C \cup {0} => a \in C}

\* They are closed.
LEMMA AboveIsClosed ==
  ASSUME NEW q, NEW n, AreStarters(q, n), NEW i \in 1..n
  PROVE  UpClosed(q, Above(q, n, i))
<1>1. ASSUME NEW c \in Above(q, n, i), q[c] # 0
      PROVE  q[c] \in Above(q, n, i)
  <2>1. c \in 1..n /\ q[c] \in 1..n
    BY <1>1 DEF Above, AreStarters
  <2>2. ASSUME NEW C \in SUBSET (1..n), UpClosed(q, C), q[i] \in C \cup {0}
        PROVE  q[c] \in C
    <3>1. c \in C
      BY <1>1, <2>2 DEF Above
    <3> QED
      BY <1>1, <2>2, <3>1 DEF UpClosed
  <2> QED
    BY <2>1, <2>2 DEF Above
<1> QED
  BY <1>1 DEF UpClosed

\* An executor descends from its starter and from those that descends from.
LEMMA AboveSteps ==
  ASSUME NEW q, NEW n, AreStarters(q, n), NEW i \in 1..n, q[i] # 0
  PROVE  Above(q, n, i) = {q[i]} \cup Above(q, n, q[i])
<1>1. q[i] \in 1..n
  BY DEF AreStarters
<1>2. q[i] \in Above(q, n, i)
  BY <1>1 DEF Above
<1>3. Above(q, n, q[i]) \subseteq Above(q, n, i)
  <2>1. ASSUME NEW a \in Above(q, n, q[i]), NEW C \in SUBSET (1..n),
               UpClosed(q, C), q[i] \in C \cup {0}
        PROVE  a \in C
    <3>1. q[i] \in C
      BY <2>1
    <3>2. q[q[i]] \in C \cup {0}
      BY <2>1, <3>1 DEF UpClosed
    <3> QED
      BY <2>1, <3>2 DEF Above
  <2> QED
    BY <2>1 DEF Above
<1>4. Above(q, n, i) \subseteq {q[i]} \cup Above(q, n, q[i])
  <2> DEFINE C == {q[i]} \cup Above(q, n, q[i])
  <2>1. C \in SUBSET (1..n)
    BY <1>1 DEF Above
  <2>2. UpClosed(q, C)
    <3>1. UpClosed(q, Above(q, n, q[i]))
      BY <1>1, AboveIsClosed
    <3>2. q[q[i]] \in Above(q, n, q[i]) \cup {0}
      <4>1. q[q[i]] \in 0..n
        BY <1>1 DEF AreStarters
      <4> QED
        BY <4>1 DEF Above
    <3> QED
      BY <3>1, <3>2 DEF UpClosed
  <2>3. q[i] \in C \cup {0}
    OBVIOUS
  <2> HIDE DEF C
  <2>4. Above(q, n, i) \subseteq C
    BY <2>1, <2>2, <2>3 DEF Above
  <2> QED
    BY <2>4 DEF C
<1> QED
  BY <1>2, <1>3, <1>4

\* Nobody is above an executor without a starter.
LEMMA NobodyAbove ==
  ASSUME NEW q, NEW n, NEW i \in 1..n, q[i] = 0
  PROVE  Above(q, n, i) = {}
<1>1. ASSUME NEW a \in Above(q, n, i) PROVE FALSE
  <2>1. {} \in SUBSET (1..n) /\ UpClosed(q, {}) /\ q[i] \in {} \cup {0}
    BY DEF UpClosed
  <2>2. a \in {}
    BY <2>1 DEF Above
  <2> QED
    BY <2>2
<1> QED
  BY <1>1

\* Whoever is above one who is above i is above i.
LEMMA AboveIsTransitive ==
  ASSUME NEW q, NEW n, AreStarters(q, n), NEW i \in 1..n, NEW a \in Above(q, n, i)
  PROVE  a \in 1..n /\ Above(q, n, a) \subseteq Above(q, n, i)
<1>1. a \in 1..n
  BY DEF Above
<1>2. ASSUME NEW b \in Above(q, n, a) PROVE b \in Above(q, n, i)
  <2>1. UpClosed(q, Above(q, n, i)) /\ Above(q, n, i) \in SUBSET (1..n)
    BY AboveIsClosed DEF Above
  <2>2. q[a] \in Above(q, n, i) \cup {0}
    BY <2>1 DEF UpClosed
  <2> QED
    BY <1>2, <2>1, <2>2 DEF Above
<1> QED
  BY <1>1, <1>2

\* On a circle everyone is above everyone.
LEMMA CirclesClose ==
  ASSUME NEW q, NEW n, AreStarters(q, n), NEW i \in 1..n, i \in Above(q, n, i)
  PROVE  \A j \in Above(q, n, i) : i \in Above(q, n, j)
<1> DEFINE C == {j \in Above(q, n, i) : i \in Above(q, n, j)}
<1>1. q[i] # 0
  BY NobodyAbove
<1>2. q[i] \in 1..n /\ q[i] # i
  BY <1>1 DEF AreStarters
<1>3. Above(q, n, i) = {q[i]} \cup Above(q, n, q[i])
  BY <1>1, AboveSteps
<1>4. q[i] \in C
  BY <1>2, <1>3
<1>5. ASSUME NEW c \in C, q[c] # 0 PROVE q[c] \in C
  <2>1. c \in 1..n /\ q[c] \in 1..n
    BY <1>5 DEF Above, AreStarters
  <2>2. Above(q, n, c) = {q[c]} \cup Above(q, n, q[c])
    BY <1>5, <2>1, AboveSteps
  <2>3. q[c] \in Above(q, n, i)
    <3>1. UpClosed(q, Above(q, n, i))
      BY AboveIsClosed
    <3> QED
      BY <1>5, <3>1 DEF UpClosed
  <2>4. i \in Above(q, n, q[c])
    BY <2>2
  <2> QED
    BY <2>3, <2>4
<1>6. UpClosed(q, C) /\ C \in SUBSET (1..n)
  BY <1>5 DEF UpClosed, Above
<1> HIDE DEF C
<1>7. Above(q, n, i) \subseteq C
  BY <1>4, <1>6 DEF Above
<1> QED
  BY <1>7 DEF C

\* Where everyone above i has a starter there is a circle.
LEMMA CircleExists ==
  ASSUME NEW q, NEW n, AreStarters(q, n), NEW i \in 1..n, q[i] # 0,
         \A j \in Above(q, n, i) : q[j] # 0
  PROVE  \E j \in Above(q, n, i) : j \in Above(q, n, j)
<1> DEFINE Size(j) == Cardinality(Above(q, n, j))
           F == {Size(j) : j \in Above(q, n, i)}
<1>1. \A j : IsFiniteSet(Above(q, n, j)) /\ Size(j) \in Nat
  <2>1. IsFiniteSet(1..n)
    BY FS_Interval DEF AreStarters
  <2>2. \A j : Above(q, n, j) \in SUBSET (1..n)
    BY DEF Above
  <2> QED
    BY <2>1, <2>2, FS_Subset, FS_CardinalityType
<1>2. q[i] \in Above(q, n, i)
  BY AboveSteps
<1>3. PICK j \in Above(q, n, i) : \A k \in Above(q, n, i) : Size(j) <= Size(k)
  <2>1. F \in SUBSET Nat /\ F # {}
    BY <1>1, <1>2
  <2> HIDE DEF Size
  <2>2. PICK x \in F : \A y \in F : x <= y
    <3> HIDE DEF F
    <3> QED
      BY <2>1, LeastNumber
  <2> QED
    BY <2>2
<1>4. j \in 1..n /\ Above(q, n, j) \subseteq Above(q, n, i) /\ q[j] # 0
  BY AboveIsTransitive
<1>5. q[j] \in 1..n /\ Above(q, n, j) = {q[j]} \cup Above(q, n, q[j])
  <2>1. q[j] \in 1..n
    BY <1>4 DEF AreStarters
  <2>2. Above(q, n, j) = {q[j]} \cup Above(q, n, q[j])
    BY <1>4, AboveSteps
  <2> QED
    BY <2>1, <2>2
<1>6. Size(j) <= Size(q[j])
  BY <1>3, <1>4, <1>5
<1>7. Above(q, n, q[j]) = Above(q, n, j)
  <2>1. /\ Above(q, n, q[j]) \in SUBSET Above(q, n, j)
        /\ IsFiniteSet(Above(q, n, j)) /\ IsFiniteSet(Above(q, n, q[j]))
    BY <1>1, <1>5
  <2>2. Size(q[j]) <= Size(j) /\ Size(j) \in Nat /\ Size(q[j]) \in Nat
    BY <1>1, <2>1, FS_Subset
  <2>3. Size(q[j]) = Size(j)
    <3> HIDE DEF Size
    <3> QED
      BY <1>6, <2>2
  <2> QED
    BY <2>1, <2>3, FS_Subset
<1> QED
  BY <1>4, <1>5, <1>7

-----------------------------------------------------------------------------
(* Depth first. *)

\* What a sequence holds.
LEMMA ToSetIs ==
  ASSUME NEW S, NEW s \in Seq(S), NEW n, n = Len(s)
  PROVE  /\ n \in Nat /\ IsFiniteSet(ToSet(s)) /\ ToSet(s) \subseteq S
         /\ \A i \in 1..n : s[i] \in ToSet(s)
         /\ \A x \in ToSet(s) : \E i \in 1..n : s[i] = x
<1>1. n \in Nat
  OBVIOUS
<1>2. s \in [1..n -> S] /\ DOMAIN s = 1..n
  OBVIOUS
<1>3. IsFiniteSet(1..n)
  BY <1>1, FS_Interval
<1>4. ToSet(s) = {s[i] : i \in 1..n}
  BY <1>2 DEF ToSet
<1>5. IsFiniteSet({s[i] : i \in 1..n})
  BY <1>3, ImageIsFinite
<1>6. ToSet(s) \subseteq S
  BY <1>2, <1>4
<1>7. \A i \in 1..n : s[i] \in ToSet(s)
  BY <1>4
<1>8. \A x \in ToSet(s) : \E i \in 1..n : s[i] = x
  BY <1>4
<1> QED
  BY <1>1, <1>4, <1>5, <1>6, <1>7, <1>8

\* What a longer sequence holds.
LEMMA AppendPlaces ==
  ASSUME NEW S, NEW s \in Seq(S), NEW x \in S, NEW t, t = Append(s, x),
         NEW m, m = Len(s)
  PROVE  /\ m \in Nat /\ t \in Seq(S) /\ Len(t) = m + 1 /\ t[m + 1] = x
         /\ \A i \in 1..m : i \in 1..(m + 1) /\ t[i] = s[i]
         /\ \A i \in 1..(m + 1) : i = m + 1 \/ i \in 1..m
<1>1. m \in Nat /\ t \in Seq(S) /\ Len(t) = m + 1
  BY AppendProperties
<1>2. t[m + 1] = x
  BY <1>1, AppendProperties
<1>3. ASSUME NEW i \in 1..m PROVE t[i] = s[i]
  BY <1>1, AppendProperties
<1> QED
  BY <1>1, <1>2, <1>3

\* What two sequences hold one after the other.
LEMMA ConcatPlaces ==
  ASSUME NEW S, NEW s \in Seq(S), NEW t \in Seq(S)
  PROVE  /\ Len(s) \in Nat /\ Len(t) \in Nat
         /\ s \o t \in Seq(S) /\ Len(s \o t) = Len(s) + Len(t)
         /\ \A i \in 1..Len(s) : i \in 1..Len(s \o t) /\ (s \o t)[i] = s[i]
         /\ \A i \in 1..Len(t) : Len(s) + i \in 1..Len(s \o t) /\ (s \o t)[Len(s) + i] = t[i]
         /\ \A i \in 1..Len(s \o t) : i \in 1..Len(s) \/ \E j \in 1..Len(t) : i = Len(s) + j
<1>1. Len(s) \in Nat /\ Len(t) \in Nat /\ s \o t \in Seq(S) /\ Len(s \o t) = Len(s) + Len(t)
  BY ConcatProperties
<1>2. \A i \in 1..(Len(s) + Len(t)) : (s \o t)[i] = IF i <= Len(s) THEN s[i] ELSE t[i - Len(s)]
  BY <1>1, ConcatProperties
<1>3. ASSUME NEW i \in 1..Len(s) PROVE i \in 1..Len(s \o t) /\ (s \o t)[i] = s[i]
  BY <1>1, <1>2
<1>4. ASSUME NEW i \in 1..Len(t)
      PROVE  Len(s) + i \in 1..Len(s \o t) /\ (s \o t)[Len(s) + i] = t[i]
  <2>1. Len(s) + i \in 1..(Len(s) + Len(t)) /\ ~(Len(s) + i <= Len(s)) /\ (Len(s) + i) - Len(s) = i
    BY <1>1
  <2> QED
    BY <1>1, <1>2, <2>1
<1>5. ASSUME NEW i \in 1..Len(s \o t), i \notin 1..Len(s) PROVE \E j \in 1..Len(t) : i = Len(s) + j
  <2>1. i - Len(s) \in 1..Len(t) /\ i = Len(s) + (i - Len(s))
    BY <1>1, <1>5
  <2> QED
    BY <2>1
<1> QED
  BY <1>1, <1>3, <1>4, <1>5

\* What is in the longer sequence.
LEMMA AppendHolds ==
  ASSUME NEW S, NEW s \in Seq(S), NEW x \in S
  PROVE  ToSet(Append(s, x)) = ToSet(s) \cup {x}
<1>a. PICK m \in Nat : m = Len(s)
  OBVIOUS
<1>b. PICK t : t = Append(s, x)
  OBVIOUS
<1>1. t = Append(s, x) /\ m = Len(s)
  BY <1>a, <1>b
<1>2. /\ t \in Seq(S) /\ Len(t) = m + 1 /\ t[m + 1] = x
      /\ \A i \in 1..m : i \in 1..(m + 1) /\ t[i] = s[i]
      /\ \A i \in 1..(m + 1) : i = m + 1 \/ i \in 1..m
  BY <1>1, AppendPlaces
<1>3. /\ \A i \in 1..(m + 1) : t[i] \in ToSet(t)
      /\ \A y \in ToSet(t) : \E i \in 1..(m + 1) : t[i] = y
      /\ \A i \in 1..m : s[i] \in ToSet(s)
      /\ \A y \in ToSet(s) : \E i \in 1..m : s[i] = y
  <2>1. m + 1 = Len(t) /\ t \in Seq(S)
    BY <1>2
  <2>2. /\ \A i \in 1..(m + 1) : t[i] \in ToSet(t)
        /\ \A y \in ToSet(t) : \E i \in 1..(m + 1) : t[i] = y
    BY <2>1, ToSetIs
  <2>3. /\ \A i \in 1..m : s[i] \in ToSet(s)
        /\ \A y \in ToSet(s) : \E i \in 1..m : s[i] = y
    BY <1>a, ToSetIs
  <2> QED
    BY <2>2, <2>3
<1>4. m + 1 \in 1..(m + 1)
  OBVIOUS
<1>5. ASSUME NEW y \in ToSet(t), y # x PROVE y \in ToSet(s)
  <2>1. PICK i \in 1..(m + 1) : t[i] = y
    BY <1>3, <1>5
  <2>2. i \in 1..m /\ s[i] = y
    BY <1>2, <1>5, <2>1, Zenon
  <2> QED
    BY <1>3, <2>2
<1>6. ASSUME NEW y \in ToSet(s) PROVE y \in ToSet(t)
  <2>1. PICK i \in 1..m : s[i] = y
    BY <1>3, <1>6
  <2>2. i \in 1..(m + 1) /\ t[i] = y
    BY <1>2, <2>1, Zenon
  <2> QED
    BY <1>3, <2>2
<1>7. x \in ToSet(t)
  BY <1>2, <1>3, <1>4, Zenon
<1>8. ToSet(t) = ToSet(s) \cup {x}
  BY <1>5, <1>6, <1>7
<1> QED
  BY <1>1, <1>8

\* What is in two sequences one after the other.
LEMMA ConcatHolds ==
  ASSUME NEW S, NEW s \in Seq(S), NEW t \in Seq(S)
  PROVE  ToSet(s \o t) = ToSet(s) \cup ToSet(t)
<1>1. s \o t \in Seq(S)
  BY ConcatProperties
<1>a. ASSUME NEW u \in Seq(S)
      PROVE  /\ \A i \in 1..Len(u) : u[i] \in ToSet(u)
             /\ \A y \in ToSet(u) : \E i \in 1..Len(u) : u[i] = y
  BY ToSetIs
<1>2. ASSUME NEW y \in ToSet(s \o t) PROVE y \in ToSet(s) \/ y \in ToSet(t)
  <2>1. PICK i \in 1..Len(s \o t) : (s \o t)[i] = y
    BY <1>1, <1>2, <1>a, Zenon
  <2>2. CASE i \in 1..Len(s)
    <3>1. s[i] = y
      BY <2>1, <2>2, ConcatPlaces
    <3> QED
      BY <2>2, <3>1, ToSetIs
  <2>3. CASE i \notin 1..Len(s)
    <3>1. PICK j \in 1..Len(t) : i = Len(s) + j
      BY <2>3, ConcatPlaces
    <3>2. t[j] = y
      BY <2>1, <3>1, ConcatPlaces
    <3> QED
      BY <3>2, ToSetIs
  <2> QED
    BY <2>2, <2>3
<1>3. ASSUME NEW y \in ToSet(s) PROVE y \in ToSet(s \o t)
  <2>1. PICK i \in 1..Len(s) : s[i] = y
    BY <1>3, ToSetIs
  <2>2. i \in 1..Len(s \o t) /\ (s \o t)[i] = y
    BY <2>1, ConcatPlaces
  <2> QED
    BY <1>1, <2>2, <1>a, Zenon
<1>4. ASSUME NEW y \in ToSet(t) PROVE y \in ToSet(s \o t)
  <2>1. PICK i \in 1..Len(t) : t[i] = y
    BY <1>4, ToSetIs
  <2>2. Len(s) + i \in 1..Len(s \o t) /\ (s \o t)[Len(s) + i] = t[i]
    BY ConcatPlaces
  <2>3. PICK l : l = Len(s) + i
    OBVIOUS
  <2>4. l \in 1..Len(s \o t) /\ (s \o t)[l] = y
    BY <2>1, <2>2, <2>3
  <2> QED
    BY <1>1, <2>4, <1>a, Zenon
<1> QED
  BY <1>2, <1>3, <1>4

\* A sequence over a part of a set.
LEMMA SeqOfPart ==
  ASSUME NEW S, NEW T, T \subseteq S, NEW s \in Seq(T)
  PROVE  s \in Seq(S)
<1>1. PICK k \in Nat : s \in [1..k -> T]
  OBVIOUS
<1>2. s \in [1..k -> S]
  BY <1>1
<1> QED
  BY <1>1, <1>2

\* Products of numbers.
LEMMA ProductGrows ==
  ASSUME NEW a \in Nat, NEW b \in Nat, a <= b, NEW k \in Nat
  PROVE  a * k \in Nat /\ b * k \in Nat /\ a * k <= b * k
  OBVIOUS

\* What an executor started goes on the stack: each once, if it is not placed.
LEMMA StartedByIs ==
  ASSUME NEW q, NEW n, AreStarters(q, n), NEW i, NEW placed,
         NEW s, s = StartedBy(q, i, placed)
  PROVE  /\ s \in Seq(1..n) /\ s \in Seq(Nat) /\ Len(s) \in Nat /\ Len(s) <= n
         /\ \A l \in 1..Len(s) : q[s[l]] = i /\ s[l] \in 1..n
         /\ \A j \in 1..n : q[j] = i => j \in ToSet(placed) \/ \E l \in 1..Len(s) : s[l] = j
<1> DEFINE T == {j \in 1..n : q[j] = i /\ j \notin ToSet(placed)}
<1>1. n \in Nat /\ DOMAIN q = 1..n
  BY DEF AreStarters
<1>2. s = Ascending(T)
  BY <1>1, Zenon DEF StartedBy
<1>3. T \in SUBSET (1..n) /\ T \subseteq Int
  BY <1>1
<1>4. IsFiniteSet(1..n) /\ Cardinality(1..n) = n
  BY <1>1, FS_Interval
<1>5. IsFiniteSet(T) /\ Cardinality(T) <= n
  <2> HIDE DEF T
  <2> QED
    BY <1>3, <1>4, FS_Subset
<1>6. \A j \in T : j \in 1..n /\ q[j] = i
  OBVIOUS
<1>7. \A j \in 1..n : q[j] = i => j \in ToSet(placed) \/ j \in T
  OBVIOUS
<1> HIDE DEF T
<1>8. /\ s \in Seq(T) /\ Len(s) = Cardinality(T) /\ Len(s) \in Nat
      /\ \A x \in T : \E m \in 1..Len(s) : s[m] = x
      /\ \A m \in 1..Len(s) : s[m] \in T
  <2>1. Lists(s, T)
    BY <1>2, <1>3, <1>5, AscendingLists
  <2> QED
    BY <2>1 DEF Lists
<1>9. T \subseteq Nat
  BY <1>1, <1>3
<1>10. s \in Seq(1..n) /\ s \in Seq(Nat)
  BY <1>3, <1>8, <1>9, SeqOfPart
<1> QED
  BY <1>5, <1>6, <1>7, <1>8, <1>10

\* The states of a walk.
Walks == [stack : Seq(Nat), order : Seq(Nat)]

\* What a step does to the stack and to the order.
StepsTo(q, at, next) ==
  /\ next \in Walks
  /\ Head(at.stack) \in ToSet(at.order) =>
       next.stack = Tail(at.stack) /\ next.order = at.order
  /\ Head(at.stack) \notin ToSet(at.order) =>
       /\ next.order = Append(at.order, Head(at.stack))
       /\ next.stack = StartedBy(q, Head(at.stack), next.order) \o Tail(at.stack)

\* Each step does it.
LEMMA StepIs ==
  ASSUME NEW q, NEW n, AreStarters(q, n), NEW at \in Walks, at.stack # <<>>
  PROVE  StepsTo(q, at, NextStep(q, at))
<1>0. PICK next : next = NextStep(q, at)
  OBVIOUS
<1> SUFFICES StepsTo(q, at, next)
  BY <1>0, Zenon
<1> DEFINE h == Head(at.stack)
           order == Append(at.order, h)
           began == StartedBy(q, h, order)
<1>1. at.stack \in Seq(Nat) /\ at.order \in Seq(Nat)
  BY DEF Walks
<1>2. h \in Nat /\ Tail(at.stack) \in Seq(Nat)
  BY <1>1, HeadTailProperties
<1>3. order \in Seq(Nat)
  BY <1>1, <1>2, AppendProperties
<1>4. began \in Seq(Nat)
  BY StartedByIs
<1>5. began \o Tail(at.stack) \in Seq(Nat)
  BY <1>2, <1>4, ConcatProperties
<1>6. next = IF h \in ToSet(at.order)
             THEN [stack |-> Tail(at.stack), order |-> at.order]
             ELSE [stack |-> began \o Tail(at.stack), order |-> order]
  BY <1>0, Zenon DEF NextStep
<1> HIDE DEF h, order, began
<1>7. CASE h \in ToSet(at.order)
  <2>1. next = [stack |-> Tail(at.stack), order |-> at.order]
    BY <1>6, <1>7
  <2>2. next \in Walks /\ next.stack = Tail(at.stack) /\ next.order = at.order
    BY <1>1, <1>2, <2>1 DEF Walks
  <2> QED
    BY <1>7, <2>2, Zenon DEF h, StepsTo
<1>8. CASE h \notin ToSet(at.order)
  <2>1. PICK stack \in Seq(Nat), placed \in Seq(Nat) :
          stack = began \o Tail(at.stack) /\ placed = order
    BY <1>3, <1>5
  <2>2. next = [stack |-> stack, order |-> placed]
    BY <1>6, <1>8, <2>1, Zenon
  <2>3. next \in Walks /\ next.stack = stack /\ next.order = placed
    BY <2>2 DEF Walks
  <2> QED
    BY <1>8, <2>1, <2>3, Zenon DEF h, order, began, StepsTo
<1> QED
  BY <1>7, <1>8

\* How far a walk is from its end: the executors that are not placed, then the stack.
Distance(n, at) ==
  Cardinality((ToSet(at.stack) \cup (1..n)) \ ToSet(at.order)) * (n + 1) + Len(at.stack)

\* A step goes down.
LEMMA StepGoesDown ==
  ASSUME NEW q, NEW n, AreStarters(q, n), NEW at \in Walks, at.stack # <<>>
  PROVE  /\ Distance(n, at) \in Nat /\ Distance(n, NextStep(q, at)) \in Nat
         /\ Distance(n, NextStep(q, at)) < Distance(n, at)
<1> DEFINE Unsettled(x) == (ToSet(x.stack) \cup (1..n)) \ ToSet(x.order)
<1>1. n \in Nat /\ IsFiniteSet(1..n)
  BY FS_Interval DEF AreStarters
<1>2. ASSUME NEW x \in Walks
      PROVE  /\ IsFiniteSet(Unsettled(x)) /\ Cardinality(Unsettled(x)) \in Nat
             /\ x.stack \in Seq(Nat) /\ Len(x.stack) \in Nat /\ x.order \in Seq(Nat)
             /\ Distance(n, x) = Cardinality(Unsettled(x)) * (n + 1) + Len(x.stack)
             /\ Distance(n, x) \in Nat
  <2>1. x.stack \in Seq(Nat) /\ x.order \in Seq(Nat)
    BY DEF Walks
  <2>2. IsFiniteSet(ToSet(x.stack))
    BY <2>1, ToSetIs
  <2>3. IsFiniteSet(ToSet(x.stack) \cup (1..n))
    BY <1>1, <2>2, FS_Union
  <2>4. IsFiniteSet(Unsettled(x))
    BY <2>3, FS_Difference
  <2>5. Cardinality(Unsettled(x)) \in Nat
    BY <2>4, FS_CardinalityType
  <2>6. Distance(n, x) = Cardinality(Unsettled(x)) * (n + 1) + Len(x.stack)
    BY DEF Distance
  <2>7. Len(x.stack) \in Nat
    BY <2>1
  <2> HIDE DEF Unsettled
  <2>8. Cardinality(Unsettled(x)) * (n + 1) \in Nat
    BY <1>1, <2>5
  <2> QED
    BY <2>1, <2>4, <2>5, <2>6, <2>7, <2>8
<1>3. PICK next : next = NextStep(q, at)
  OBVIOUS
<1>4. /\ next \in Walks
      /\ Head(at.stack) \in ToSet(at.order) =>
           next.stack = Tail(at.stack) /\ next.order = at.order
      /\ Head(at.stack) \notin ToSet(at.order) =>
           /\ next.order = Append(at.order, Head(at.stack))
           /\ next.stack = StartedBy(q, Head(at.stack), next.order) \o Tail(at.stack)
  <2>1. StepsTo(q, at, NextStep(q, at))
    BY StepIs
  <2> QED
    BY <1>3, <2>1, Zenon DEF StepsTo
<1>5. PICK h \in Nat, rest \in Seq(Nat) :
        /\ h = Head(at.stack) /\ rest = Tail(at.stack)
        /\ h \in ToSet(at.stack) /\ ToSet(rest) \subseteq ToSet(at.stack)
        /\ Len(rest) = Len(at.stack) - 1
  <2>1. at.stack \in Seq(Nat)
    BY <1>2
  <2>2. Tail(at.stack) \in Seq(Nat) /\ Len(Tail(at.stack)) = Len(at.stack) - 1
    BY <2>1, HeadTailProperties
  <2>3. Head(at.stack) = at.stack[1] /\ 1 \in 1..Len(at.stack) /\ Head(at.stack) \in Nat
    BY <2>1, EmptySeq
  <2>4. \A l \in 1..Len(Tail(at.stack)) : Tail(at.stack)[l] = at.stack[l + 1] /\ l + 1 \in 1..Len(at.stack)
    BY <2>1, <2>2, HeadTailProperties
  <2>5. Head(at.stack) \in ToSet(at.stack)
    BY <2>1, <2>3, ToSetIs
  <2>6. PICK rest \in Seq(Nat) : rest = Tail(at.stack)
    BY <2>2
  <2>7. \A l \in 1..Len(rest) : rest[l] \in ToSet(at.stack)
    BY <2>1, <2>4, <2>6, ToSetIs
  <2>8. ASSUME NEW x \in ToSet(rest) PROVE x \in ToSet(at.stack)
    BY <2>7, <2>8, ToSetIs
  <2>9. ToSet(rest) \subseteq ToSet(at.stack)
    BY <2>8
  <2>10. Len(rest) = Len(at.stack) - 1
    BY <2>2, <2>6
  <2> QED
    BY <2>3, <2>5, <2>6, <2>9, <2>10
<1>6. CASE h \in ToSet(at.order)
  <2>1. next.stack = rest /\ next.order = at.order
    BY <1>4, <1>5, <1>6
  <2>2. Unsettled(next) \in SUBSET Unsettled(at)
    BY <1>5, <2>1
  <2> HIDE DEF Unsettled
  <2>3. Cardinality(Unsettled(next)) <= Cardinality(Unsettled(at))
    BY <1>2, <2>2, FS_Subset
  <2>4. Cardinality(Unsettled(next)) * (n + 1) <= Cardinality(Unsettled(at)) * (n + 1)
    <3>1. n + 1 \in Nat
      BY <1>1
    <3>2. Cardinality(Unsettled(next)) \in Nat /\ Cardinality(Unsettled(at)) \in Nat
      BY <1>2, <1>4
    <3> QED
      BY <2>3, <3>1, <3>2, ProductGrows
  <2>5. Len(next.stack) = Len(at.stack) - 1
    BY <1>5, <2>1
  <2>6. PICK a \in Int, b \in Int :
          a = Cardinality(Unsettled(next)) * (n + 1) /\ b = Cardinality(Unsettled(at)) * (n + 1)
    BY <1>1, <1>2, <1>4
  <2>7. PICK c \in Int, k \in Int : c = Len(next.stack) /\ k = Len(at.stack)
    BY <1>2, <1>4
  <2>8. Distance(n, next) = a + c /\ Distance(n, at) = b + k
    BY <1>2, <1>4, <2>6, <2>7
  <2>9. a <= b /\ c = k - 1
    BY <2>4, <2>5, <2>6, <2>7, Zenon
  <2>10. a + c < b + k
    BY <2>9
  <2> QED
    BY <1>2, <1>3, <1>4, <2>8, <2>10
<1>7. CASE h \notin ToSet(at.order)
  <2> DEFINE began == StartedBy(q, h, next.order)
  <2>1. next.stack = began \o rest /\ next.order = Append(at.order, h)
    BY <1>4, <1>5, <1>7
  <2>2. /\ began \in Seq(1..n) /\ began \in Seq(Nat) /\ Len(began) \in Nat /\ Len(began) <= n
    BY StartedByIs
  <2>3. at.order \in Seq(Nat) /\ h \in Nat
    BY <1>2, <1>5
  <2> HIDE DEF began
  <2>4. ToSet(next.order) = ToSet(at.order) \cup {h}
    <3>1. ToSet(Append(at.order, h)) = ToSet(at.order) \cup {h}
      BY <2>3, AppendHolds
    <3> QED
      BY <2>1, <3>1
  <2>5. ToSet(next.stack) \subseteq (1..n) \cup ToSet(rest)
    <3>1. ToSet(next.stack) = ToSet(began) \cup ToSet(rest)
      <4>1. rest \in Seq(Nat)
        BY <1>5
      <4>2. ToSet(began \o rest) = ToSet(began) \cup ToSet(rest)
        BY <2>2, <4>1, ConcatHolds
      <4> QED
        BY <2>1, <4>2
    <3>2. ToSet(began) \subseteq 1..n
      BY <2>2, ToSetIs
    <3> QED
      BY <3>1, <3>2
  <2>6. Unsettled(next) \in SUBSET (Unsettled(at) \ {h}) /\ h \in Unsettled(at)
    BY <1>5, <1>7, <2>4, <2>5
  <2> HIDE DEF Unsettled
  <2>7. Cardinality(Unsettled(next)) <= Cardinality(Unsettled(at)) - 1
    <3>1. IsFiniteSet(Unsettled(at) \ {h}) /\ Cardinality(Unsettled(at) \ {h}) = Cardinality(Unsettled(at)) - 1
      BY <1>2, <2>6, FS_RemoveElement
    <3> QED
      BY <2>6, <3>1, FS_Subset
  <2>8. Cardinality(Unsettled(next)) * (n + 1) + (n + 1) <= Cardinality(Unsettled(at)) * (n + 1)
    <3>1. n + 1 \in Nat
      BY <1>1
    <3>2. PICK a \in Nat, b \in Nat : a = Cardinality(Unsettled(next)) /\ b = Cardinality(Unsettled(at))
      BY <1>2, <1>4
    <3>3. a + 1 <= b
      BY <2>7, <3>2
    <3>4. (a + 1) * (n + 1) <= b * (n + 1)
      <4>1. a + 1 \in Nat
        OBVIOUS
      <4> QED
        BY <3>1, <3>3, <4>1, ProductGrows
    <3>5. \A x \in Nat, y \in Nat : (x + 1) * y = x * y + y
      OBVIOUS
    <3> QED
      BY <1>1, <3>2, <3>4, <3>5
  <2>9. Len(next.stack) = Len(began) + Len(rest)
    BY <1>5, <2>1, <2>2, ConcatProperties
  <2>10. Len(next.stack) <= n + Len(at.stack) - 1
    BY <1>1, <1>2, <1>5, <2>2, <2>9
  <2>11. PICK a \in Int, b \in Int :
           a = Cardinality(Unsettled(next)) * (n + 1) /\ b = Cardinality(Unsettled(at)) * (n + 1)
    BY <1>1, <1>2, <1>4
  <2>12. PICK c \in Int, k \in Int : c = Len(next.stack) /\ k = Len(at.stack)
    BY <1>2, <1>4
  <2>13. Distance(n, next) = a + c /\ Distance(n, at) = b + k
    BY <1>2, <1>4, <2>11, <2>12
  <2>14. a + (n + 1) <= b /\ c <= n + k - 1
    BY <2>8, <2>10, <2>11, <2>12, Zenon
  <2>15. a + c < b + k
    BY <1>1, <2>14
  <2> QED
    BY <1>2, <1>3, <1>4, <2>13, <2>15
<1> QED
  BY <1>6, <1>7

\* A walk ends, where its steps lead.
LEMMA WalkEnds ==
  ASSUME NEW q, NEW n, AreStarters(q, n), NEW from \in Nat, NEW placed \in Seq(Nat),
         NEW I \in SUBSET Walks, [stack |-> <<from>>, order |-> placed] \in I,
         \A x \in I : x.stack # <<>> => NextStep(q, x) \in I
  PROVE  \E y \in I : y.stack = <<>> /\ DepthFirst(q, from, placed) = y.order
<1> DEFINE IsWalk(g) == g = [at \in Walks |-> IF at.stack = <<>> THEN at.order ELSE g[NextStep(q, at)]]
           stop == {x \in Walks : x.stack = <<>>}
           m == [x \in Walks |-> Distance(n, x)]
           base == [x \in Walks |-> x.order]
           next == [x \in Walks |-> NextStep(q, x)]
           begin == [stack |-> <<from>>, order |-> placed]
<1>1. \A x \in Walks : x \in stop <=> x.stack = <<>>
  OBVIOUS
<1>2. \A x \in Walks : Distance(n, x) \in Nat
  <2> TAKE x \in Walks
  <2>1. x.stack \in Seq(Nat) /\ n \in Nat /\ IsFiniteSet(1..n)
    BY FS_Interval DEF Walks, AreStarters
  <2>2. IsFiniteSet(ToSet(x.stack) \cup (1..n))
    BY <2>1, ToSetIs, FS_Union
  <2>3. IsFiniteSet((ToSet(x.stack) \cup (1..n)) \ ToSet(x.order))
    BY <2>2, FS_Difference
  <2>4. Cardinality((ToSet(x.stack) \cup (1..n)) \ ToSet(x.order)) \in Nat
    BY <2>3, FS_CardinalityType
  <2>5. \A a \in Nat, b \in Nat, c \in Nat : a * (b + 1) + c \in Nat
    OBVIOUS
  <2>6. Len(x.stack) \in Nat
    BY <2>1
  <2> QED
    BY <2>1, <2>4, <2>5, <2>6 DEF Distance
<1>3. m \in [Walks -> Nat]
  BY <1>2
<1>4. ASSUME NEW x \in Walks \ stop PROVE next[x] \in Walks /\ m[next[x]] < m[x]
  <2>1. x \in Walks /\ x.stack # <<>> /\ next[x] = NextStep(q, x)
    BY <1>1, <1>4
  <2>2. NextStep(q, x) \in Walks
    <3>1. StepsTo(q, x, NextStep(q, x))
      BY <2>1, StepIs
    <3> QED
      BY <3>1 DEF StepsTo
  <2>3. Distance(n, NextStep(q, x)) < Distance(n, x)
    BY <2>1, StepGoesDown
  <2>4. m[NextStep(q, x)] = Distance(n, NextStep(q, x)) /\ m[x] = Distance(n, x)
    BY <2>1, <2>2
  <2> QED
    BY <2>1, <2>2, <2>3, <2>4
<1>5. \A x \in Walks : base[x] = x.order /\ next[x] = NextStep(q, x)
  OBVIOUS
<1> HIDE DEF stop, m, base, next
<1>6. PICK g0 : DescentOf(g0, Walks, stop, base, Walks, base, next)
  BY <1>3, <1>4, DescentIsDefined
<1>7. \E g : IsWalk(g)
  <2>1. g0 = [x \in Walks |-> IF x \in stop THEN base[x]
                              ELSE IF x \in Walks THEN g0[next[x]] ELSE base[x] \o g0[next[x]]]
    BY <1>6, Zenon DEF DescentOf
  <2>2. g0 = [x \in Walks |-> g0[x]]
    BY <2>1
  <2>3. \A x \in Walks : g0[x] = IF x.stack = <<>> THEN x.order ELSE g0[NextStep(q, x)]
    BY <1>1, <1>5, <2>1
  <2>4. g0 = [x \in Walks |-> IF x.stack = <<>> THEN x.order ELSE g0[NextStep(q, x)]]
    BY <2>2, <2>3
  <2> QED
    BY <2>4
<1>8. PICK g : g = CHOOSE w : IsWalk(w)
  OBVIOUS
<1>9. IsWalk(g)
  BY <1>7, <1>8, Zenon
<1>10. DepthFirst(q, from, placed) = g[begin]
  BY <1>8, Zenon DEF DepthFirst, Walks
<1>11. \A x \in Walks : g[x] = IF x \in stop THEN base[x] ELSE g[next[x]]
  <2>1. \A x \in Walks : g[x] = IF x.stack = <<>> THEN x.order ELSE g[NextStep(q, x)]
    BY <1>9
  <2> QED
    BY <1>1, <1>5, <2>1
<1> HIDE DEF IsWalk
<1>12. \A x \in I \ stop : next[x] \in I
  BY <1>1, <1>5
<1>13. \A x \in I : \E y \in I \cap stop : g[x] = base[y]
  <2>1. GoesDown(m, Walks, stop, next)
    BY <1>3, <1>4 DEF GoesDown
  <2>2. GoesOn(g, Walks, stop, base, next)
    BY <1>11 DEF GoesOn
  <2> QED
    BY <1>12, <2>1, <2>2, DescentEnds
<1>a. begin \in I
  OBVIOUS
<1> HIDE DEF begin
<1>14. PICK y \in I \cap stop : g[begin] = base[y]
  BY <1>13, <1>a
<1> QED
  BY <1>1, <1>5, <1>10, <1>14

\* The executor at place b follows its starter: only descendants of that one stand
\* between them.
Follows(q, n, order, b) ==
  \E a \in 1..(b - 1) : /\ order[a] = q[order[b]]
                        /\ \A c \in (a + 1)..b : order[a] \in Above(q, n, order[c])

\* What holds on the way of a walk that began at from when placed were placed.
OnTheWay(q, n, from, placed, x) ==
  /\ x \in Walks /\ x.order \in Seq(1..n) /\ x.stack \in Seq(1..n)
  /\ \A a, b \in 1..Len(x.order) : x.order[a] = x.order[b] => a = b
  /\ Len(placed) <= Len(x.order) /\ \A a \in 1..Len(placed) : x.order[a] = placed[a]
  /\ \/ x.stack = <<from>> /\ x.order = placed
     \/ /\ from \in ToSet(x.order)
        /\ \A l \in 1..Len(x.stack) : q[x.stack[l]] \in ToSet(x.order)
  /\ \A l \in 1..Len(x.stack), a \in 1..Len(x.order) :
       q[x.stack[l]] = x.order[a] =>
         /\ \A c \in (a + 1)..Len(x.order) : x.order[a] \in Above(q, n, x.order[c])
         /\ \A k \in 1..(l - 1) : x.order[a] \in Above(q, n, x.stack[k])
  /\ \A v \in 1..n : q[v] \in ToSet(x.order) => v \in ToSet(x.order) \cup ToSet(x.stack)
  /\ \A b \in (Len(placed) + 1)..Len(x.order) :
       x.order[b] = from \/ Follows(q, n, x.order, b)

\* What comes later does not matter.
LEMMA FollowsGrows ==
  ASSUME NEW q, NEW n, NEW S, NEW order \in Seq(S), NEW more,
         \A a \in 1..Len(order) : more[a] = order[a],
         NEW b \in 1..Len(order), Follows(q, n, order, b)
  PROVE  Follows(q, n, more, b)
<1>1. PICK k \in Nat : k = Len(order)
  OBVIOUS
<1>2. PICK a \in 1..(b - 1) :
        order[a] = q[order[b]] /\ \A c \in (a + 1)..b : order[a] \in Above(q, n, order[c])
  BY DEF Follows
<1>3. \A c \in a..b : c \in 1..Len(order) /\ more[c] = order[c]
  BY <1>1
<1>4. a \in a..b /\ b \in a..b /\ \A c \in (a + 1)..b : c \in a..b
  BY <1>1
<1>5. more[a] = q[more[b]] /\ \A c \in (a + 1)..b : more[a] \in Above(q, n, more[c])
  BY <1>2, <1>3, <1>4
<1> QED
  BY <1>5 DEF Follows

\* The rest of a stack.
LEMMA RestPlaces ==
  ASSUME NEW S, NEW s \in Seq(S), s # <<>>
  PROVE  /\ Head(s) \in S /\ Tail(s) \in Seq(S) /\ Len(s) \in Nat /\ Len(Tail(s)) \in Nat
         /\ Len(s) = Len(Tail(s)) + 1 /\ s[1] = Head(s) /\ 1 \in 1..Len(s)
         /\ \A l \in 1..Len(Tail(s)) : l + 1 \in 1..Len(s) /\ Tail(s)[l] = s[l + 1]
         /\ ToSet(Tail(s)) \subseteq ToSet(s)
         /\ ToSet(s) = {Head(s)} \cup ToSet(Tail(s))
<1>1. Tail(s) \in Seq(S) /\ Len(Tail(s)) = Len(s) - 1 /\ Len(s) \in Nat /\ Len(s) # 0
  BY HeadTailProperties, EmptySeq
<1>2. Head(s) = s[1] /\ 1 \in 1..Len(s) /\ s[1] \in S
  BY <1>1
<1>3. \A l \in 1..Len(Tail(s)) : l + 1 \in 1..Len(s) /\ Tail(s)[l] = s[l + 1]
  BY <1>1, HeadTailProperties
<1>4. PICK r \in Seq(S) : r = Tail(s)
  BY <1>1
<1>5. \A l \in 1..Len(r) : l + 1 \in 1..Len(s) /\ r[l] = s[l + 1]
  BY <1>3, <1>4
<1>6. /\ \A l \in 1..Len(s) : s[l] \in ToSet(s)
      /\ \A y \in ToSet(s) : \E l \in 1..Len(s) : s[l] = y
  BY ToSetIs
<1>7. /\ \A l \in 1..Len(r) : r[l] \in ToSet(r)
      /\ \A y \in ToSet(r) : \E l \in 1..Len(r) : r[l] = y
  BY ToSetIs
<1>8. ASSUME NEW y \in ToSet(r) PROVE y \in ToSet(s)
  BY <1>5, <1>6, <1>7
<1>9. ASSUME NEW y \in ToSet(s), y # s[1] PROVE y \in ToSet(r)
  <2>1. PICK l \in 1..Len(s) : s[l] = y
    BY <1>6
  <2>2. l # 1
    BY <1>9, <2>1
  <2>3. PICK k : k = l - 1
    OBVIOUS
  <2>4. k \in 1..Len(r) /\ k + 1 = l
    BY <1>1, <1>4, <2>2, <2>3
  <2>5. r[k] = y
    BY <1>5, <2>1, <2>4
  <2> QED
    BY <1>7, <2>4, <2>5
<1>10. s[1] \in ToSet(s)
  BY <1>2, <1>6
<1>11. ToSet(s) = {s[1]} \cup ToSet(r)
  BY <1>8, <1>9, <1>10
<1>12. Len(Tail(s)) \in Nat /\ Len(s) = Len(Tail(s)) + 1
  BY <1>1
<1> QED
  BY <1>1, <1>2, <1>3, <1>4, <1>8, <1>11, <1>12

\* An executor that is placed is passed over.
LEMMA PassingOverKeeps ==
  ASSUME NEW q, NEW n, AreStarters(q, n), NEW from \in 1..n, NEW placed \in Seq(1..n),
         NEW x, OnTheWay(q, n, from, placed, x), x.stack # <<>>,
         Head(x.stack) \in ToSet(x.order), NEW y \in Walks,
         y.stack = Tail(x.stack), y.order = x.order, x.stack # <<from>> \/ x.order # placed
  PROVE  OnTheWay(q, n, from, placed, y)
<1>1. x.stack \in Seq(1..n)
  BY DEF OnTheWay
<1>2. PICK r \in Seq(1..n) : r = Tail(x.stack)
  BY <1>1, RestPlaces
<1>3. PICK k \in Nat : k = Len(r)
  OBVIOUS
<1>4. /\ Len(x.stack) = k + 1 /\ \A l \in 1..k : l + 1 \in 1..Len(x.stack) /\ r[l] = x.stack[l + 1]
      /\ ToSet(x.stack) = {Head(x.stack)} \cup ToSet(r)
  <2>1. /\ Len(x.stack) = Len(Tail(x.stack)) + 1
        /\ \A l \in 1..Len(Tail(x.stack)) : l + 1 \in 1..Len(x.stack) /\ Tail(x.stack)[l] = x.stack[l + 1]
        /\ ToSet(x.stack) = {Head(x.stack)} \cup ToSet(Tail(x.stack))
    BY <1>1, RestPlaces
  <2> QED
    BY <1>2, <1>3, <2>1
<1>5. y.stack = r /\ y.order = x.order
  BY <1>2
<1>6. /\ from \in ToSet(x.order)
      /\ \A l \in 1..k : q[r[l]] \in ToSet(x.order)
  BY <1>4 DEF OnTheWay
<1>7. ASSUME NEW l \in 1..k, NEW a \in 1..Len(x.order), q[r[l]] = x.order[a]
      PROVE  /\ \A c \in (a + 1)..Len(x.order) : x.order[a] \in Above(q, n, x.order[c])
             /\ \A j \in 1..(l - 1) : x.order[a] \in Above(q, n, r[j])
  <2>1. l + 1 \in 1..Len(x.stack) /\ q[x.stack[l + 1]] = x.order[a]
    BY <1>4, <1>7
  <2>2. /\ \A c \in (a + 1)..Len(x.order) : x.order[a] \in Above(q, n, x.order[c])
        /\ \A j \in 1..((l + 1) - 1) : x.order[a] \in Above(q, n, x.stack[j])
    BY <2>1 DEF OnTheWay
  <2>3. ASSUME NEW j \in 1..(l - 1) PROVE x.order[a] \in Above(q, n, r[j])
    <3>1. j + 1 \in 1..((l + 1) - 1) /\ r[j] = x.stack[j + 1]
      BY <1>4
    <3> QED
      BY <2>2, <3>1
  <2> QED
    BY <2>2, <2>3
<1>8. \A v \in 1..n : q[v] \in ToSet(x.order) => v \in ToSet(x.order) \cup ToSet(r)
  BY <1>4 DEF OnTheWay
<1>9. /\ x.order \in Seq(1..n) /\ \A a, b \in 1..Len(x.order) : x.order[a] = x.order[b] => a = b
      /\ Len(placed) <= Len(x.order) /\ \A a \in 1..Len(placed) : x.order[a] = placed[a]
      /\ \A b \in (Len(placed) + 1)..Len(x.order) : x.order[b] = from \/ Follows(q, n, x.order, b)
  BY DEF OnTheWay
<1> QED
  BY <1>3, <1>5, <1>6, <1>7, <1>8, <1>9, Zenon DEF OnTheWay

\* A step of a walk that places h as number m + 1 makes the order o.
Places(x, h, o, m) ==
  /\ x.stack # <<>> /\ h = Head(x.stack) /\ h \notin ToSet(x.order)
  /\ o = Append(x.order, h) /\ m = Len(x.order)

\* What is placed goes on the way with what it started.
LEMMA PlacingKeepsOrder ==
  ASSUME NEW q, NEW n, AreStarters(q, n), NEW from \in 1..n, NEW placed \in Seq(1..n),
         NEW x, OnTheWay(q, n, from, placed, x),
         NEW h, NEW o, NEW m, Places(x, h, o, m)
  PROVE  /\ h \in 1..n /\ m \in Nat /\ o \in Seq(1..n) /\ Len(o) = m + 1 /\ o[m + 1] = h
         /\ \A i \in 1..m : i \in 1..(m + 1) /\ o[i] = x.order[i]
         /\ \A i \in 1..(m + 1) : i = m + 1 \/ i \in 1..m
         /\ ToSet(o) = ToSet(x.order) \cup {h}
         /\ \A i \in 1..m : x.order[i] # h
         /\ \A a, b \in 1..(m + 1) : o[a] = o[b] => a = b
         /\ Len(placed) <= m + 1 /\ \A a \in 1..Len(placed) : o[a] = placed[a]
         /\ from \in ToSet(o)
         /\ \A b \in (Len(placed) + 1)..(m + 1) : o[b] = from \/ Follows(q, n, o, b)
<1>0. /\ x.stack # <<>> /\ h = Head(x.stack) /\ h \notin ToSet(x.order)
      /\ o = Append(x.order, h) /\ m = Len(x.order)
  BY DEF Places
<1> USE <1>0
<1>1. /\ x.stack \in Seq(1..n) /\ x.order \in Seq(1..n)
      /\ \A a, b \in 1..m : x.order[a] = x.order[b] => a = b
      /\ Len(placed) <= m /\ \A a \in 1..Len(placed) : x.order[a] = placed[a]
      /\ \A b \in (Len(placed) + 1)..m : x.order[b] = from \/ Follows(q, n, x.order, b)
  BY DEF OnTheWay
<1>2. h \in 1..n /\ x.stack[1] = h /\ 1 \in 1..Len(x.stack)
  BY <1>1, RestPlaces
<1>3. /\ m \in Nat /\ o \in Seq(1..n) /\ Len(o) = m + 1 /\ o[m + 1] = h
      /\ \A i \in 1..m : i \in 1..(m + 1) /\ o[i] = x.order[i]
      /\ \A i \in 1..(m + 1) : i = m + 1 \/ i \in 1..m
  <2>1. x.order \in Seq(1..n) /\ h \in 1..n
    BY <1>1, <1>2
  <2> HIDE <1>0
  <2>2. o = Append(x.order, h) /\ m = Len(x.order)
    BY <1>0
  <2> QED
    BY <2>1, <2>2, AppendPlaces
<1>4. ToSet(o) = ToSet(x.order) \cup {h}
  BY <1>1, <1>2, AppendHolds
<1>5. /\ \A i \in 1..m : x.order[i] \in ToSet(x.order)
      /\ \A v \in ToSet(x.order) : \E i \in 1..m : x.order[i] = v
  <2>1. x.order \in Seq(1..n)
    BY <1>1
  <2> HIDE <1>0
  <2>2. PICK r \in Seq(1..n) : r = x.order
    BY <2>1
  <2>3. /\ \A i \in 1..Len(r) : r[i] \in ToSet(r)
        /\ \A v \in ToSet(r) : \E i \in 1..Len(r) : r[i] = v
    BY ToSetIs
  <2> QED
    BY <1>0, <2>2, <2>3, Zenon
<1>6. \A i \in 1..m : x.order[i] # h
  BY <1>5
<1>7. \A a, b \in 1..(m + 1) : o[a] = o[b] => a = b
  <2> TAKE a, b \in 1..(m + 1)
  <2>1. CASE a \in 1..m /\ b \in 1..m
    BY <1>1, <1>3, <2>1
  <2>2. CASE a = m + 1 /\ b \in 1..m
    BY <1>3, <1>6, <2>2
  <2>3. CASE a \in 1..m /\ b = m + 1
    BY <1>3, <1>6, <2>3
  <2> QED
    BY <1>3, <2>1, <2>2, <2>3
<1>8. Len(placed) \in Nat
  OBVIOUS
<1>9. Len(placed) <= m + 1 /\ \A a \in 1..Len(placed) : o[a] = placed[a]
  <2>1. Len(placed) <= m + 1 /\ \A a \in 1..Len(placed) : a \in 1..m
    BY <1>1, <1>3, <1>8
  <2> QED
    BY <1>1, <1>3, <2>1
<1>10. \A i \in 1..Len(x.order) : o[i] = x.order[i]
  BY <1>3
<1>11. CASE x.stack = <<from>> /\ x.order = placed
  <2>1. h = from
    BY <1>11, HeadOfOne
  <2>2. from \in ToSet(o)
    BY <1>4, <2>1
  <2>3. m = Len(placed)
    BY <1>11
  <2>4. \A b \in (Len(placed) + 1)..(m + 1) : b = m + 1
    BY <1>3, <2>3
  <2>5. \A b \in (Len(placed) + 1)..(m + 1) : o[b] = from
    BY <1>3, <2>1, <2>4
  <2> QED
    BY <1>2, <1>3, <1>4, <1>6, <1>7, <1>9, <2>2, <2>5
<1>12. CASE /\ from \in ToSet(x.order)
            /\ \A l \in 1..Len(x.stack) : q[x.stack[l]] \in ToSet(x.order)
  <2>1. PICK a \in 1..m : x.order[a] = q[h]
    BY <1>2, <1>5, <1>12
  <2>2. /\ \A c \in (a + 1)..m : x.order[a] \in Above(q, n, x.order[c])
    BY <1>2, <2>1 DEF OnTheWay
  <2>3. q[h] \in Above(q, n, h)
    <3>1. q[h] # 0
      <4>1. x.order \in Seq(1..n) /\ a \in 1..Len(x.order)
        BY <1>1
      <4>2. x.order[a] \in 1..n
        BY <4>1, ElementOfSeq
      <4> QED
        BY <2>1, <4>2
    <3> QED
      BY <1>2, <3>1, AboveSteps
  <2>4. Follows(q, n, o, m + 1)
    <3>1. a \in 1..((m + 1) - 1) /\ o[a] = q[o[m + 1]]
      BY <1>3, <2>1
    <3>2. ASSUME NEW c \in (a + 1)..(m + 1) PROVE o[a] \in Above(q, n, o[c])
      <4>1. CASE c = m + 1
        BY <1>3, <2>1, <2>3, <4>1
      <4>2. CASE c # m + 1
        <5>1. c \in (a + 1)..m /\ c \in 1..m
          BY <1>3, <4>2
        <5> QED
          BY <1>3, <2>2, <5>1
      <4> QED
        BY <4>1, <4>2
    <3> QED
      BY <3>1, <3>2, Zenon DEF Follows
  <2>5. ASSUME NEW b \in (Len(placed) + 1)..(m + 1) PROVE o[b] = from \/ Follows(q, n, o, b)
    <3>1. CASE b = m + 1
      BY <2>4, <3>1
    <3>2. CASE b # m + 1
      <4>1. b \in (Len(placed) + 1)..m /\ b \in 1..m /\ b \in 1..Len(x.order)
        BY <1>3, <1>8, <3>2
      <4>2. x.order[b] = from \/ Follows(q, n, x.order, b)
        BY <1>1, <4>1
      <4>3. Follows(q, n, x.order, b) => Follows(q, n, o, b)
        <5>1. x.order \in Seq(1..n) /\ b \in 1..Len(x.order)
          BY <1>1, <4>1
        <5> QED
          BY <1>10, <5>1, FollowsGrows
      <4> QED
        BY <1>3, <4>1, <4>2, <4>3
    <3> QED
      BY <3>1, <3>2
  <2>6. from \in ToSet(o)
    BY <1>4, <1>12
  <2> QED
    BY <1>2, <1>3, <1>4, <1>6, <1>7, <1>9, <2>5, <2>6
<1> QED
  BY <1>11, <1>12 DEF OnTheWay

\* Where the top h of the stack s was, what it started is now.
Stacks(q, s, h, o, t) == h = Head(s) /\ t = StartedBy(q, h, o) \o Tail(s)

\* The stack after an executor is placed, and where its members come from.
LEMMA PlacingKeepsStack ==
  ASSUME NEW q, NEW n, AreStarters(q, n), NEW s \in Seq(1..n), s # <<>>,
         NEW o, NEW h, NEW t, Stacks(q, s, h, o, t)
  PROVE  /\ t \in Seq(1..n) /\ Len(t) \in Nat
         /\ \A l \in 1..Len(t) :
              \/ q[t[l]] = h /\ \A k \in 1..(l - 1) : q[t[k]] = h /\ t[k] \in 1..n
              \/ \E j \in 1..Len(s) :
                   /\ j # 1 /\ t[l] = s[j]
                   /\ \A k \in 1..(l - 1) : \/ q[t[k]] = h /\ t[k] \in 1..n
                                            \/ \E i \in 1..(j - 1) : t[k] = s[i]
         /\ \A v \in 1..n : q[v] = h => v \in ToSet(o) \cup ToSet(t)
         /\ ToSet(s) \subseteq ToSet(t) \cup {h}
<1>0. h = Head(s) /\ t = StartedBy(q, h, o) \o Tail(s)
  BY DEF Stacks
<1>1. PICK b : b = StartedBy(q, h, o)
  OBVIOUS
<1>2. /\ b \in Seq(1..n) /\ Len(b) \in Nat
      /\ \A l \in 1..Len(b) : q[b[l]] = h /\ b[l] \in 1..n
      /\ \A j \in 1..n : q[j] = h => j \in ToSet(o) \/ \E l \in 1..Len(b) : b[l] = j
  BY <1>1, StartedByIs
<1>3. PICK r \in Seq(1..n) : r = Tail(s)
  BY RestPlaces
<1>4. /\ Len(s) \in Nat /\ Len(s) = Len(r) + 1 /\ Len(r) \in Nat
      /\ \A l \in 1..Len(r) : l + 1 \in 1..Len(s) /\ r[l] = s[l + 1]
      /\ ToSet(s) = {h} \cup ToSet(r)
  <2>1. /\ Len(s) \in Nat /\ Len(s) = Len(Tail(s)) + 1 /\ Len(Tail(s)) \in Nat
        /\ \A l \in 1..Len(Tail(s)) : l + 1 \in 1..Len(s) /\ Tail(s)[l] = s[l + 1]
        /\ ToSet(s) = {Head(s)} \cup ToSet(Tail(s))
    BY RestPlaces
  <2> QED
    BY <1>0, <1>3, <2>1
<1>5. t = b \o r
  BY <1>0, <1>1, <1>3
<1>6. PICK e \in Nat : e = Len(b)
  BY <1>2
<1>7. PICK f \in Nat : f = Len(r)
  BY <1>4
<1>8. /\ b \o r \in Seq(1..n) /\ Len(b \o r) = Len(b) + Len(r)
      /\ \A i \in 1..Len(b) : i \in 1..Len(b \o r) /\ (b \o r)[i] = b[i]
      /\ \A i \in 1..Len(r) : Len(b) + i \in 1..Len(b \o r) /\ (b \o r)[Len(b) + i] = r[i]
      /\ \A i \in 1..Len(b \o r) : i \in 1..Len(b) \/ \E j \in 1..Len(r) : i = Len(b) + j
  BY <1>2, ConcatPlaces
<1>9. /\ t \in Seq(1..n) /\ Len(t) = e + f
      /\ \A i \in 1..e : i \in 1..(e + f) /\ t[i] = b[i]
      /\ \A i \in 1..f : e + i \in 1..(e + f) /\ t[e + i] = r[i]
      /\ \A i \in 1..(e + f) : i \in 1..e \/ \E j \in 1..f : i = e + j
  BY <1>5, <1>6, <1>7, <1>8
<1>10. ToSet(t) = ToSet(b) \cup ToSet(r)
  BY <1>2, <1>5, ConcatHolds
<1>11. /\ \A l \in 1..e : q[b[l]] = h /\ b[l] \in 1..n
       /\ \A l \in 1..f : l + 1 \in 1..Len(s) /\ r[l] = s[l + 1]
       /\ \A j \in 1..n : q[j] = h => j \in ToSet(o) \/ \E l \in 1..e : b[l] = j
       /\ Len(s) = f + 1
  BY <1>2, <1>4, <1>6, <1>7
<1>12. \A l \in 1..e : b[l] \in ToSet(b)
  BY <1>2, <1>6, ToSetIs
<1>13. \A v \in 1..n : q[v] = h => v \in ToSet(o) \cup ToSet(t)
  BY <1>10, <1>11, <1>12
<1>14. ToSet(s) \subseteq ToSet(t) \cup {h}
  BY <1>4, <1>10
<1> HIDE <1>5, <1>8
<1>15. \A l \in 1..e : q[t[l]] = h /\ t[l] \in 1..n
  BY <1>9, <1>11
<1>16. \A l \in 1..f : t[e + l] = s[l + 1]
  BY <1>9, <1>11
<1> DEFINE Comes(l) ==
             \/ q[t[l]] = h /\ \A k \in 1..(l - 1) : q[t[k]] = h /\ t[k] \in 1..n
             \/ \E j \in 1..Len(s) :
                  /\ j # 1 /\ t[l] = s[j]
                  /\ \A k \in 1..(l - 1) : \/ q[t[k]] = h /\ t[k] \in 1..n
                                           \/ \E i \in 1..(j - 1) : t[k] = s[i]
<1>17. ASSUME NEW l \in 1..(e + f) PROVE Comes(l)
  <2>1. CASE l \in 1..e
    <3>1. \A k \in 1..(l - 1) : k \in 1..e
      BY <2>1
    <3> QED
      BY <1>15, <2>1, <3>1
  <2>2. CASE \E j \in 1..f : l = e + j
    <3>1. PICK j \in 1..f : l = e + j
      BY <2>2
    <3>2. j + 1 \in 1..Len(s) /\ j + 1 # 1 /\ t[l] = s[j + 1]
      <4>1. j + 1 \in 1..Len(s) /\ j + 1 # 1
        BY <1>11
      <4>2. t[e + j] = s[j + 1]
        BY <1>16
      <4> QED
        BY <3>1, <4>1, <4>2
    <3>3. ASSUME NEW k \in 1..(l - 1), k \notin 1..e
          PROVE  \E i \in 1..((j + 1) - 1) : t[k] = s[i]
      <4>1. k \in 1..(e + f)
        BY <3>3
      <4>2. PICK i \in 1..f : k = e + i
        BY <1>9, <3>3, <4>1
      <4>3. t[k] = s[i + 1] /\ i + 1 \in 1..((j + 1) - 1)
        <5>1. i + 1 \in 1..((j + 1) - 1)
          BY <3>1, <3>3, <4>2
        <5>2. t[e + i] = s[i + 1]
          BY <1>16
        <5> QED
          BY <4>2, <5>1, <5>2
      <4> QED
        BY <4>3
    <3>4. \A k \in 1..(l - 1) : \/ q[t[k]] = h /\ t[k] \in 1..n
                                \/ \E i \in 1..((j + 1) - 1) : t[k] = s[i]
      BY <1>15, <3>3
    <3> QED
      BY <3>2, <3>4
  <2> QED
    BY <1>9, <2>1, <2>2
<1>18. t \in Seq(1..n) /\ Len(t) \in Nat /\ Len(t) = e + f
  BY <1>9
<1>19. ASSUME NEW l \in 1..Len(t) PROVE Comes(l)
  <2> HIDE DEF Comes
  <2> QED
    BY <1>17, <1>18, <1>19
<1>20. \A l \in 1..Len(t) : Comes(l)
  BY <1>19
<1> QED
  BY <1>13, <1>14, <1>18, <1>20, Zenon

\* Placing keeps to the way.
LEMMA PlacingKeeps ==
  ASSUME NEW q, NEW n, AreStarters(q, n), NEW from \in 1..n, NEW placed \in Seq(1..n),
         NEW x, OnTheWay(q, n, from, placed, x), x.stack # <<>>,
         Head(x.stack) \notin ToSet(x.order), NEW y \in Walks,
         y.order = Append(x.order, Head(x.stack)),
         y.stack = StartedBy(q, Head(x.stack), y.order) \o Tail(x.stack)
  PROVE  OnTheWay(q, n, from, placed, y)
<1>1. PICK h, o, t, s, p :
        /\ h = Head(x.stack) /\ o = y.order /\ t = y.stack /\ s = x.stack /\ p = x.order
  OBVIOUS
<1>2. PICK m : m = Len(p)
  OBVIOUS
<1>3. /\ h \in 1..n /\ m \in Nat /\ o \in Seq(1..n) /\ Len(o) = m + 1 /\ o[m + 1] = h
      /\ \A i \in 1..m : i \in 1..(m + 1) /\ o[i] = p[i]
      /\ \A i \in 1..(m + 1) : i = m + 1 \/ i \in 1..m
      /\ ToSet(o) = ToSet(p) \cup {h}
      /\ \A i \in 1..m : p[i] # h
      /\ \A a, b \in 1..(m + 1) : o[a] = o[b] => a = b
      /\ Len(placed) <= m + 1 /\ \A a \in 1..Len(placed) : o[a] = placed[a]
      /\ from \in ToSet(o)
      /\ \A b \in (Len(placed) + 1)..(m + 1) : o[b] = from \/ Follows(q, n, o, b)
  <2>1. Places(x, h, o, m)
    BY <1>1, <1>2 DEF Places
  <2>2. x.order = p
    BY <1>1
  <2> QED
    BY <2>1, <2>2, PlacingKeepsOrder
<1>4. s \in Seq(1..n) /\ s # <<>> /\ s[1] = h /\ 1 \in 1..Len(s) /\ Len(s) \in Nat
  <2>1. s \in Seq(1..n) /\ s # <<>>
    BY <1>1 DEF OnTheWay
  <2>2. s[1] = Head(s) /\ 1 \in 1..Len(s) /\ Len(s) \in Nat
    BY <2>1, RestPlaces
  <2> QED
    BY <1>1, <2>1, <2>2
<1>5. Stacks(q, s, h, o, t)
  BY <1>1 DEF Stacks
<1>6. /\ t \in Seq(1..n) /\ Len(t) \in Nat
      /\ \A l \in 1..Len(t) :
           \/ q[t[l]] = h /\ \A k \in 1..(l - 1) : q[t[k]] = h /\ t[k] \in 1..n
           \/ \E j \in 1..Len(s) :
                /\ j # 1 /\ t[l] = s[j]
                /\ \A k \in 1..(l - 1) : \/ q[t[k]] = h /\ t[k] \in 1..n
                                         \/ \E i \in 1..(j - 1) : t[k] = s[i]
      /\ \A v \in 1..n : q[v] = h => v \in ToSet(o) \cup ToSet(t)
      /\ ToSet(s) \subseteq ToSet(t) \cup {h}
  BY <1>4, <1>5, PlacingKeepsStack
<1>7. /\ \A l \in 1..Len(s), a \in 1..m :
           q[s[l]] = p[a] =>
             /\ \A c \in (a + 1)..m : p[a] \in Above(q, n, p[c])
             /\ \A k \in 1..(l - 1) : p[a] \in Above(q, n, s[k])
      /\ \A v \in 1..n : q[v] \in ToSet(p) => v \in ToSet(p) \cup ToSet(s)
      /\ s = <<from>> \/ \A l \in 1..Len(s) : q[s[l]] \in ToSet(p)
  <2>1. /\ \A l \in 1..Len(x.stack), a \in 1..Len(x.order) :
             q[x.stack[l]] = x.order[a] =>
               /\ \A c \in (a + 1)..Len(x.order) : x.order[a] \in Above(q, n, x.order[c])
               /\ \A k \in 1..(l - 1) : x.order[a] \in Above(q, n, x.stack[k])
        /\ \A v \in 1..n : q[v] \in ToSet(x.order) => v \in ToSet(x.order) \cup ToSet(x.stack)
        /\ \/ x.stack = <<from>>
           \/ \A l \in 1..Len(x.stack) : q[x.stack[l]] \in ToSet(x.order)
    BY Zenon DEF OnTheWay
  <2>2. x.stack = s /\ x.order = p
    BY <1>1
  <2> QED
    BY <1>2, <2>1, <2>2, Zenon
<1>8. /\ \A i \in 1..m : p[i] \in ToSet(p) /\ p[i] \in 1..n
      /\ \A i \in 1..(m + 1) : o[i] \in ToSet(o)
  <2>1. p \in Seq(1..n)
    BY <1>1 DEF OnTheWay
  <2>2. \A i \in 1..m : p[i] \in ToSet(p)
    BY <1>2, <2>1, ToSetIs
  <2>3. \A i \in 1..m : p[i] \in 1..n
    BY <1>2, <2>1, ElementOfSeq
  <2>4. PICK k : k = m + 1
    OBVIOUS
  <2>5. k = Len(o) /\ o \in Seq(1..n)
    BY <1>3, <2>4
  <2>6. \A i \in 1..k : o[i] \in ToSet(o)
    BY <2>5, ToSetIs
  <2> QED
    BY <2>2, <2>3, <2>4, <2>6
<1>9. \A l \in 1..Len(s) : l # 1 => q[s[l]] \in ToSet(p)
  <2>1. CASE s = <<from>>
    <3>1. Len(s) = 1
      BY <2>1
    <3> QED
      BY <3>1
  <2> QED
    BY <1>7, <2>1
<1>a. h \notin ToSet(p)
  BY <1>1
<1> HIDE <1>1, <1>2, <1>5
<1>10. \A l \in 1..Len(t) : q[t[l]] \in ToSet(o)
  <2> TAKE l \in 1..Len(t)
  <2>1. CASE q[t[l]] = h
    BY <1>3, <2>1
  <2>2. CASE \E j \in 1..Len(s) : j # 1 /\ t[l] = s[j]
    BY <1>3, <1>9, <2>2
  <2> QED
    BY <1>6, <2>1, <2>2
<1>11. \A v \in 1..n : q[v] \in ToSet(o) => v \in ToSet(o) \cup ToSet(t)
  <2> TAKE v \in 1..n
  <2>1. CASE q[v] = h
    BY <1>6, <2>1
  <2>2. CASE q[v] \in ToSet(p)
    BY <1>3, <1>6, <1>7, <2>2
  <2> QED
    BY <1>3, <2>1, <2>2
<1>12. ASSUME NEW v \in 1..n, q[v] = h PROVE h \in Above(q, n, v) /\ Above(q, n, h) \subseteq Above(q, n, v)
  <2>1. q[v] # 0
    BY <1>3, <1>12
  <2> QED
    BY <1>12, <2>1, AboveSteps
<1>13. ASSUME NEW l \in 1..Len(t), NEW a \in 1..(m + 1), q[t[l]] = o[a]
       PROVE  /\ \A c \in (a + 1)..(m + 1) : o[a] \in Above(q, n, o[c])
              /\ \A k \in 1..(l - 1) : o[a] \in Above(q, n, t[k])
  <2>1. CASE a = m + 1
    <3>1. o[a] = h
      BY <1>3, <2>1
    <3>2. (a + 1)..(m + 1) = {}
      BY <1>3, <2>1
    <3>3. \A k \in 1..(l - 1) : q[t[k]] = h /\ t[k] \in 1..n
      <4>1. CASE \E j \in 1..Len(s) : j # 1 /\ t[l] = s[j]
        <5>1. h \in ToSet(p)
          <6>1. PICK j \in 1..Len(s) : j # 1 /\ t[l] = s[j]
            BY <4>1
          <6>2. q[s[j]] \in ToSet(p)
            BY <1>9, <6>1
          <6> QED
            BY <1>13, <3>1, <6>1, <6>2
        <5>2. FALSE
          BY <1>a, <5>1
        <5> QED
          BY <5>2
      <4> QED
        BY <1>6, <4>1
    <3> QED
      BY <1>12, <3>1, <3>2, <3>3
  <2>2. CASE a \in 1..m
    <3>1. o[a] = p[a] /\ q[t[l]] = p[a] /\ q[t[l]] # h
      BY <1>3, <1>13, <2>2
    <3>2. PICK j \in 1..Len(s) :
            /\ j # 1 /\ t[l] = s[j]
            /\ \A k \in 1..(l - 1) : \/ q[t[k]] = h /\ t[k] \in 1..n
                                     \/ \E i \in 1..(j - 1) : t[k] = s[i]
      BY <1>6, <3>1
    <3>3. /\ \A c \in (a + 1)..m : p[a] \in Above(q, n, p[c])
          /\ \A k \in 1..(j - 1) : p[a] \in Above(q, n, s[k])
      BY <1>7, <2>2, <3>1, <3>2
    <3>4. p[a] \in Above(q, n, h)
      <4>1. 1 \in 1..(j - 1)
        <5>1. j \in Nat /\ j >= 1 /\ j # 1
          BY <1>4, <3>2
        <5> QED
          BY <5>1
      <4> QED
        BY <1>4, <3>3, <4>1
    <3>5. ASSUME NEW c \in (a + 1)..(m + 1) PROVE o[a] \in Above(q, n, o[c])
      <4>1. CASE c = m + 1
        BY <1>3, <3>1, <3>4, <4>1
      <4>2. CASE c # m + 1
        <5>1. c \in (a + 1)..m /\ c \in 1..m
          BY <1>3, <4>2
        <5> QED
          BY <1>3, <3>1, <3>3, <5>1
      <4> QED
        BY <4>1, <4>2
    <3>6. ASSUME NEW k \in 1..(l - 1) PROVE o[a] \in Above(q, n, t[k])
      <4>1. CASE q[t[k]] = h /\ t[k] \in 1..n
        BY <1>12, <3>1, <3>4, <4>1
      <4>2. CASE \E i \in 1..(j - 1) : t[k] = s[i]
        BY <3>1, <3>3, <4>2
      <4> QED
        BY <3>2, <4>1, <4>2
    <3> QED
      BY <3>5, <3>6
  <2> QED
    BY <1>3, <2>1, <2>2
<1>14. o = y.order /\ t = y.stack
  BY <1>1
<1>15. Len(o) = m + 1
  BY <1>3
<1>16. /\ \A a, b \in 1..Len(o) : o[a] = o[b] => a = b
       /\ Len(placed) <= Len(o)
       /\ \A b \in (Len(placed) + 1)..Len(o) : o[b] = from \/ Follows(q, n, o, b)
  BY <1>3, <1>15, Zenon
<1>17. \A l \in 1..Len(t), a \in 1..Len(o) :
         q[t[l]] = o[a] =>
           /\ \A c \in (a + 1)..Len(o) : o[a] \in Above(q, n, o[c])
           /\ \A k \in 1..(l - 1) : o[a] \in Above(q, n, t[k])
  BY <1>13, <1>15, Zenon
<1>18. o \in Seq(1..n) /\ t \in Seq(1..n) /\ from \in ToSet(o)
       /\ \A a \in 1..Len(placed) : o[a] = placed[a]
  BY <1>3, <1>6
<1> QED
  BY <1>10, <1>11, <1>14, <1>16, <1>17, <1>18, Zenon DEF OnTheWay

\* Where a walk entered what the top does not lead to: its starter is not there yet, a
\* circle leads there, and an executor of a circle is followed by the others it
\* descends from.
Entered(q, n, order, b) ==
  /\ \A a \in 1..(b - 1) : order[a] # q[order[b]]
  /\ \E j \in Above(q, n, order[b]) : j \in Above(q, n, j)
  /\ order[b] \in Above(q, n, order[b]) =>
       \A j \in Above(q, n, order[b]) \ {order[b]} :
         \E c \in 1..Len(order) : order[c] = j /\ Follows(q, n, order, c)

\* Of the executors placed, what they started is placed.
IsWhole(q, n, order) == \A v \in 1..n : q[v] \in ToSet(order) => v \in ToSet(order)

\* How executors are placed, walk after walk.
Arranged(q, n, order) ==
  /\ order \in Seq(1..n)
  /\ \A a, b \in 1..Len(order) : order[a] = order[b] => a = b
  /\ IsWhole(q, n, order)
  /\ \A b \in 1..Len(order) :
       q[order[b]] = 0 \/ Follows(q, n, order, b) \/ Entered(q, n, order, b)

\* Whoever descends from a placed executor is placed.
LEMMA DescendantsArePlaced ==
  ASSUME NEW q, NEW n, AreStarters(q, n), NEW order \in Seq(1..n), IsWhole(q, n, order),
         NEW i \in 1..n, NEW a \in Above(q, n, i), a \in ToSet(order)
  PROVE  i \in ToSet(order)
<1> DEFINE C == (1..n) \ ToSet(order)
<1>1. SUFFICES ASSUME i \notin ToSet(order) PROVE FALSE
  OBVIOUS
<1>2. \A c \in C : q[c] \in C \cup {0}
  BY DEF IsWhole, AreStarters
<1>3. q[i] \in C \cup {0}
  BY <1>1, <1>2
<1>4. C \in SUBSET (1..n)
  OBVIOUS
<1>5. a \notin C
  OBVIOUS
<1> HIDE DEF C
<1>6. UpClosed(q, C)
  BY <1>2 DEF UpClosed
<1> QED
  BY <1>3, <1>4, <1>5, <1>6 DEF Above

\* What is entered stays entered.
LEMMA EnteredGrows ==
  ASSUME NEW q, NEW n, NEW S, NEW order \in Seq(S), NEW more \in Seq(S), Len(order) <= Len(more),
         \A a \in 1..Len(order) : more[a] = order[a],
         NEW b \in 1..Len(order), Entered(q, n, order, b)
  PROVE  Entered(q, n, more, b)
<1>1. more[b] = order[b] /\ Len(order) \in Nat /\ Len(more) \in Nat
  OBVIOUS
<1>2. ASSUME order[b] \in Above(q, n, order[b]), NEW j \in Above(q, n, order[b]) \ {order[b]}
      PROVE  \E c \in 1..Len(more) : more[c] = j /\ Follows(q, n, more, c)
  <2>1. PICK c \in 1..Len(order) : order[c] = j /\ Follows(q, n, order, c)
    BY <1>2 DEF Entered
  <2>2. Follows(q, n, more, c)
    BY <2>1, FollowsGrows
  <2>3. c \in 1..Len(more) /\ more[c] = j
    BY <1>1, <2>1
  <2> QED
    BY <2>2, <2>3
<1>3. \E j \in Above(q, n, more[b]) : j \in Above(q, n, j)
  BY <1>1 DEF Entered
<1>4. ASSUME NEW a \in 1..(b - 1) PROVE more[a] # q[more[b]]
  <2>1. a \in 1..Len(order)
    BY <1>1
  <2>2. order[a] # q[order[b]]
    BY DEF Entered
  <2> QED
    BY <1>1, <2>1, <2>2
<1> QED
  BY <1>1, <1>2, <1>3, <1>4 DEF Entered

\* A walk begins on its way.
LEMMA WalkBegins ==
  ASSUME NEW q, NEW n, AreStarters(q, n), NEW from \in 1..n, NEW placed,
         Arranged(q, n, placed), from \notin ToSet(placed),
         NEW x \in Walks, x.stack = <<from>>, x.order = placed
  PROVE  OnTheWay(q, n, from, placed, x)
<1>1. /\ placed \in Seq(1..n) /\ IsWhole(q, n, placed)
      /\ \A a, b \in 1..Len(placed) : placed[a] = placed[b] => a = b
  BY DEF Arranged
<1>2. PICK s : s = <<from>>
  OBVIOUS
<1>3. s \in Seq(1..n) /\ Len(s) = 1 /\ s[1] = from
  BY <1>2
<1>4. \A l \in 1..Len(s) : s[l] = from
  BY <1>3
<1>5. \A a \in 1..Len(placed) : placed[a] \in ToSet(placed)
  BY <1>1, ToSetIs
<1>6. \A a \in 1..Len(placed) : q[from] # placed[a]
  BY <1>1, <1>5 DEF IsWhole
<1>7. PICK k \in Nat : k = Len(placed)
  BY <1>1
<1>8. (k + 1)..k = {}
  OBVIOUS
<1>9. x.stack = s /\ x.order = placed
  BY <1>2
<1>10. \A l \in 1..Len(s), a \in 1..Len(placed) : q[s[l]] # placed[a]
  BY <1>4, <1>6
<1>11. \A v \in 1..n : q[v] \in ToSet(placed) => v \in ToSet(placed) \cup ToSet(s)
  BY <1>1 DEF IsWhole
<1>12. \A b \in (Len(placed) + 1)..Len(placed) :
         placed[b] = from \/ Follows(q, n, placed, b)
  BY <1>7, <1>8
<1>13. Len(placed) <= Len(placed)
  BY <1>7
<1> QED
  BY <1>1, <1>2, <1>3, <1>9, <1>10, <1>11, <1>12, <1>13 DEF OnTheWay

\* Where a walk ends.
LEMMA WalkEndsArranged ==
  ASSUME NEW q, NEW n, AreStarters(q, n), NEW from \in 1..n, NEW placed,
         Arranged(q, n, placed), from \notin ToSet(placed),
         NEW y, OnTheWay(q, n, from, placed, y), y.stack = <<>>,
         q[from] = 0 \/ \E j \in Above(q, n, from) : j \in Above(q, n, j)
  PROVE  /\ Arranged(q, n, y.order) /\ from \in ToSet(y.order)
         /\ ToSet(placed) \subseteq ToSet(y.order)
<1>1. PICK o : o = y.order
  OBVIOUS
<1>2. /\ placed \in Seq(1..n) /\ IsWhole(q, n, placed)
      /\ \A b \in 1..Len(placed) :
           q[placed[b]] = 0 \/ Follows(q, n, placed, b) \/ Entered(q, n, placed, b)
  BY DEF Arranged
<1>3. y.stack # <<from>> /\ ToSet(y.stack) = {}
  <2>1. <<from>> # <<>>
    OBVIOUS
  <2>2. ToSet(<<>>) = {}
    BY DEF ToSet
  <2> QED
    BY <2>1, <2>2
<1>4. /\ o \in Seq(1..n) /\ \A a, b \in 1..Len(o) : o[a] = o[b] => a = b
      /\ Len(placed) <= Len(o) /\ \A a \in 1..Len(placed) : o[a] = placed[a]
      /\ from \in ToSet(o)
      /\ \A v \in 1..n : q[v] \in ToSet(o) => v \in ToSet(o)
      /\ \A b \in (Len(placed) + 1)..Len(o) : o[b] = from \/ Follows(q, n, o, b)
  BY <1>1, <1>3 DEF OnTheWay
<1>5. IsWhole(q, n, o)
  BY <1>4 DEF IsWhole
<1>6. /\ Len(placed) \in Nat /\ Len(o) \in Nat
      /\ \A v \in ToSet(o) : \E c \in 1..Len(o) : o[c] = v
      /\ \A v \in ToSet(placed) : \E c \in 1..Len(placed) : placed[c] = v
      /\ \A c \in 1..Len(o) : o[c] \in ToSet(o)
      /\ \A c \in 1..Len(placed) : placed[c] \in ToSet(placed)
  BY <1>2, <1>4, ToSetIs
<1>7. \A c \in 1..Len(o) : c \in 1..Len(placed) \/ c \in (Len(placed) + 1)..Len(o)
  BY <1>6
<1>8. \A c \in 1..Len(placed) : c \in 1..Len(o)
  BY <1>4, <1>6
<1>9. ASSUME NEW b \in 1..Len(o), o[b] = from, q[from] # 0 PROVE Entered(q, n, o, b)
  <2>1. \E j \in Above(q, n, from) : j \in Above(q, n, j)
    BY <1>9
  <2>2. ASSUME from \in Above(q, n, from), NEW j \in Above(q, n, from) \ {from}
        PROVE  \E c \in 1..Len(o) : o[c] = j /\ Follows(q, n, o, c)
    <3>1. from \in Above(q, n, j) /\ j \in 1..n
      BY <2>2, CirclesClose DEF Above
    <3>2. j \in ToSet(o)
      BY <1>4, <1>5, <3>1, DescendantsArePlaced
    <3>3. PICK c \in 1..Len(o) : o[c] = j
      BY <1>6, <3>2
    <3>4. j \notin ToSet(placed)
      BY <1>2, <2>2, DescendantsArePlaced
    <3>5. c \notin 1..Len(placed)
      BY <1>4, <1>6, <3>3, <3>4
    <3>6. Follows(q, n, o, c)
      BY <1>4, <1>7, <2>2, <3>3, <3>5
    <3> QED
      BY <3>3, <3>6
  <2>3. b = Len(placed) + 1
    <3>1. SUFFICES ASSUME b # Len(placed) + 1 PROVE FALSE
      OBVIOUS
    <3>2. PICK k \in Nat : k = Len(placed)
      BY <1>6
    <3>3. b \notin 1..Len(placed)
      BY <1>4, <1>6, <1>9
    <3>4. k + 1 \in 1..Len(o) /\ k + 1 # b /\ k + 1 \in (Len(placed) + 1)..Len(o)
      BY <1>4, <1>6, <3>1, <3>2, <3>3
    <3>5. o[k + 1] # from
      BY <1>4, <1>9, <3>4
    <3>6. PICK a \in 1..k : o[a] = q[o[k + 1]]
      <4>1. PICK p : p = k + 1
        OBVIOUS
      <4>2. Follows(q, n, o, p)
        BY <1>4, <3>4, <3>5, <4>1
      <4>3. \E c \in 1..(p - 1) : o[c] = q[o[p]]
        BY <4>2 DEF Follows
      <4>4. p - 1 = k
        BY <3>2, <4>1
      <4>5. 1..(p - 1) = 1..k /\ o[p] = o[k + 1]
        BY <4>1, <4>4
      <4> QED
        BY <4>3, <4>5, Zenon
    <3>7. o[k + 1] \in 1..n
      <4>1. \A c \in 1..Len(o) : o[c] \in 1..n
        BY <1>4, ElementOfSeq
      <4> QED
        BY <3>4, <4>1
    <3>8. q[o[k + 1]] \in ToSet(placed)
      <4>1. a \in 1..Len(placed) /\ o[a] = placed[a]
        BY <1>4, <3>2
      <4>2. placed[a] \in ToSet(placed)
        BY <1>6, <4>1
      <4> QED
        BY <3>6, <4>1, <4>2
    <3>9. o[k + 1] \in ToSet(placed)
      <4>1. PICK v : v = o[k + 1]
        OBVIOUS
      <4>2. v \in 1..n /\ q[v] \in ToSet(placed)
        BY <3>7, <3>8, <4>1
      <4> QED
        BY <1>2, <4>1, <4>2 DEF IsWhole
    <3>10. PICK c \in 1..k : o[c] = o[k + 1]
      <4>1. PICK c \in 1..Len(placed) : placed[c] = o[k + 1]
        BY <1>6, <3>9
      <4> QED
        BY <1>4, <3>2, <4>1
    <3>11. c \in 1..Len(o) /\ c # k + 1
      BY <1>8, <3>2, <3>10
    <3> QED
      BY <1>4, <3>4, <3>10, <3>11
  <2>4. ASSUME NEW a \in 1..(b - 1) PROVE o[a] # q[o[b]]
    <3>1. a \in 1..Len(placed)
      BY <1>6, <2>3
    <3>2. o[a] \in ToSet(placed)
      BY <1>4, <1>6, <3>1
    <3> QED
      BY <1>2, <1>9, <3>2 DEF IsWhole
  <2> QED
    BY <1>9, <2>1, <2>2, <2>4 DEF Entered
<1>10. ASSUME NEW b \in 1..Len(o)
       PROVE  q[o[b]] = 0 \/ Follows(q, n, o, b) \/ Entered(q, n, o, b)
  <2>1. CASE b \in 1..Len(placed)
    <3>1. o[b] = placed[b]
      BY <1>4, <2>1
    <3>2. CASE Follows(q, n, placed, b)
      BY <1>2, <1>4, <2>1, <3>2, FollowsGrows
    <3>3. CASE Entered(q, n, placed, b)
      BY <1>2, <1>4, <2>1, <3>3, EnteredGrows
    <3> QED
      BY <1>2, <2>1, <3>1, <3>2, <3>3
  <2>2. CASE b \in (Len(placed) + 1)..Len(o)
    BY <1>4, <1>9, <2>2
  <2> QED
    BY <1>7, <2>1, <2>2
<1>11. ToSet(placed) \subseteq ToSet(o)
  <2>1. ASSUME NEW v \in ToSet(placed) PROVE v \in ToSet(o)
    <3>1. PICK c \in 1..Len(placed) : placed[c] = v
      BY <1>6
    <3>2. c \in 1..Len(o) /\ o[c] = v
      BY <1>4, <1>8, <3>1
    <3> QED
      BY <1>6, <3>2
  <2> QED
    BY <2>1
<1> QED
  BY <1>1, <1>4, <1>5, <1>10, <1>11 DEF Arranged

\* A walk places executors as they should be.
LEMMA WalkArranges ==
  ASSUME NEW q, NEW n, AreStarters(q, n), NEW from \in 1..n, NEW placed,
         Arranged(q, n, placed), from \notin ToSet(placed),
         q[from] = 0 \/ \E j \in Above(q, n, from) : j \in Above(q, n, j)
  PROVE  /\ Arranged(q, n, DepthFirst(q, from, placed))
         /\ from \in ToSet(DepthFirst(q, from, placed))
         /\ ToSet(placed) \subseteq ToSet(DepthFirst(q, from, placed))
<1> DEFINE I == {x \in Walks : OnTheWay(q, n, from, placed, x)}
           begin == [stack |-> <<from>>, order |-> placed]
<1>1. placed \in Seq(1..n) /\ n \in Nat
  BY DEF Arranged, AreStarters
<1>2. placed \in Seq(Nat) /\ from \in Nat
  <2>1. 1..n \subseteq Nat
    BY <1>1
  <2> QED
    BY <1>1, <2>1, SeqOfPart
<1>3. begin \in Walks /\ begin.stack = <<from>> /\ begin.order = placed
  BY <1>2 DEF Walks
<1>4. begin \in I
  <2> HIDE DEF begin
  <2>1. OnTheWay(q, n, from, placed, begin)
    BY <1>3, WalkBegins
  <2> QED
    BY <1>3, <2>1
<1>5. ASSUME NEW x \in I, x.stack # <<>> PROVE NextStep(q, x) \in I
  <2>1. x \in Walks /\ OnTheWay(q, n, from, placed, x)
    BY <1>5
  <2>2. PICK y : y = NextStep(q, x)
    OBVIOUS
  <2> HIDE DEF I
  <2>3. /\ y \in Walks
        /\ Head(x.stack) \in ToSet(x.order) =>
             y.stack = Tail(x.stack) /\ y.order = x.order
        /\ Head(x.stack) \notin ToSet(x.order) =>
             /\ y.order = Append(x.order, Head(x.stack))
             /\ y.stack = StartedBy(q, Head(x.stack), y.order) \o Tail(x.stack)
    <3>1. StepsTo(q, x, NextStep(q, x))
      BY <1>5, <2>1, StepIs
    <3> QED
      BY <2>2, <3>1, Zenon DEF StepsTo
  <2>4. CASE Head(x.stack) \in ToSet(x.order)
    <3>1. x.stack # <<from>> \/ x.order # placed
      BY <2>4, HeadOfOne
    <3>2. y.stack = Tail(x.stack) /\ y.order = x.order
      BY <2>3, <2>4
    <3>3. OnTheWay(q, n, from, placed, y)
      BY <1>1, <1>5, <2>1, <2>3, <2>4, <3>1, <3>2, PassingOverKeeps
    <3> QED
      BY <2>2, <2>3, <3>3 DEF I
  <2>5. CASE Head(x.stack) \notin ToSet(x.order)
    <3>1. /\ y.order = Append(x.order, Head(x.stack))
          /\ y.stack = StartedBy(q, Head(x.stack), y.order) \o Tail(x.stack)
      BY <2>3, <2>5
    <3>2. OnTheWay(q, n, from, placed, y)
      BY <1>1, <1>5, <2>1, <2>3, <2>5, <3>1, PlacingKeeps
    <3> QED
      BY <2>2, <2>3, <3>2 DEF I
  <2> QED
    BY <2>4, <2>5
<1>6. \E y \in I : y.stack = <<>> /\ DepthFirst(q, from, placed) = y.order
  <2>1. I \in SUBSET Walks
    OBVIOUS
  <2>2. [stack |-> <<from>>, order |-> placed] \in I
    BY <1>4
  <2> HIDE DEF I
  <2> QED
    BY <1>2, <1>5, <2>1, <2>2, WalkEnds
<1>7. PICK y : /\ OnTheWay(q, n, from, placed, y) /\ y.stack = <<>>
               /\ DepthFirst(q, from, placed) = y.order
  BY <1>6
<1> QED
  BY <1>7, WalkEndsArranged

\* A pass takes the executors one by one: h[k] is the order after k of them.
Passes(h, q, n, onlyTop, placed) ==
  /\ h[0] = placed
  /\ \A k \in 1..n : h[k] = IF PassedOver(q, onlyTop, h[k - 1], k) THEN h[k - 1]
                             ELSE DepthFirst(q, k, h[k - 1])

\* The order that a walk leaves is a sequence, wherever it begins.
LEMMA DepthFirstIsTyped ==
  ASSUME NEW q, NEW n, AreStarters(q, n), NEW from \in Nat, NEW placed \in Seq(Nat)
  PROVE  DepthFirst(q, from, placed) \in Seq(Nat)
<1>1. [stack |-> <<from>>, order |-> placed] \in Walks
  BY DEF Walks
<1>2. \A x \in Walks : x.stack # <<>> => NextStep(q, x) \in Walks
  BY StepIs DEF StepsTo
<1>3. \E y \in Walks : y.stack = <<>> /\ DepthFirst(q, from, placed) = y.order
  BY <1>1, <1>2, WalkEnds
<1> QED
  BY <1>3 DEF Walks

\* What a pass does.
LEMMA PassIs ==
  ASSUME NEW q, NEW n, AreStarters(q, n), NEW onlyTop, NEW placed \in Seq(Nat)
  PROVE  \E h : Passes(h, q, n, onlyTop, placed) /\ Pass(q, onlyTop, placed) = h[n]
<1> DEFINE Step(order, i) == IF PassedOver(q, onlyTop, order, i) THEN order
                             ELSE DepthFirst(q, i, order)
           step == [p \in Seq(Nat) \X (1..n) |-> Step(p[1], p[2])]
           ids == [i \in DOMAIN q |-> i]
           IsFold(g) == g = [T \in SUBSET DOMAIN ids |->
                               IF T = {} THEN placed
                               ELSE Step(g[T \ {Max(T)}], ids[Max(T)])]
<1>1. n \in Nat /\ DOMAIN ids = 1..n /\ \A i \in 1..n : ids[i] = i
  BY DEF AreStarters
<1>2. ASSUME NEW order \in Seq(Nat), NEW i \in 1..n PROVE Step(order, i) \in Seq(Nat)
  <2>1. i \in Nat
    BY <1>1
  <2>2. DepthFirst(q, i, order) \in Seq(Nat)
    BY <2>1, DepthFirstIsTyped
  <2> QED
    BY <2>2
<1>3. Pass(q, onlyTop, placed) = (CHOOSE g : IsFold(g))[DOMAIN ids]
  BY Zenon DEF Pass, FoldLeft, MapThenFoldSet
<1> HIDE DEF Step, ids
<1>4. step \in [Seq(Nat) \X (1..n) -> Seq(Nat)]
  BY <1>2
<1>5. \A order \in Seq(Nat), i \in 1..n : step[<<order, i>>] = Step(order, i)
  OBVIOUS
<1> HIDE DEF step
<1>6. \A T \in SUBSET (1..n) : T # {} => Max(T) \in T
  <2> TAKE T \in SUBSET (1..n)
  <2>1. IsFiniteSet(1..n)
    BY <1>1, FS_Interval
  <2>2. IsFiniteSet(T) /\ T \subseteq Int
    <3>1. IsFiniteSet(T)
      BY <2>1, FS_Subset
    <3> QED
      BY <3>1
  <2> QED
    BY <2>2, MaxIsGreatest
<1>7. \E g : IsFold(g)
  <2>1. PICK g \in [SUBSET (1..n) -> Seq(Nat)] : FoldTo(g, n, placed, step)
    BY <1>1, <1>4, FoldIsTyped
  <2>2. g = [T \in SUBSET (1..n) |-> IF T = {} THEN placed ELSE step[<<g[T \ {Max(T)}], Max(T)>>]]
    BY <2>1, Zenon DEF FoldTo
  <2>3. ASSUME NEW T \in SUBSET (1..n), T # {}
        PROVE  step[<<g[T \ {Max(T)}], Max(T)>>] = Step(g[T \ {Max(T)}], ids[Max(T)])
    <3>1. Max(T) \in 1..n /\ T \ {Max(T)} \in SUBSET (1..n)
      BY <1>6, <2>3
    <3>2. g[T \ {Max(T)}] \in Seq(Nat)
      BY <2>1, <3>1
    <3> QED
      BY <1>1, <1>5, <3>1, <3>2
  <2>4. g = [T \in SUBSET (1..n) |-> g[T]]
    BY <2>1
  <2>5. \A T \in SUBSET (1..n) : g[T] = IF T = {} THEN placed ELSE Step(g[T \ {Max(T)}], ids[Max(T)])
    <3> TAKE T \in SUBSET (1..n)
    <3>1. g[T] = IF T = {} THEN placed ELSE step[<<g[T \ {Max(T)}], Max(T)>>]
      BY <2>2, Zenon
    <3> QED
      BY <2>3, <3>1, Zenon
  <2>6. g = [T \in SUBSET (1..n) |-> IF T = {} THEN placed ELSE Step(g[T \ {Max(T)}], ids[Max(T)])]
    BY <2>4, <2>5
  <2>7. IsFold(g)
    BY <1>1, <2>6
  <2> QED
    BY <2>7
<1>8. PICK g : g = CHOOSE f : IsFold(f)
  OBVIOUS
<1>9. IsFold(g)
  BY <1>7, <1>8, Zenon
<1>10. \A T \in SUBSET (1..n) : g[T] = IF T = {} THEN placed ELSE Step(g[T \ {Max(T)}], ids[Max(T)])
  BY <1>1, <1>9
<1> HIDE DEF IsFold
<1> DEFINE h == [k \in 0..n |-> g[1..k]]
<1>11. h[0] = placed
  <2>1. 1..0 = {} /\ 0 \in 0..n
    BY <1>1
  <2> QED
    BY <1>10, <2>1
<1>12. ASSUME NEW k \in 1..n PROVE h[k] = Step(h[k - 1], k)
  <2>1. k \in Nat /\ k # 0 /\ k \in 0..n /\ k - 1 \in 0..n /\ 1..k \in SUBSET (1..n)
    BY <1>1
  <2>2. 1..k # {} /\ Max(1..k) = k /\ (1..k) \ {k} = 1..(k - 1)
    BY <2>1, UpTo
  <2>3. g[1..k] = Step(g[1..(k - 1)], ids[k])
    BY <1>10, <2>1, <2>2
  <2> QED
    BY <1>1, <2>1, <2>3
<1>13. Pass(q, onlyTop, placed) = h[n]
  <2>1. n \in 0..n
    BY <1>1
  <2> QED
    BY <1>1, <1>3, <1>8, <2>1
<1> HIDE DEF h
<1>14. Passes(h, q, n, onlyTop, placed)
  BY <1>11, <1>12 DEF Passes, Step
<1> QED
  BY <1>13, <1>14

\* Nothing is arranged.
LEMMA NothingIsArranged ==
  ASSUME NEW q, NEW n, AreStarters(q, n)
  PROVE  Arranged(q, n, <<>>)
<1>1. <<>> \in Seq(1..n) /\ Len(<<>>) = 0
  OBVIOUS
<1>2. 1..Len(<<>>) = {}
  OBVIOUS
<1>3. ToSet(<<>>) = {}
  BY DEF ToSet
<1>4. IsWhole(q, n, <<>>)
  BY <1>3 DEF IsWhole
<1> QED
  BY <1>1, <1>2, <1>4 DEF Arranged

\* A pass over all executors.
LEMMA PassArranges ==
  ASSUME NEW q, NEW n, AreStarters(q, n), NEW onlyTop \in BOOLEAN, NEW placed,
         Arranged(q, n, placed),
         ~onlyTop => \A i \in 1..n : q[i] = 0 => i \in ToSet(placed)
  PROVE  /\ Arranged(q, n, Pass(q, onlyTop, placed))
         /\ \A i \in 1..n : (onlyTop => q[i] = 0) => i \in ToSet(Pass(q, onlyTop, placed))
<1>1. placed \in Seq(1..n) /\ n \in Nat
  BY DEF Arranged, AreStarters
<1>2. placed \in Seq(Nat)
  <2>1. 1..n \subseteq Nat
    BY <1>1
  <2> QED
    BY <1>1, <2>1, SeqOfPart
<1>3. PICK h : Passes(h, q, n, onlyTop, placed) /\ Pass(q, onlyTop, placed) = h[n]
  BY <1>2, PassIs
<1> DEFINE Good(k) == /\ Arranged(q, n, h[k]) /\ ToSet(placed) \subseteq ToSet(h[k])
                      /\ \A i \in 1..k : (onlyTop => q[i] = 0) => i \in ToSet(h[k])
           T == {k \in 0..n : Good(k)}
<1>4. Good(0)
  BY <1>3 DEF Passes
<1>5. ASSUME NEW k \in 1..n, Good(k - 1) PROVE Good(k)
  <2>1. PICK order : order = h[k - 1]
    OBVIOUS
  <2>2. /\ Arranged(q, n, order) /\ ToSet(placed) \subseteq ToSet(order)
        /\ \A i \in 1..(k - 1) : (onlyTop => q[i] = 0) => i \in ToSet(order)
    BY <1>5, <2>1
  <2>3. h[k] = IF PassedOver(q, onlyTop, order, k) THEN order ELSE DepthFirst(q, k, order)
    BY <1>3, <2>1 DEF Passes
  <2>4. \A i \in 1..k : i = k \/ i \in 1..(k - 1)
    BY <1>1
  <2>5. CASE PassedOver(q, onlyTop, order, k)
    <3>1. h[k] = order
      BY <2>3, <2>5
    <3>2. (onlyTop => q[k] = 0) => k \in ToSet(order)
      BY <2>5 DEF PassedOver
    <3> QED
      BY <2>2, <2>4, <3>1, <3>2
  <2>6. CASE ~PassedOver(q, onlyTop, order, k)
    <3>1. h[k] = DepthFirst(q, k, order)
      BY <2>3, <2>6
    <3>2. k \notin ToSet(order) /\ (onlyTop => q[k] = 0)
      BY <2>6 DEF PassedOver
    <3>3. q[k] = 0 \/ \E j \in Above(q, n, k) : j \in Above(q, n, j)
      <4>1. SUFFICES ASSUME q[k] # 0 PROVE \E j \in Above(q, n, k) : j \in Above(q, n, j)
        OBVIOUS
      <4>2. ASSUME NEW j \in Above(q, n, k) PROVE q[j] # 0
        <5>1. SUFFICES ASSUME q[j] = 0 PROVE FALSE
          OBVIOUS
        <5>2. j \in 1..n
          BY <4>2, AboveIsTransitive
        <5>3. j \in ToSet(order)
          BY <2>2, <3>2, <4>1, <5>1, <5>2
        <5>4. order \in Seq(1..n) /\ IsWhole(q, n, order)
          BY <2>2 DEF Arranged
        <5> QED
          BY <3>2, <4>2, <5>3, <5>4, DescendantsArePlaced
      <4> QED
        BY <4>1, <4>2, CircleExists
    <3>4. PICK more : more = DepthFirst(q, k, order)
      OBVIOUS
    <3>5. Arranged(q, n, more) /\ k \in ToSet(more) /\ ToSet(order) \subseteq ToSet(more)
      BY <2>2, <3>2, <3>3, <3>4, WalkArranges
    <3>6. h[k] = more
      BY <3>1, <3>4
    <3> QED
      BY <2>2, <2>4, <3>5, <3>6
  <2> QED
    BY <2>5, <2>6
<1>6. 0 \in T
  BY <1>1, <1>4
<1>7. \A k \in 0..(n - 1) : k \in T => k + 1 \in T
  <2>1. ASSUME NEW k \in 0..(n - 1), Good(k) PROVE Good(k + 1)
    <3>1. PICK m : m = k + 1
      OBVIOUS
    <3>2. m \in 1..n /\ m - 1 = k
      BY <1>1, <3>1
    <3> HIDE DEF Good
    <3>3. Good(m - 1)
      BY <2>1, <3>2
    <3> QED
      BY <1>5, <3>1, <3>2, <3>3
  <2>2. \A k \in 0..(n - 1) : k + 1 \in 0..n
    BY <1>1
  <2> HIDE DEF Good
  <2> QED
    BY <2>1, <2>2
<1>8. n \in T
  <2>1. \A k \in 0..n : k \in T
    <3> HIDE DEF T
    <3> QED
      BY <1>1, <1>6, <1>7, CountsUp
  <2>2. n \in 0..n
    BY <1>1
  <2> HIDE DEF T
  <2> QED
    BY <2>1, <2>2
<1>9. Good(n)
  <2> HIDE DEF Good
  <2> QED
    BY <1>8
<1> QED
  BY <1>3, <1>9

\* The starter of an executor, as the declarations of both tell it.
Starts(ex, s, i) == s # i /\ ex[i].parent # None /\ ex[s].subagent = ex[i].parent

LEMMA StarterTells ==
  ASSUME NEW n \in Nat, NEW ex, DOMAIN ex = 1..n, NEW i \in 1..n
  PROVE  /\ StarterOf(ex, i) = 0 => \A j \in 1..n : ~Starts(ex, j, i)
         /\ StarterOf(ex, i) # 0 => StarterOf(ex, i) \in 1..n /\ Starts(ex, StarterOf(ex, i), i)
<1> DEFINE there == {j \in DOMAIN ex \ {i} : ex[i].parent # None /\ ex[j].subagent = ex[i].parent}
<1>1. StarterOf(ex, i) = IF there = {} THEN 0 ELSE Min(there)
  BY Zenon DEF StarterOf
<1>2. there = {j \in 1..n : Starts(ex, j, i)}
  BY DEF Starts
<1> HIDE DEF there
<1>3. CASE there = {}
  BY <1>1, <1>2, <1>3
<1>4. CASE there # {}
  <2>1. there \in SUBSET Nat
    BY <1>2
  <2>2. Min(there) \in there
    BY <1>4, <2>1, MinOfNumbers
  <2>3. Min(there) \in 1..n /\ Starts(ex, Min(there), i)
    BY <1>2, <2>2
  <2>4. StarterOf(ex, i) = Min(there) /\ Min(there) # 0
    <3>1. \A k \in 1..n : k # 0
      OBVIOUS
    <3> QED
      BY <1>1, <1>4, <2>3, <3>1
  <2> QED
    BY <2>3, <2>4
<1> QED
  BY <1>3, <1>4

\* A starter is another executor of the turn.
LEMMA StartersAreStarters ==
  ASSUME NEW n \in Nat, NEW ex, DOMAIN ex = 1..n,
         NEW q, q = [i \in 1..n |-> StarterOf(ex, i)]
  PROVE  AreStarters(q, n) /\ \A i \in 1..n : q[i] = StarterOf(ex, i)
<1>1. ASSUME NEW i \in 1..n PROVE StarterOf(ex, i) \in 0..n /\ StarterOf(ex, i) # i
  <2>1. StarterOf(ex, i) # 0 => StarterOf(ex, i) \in 1..n /\ Starts(ex, StarterOf(ex, i), i)
    BY StarterTells
  <2> QED
    BY <2>1 DEF Starts
<1> QED
  BY <1>1 DEF AreStarters

\* The order of the executors of a turn: everyone has a place in it.
LEMMA StartedFirstArranges ==
  ASSUME NEW n \in Nat, NEW ex, DOMAIN ex = 1..n
  PROVE  \E q, order :
           /\ AreStarters(q, n) /\ \A i \in 1..n : q[i] = StarterOf(ex, i)
           /\ Arranged(q, n, order) /\ \A i \in 1..n : i \in ToSet(order)
           /\ StartedFirst(ex) = [k \in DOMAIN order |-> ex[order[k]]]
<1> DEFINE starts == [i \in 1..n |-> StarterOf(ex, i)]
<1>1. PICK q : q = starts
  OBVIOUS
<1>2. AreStarters(q, n) /\ \A i \in 1..n : q[i] = StarterOf(ex, i)
  BY <1>1, StartersAreStarters
<1>3. Evaluated([i \in DOMAIN ex |-> StarterOf(ex, i)]) = q
  <2>1. q = [i \in 1..n |-> q[i]]
    BY <1>1
  <2>2. Evaluated(q) = q
    BY <2>1, EvaluatedIsItself
  <2>3. [i \in DOMAIN ex |-> StarterOf(ex, i)] = q
    BY <1>1
  <2> QED
    BY <2>2, <2>3
<1>4. PICK top : top = Pass(q, TRUE, <<>>)
  OBVIOUS
<1>5. Arranged(q, n, top) /\ \A i \in 1..n : q[i] = 0 => i \in ToSet(top)
  <2>1. Arranged(q, n, <<>>)
    BY <1>2, NothingIsArranged
  <2> QED
    BY <1>2, <1>4, <2>1, PassArranges
<1>6. PICK order : order = Pass(q, FALSE, top)
  OBVIOUS
<1>7. Arranged(q, n, order) /\ \A i \in 1..n : i \in ToSet(order)
  BY <1>2, <1>5, <1>6, PassArranges
<1>8. StartedFirst(ex) = [k \in DOMAIN order |-> ex[order[k]]]
  BY <1>3, <1>4, <1>6, Zenon DEF StartedFirst
<1> QED
  BY <1>2, <1>7, <1>8

-----------------------------------------------------------------------------
(* Segments and their order. *)

\* What is needed of turns: each exchange has the number of one, or 0, and each turn
\* has an exchange.
AreTurns(turns, n) ==
  /\ Len(turns.ids) \in Nat /\ Len(turns.of) = n /\ DOMAIN turns.of = 1..n
  /\ \A i \in 1..n : turns.of[i] \in 0..Len(turns.ids)
  /\ \A t \in 1..Len(turns.ids) : \E i \in 1..n : turns.of[i] = t

\* What is needed of a derived structure to view it: it is cut, its exchanges have
\* times, and the key of an exchange is its turn and a group, declared or a line.
IsDerived(d, n) ==
  /\ n \in Nat /\ IsCut(d, n)
  /\ DOMAIN d.exchanges = 1..n /\ Len(d.exchanges) = n
  /\ \A i \in 1..n : d.exchanges[i].at \in Int /\ d.exchanges[i].end \in Int
  /\ AreTurns(d.turns, n)
  /\ \A i \in 1..n : /\ d.key[i] = <<d.turns.of[i], d.key[i][2]>>
                     /\ d.key[i][2] = <<d.key[i][2][1], d.key[i][2][2]>>
  /\ \A i, j \in 1..n : d.key[i][2][1] = "declared" => d.key[j][2][1] = "declared"

\* The head of an exchange is in its segment, and its own head.
LEMMA HeadsHaveMembers ==
  ASSUME NEW d, NEW n, IsDerived(d, n), NEW i \in 1..n
  PROVE  /\ d.head[i] \in 1..n /\ d.head[d.head[i]] = d.head[i]
         /\ d.key[d.head[i]] = d.key[i] /\ (i \in d.sides => d.head[i] = i)
         /\ d.head[i] \in d.sides => d.head[i] = i
<1>1. /\ DOMAIN d.key = 1..n /\ n \in Nat /\ d.sides = Sides(d.bases, d.key)
      /\ \A j \in 1..n : d.head[j] = HeadOf(d.key, d.sides, j)
  BY DEF IsDerived, IsCut
<1> DEFINE Of(j) == Segment(d.key, d.sides, j)
<1>2. ASSUME NEW j \in 1..n
      PROVE  j \in Of(j) /\ Of(j) \in SUBSET (1..n) /\ d.head[j] = Min(Of(j)) /\ Min(Of(j)) \in Of(j)
  <2>1. j \in Of(j) /\ Of(j) \in SUBSET (1..n)
    BY <1>1 DEF Segment
  <2>2. d.head[j] = Min(Of(j))
    BY <1>1 DEF HeadOf
  <2> HIDE DEF Of
  <2>3. Of(j) \in SUBSET Nat /\ Of(j) # {}
    <3>1. 1..n \subseteq Nat
      BY <1>1
    <3> QED
      BY <2>1, <3>1
  <2>4. Min(Of(j)) \in Of(j)
    BY <2>3, MinOfNumbers
  <2> QED
    BY <2>1, <2>2, <2>4
<1>3. d.head[i] \in Of(i) /\ d.head[i] \in 1..n
  BY <1>2
<1>4. CASE i \in d.sides
  <2>1. d.head[i] = i
    BY <1>3, <1>4 DEF Segment
  <2> QED
    BY <1>3, <2>1
<1>5. CASE i \notin d.sides
  <2>1. d.head[i] \notin d.sides /\ d.key[d.head[i]] = d.key[i]
    BY <1>3, <1>5 DEF Segment
  <2>2. Of(d.head[i]) = Of(i)
    BY <1>1, <1>5, <2>1 DEF Segment
  <2>3. d.head[d.head[i]] = d.head[i]
    <3> HIDE DEF Of
    <3> QED
      BY <1>2, <1>3, <2>2
  <2> QED
    BY <1>3, <1>5, <2>1, <2>3
<1> QED
  BY <1>4, <1>5

\* The heads are the exchanges that are their own head.
LEMMA HeadsAre ==
  ASSUME NEW d, NEW n, IsDerived(d, n)
  PROVE  /\ Heads(d) \in SUBSET (1..n) /\ IsFiniteSet(Heads(d))
         /\ \A i \in 1..n : d.head[i] \in Heads(d)
         /\ \A h \in Heads(d) : d.head[h] = h /\ h \in Members(d, h)
<1>1. DOMAIN d.head = 1..n /\ n \in Nat
  BY DEF IsDerived, IsCut
<1>2. Heads(d) = {d.head[i] : i \in 1..n}
  BY <1>1 DEF Heads, ToSet
<1>3. \A h \in Heads(d) : h \in 1..n /\ d.head[h] = h
  BY <1>2, HeadsHaveMembers
<1>4. IsFiniteSet(1..n)
  BY <1>1, FS_Interval
<1>5. Heads(d) \in SUBSET (1..n)
  BY <1>3
<1>6. IsFiniteSet(Heads(d))
  BY <1>4, <1>5, FS_Subset
<1> QED
  BY <1>1, <1>2, <1>3, <1>5, <1>6 DEF Members

\* The exchanges of some segments.
Inside(d, heads) == UNION {Members(d, h) : h \in heads}

\* They are the exchanges that have one of them as head.
LEMMA InsideIs ==
  ASSUME NEW d, NEW n, IsDerived(d, n), NEW heads \in SUBSET Heads(d)
  PROVE  /\ Inside(d, heads) \in SUBSET (1..n) /\ IsFiniteSet(Inside(d, heads))
         /\ \A i \in 1..n : i \in Inside(d, heads) <=> d.head[i] \in heads
         /\ heads \subseteq Inside(d, heads)
<1>1. DOMAIN d.head = 1..n /\ n \in Nat
  BY DEF IsDerived, IsCut
<1>2. \A h \in heads : Members(d, h) = {i \in 1..n : d.head[i] = h}
  BY <1>1 DEF Members
<1>3. Inside(d, heads) \in SUBSET (1..n)
  BY <1>2 DEF Inside
<1>4. \A i \in 1..n : i \in Inside(d, heads) <=> d.head[i] \in heads
  BY <1>2 DEF Inside
<1>5. IsFiniteSet(1..n)
  BY <1>1, FS_Interval
<1>6. IsFiniteSet(Inside(d, heads))
  BY <1>3, <1>5, FS_Subset
<1>7. heads \subseteq Inside(d, heads)
  BY <1>4, HeadsAre
<1> QED
  BY <1>3, <1>4, <1>6, <1>7

\* Segments have a start.
LEMMA StartsAreNumbers ==
  ASSUME NEW d, NEW n, IsDerived(d, n), NEW heads \in SUBSET Heads(d), heads # {}
  PROVE  StartOf(d, heads) \in Int
<1> DEFINE at == [i \in 1..n |-> d.exchanges[i].at]
           T  == {at[i] : i \in Inside(d, heads)}
<1>1. Inside(d, heads) \in SUBSET (1..n) /\ IsFiniteSet(Inside(d, heads)) /\ Inside(d, heads) # {}
  BY InsideIs
<1>2. \A i \in 1..n : at[i] \in Int /\ at[i] = d.exchanges[i].at
  BY DEF IsDerived
<1>3. StartOf(d, heads) = Min({d.exchanges[i].at : i \in Inside(d, heads)})
  BY DEF StartOf, Inside
<1>4. {d.exchanges[i].at : i \in Inside(d, heads)} = T
  BY <1>1, <1>2
<1> HIDE DEF at
<1>5. T \subseteq Int /\ T # {} /\ IsFiniteSet(T)
  <2>1. IsFiniteSet(T)
    BY <1>1, ImageIsFinite
  <2> QED
    BY <1>1, <1>2, <2>1
<1> HIDE DEF T
<1>6. Min(T) \in T
  BY <1>5, MinIsLeast
<1> QED
  BY <1>3, <1>4, <1>5, <1>6

\* Segments by start, as a relation.
StartsBefore(d, S) == {p \in S \X S : HeadOrder(d, p[1], p[2])}

\* No two segments come at one place.
LEMMA HeadOrderIsOrder ==
  ASSUME NEW d, NEW n, IsDerived(d, n), NEW S \in SUBSET Heads(d)
  PROVE  IsOrder(StartsBefore(d, S), S)
<1> DEFINE at == [h \in S |-> StartOf(d, {h})]
           of == [h \in S |-> h]
<1>1. ASSUME NEW h \in S
      PROVE  at[h] = StartOf(d, {h}) /\ of[h] = h /\ at[h] \in Int /\ of[h] \in Int
  <2>1. {h} \in SUBSET Heads(d) /\ {h} # {}
    OBVIOUS
  <2>2. StartOf(d, {h}) \in Int
    BY <2>1, StartsAreNumbers
  <2>3. n \in Nat /\ h \in 1..n
    BY HeadsAre DEF IsDerived
  <2> QED
    BY <2>2, <2>3
<1>2. \A g, h \in S : <<g, h>> \in StartsBefore(d, S) <=>
                        at[g] < at[h] \/ (at[g] = at[h] /\ of[g] < of[h])
  BY DEF StartsBefore, HeadOrder
<1>3. \A g, h \in S : at[g] = at[h] /\ of[g] = of[h] => g = h
  OBVIOUS
<1> HIDE DEF at, of
<1>4. \A h \in S : at[h] \in Int /\ of[h] \in Int
  BY <1>1
<1> QED
  BY <1>2, <1>3, <1>4, NumbersOrder

\* A line of segments shows each of them once.
LEMMA ByStartLists ==
  ASSUME NEW d, NEW n, IsDerived(d, n), NEW S \in SUBSET Heads(d),
         NEW s, s = ByStart(d, S)
  PROVE  Lists(s, S)
<1>1. IsFiniteSet(S)
  <2>1. IsFiniteSet(Heads(d))
    BY HeadsAre
  <2> QED
    BY <2>1, FS_Subset
<1>2. PICK k \in Nat : k = Cardinality(S)
  BY <1>1, FS_CardinalityType
<1> DEFINE at(m) == CHOOSE h \in S : Cardinality({g \in S : HeadOrder(d, g, h)}) = m - 1
<1>3. PICK order : order = [m \in 1..k |-> at(m)]
  OBVIOUS
<1>4. s = Evaluated(order)
  BY <1>2, <1>3, Zenon DEF Ordered, ByStart
<1>0. \A m \in 1..k : at(m) = CHOOSE h \in S : Cardinality({g \in S : HeadOrder(d, g, h)}) = m - 1
  OBVIOUS
<1> HIDE DEF at
<1>5. order = [m \in 1..k |-> order[m]]
  BY <1>3
<1>6. \A h \in S : {g \in S : HeadOrder(d, g, h)} = {g \in S : <<g, h>> \in StartsBefore(d, S)}
  BY DEF StartsBefore
<1>7. \A h \in S : Cardinality({g \in S : HeadOrder(d, g, h)}) = Rank(StartsBefore(d, S), S, h)
  BY <1>6 DEF Rank
<1>8. ASSUME NEW m \in 1..k PROVE order[m] = CHOOSE h \in S : Rank(StartsBefore(d, S), S, h) = m - 1
  <2> DEFINE before(h) == Cardinality({g \in S : HeadOrder(d, g, h)})
  <2>1. order[m] = CHOOSE h \in S : before(h) = m - 1
    BY <1>0, <1>3
  <2>2. \A h \in S : before(h) = Rank(StartsBefore(d, S), S, h)
    BY <1>7
  <2> HIDE DEF before
  <2> QED
    BY <2>1, <2>2
<1>9. IsOrder(StartsBefore(d, S), S)
  BY HeadOrderIsOrder
<1>10. Enumerates(order, S, StartsBefore(d, S))
  BY <1>1, <1>2, <1>5, <1>8, <1>9, OrderPlaces, Zenon
<1>11. s = order
  BY <1>4, <1>5, EvaluatedIsItself
<1>12. Cardinality(S) \in Nat /\ Enumerates(s, S, StartsBefore(d, S))
  BY <1>2, <1>10, <1>11
<1> QED
  BY <1>12, EnumerationLists, Zenon

-----------------------------------------------------------------------------
(* The executors of some segments. *)

PartOf(d, heads, g) == {h \in heads : GroupOf(d, h) = g}

GroupsOf(d, heads) == {GroupOf(d, h) : h \in heads}

ExecutorOf(d, heads, g) == Executor(d, g, PartOf(d, heads, g))

ExecutorsOf(d, heads) == {ExecutorOf(d, heads, g) : g \in GroupsOf(d, heads)}

\* What is needed of them here.
IsExecutor(d, e, S, g) ==
  /\ Lists(e.main, S \ d.sides) /\ Lists(e.side, S \cap d.sides)
  /\ e.start \in Int /\ e.place \in S /\ e.place \in Int
  /\ e.subagent = IF g[1] = "declared" THEN g[2] ELSE None
  /\ e.subagent = None => e.parent = None

LEMMA ExecutorIs ==
  ASSUME NEW d, NEW n, IsDerived(d, n), NEW heads \in SUBSET Heads(d),
         NEW g \in GroupsOf(d, heads)
  PROVE  IsExecutor(d, ExecutorOf(d, heads, g), PartOf(d, heads, g), g)
<1> DEFINE S == PartOf(d, heads, g)
           e == ExecutorOf(d, heads, g)
<1>1. S \in SUBSET Heads(d) /\ S # {}
  BY DEF PartOf, GroupsOf
<1>2. /\ e.main = ByStart(d, S \ d.sides) /\ e.side = ByStart(d, S \cap d.sides)
      /\ e.start = StartOf(d, S) /\ e.place = Min(S)
      /\ e.subagent = IF g[1] = "declared" THEN g[2] ELSE None
      /\ e.subagent = None => e.parent = None
  BY DEF ExecutorOf, Executor
<1> HIDE DEF S, e
<1>3. Lists(e.main, S \ d.sides)
  <2>1. S \ d.sides \in SUBSET Heads(d)
    BY <1>1
  <2> QED
    BY <1>2, <2>1, ByStartLists
<1>4. Lists(e.side, S \cap d.sides)
  <2>1. S \cap d.sides \in SUBSET Heads(d)
    BY <1>1
  <2> QED
    BY <1>2, <2>1, ByStartLists
<1>5. e.start \in Int
  BY <1>1, <1>2, StartsAreNumbers
<1>6. e.place \in S /\ e.place \in Int
  <2>1. n \in Nat /\ Heads(d) \in SUBSET (1..n)
    BY HeadsAre DEF IsDerived
  <2>2. 1..n \subseteq Nat /\ S \subseteq 1..n
    BY <1>1, <2>1
  <2>4. S \in SUBSET Nat
    BY <2>2
  <2>3. Min(S) \in S
    BY <1>1, <2>4, MinOfNumbers
  <2>5. Min(S) \in Nat
    BY <2>3, <2>4
  <2>6. \A k \in Nat : k \in Int
    OBVIOUS
  <2>7. e.place = Min(S)
    BY <1>2
  <2> QED
    BY <2>3, <2>5, <2>6, <2>7, Zenon
<1>7. IsExecutor(d, e, S, g)
  BY <1>2, <1>3, <1>4, <1>5, <1>6 DEF IsExecutor
<1> QED
  BY <1>7 DEF S, e

\* Executors at one place are one.
LEMMA PlacesTellApart ==
  ASSUME NEW d, NEW n, IsDerived(d, n), NEW heads \in SUBSET Heads(d),
         NEW f \in GroupsOf(d, heads), NEW g \in GroupsOf(d, heads),
         ExecutorOf(d, heads, f).place = ExecutorOf(d, heads, g).place
  PROVE  f = g
<1>1. /\ ExecutorOf(d, heads, f).place \in PartOf(d, heads, f)
      /\ ExecutorOf(d, heads, g).place \in PartOf(d, heads, g)
  BY ExecutorIs DEF IsExecutor
<1> QED
  BY <1>1 DEF PartOf

\* There are finitely many.
LEMMA ExecutorsAreFinite ==
  ASSUME NEW d, NEW n, IsDerived(d, n), NEW heads \in SUBSET Heads(d)
  PROVE  IsFiniteSet(ExecutorsOf(d, heads)) /\ IsFiniteSet(heads)
<1>1. IsFiniteSet(heads)
  <2>1. IsFiniteSet(Heads(d))
    BY HeadsAre
  <2> QED
    BY <2>1, FS_Subset
<1> DEFINE f == [h \in heads |-> ExecutorOf(d, heads, GroupOf(d, h))]
<1>2. IsFiniteSet({f[h] : h \in heads})
  BY <1>1, ImageIsFinite
<1>3. ExecutorsOf(d, heads) = {f[h] : h \in heads}
  BY DEF ExecutorsOf, GroupsOf
<1> QED
  BY <1>1, <1>2, <1>3

\* The order of the executors of a turn, as a relation.
ComesBefore(E) == {p \in E \X E : ExecutorOrder(p[1], p[2])}

LEMMA ExecutorOrderIsOrder ==
  ASSUME NEW d, NEW n, IsDerived(d, n), NEW heads \in SUBSET Heads(d),
         NEW E, E = ExecutorsOf(d, heads)
  PROVE  IsOrder(ComesBefore(E), E)
<1> DEFINE declared == [e \in E |-> IF e.subagent = None THEN 0 ELSE 1]
           start    == [e \in E |-> e.start]
           place    == [e \in E |-> e.place]
           Q        == {p \in E \X E : \/ start[p[1]] < start[p[2]]
                                       \/ start[p[1]] = start[p[2]] /\ place[p[1]] < place[p[2]]}
<1>1. \A e \in E : e.start \in Int /\ e.place \in Int
  BY ExecutorIs DEF ExecutorsOf, IsExecutor
<1>2. ASSUME NEW a \in E, NEW b \in E, a.place = b.place
      PROVE  a = b
  BY <1>2, PlacesTellApart DEF ExecutorsOf
<1>3. /\ \A e \in E : start[e] \in Int /\ place[e] \in Int /\ declared[e] \in Int
      /\ \A a, b \in E : start[a] = start[b] /\ place[a] = place[b] => a = b
  BY <1>1, <1>2
<1>4. \A a, b \in E : <<a, b>> \in ComesBefore(E) <=>
                        declared[a] < declared[b] \/ (declared[a] = declared[b] /\ <<a, b>> \in Q)
  BY DEF ComesBefore, ExecutorOrder
<1>5. \A a, b \in E : <<a, b>> \in Q <=> start[a] < start[b] \/ (start[a] = start[b] /\ place[a] < place[b])
  OBVIOUS
<1> HIDE DEF Q, start, place, declared
<1>6. IsOrder(Q, E)
  BY <1>3, <1>5, NumbersOrder
<1> QED
  BY <1>3, <1>4, <1>6, NumberThenOrder

\* The executors before those that started others are brought forward.
LEMMA ExecutorsInOrder ==
  ASSUME NEW d, NEW n, IsDerived(d, n), NEW heads \in SUBSET Heads(d),
         NEW E, E = ExecutorsOf(d, heads), NEW ex, ex = Ordered(E, ExecutorOrder)
  PROVE  Cardinality(E) \in Nat /\ Enumerates(ex, E, ComesBefore(E))
<1>1. IsFiniteSet(E)
  BY ExecutorsAreFinite
<1>2. PICK k \in Nat : k = Cardinality(E)
  BY <1>1, FS_CardinalityType
<1> DEFINE at(m) == CHOOSE e \in E : Cardinality({f \in E : ExecutorOrder(f, e)}) = m - 1
<1>3. PICK order : order = [m \in 1..k |-> at(m)]
  OBVIOUS
<1>4. ex = Evaluated(order)
  BY <1>2, <1>3, Zenon DEF Ordered
<1>5. \A m \in 1..k : at(m) = CHOOSE e \in E : Cardinality({f \in E : ExecutorOrder(f, e)}) = m - 1
  OBVIOUS
<1> HIDE DEF at
<1>6. order = [m \in 1..k |-> order[m]]
  BY <1>3
<1>7. \A e \in E : {f \in E : ExecutorOrder(f, e)} = {f \in E : <<f, e>> \in ComesBefore(E)}
  BY DEF ComesBefore
<1>8. \A e \in E : Cardinality({f \in E : ExecutorOrder(f, e)}) = Rank(ComesBefore(E), E, e)
  BY <1>7 DEF Rank
<1>9. ASSUME NEW m \in 1..k PROVE order[m] = CHOOSE e \in E : Rank(ComesBefore(E), E, e) = m - 1
  <2> DEFINE before(e) == Cardinality({f \in E : ExecutorOrder(f, e)})
  <2>1. order[m] = CHOOSE e \in E : before(e) = m - 1
    BY <1>3, <1>5
  <2>2. \A e \in E : before(e) = Rank(ComesBefore(E), E, e)
    BY <1>8
  <2> HIDE DEF before
  <2> QED
    BY <2>1, <2>2
<1>10. IsOrder(ComesBefore(E), E)
  BY ExecutorOrderIsOrder
<1>11. Enumerates(order, E, ComesBefore(E))
  <2>1. order = [m \in 1..Cardinality(E) |-> order[m]]
    BY <1>2, <1>6, Zenon
  <2>2. \A m \in 1..Cardinality(E) : order[m] = CHOOSE e \in E : Rank(ComesBefore(E), E, e) = m - 1
    BY <1>2, <1>9, Zenon
  <2> QED
    BY <1>1, <1>10, <2>1, <2>2, OrderPlaces, Zenon
<1>12. ex = order
  BY <1>4, <1>6, EvaluatedIsItself
<1> QED
  BY <1>2, <1>11, <1>12

\* A sequence of 1..n that has each of them once is as long.
LEMMA PermutationLength ==
  ASSUME NEW n \in Nat, NEW order \in Seq(1..n), \A i \in 1..n : i \in ToSet(order),
         \A a, b \in 1..Len(order) : order[a] = order[b] => a = b
  PROVE  Len(order) = n /\ DOMAIN order = 1..n
<1>1. PICK m \in Nat : m = Len(order)
  OBVIOUS
<1>2. DOMAIN order = 1..m /\ order \in [1..m -> 1..n]
  BY <1>1
<1>3. \A i \in 1..n : \E a \in 1..m : order[a] = i
  <2>1. \A i \in 1..n : i \in {order[a] : a \in 1..m}
    BY <1>2 DEF ToSet
  <2> QED
    BY <2>1
<1>4. order \in Bijection(1..m, 1..n)
  <2>1. order \in [1..m -> 1..n]
    BY <1>2
  <2>2. \A a, b \in 1..m : order[a] = order[b] => a = b
    BY <1>1
  <2>3. order \in Injection(1..m, 1..n)
    BY <1>2, <2>1, <2>2, Zenon DEF Injection, IsInjective
  <2>4. order \in Surjection(1..m, 1..n)
    BY <1>3, <2>1, Zenon DEF Surjection
  <2> QED
    BY <2>3, <2>4, Zenon DEF Bijection
<1>5. IsFiniteSet(1..m) /\ Cardinality(1..m) = m /\ Cardinality(1..n) = n
  BY FS_Interval
<1>6. ExistsBijection(1..m, 1..n)
  BY <1>4 DEF ExistsBijection
<1>7. m = n
  BY <1>5, <1>6, FS_Bijection
<1> QED
  BY <1>1, <1>2, <1>7

\* The executors of a turn as its node shows them: x are they by start, q is who
\* started whom, and order where each of them goes.
AreArranged(E, shown, x, q, order) ==
  LET n == Cardinality(E)
  IN  /\ n \in Nat /\ x \in [1..n -> E]
      /\ \A e \in E : \E m \in 1..n : x[m] = e
      /\ \A a, b \in 1..n : x[a] = x[b] => a = b
      /\ AreStarters(q, n) /\ \A i \in 1..n : q[i] = StarterOf(x, i)
      /\ Arranged(q, n, order) /\ Len(order) = n
      /\ \A i \in 1..n : \E a \in 1..n : order[a] = i
      /\ shown = [k \in 1..n |-> x[order[k]]]

LEMMA ExecutorsAreArranged ==
  ASSUME NEW d, NEW n, IsDerived(d, n), NEW heads \in SUBSET Heads(d),
         NEW E, E = ExecutorsOf(d, heads)
  PROVE  \E x, q, order : AreArranged(E, Executors(d, heads), x, q, order)
<1>1. PICK x : x = Ordered(E, ExecutorOrder)
  OBVIOUS
<1>2. PICK k \in Nat : k = Cardinality(E)
  BY ExecutorsInOrder, <1>1
<1>3. Enumerates(x, E, ComesBefore(E))
  BY <1>1, ExecutorsInOrder
<1>4. /\ x \in [1..k -> E] /\ DOMAIN x = 1..k
      /\ \A e \in E : \E m \in 1..k : x[m] = e
      /\ \A a, b \in 1..k : x[a] = x[b] => a = b
  BY <1>2, <1>3 DEF Enumerates
<1>5. E = {Executor(d, g, {h \in heads : GroupOf(d, h) = g}) : g \in {GroupOf(d, h) : h \in heads}}
  BY DEF ExecutorsOf, ExecutorOf, PartOf, GroupsOf
<1>6. Executors(d, heads) = StartedFirst(x)
  BY <1>1, <1>5, Zenon DEF Executors
<1>7. PICK q, order :
           /\ AreStarters(q, k) /\ \A i \in 1..k : q[i] = StarterOf(x, i)
           /\ Arranged(q, k, order) /\ \A i \in 1..k : i \in ToSet(order)
           /\ StartedFirst(x) = [j \in DOMAIN order |-> x[order[j]]]
  BY <1>4, StartedFirstArranges
<1>8. order \in Seq(1..k) /\ \A a, b \in 1..Len(order) : order[a] = order[b] => a = b
  BY <1>7 DEF Arranged
<1>9. Len(order) = k /\ DOMAIN order = 1..k
  BY <1>7, <1>8, PermutationLength
<1>10. \A i \in 1..k : \E a \in 1..k : order[a] = i
  BY <1>7, <1>9 DEF ToSet
<1>11. Executors(d, heads) = [j \in 1..k |-> x[order[j]]]
  BY <1>6, <1>7, <1>9
<1>12. AreArranged(E, Executors(d, heads), x, q, order)
  BY <1>2, <1>4, <1>7, <1>9, <1>10, <1>11, Zenon DEF AreArranged
<1> QED
  BY <1>12

\* One of the executors a declared sub-agent has in a turn.
LEMMA SubagentsTellApart ==
  ASSUME NEW d, NEW n, IsDerived(d, n), NEW heads \in SUBSET Heads(d),
         NEW e \in ExecutorsOf(d, heads), NEW f \in ExecutorsOf(d, heads),
         e.subagent # None, e.subagent = f.subagent
  PROVE  e = f
<1>1. PICK g \in GroupsOf(d, heads) : e = ExecutorOf(d, heads, g)
  BY DEF ExecutorsOf
<1>2. PICK h \in GroupsOf(d, heads) : f = ExecutorOf(d, heads, h)
  BY DEF ExecutorsOf
<1>3. /\ e.subagent = IF g[1] = "declared" THEN g[2] ELSE None
      /\ f.subagent = IF h[1] = "declared" THEN h[2] ELSE None
  BY <1>1, <1>2, ExecutorIs DEF IsExecutor
<1>4. ASSUME NEW x \in GroupsOf(d, heads) PROVE x = <<x[1], x[2]>>
  <2>1. PICK i \in heads : x = d.key[i][2]
    BY DEF GroupsOf, GroupOf
  <2>2. i \in 1..n
    BY HeadsAre
  <2> QED
    BY <2>1, <2>2 DEF IsDerived
<1>5. g[1] = h[1] /\ g[2] = h[2]
  BY <1>3
<1>6. g = h
  BY <1>4, <1>5
<1> QED
  BY <1>1, <1>2, <1>6

\* One who started whom moved into another order.
Moves(q, r, n, order) ==
  /\ order \in Seq(1..n) /\ Len(order) = n
  /\ \A a, b \in 1..n : order[a] = order[b] => a = b
  /\ \A i \in 1..n : \E a \in 1..n : order[a] = i
  /\ \A i \in 1..n : /\ r[i] = 0 <=> q[order[i]] = 0
                     /\ r[i] # 0 => order[r[i]] = q[order[i]]

\* Who started whom does not depend on the order the executors are in.
LEMMA StartersMove ==
  ASSUME NEW d, NEW m, IsDerived(d, m), NEW heads \in SUBSET Heads(d),
         NEW E, E = ExecutorsOf(d, heads), NEW shown, NEW x, NEW q, NEW order,
         AreArranged(E, shown, x, q, order), NEW n, n = Cardinality(E)
  PROVE  \E r : /\ AreStarters(r, n) /\ \A i \in 1..n : r[i] = StarterOf(shown, i)
                /\ Moves(q, r, n, order)
<1>1. /\ n \in Nat /\ x \in [1..n -> E]
      /\ \A a, b \in 1..n : x[a] = x[b] => a = b
      /\ AreStarters(q, n) /\ \A i \in 1..n : q[i] = StarterOf(x, i)
      /\ Arranged(q, n, order) /\ Len(order) = n
      /\ \A i \in 1..n : \E a \in 1..n : order[a] = i
      /\ shown = [k \in 1..n |-> x[order[k]]]
  BY Zenon DEF AreArranged
<1>2. /\ order \in Seq(1..n) /\ Len(order) = n
      /\ \A a, b \in 1..n : order[a] = order[b] => a = b
      /\ \A i \in 1..n : \E a \in 1..n : order[a] = i
  BY <1>1 DEF Arranged
<1>3. \A i \in 1..n : order[i] \in 1..n
  BY <1>2, ElementOfSeq
<1>4. DOMAIN shown = 1..n /\ DOMAIN x = 1..n /\ \A k \in 1..n : shown[k] = x[order[k]]
  BY <1>1
<1>5. PICK r : r = [i \in 1..n |-> StarterOf(shown, i)]
  OBVIOUS
<1>6. AreStarters(r, n) /\ \A i \in 1..n : r[i] = StarterOf(shown, i)
  BY <1>1, <1>4, <1>5, StartersAreStarters
<1>7. ASSUME NEW i \in 1..n, NEW s \in 1..n
      PROVE  Starts(shown, s, i) <=> Starts(x, order[s], order[i])
  BY <1>2, <1>4 DEF Starts
<1>8. ASSUME NEW s \in 1..n, NEW t \in 1..n, NEW i \in 1..n,
             Starts(x, s, i), Starts(x, t, i)
      PROVE  s = t
  <2>1. x[s] \in ExecutorsOf(d, heads) /\ x[t] \in ExecutorsOf(d, heads)
    BY <1>1
  <2>2. x[s].subagent # None /\ x[s].subagent = x[t].subagent
    BY <1>8 DEF Starts
  <2>3. x[s] = x[t]
    BY <2>1, <2>2, SubagentsTellApart
  <2> QED
    BY <1>1, <2>3
<1>9. ASSUME NEW i \in 1..n
      PROVE  /\ r[i] = 0 <=> q[order[i]] = 0
             /\ r[i] # 0 => order[r[i]] = q[order[i]]
  <2>1. PICK o \in 1..n : o = order[i]
    BY <1>3
  <2>2. /\ r[i] = 0 => \A j \in 1..n : ~Starts(shown, j, i)
        /\ r[i] # 0 => r[i] \in 1..n /\ Starts(shown, r[i], i)
    <3>1. /\ StarterOf(shown, i) = 0 => \A j \in 1..n : ~Starts(shown, j, i)
          /\ StarterOf(shown, i) # 0 =>
               StarterOf(shown, i) \in 1..n /\ Starts(shown, StarterOf(shown, i), i)
      <4>1. DOMAIN shown = 1..n /\ n \in Nat
        BY <1>1, <1>4
      <4> QED
        BY <4>1, StarterTells
    <3>2. r[i] = StarterOf(shown, i)
      BY <1>6
    <3> QED
      BY <3>1, <3>2, Zenon
  <2>3. /\ q[o] = 0 => \A j \in 1..n : ~Starts(x, j, o)
        /\ q[o] # 0 => q[o] \in 1..n /\ Starts(x, q[o], o)
    <3>1. /\ StarterOf(x, o) = 0 => \A j \in 1..n : ~Starts(x, j, o)
          /\ StarterOf(x, o) # 0 => StarterOf(x, o) \in 1..n /\ Starts(x, StarterOf(x, o), o)
      BY <1>1, <1>4, StarterTells
    <3>2. q[o] = StarterOf(x, o)
      BY <1>1
    <3> QED
      BY <3>1, <3>2, Zenon
  <2>4. CASE r[i] # 0
    <3>1. order[r[i]] \in 1..n /\ Starts(x, order[r[i]], o)
      BY <1>3, <1>7, <2>1, <2>2, <2>4
    <3>2. q[o] # 0 /\ q[o] \in 1..n /\ Starts(x, q[o], o)
      BY <2>3, <3>1
    <3>3. order[r[i]] = q[o]
      BY <1>8, <3>1, <3>2
    <3> QED
      BY <2>1, <2>4, <3>2, <3>3
  <2>5. CASE r[i] = 0
    <3>1. SUFFICES ASSUME q[o] # 0 PROVE FALSE
      BY <2>1, <2>5
    <3>2. PICK a \in 1..n : order[a] = q[o]
      BY <1>2, <2>3, <3>1
    <3>3. Starts(shown, a, i)
      BY <1>7, <2>1, <2>3, <3>1, <3>2
    <3> QED
      BY <2>2, <2>5, <3>3
  <2> QED
    BY <2>4, <2>5
<1>10. Moves(q, r, n, order)
  BY <1>2, <1>9, Zenon DEF Moves
<1> QED
  BY <1>6, <1>10

\* So are those that an executor descends from.
LEMMA AboveMoves ==
  ASSUME NEW n, NEW q, AreStarters(q, n), NEW r, AreStarters(r, n), NEW order,
         Moves(q, r, n, order), NEW i \in 1..n, NEW a \in 1..n
  PROVE  a \in Above(r, n, i) <=> order[a] \in Above(q, n, order[i])
<1>1. /\ order \in Seq(1..n) /\ Len(order) = n
      /\ \A s, t \in 1..n : order[s] = order[t] => s = t
      /\ \A t \in 1..n : \E s \in 1..n : order[s] = t
  BY Zenon DEF Moves
<1>2. \A t \in 1..n : order[t] \in 1..n
  BY <1>1, ElementOfSeq
<1>3. ASSUME NEW t \in 1..n
      PROVE  /\ r[t] \in 0..n /\ (r[t] = 0 <=> q[order[t]] = 0)
             /\ r[t] # 0 => r[t] \in 1..n /\ order[r[t]] = q[order[t]]
  <2>1. r[t] \in 0..n /\ n \in Nat
    BY DEF AreStarters
  <2>2. r[t] # 0 => r[t] \in 1..n
    BY <2>1
  <2> QED
    BY <2>1, <2>2 DEF Moves
<1>4. PICK A : A = Above(r, n, i)
  OBVIOUS
<1>5. PICK B : B = Above(q, n, order[i])
  OBVIOUS
<1>6. A \in SUBSET (1..n) /\ B \in SUBSET (1..n)
  BY <1>4, <1>5 DEF Above
<1>7. UpClosed(r, A) /\ r[i] \in A \cup {0}
  <2>1. r[i] # 0 => r[i] \in A
    BY <1>3, <1>4, AboveSteps
  <2> QED
    BY <1>4, <2>1, AboveIsClosed
<1>8. UpClosed(q, B) /\ q[order[i]] \in B \cup {0}
  <2>1. order[i] \in 1..n
    BY <1>2
  <2>2. q[order[i]] # 0 => q[order[i]] \in B
    BY <1>5, <2>1, AboveSteps
  <2> QED
    BY <1>5, <2>1, <2>2, AboveIsClosed
<1>9. ASSUME a \in A PROVE order[a] \in B
  <2>1. PICK C : C = {t \in 1..n : order[t] \in B}
    OBVIOUS
  <2>2. \A t \in 1..n : order[t] \in B /\ r[t] # 0 => r[t] \in C
    BY <1>3, <1>8, <2>1 DEF UpClosed
  <2>3. UpClosed(r, C) /\ C \in SUBSET (1..n)
    BY <2>1, <2>2 DEF UpClosed
  <2>4. r[i] \in C \cup {0}
    BY <1>3, <1>8, <2>1
  <2>5. a \in C
    BY <1>4, <1>9, <2>3, <2>4 DEF Above
  <2> QED
    BY <2>1, <2>5
<1>10. ASSUME order[a] \in B PROVE a \in A
  <2>1. PICK C : C = {order[t] : t \in A}
    OBVIOUS
  <2>2. C \in SUBSET (1..n)
    BY <1>2, <1>6, <2>1
  <2>3. ASSUME NEW t \in A PROVE q[order[t]] \in C \cup {0}
    <3>1. t \in 1..n /\ r[t] \in A \cup {0}
      BY <1>6, <1>7 DEF UpClosed
    <3> QED
      BY <1>3, <2>1, <3>1
  <2>4. UpClosed(q, C)
    BY <2>1, <2>3 DEF UpClosed
  <2>5. q[order[i]] \in C \cup {0}
    BY <1>3, <1>7, <2>1
  <2>6. order[a] \in C
    BY <1>5, <1>10, <2>2, <2>4, <2>5 DEF Above
  <2>7. PICK t \in A : order[t] = order[a]
    BY <2>1, <2>6
  <2>8. t = a
    BY <1>1, <1>6, <2>7
  <2> QED
    BY <2>7, <2>8
<1> QED
  BY <1>4, <1>5, <1>9, <1>10

\* The executors that an executor descends from, step by step or all at once.
LEMMA AncestorsAreAbove ==
  ASSUME NEW n \in Nat, NEW ex, DOMAIN ex = 1..n, Len(ex) = n, NEW i \in 1..n,
         NEW r, AreStarters(r, n), \A j \in 1..n : r[j] = StarterOf(ex, j)
  PROVE  AncestorsOf(ex, i) = Above(r, n, i)
<1> DEFINE St == SUBSET (1..n)
           Wider(U) == U \cup ({StarterOf(ex, j) : j \in U} \ {0})
           step == [p \in St \X (1..n) |-> Wider(p[1])]
           first == {StarterOf(ex, i)} \ {0}
           IsUp(g) == g = [k \in 0..Len(ex) |->
                             IF k = 0 THEN {StarterOf(ex, i)} \ {0}
                             ELSE g[k - 1] \cup ({StarterOf(ex, j) : j \in g[k - 1]} \ {0})]
<1>1. \A j \in 1..n : StarterOf(ex, j) \in 0..n
  BY DEF AreStarters
<1>2. \A k \in 0..n : k # 0 => k \in 1..n
  OBVIOUS
<1>3. first \in St
  BY <1>1, <1>2
<1>4. ASSUME NEW U \in St
      PROVE  /\ Wider(U) \in St /\ U \subseteq Wider(U)
             /\ \A c \in U : r[c] \in Wider(U) \cup {0}
             /\ UpClosed(r, U) => Wider(U) = U
             /\ \A c \in Wider(U) : c \in U \/ \E j \in U : c = r[j] /\ c # 0
  <2>1. \A j \in U : StarterOf(ex, j) = r[j] /\ (r[j] # 0 => r[j] \in 1..n)
    <3>1. \A j \in U : j \in 1..n
      OBVIOUS
    <3> QED
      BY <1>1, <1>2, <3>1
  <2> QED
    BY <2>1 DEF UpClosed
<1>5. AncestorsOf(ex, i) = (CHOOSE g : IsUp(g))[n]
  BY Zenon DEF AncestorsOf
<1> HIDE DEF first, St
<1>6. step \in [St \X (1..n) -> St]
  <2> HIDE DEF Wider
  <2> QED
    BY <1>4
<1>20. \A U \in St, k \in 1..n : step[<<U, k>>] = Wider(U)
  <2> HIDE DEF Wider
  <2> QED
    OBVIOUS
<1> HIDE DEF step, Wider
<1>7. PICK h \in [0..n -> St] : h[0] = first /\ \A k \in 1..n : h[k] = step[<<h[k - 1], k>>]
  <2>1. PICK h \in [0..n -> St] : Iterates(h, n, first, step)
    BY <1>3, <1>6, IterationIsDefined
  <2> QED
    BY <2>1 DEF Iterates
<1>8. ASSUME NEW k \in 1..n PROVE h[k] = Wider(h[k - 1])
  <2>1. k - 1 \in 0..n
    OBVIOUS
  <2>2. h[k - 1] \in St
    BY <2>1
  <2> QED
    BY <1>7, <1>20, <2>2
<1>9. IsUp(h)
  <2>1. h = [k \in 0..Len(ex) |-> h[k]]
    OBVIOUS
  <2>2. \A k \in 0..Len(ex) : h[k] = IF k = 0 THEN {StarterOf(ex, i)} \ {0}
                                     ELSE h[k - 1] \cup ({StarterOf(ex, j) : j \in h[k - 1]} \ {0})
    BY <1>2, <1>7, <1>8 DEF Wider, first
  <2> QED
    BY <2>1, <2>2, Zenon
<1>10. PICK up : up = CHOOSE g : IsUp(g)
  OBVIOUS
<1>11. IsUp(up)
  BY <1>9, <1>10, Zenon
<1>12. up[0] = first /\ \A k \in 1..n : up[k] = Wider(up[k - 1])
  <2>1. up[0] = first
    BY <1>11 DEF first
  <2>2. ASSUME NEW k \in 1..n PROVE up[k] = Wider(up[k - 1])
    <3>1. k \in 0..n /\ k # 0
      OBVIOUS
    <3> QED
      BY <1>11, <3>1 DEF Wider
  <2> QED
    BY <2>1, <2>2
<1>13. AncestorsOf(ex, i) = up[n]
  BY <1>5, <1>10
<1> HIDE DEF IsUp
<1> DEFINE Good(k) == /\ up[k] \in St /\ r[i] \in up[k] \cup {0} /\ up[k] \subseteq Above(r, n, i)
                      /\ UpClosed(r, up[k]) \/ Cardinality(up[k]) >= k + 1
           T == {k \in 0..n : Good(k)}
<1>14. \A U \in St : IsFiniteSet(U) /\ Cardinality(U) \in Nat /\ Cardinality(U) <= n
  <2>1. IsFiniteSet(1..n) /\ Cardinality(1..n) = n
    BY FS_Interval
  <2>2. \A U \in St : IsFiniteSet(U) /\ Cardinality(U) <= Cardinality(1..n)
    <3>1. \A U \in St : U \in SUBSET (1..n)
      BY DEF St
    <3> QED
      BY <2>1, <3>1, FS_Subset
  <2>3. \A U \in St : Cardinality(U) \in Nat
    BY <2>2, FS_CardinalityType
  <2> QED
    BY <2>1, <2>2, <2>3
<1>15. Good(0)
  <2>1. up[0] = {StarterOf(ex, i)} \ {0} /\ r[i] = StarterOf(ex, i) /\ up[0] \in St
    BY <1>3, <1>12 DEF first
  <2>2. CASE r[i] = 0
    <3>1. up[0] = {}
      BY <2>1, <2>2
    <3> QED
      BY <2>1, <2>2, <3>1 DEF UpClosed
  <2>3. CASE r[i] # 0
    <3>1. up[0] = {r[i]}
      BY <2>1, <2>3
    <3>2. Cardinality({r[i]}) = 1
      BY FS_Singleton
    <3>3. r[i] \in Above(r, n, i)
      BY <2>3, AboveSteps
    <3>4. Cardinality(up[0]) >= 0 + 1
      BY <3>1, <3>2
    <3>5. up[0] \subseteq Above(r, n, i) /\ r[i] \in up[0] \cup {0}
      BY <3>1, <3>3
    <3> QED
      BY <2>1, <3>4, <3>5
  <2> QED
    BY <2>2, <2>3
<1>16. ASSUME NEW k \in 0..(n - 1), Good(k) PROVE Good(k + 1)
  <2>1. PICK U \in St : U = up[k]
    BY <1>16
  <2>2. PICK W : W = up[k + 1]
    OBVIOUS
  <2>3. W = Wider(U)
    <3>1. k + 1 \in 1..n /\ (k + 1) - 1 = k
      OBVIOUS
    <3> QED
      BY <1>12, <2>1, <2>2, <3>1
  <2>4. /\ W \in St /\ U \subseteq W /\ \A c \in U : r[c] \in W \cup {0}
        /\ UpClosed(r, U) => W = U
        /\ \A c \in W : c \in U \/ \E j \in U : c = r[j] /\ c # 0
    BY <1>4, <2>3
  <2>5. W \subseteq Above(r, n, i)
    <3>1. U \subseteq Above(r, n, i) /\ UpClosed(r, Above(r, n, i))
      BY <1>16, <2>1, AboveIsClosed
    <3> QED
      BY <2>4, <3>1 DEF UpClosed
  <2>6. r[i] \in W \cup {0}
    BY <1>16, <2>1, <2>4
  <2>7. UpClosed(r, W) \/ Cardinality(W) >= (k + 1) + 1
    <3>1. CASE UpClosed(r, U)
      BY <2>4, <3>1
    <3>2. CASE ~UpClosed(r, U)
      <4>1. U # W
        <5>1. PICK c \in U : r[c] \notin U \cup {0}
          BY <3>2 DEF UpClosed
        <5> QED
          BY <2>4, <5>1
      <4>2. Cardinality(U) # Cardinality(W) /\ Cardinality(U) <= Cardinality(W)
        BY <1>14, <2>4, <4>1, FS_Subset
      <4>3. Cardinality(U) \in Nat /\ Cardinality(W) \in Nat /\ Cardinality(U) >= k + 1
        BY <1>14, <1>16, <2>1, <2>4, <3>2
      <4> QED
        BY <4>2, <4>3
    <3> QED
      BY <3>1, <3>2
  <2> QED
    BY <2>2, <2>4, <2>5, <2>6, <2>7
<1>17. Good(n)
  <2> HIDE DEF Good
  <2>1. 0 \in T
    BY <1>15
  <2>2. \A k \in 0..(n - 1) : k \in T => k + 1 \in T
    <3>1. \A k \in 0..(n - 1) : k + 1 \in 0..n
      OBVIOUS
    <3> QED
      BY <1>16, <3>1
  <2> HIDE DEF T
  <2>3. \A k \in 0..n : k \in T
    BY <2>1, <2>2, CountsUp
  <2>4. n \in 0..n
    OBVIOUS
  <2> QED
    BY <2>3, <2>4 DEF T
<1>18. UpClosed(r, up[n])
  <2>1. Cardinality(up[n]) \in Nat /\ Cardinality(up[n]) <= n
    BY <1>14, <1>17
  <2> QED
    BY <1>17, <2>1
<1>19. Above(r, n, i) \subseteq up[n]
  BY <1>17, <1>18 DEF Above, St
<1> QED
  BY <1>13, <1>17, <1>19

\* What it is to follow the starter, as the order shows it.
LEMMA FollowsMoves ==
  ASSUME NEW n, NEW q, AreStarters(q, n), NEW r, AreStarters(r, n), NEW order,
         Moves(q, r, n, order), NEW b \in 1..n, Follows(q, n, order, b)
  PROVE  r[b] \in 1..(b - 1) /\ \A c \in (r[b] + 1)..b : r[b] \in Above(r, n, c)
<1>1. PICK a \in 1..(b - 1) :
        order[a] = q[order[b]] /\ \A c \in (a + 1)..b : order[a] \in Above(q, n, order[c])
  BY DEF Follows
<1>2. n \in Nat /\ a \in 1..n /\ \A c \in (a + 1)..b : c \in 1..n
  BY DEF AreStarters
<1>3. /\ order \in Seq(1..n) /\ Len(order) = n
      /\ \A s, t \in 1..n : order[s] = order[t] => s = t
  BY Zenon DEF Moves
<1>4. order[a] \in 1..n
  BY <1>2, <1>3, ElementOfSeq
<1>5. r[b] \in 1..n /\ order[r[b]] = q[order[b]]
  <2>1. q[order[b]] # 0
    BY <1>1, <1>4
  <2>2. r[b] # 0 /\ order[r[b]] = q[order[b]]
    BY <2>1 DEF Moves
  <2>3. r[b] \in 0..n
    BY DEF AreStarters
  <2> QED
    BY <2>2, <2>3
<1>6. r[b] = a
  BY <1>1, <1>2, <1>3, <1>5
<1>7. \A c \in (a + 1)..b : a \in Above(r, n, c)
  BY <1>1, <1>2, AboveMoves
<1> QED
  BY <1>6, <1>7

\* Where a walk entered, as the order shows it.
LEMMA EnteredMoves ==
  ASSUME NEW n, NEW q, AreStarters(q, n), NEW r, AreStarters(r, n), NEW order,
         Moves(q, r, n, order), NEW b \in 1..n, Entered(q, n, order, b), r[b] # 0
  PROVE  /\ r[b] >= b
         /\ \E j \in Above(r, n, b) : j \in Above(r, n, j)
         /\ b \in Above(r, n, b) => \A j \in Above(r, n, b) \ {b} : r[j] < j
<1>1. /\ order \in Seq(1..n) /\ Len(order) = n /\ n \in Nat
      /\ \A s, t \in 1..n : order[s] = order[t] => s = t
      /\ \A i \in 1..n : \E a \in 1..n : order[a] = i
  BY Zenon DEF Moves, AreStarters
<1>2. r[b] \in 1..n /\ order[r[b]] = q[order[b]]
  <2>1. r[b] \in 0..n
    BY DEF AreStarters
  <2>2. order[r[b]] = q[order[b]]
    BY Zenon DEF Moves
  <2>3. r[b] \in 1..n
    <3>1. PICK v : v = r[b] /\ v # 0 /\ v \in 0..n
      BY <2>1
    <3>2. n \in Nat
      BY <1>1
    <3>3. v \in 1..n
      BY <3>1, <3>2
    <3> QED
      BY <3>1, <3>3
  <2> QED
    BY <2>2, <2>3
<1>3. /\ \A a \in 1..(b - 1) : order[a] # q[order[b]]
      /\ \E j \in Above(q, n, order[b]) : j \in Above(q, n, j)
      /\ order[b] \in Above(q, n, order[b]) =>
           \A j \in Above(q, n, order[b]) \ {order[b]} :
             \E c \in 1..Len(order) : order[c] = j /\ Follows(q, n, order, c)
  BY Zenon DEF Entered
<1>4. r[b] >= b
  <2>1. PICK a \in 1..n : a = r[b]
    BY <1>2
  <2>2. a \notin 1..(b - 1)
    BY <1>2, <1>3, <2>1, Zenon
  <2>3. n \in Nat /\ a \in 1..n /\ b \in 1..n
    BY <1>1
  <2>4. a >= b
    BY <2>2, <2>3
  <2> QED
    BY <2>1, <2>4
<1>5. \E j \in Above(r, n, b) : j \in Above(r, n, j)
  <2>1. PICK j \in Above(q, n, order[b]) : j \in Above(q, n, j)
    BY <1>3
  <2>2. j \in 1..n
    BY <2>1 DEF Above
  <2>3. PICK a \in 1..n : order[a] = j
    BY <1>1, <2>2
  <2>4. a \in Above(r, n, b) /\ a \in Above(r, n, a)
    BY <2>1, <2>3, AboveMoves
  <2> QED
    BY <2>4
<1>6. ASSUME b \in Above(r, n, b), NEW j \in Above(r, n, b) \ {b} PROVE r[j] < j
  <2>1. j \in 1..n
    BY <1>6 DEF Above
  <2>2. order[b] \in Above(q, n, order[b]) /\ order[j] \in Above(q, n, order[b])
    BY <1>6, <2>1, AboveMoves
  <2>3. order[j] # order[b]
    BY <1>1, <1>6, <2>1
  <2>4. PICK c \in 1..n : order[c] = order[j] /\ Follows(q, n, order, c)
    BY <1>1, <1>3, <2>2, <2>3
  <2>5. c = j
    BY <1>1, <2>1, <2>4
  <2>6. r[j] \in 1..(j - 1)
    BY <2>1, <2>4, <2>5, FollowsMoves
  <2> QED
    BY <2>1, <2>6
<1> QED
  BY <1>4, <1>5, <1>6

\* Executor i of a node where its starter says.
ComesAfterStarter(ex, i) ==
  LET starter    == StarterOf(ex, i)
      follows(j) == StarterOf(ex, j) < j
      circles(j) == j \in AncestorsOf(ex, j)
  IN  starter # 0 =>
        IF starter < i
        THEN \A j \in (starter + 1)..i : starter \in AncestorsOf(ex, j)
        ELSE IF circles(i)
        THEN \A j \in AncestorsOf(ex, i) \ {i} : follows(j)
        ELSE \E j \in AncestorsOf(ex, i) : circles(j)

LEMMA StartersOfNode ==
  ASSUME NEW d, NEW m, IsDerived(d, m), NEW heads \in SUBSET Heads(d),
         NEW ex, ex = Executors(d, heads), NEW i \in DOMAIN ex
  PROVE  ComesAfterStarter(ex, i)
<1>1. PICK E : E = ExecutorsOf(d, heads)
  OBVIOUS
<1>2. PICK x, q, order : AreArranged(E, ex, x, q, order)
  BY <1>1, ExecutorsAreArranged
<1>3. PICK n : n = Cardinality(E)
  OBVIOUS
<1>4. PICK r : /\ AreStarters(r, n) /\ \A j \in 1..n : r[j] = StarterOf(ex, j)
               /\ Moves(q, r, n, order)
  BY <1>1, <1>2, <1>3, StartersMove
<1>5. /\ n \in Nat /\ AreStarters(q, n) /\ Arranged(q, n, order) /\ Len(order) = n
      /\ ex = [k \in 1..n |-> x[order[k]]]
  BY <1>2, <1>3, Zenon DEF AreArranged
<1>6. DOMAIN ex = 1..n /\ Len(ex) = n /\ i \in 1..n
  BY <1>5
<1>7. ASSUME NEW j \in 1..n PROVE AncestorsOf(ex, j) = Above(r, n, j)
  BY <1>4, <1>5, <1>6, AncestorsAreAbove
<1>8. SUFFICES ASSUME r[i] # 0
               PROVE  IF r[i] < i
                      THEN \A j \in (r[i] + 1)..i : r[i] \in AncestorsOf(ex, j)
                      ELSE IF i \in AncestorsOf(ex, i)
                      THEN \A j \in AncestorsOf(ex, i) \ {i} : StarterOf(ex, j) < j
                      ELSE \E j \in AncestorsOf(ex, i) : j \in AncestorsOf(ex, j)
  BY <1>4, <1>6, Zenon DEF ComesAfterStarter
<1>9. Follows(q, n, order, i) \/ Entered(q, n, order, i)
  <2>1. q[order[i]] # 0
    BY <1>4, <1>6, <1>8 DEF Moves
  <2> QED
    BY <1>5, <1>6, <2>1 DEF Arranged
<1>10. r[i] \in 1..n
  <2>1. r[i] \in 0..n
    BY <1>4, <1>6 DEF AreStarters
  <2> QED
    BY <1>5, <1>8, <2>1
<1>11. CASE Follows(q, n, order, i)
  <2>1. r[i] \in 1..(i - 1) /\ \A j \in (r[i] + 1)..i : r[i] \in Above(r, n, j)
    BY <1>4, <1>5, <1>6, <1>11, FollowsMoves
  <2>2. \A j \in (r[i] + 1)..i : j \in 1..n
    BY <1>5, <1>6, <1>10
  <2>3. \A j \in (r[i] + 1)..i : r[i] \in AncestorsOf(ex, j)
    BY <1>7, <2>1, <2>2
  <2>4. r[i] < i
    BY <1>5, <1>6, <2>1
  <2> QED
    BY <2>3, <2>4
<1>12. CASE Entered(q, n, order, i)
  <2>1. /\ r[i] >= i
        /\ \E j \in Above(r, n, i) : j \in Above(r, n, j)
        /\ i \in Above(r, n, i) => \A j \in Above(r, n, i) \ {i} : r[j] < j
    BY <1>4, <1>5, <1>6, <1>8, <1>12, EnteredMoves
  <2>2. ~(r[i] < i)
    BY <1>5, <1>6, <1>10, <2>1
  <2>3. \A j \in Above(r, n, i) : j \in 1..n /\ StarterOf(ex, j) = r[j]
    BY <1>4 DEF Above
  <2>4. AncestorsOf(ex, i) = Above(r, n, i)
    BY <1>6, <1>7
  <2>5. \E j \in AncestorsOf(ex, i) : j \in AncestorsOf(ex, j)
    BY <1>7, <2>1, <2>3, <2>4
  <2>6. i \in AncestorsOf(ex, i) => \A j \in AncestorsOf(ex, i) \ {i} : StarterOf(ex, j) < j
    BY <2>1, <2>3, <2>4
  <2> QED
    BY <2>2, <2>5, <2>6
<1> QED
  BY <1>9, <1>11, <1>12

-----------------------------------------------------------------------------
(* Timelines: what they show, and that they show it once. *)

\* A sequence that shows each member of S once and nothing else.
ShowsOnce(s, S) ==
  /\ s \in Seq(S)
  /\ \A x \in S : \E m \in 1..Len(s) : s[m] = x
  /\ \A a, b \in 1..Len(s) : s[a] = s[b] => a = b

\* One after the other.
LEMMA ConcatShows ==
  ASSUME NEW A, NEW B, A \cap B = {}, NEW s, NEW t, ShowsOnce(s, A), ShowsOnce(t, B)
  PROVE  ShowsOnce(s \o t, A \cup B)
<1>1. s \in Seq(A \cup B) /\ t \in Seq(A \cup B)
  <2>1. s \in Seq(A) /\ t \in Seq(B) /\ A \subseteq A \cup B /\ B \subseteq A \cup B
    BY DEF ShowsOnce
  <2> QED
    BY <2>1, SeqOfPart
<1>2. /\ \A m \in 1..Len(s) : s[m] \in A
      /\ \A m \in 1..Len(t) : t[m] \in B
  BY DEF ShowsOnce
<1>3. PICK u : u = s \o t
  OBVIOUS
<1>4. /\ u \in Seq(A \cup B)
      /\ \A i \in 1..Len(s) : i \in 1..Len(u) /\ u[i] = s[i]
      /\ \A i \in 1..Len(t) : Len(s) + i \in 1..Len(u) /\ u[Len(s) + i] = t[i]
      /\ \A i \in 1..Len(u) : i \in 1..Len(s) \/ \E j \in 1..Len(t) : i = Len(s) + j
  BY <1>1, <1>3, ConcatPlaces
<1>5. ASSUME NEW x \in A \cup B PROVE \E m \in 1..Len(u) : u[m] = x
  <2>1. CASE x \in A
    <3>1. PICK m \in 1..Len(s) : s[m] = x
      BY <2>1 DEF ShowsOnce
    <3> QED
      BY <1>4, <3>1
  <2>2. CASE x \in B
    <3>1. PICK m \in 1..Len(t) : t[m] = x
      BY <2>2 DEF ShowsOnce
    <3> QED
      BY <1>4, <3>1
  <2> QED
    BY <2>1, <2>2
<1>6. ASSUME NEW a \in 1..Len(u), NEW b \in 1..Len(u), u[a] = u[b]
      PROVE  a = b
  <2>1. CASE a \in 1..Len(s) /\ b \in 1..Len(s)
    BY <1>4, <1>6, <2>1 DEF ShowsOnce
  <2>2. CASE a \in 1..Len(s) /\ b \notin 1..Len(s)
    <3>1. PICK j \in 1..Len(t) : b = Len(s) + j
      BY <1>4, <2>2
    <3>2. u[b] = t[j] /\ u[a] = s[a]
      BY <1>4, <2>2, <3>1
    <3> QED
      BY <1>2, <1>6, <2>2, <3>2
  <2>3. CASE a \notin 1..Len(s) /\ b \in 1..Len(s)
    <3>1. PICK j \in 1..Len(t) : a = Len(s) + j
      BY <1>4, <2>3
    <3>2. u[a] = t[j] /\ u[b] = s[b]
      BY <1>4, <2>3, <3>1
    <3> QED
      BY <1>2, <1>6, <2>3, <3>2
  <2>4. CASE a \notin 1..Len(s) /\ b \notin 1..Len(s)
    <3>1. PICK j \in 1..Len(t) : a = Len(s) + j
      BY <1>4, <2>4
    <3>2. PICK k \in 1..Len(t) : b = Len(s) + k
      BY <1>4, <2>4
    <3>3. u[a] = t[j] /\ u[b] = t[k]
      BY <1>4, <3>1, <3>2
    <3>4. j = k
      BY <1>6, <3>3 DEF ShowsOnce
    <3> QED
      BY <3>1, <3>2, <3>4
  <2> QED
    BY <2>1, <2>2, <2>3, <2>4
<1> QED
  BY <1>3, <1>4, <1>5, <1>6 DEF ShowsOnce

\* Sequences that show parts of S once, each member of S being in one part.
ArePartsOf(S, n, ss, part) ==
  /\ ss = [i \in 1..n |-> ss[i]]
  /\ \A i \in 1..n : ShowsOnce(ss[i], part[i])
  /\ \A i, j \in 1..n : \A x : x \in part[i] /\ x \in part[j] => i = j
  /\ \A x : x \in S <=> \E i \in 1..n : x \in part[i]

\* One after the other they show all of it once.
LEMMA FlatShows ==
  ASSUME NEW n \in Nat, NEW ss, NEW part, NEW S, ArePartsOf(S, n, ss, part)
  PROVE  ShowsOnce(FlattenSeq(ss), S)
<1>0. /\ ss = [i \in 1..n |-> ss[i]]
      /\ \A i \in 1..n : ShowsOnce(ss[i], part[i])
      /\ \A i, j \in 1..n : \A x : x \in part[i] /\ x \in part[j] => i = j
      /\ \A x : x \in S <=> \E i \in 1..n : x \in part[i]
  BY Zenon DEF ArePartsOf
<1> USE <1>0
<1>1. ASSUME NEW i \in 1..n PROVE ss[i] \in Seq(S) /\ \A a \in 1..Len(ss[i]) : ss[i][a] \in part[i]
  <2>1. ss[i] \in Seq(part[i])
    BY DEF ShowsOnce
  <2>2. part[i] \subseteq S
    OBVIOUS
  <2>3. PICK s : s = ss[i]
    OBVIOUS
  <2>4. s \in Seq(S) /\ \A a \in 1..Len(s) : s[a] \in part[i]
    BY <2>1, <2>2, <2>3, SeqOfPart
  <2> QED
    BY <2>3, <2>4
<1>2. ss \in [1..n -> Seq(S)]
  BY <1>1
<1>3. ASSUME NEW i \in 1..n, NEW a \in 1..Len(ss[i]), NEW b \in 1..Len(ss[i]), ss[i][a] = ss[i][b]
      PROVE  a = b
  BY <1>3 DEF ShowsOnce
<1>4. ASSUME NEW i \in 1..n, NEW j \in 1..n, NEW a \in 1..Len(ss[i]), NEW b \in 1..Len(ss[j]),
             ss[i][a] = ss[j][b]
      PROVE  i = j
  BY <1>1, <1>4
<1>7. AreApart(ss, n)
  BY <1>3, <1>4, Zenon DEF AreApart
<1>5. PICK flat \in Seq(S) : flat = FlattenSeq(ss) /\ Gathers(flat, ss, n)
  BY <1>2, <1>7, FlatIsInjective
<1>6. ASSUME NEW x \in S PROVE \E p \in 1..Len(flat) : flat[p] = x
  <2>1. PICK i \in 1..n : x \in part[i]
    OBVIOUS
  <2>2. \E a \in 1..Len(ss[i]) : ss[i][a] = x
    BY <2>1, Zenon DEF ShowsOnce
  <2> QED
    BY <1>5, <2>2, Zenon DEF Gathers
<1>8. \A p, q \in 1..Len(flat) : flat[p] = flat[q] => p = q
  BY <1>5, Zenon DEF Gathers
<1> QED
  BY <1>5, <1>6, <1>8, Zenon DEF ShowsOnce

\* An executor shows the segments of its part once.
LEMMA ExecutorShows ==
  ASSUME NEW d, NEW n, IsDerived(d, n), NEW heads \in SUBSET Heads(d),
         NEW g \in GroupsOf(d, heads), NEW e, e = ExecutorOf(d, heads, g)
  PROVE  ShowsOnce(e.main \o e.side, PartOf(d, heads, g))
<1> DEFINE S == PartOf(d, heads, g)
<1>1. Lists(e.main, S \ d.sides) /\ Lists(e.side, S \cap d.sides)
  BY ExecutorIs DEF IsExecutor
<1>2. ShowsOnce(e.main, S \ d.sides) /\ ShowsOnce(e.side, S \cap d.sides)
  BY <1>1 DEF Lists, ShowsOnce
<1>3. (S \ d.sides) \cap (S \cap d.sides) = {} /\ (S \ d.sides) \cup (S \cap d.sides) = S
  OBVIOUS
<1> HIDE DEF S
<1>4. ShowsOnce(e.main \o e.side, (S \ d.sides) \cup (S \cap d.sides))
  BY <1>2, <1>3, ConcatShows
<1> QED
  BY <1>3, <1>4 DEF S

\* A turn's node shows the segments of the turn once.
LEMMA NodeShows ==
  ASSUME NEW d, NEW n, IsDerived(d, n), NEW heads \in SUBSET Heads(d),
         NEW node, node.executors = Executors(d, heads)
  PROVE  ShowsOnce(ShownBy(node), heads)
<1>1. PICK E : E = ExecutorsOf(d, heads)
  OBVIOUS
<1>2. PICK x, q, order : AreArranged(E, node.executors, x, q, order)
  BY <1>1, ExecutorsAreArranged
<1>3. PICK w : w = Cardinality(E)
  OBVIOUS
<1>4. /\ w \in Nat /\ x \in [1..w -> E]
      /\ \A a, b \in 1..w : x[a] = x[b] => a = b
      /\ Arranged(q, w, order) /\ Len(order) = w
      /\ \A i \in 1..w : \E a \in 1..w : order[a] = i
      /\ node.executors = [k \in 1..w |-> x[order[k]]]
      /\ \A e \in E : \E m \in 1..w : x[m] = e
  BY <1>2, <1>3 DEF AreArranged
<1>5. /\ order \in [1..w -> 1..w]
      /\ \A a, b \in 1..w : order[a] = order[b] => a = b
  <2>1. order \in Seq(1..w) /\ \A a, b \in 1..Len(order) : order[a] = order[b] => a = b
    BY <1>4, Zenon DEF Arranged
  <2>2. Len(order) = w
    BY <1>4
  <2>3. order \in [1..w -> 1..w]
    BY <2>1, <2>2
  <2> QED
    BY <2>1, <2>2, <2>3
<1> DEFINE shown(k) == x[order[k]]
           group(k) == CHOOSE g \in GroupsOf(d, heads) : shown(k) = ExecutorOf(d, heads, g)
           ss   == [k \in 1..w |-> node.executors[k].main \o node.executors[k].side]
           part == [k \in 1..w |-> PartOf(d, heads, group(k))]
<1>6. ASSUME NEW k \in 1..w
      PROVE  /\ shown(k) \in E /\ group(k) \in GroupsOf(d, heads)
             /\ shown(k) = ExecutorOf(d, heads, group(k)) /\ node.executors[k] = shown(k)
  <2>1. shown(k) \in E /\ node.executors[k] = shown(k)
    BY <1>4, <1>5
  <2>2. \E g \in GroupsOf(d, heads) : shown(k) = ExecutorOf(d, heads, g)
    BY <1>1, <2>1 DEF ExecutorsOf
  <2> QED
    BY <2>1, <2>2
<1>7. ASSUME NEW i \in 1..w, NEW j \in 1..w, shown(i) = shown(j)
      PROVE  i = j
  <2>1. order[i] \in 1..w /\ order[j] \in 1..w
    BY <1>5
  <2>2. order[i] = order[j]
    BY <1>4, <1>7, <2>1
  <2> QED
    BY <1>5, <2>2
<1> HIDE DEF shown, group
<1>8. \A k \in 1..w : ss[k] = shown(k).main \o shown(k).side /\ part[k] = PartOf(d, heads, group(k))
  BY <1>6
<1>9. ss = [k \in 1..w |-> ss[k]]
  OBVIOUS
<1>10. ShownBy(node) = FlattenSeq(ss)
  BY <1>4 DEF ShownBy
<1> HIDE DEF ss, part
<1>11. ASSUME NEW k \in 1..w PROVE ShowsOnce(ss[k], part[k])
  <2>1. ShowsOnce(shown(k).main \o shown(k).side, PartOf(d, heads, group(k)))
    BY <1>6, ExecutorShows
  <2> QED
    BY <1>8, <2>1
<1>12. ASSUME NEW i \in 1..w, NEW j \in 1..w, NEW h, h \in part[i], h \in part[j]
       PROVE  i = j
  <2>1. group(i) = group(j)
    BY <1>8, <1>12 DEF PartOf
  <2>2. shown(i) = shown(j)
    BY <1>6, <2>1
  <2> QED
    BY <1>7, <2>2
<1>13. ASSUME NEW h \in heads PROVE \E k \in 1..w : h \in part[k]
  <2>1. PICK g \in GroupsOf(d, heads) : g = GroupOf(d, h) /\ h \in PartOf(d, heads, g)
    BY DEF GroupsOf, PartOf
  <2>2. ExecutorOf(d, heads, g) \in E
    BY <1>1 DEF ExecutorsOf
  <2>3. PICK m \in 1..w : x[m] = ExecutorOf(d, heads, g)
    BY <1>4, <2>2
  <2>4. PICK k \in 1..w : order[k] = m
    BY <1>4
  <2>5. ExecutorOf(d, heads, group(k)) = ExecutorOf(d, heads, g)
    BY <1>6, <2>3, <2>4 DEF shown
  <2>6. group(k) = g
    BY <1>6, <2>5, PlacesTellApart
  <2> QED
    BY <1>8, <2>1, <2>6
<1>16. \A i, j \in 1..w : \A h : h \in part[i] /\ h \in part[j] => i = j
  BY <1>12
<1>14. \A h : h \in heads <=> \E k \in 1..w : h \in part[k]
  BY <1>8, <1>13 DEF PartOf
<1>15. ArePartsOf(heads, w, ss, part)
  BY <1>9, <1>11, <1>14, <1>16, Zenon DEF ArePartsOf
<1>17. ShowsOnce(FlattenSeq(ss), heads)
  BY <1>4, <1>15, FlatShows
<1> QED
  BY <1>10, <1>17

\* The segments of a turn.
HeadsIn(d, turn) == {h \in Heads(d) : d.turns.of[h] = turn}

\* The nodes of a timeline: one for each turn that has segments.
IsTimeline(d, timeline, turns, w) ==
  /\ w \in Nat /\ turns \in [1..w -> Nat]
  /\ \A a, b \in 1..w : turns[a] = turns[b] => a = b
  /\ \A h \in Heads(d) : \E k \in 1..w : turns[k] = d.turns.of[h]
  /\ \A k \in 1..w : \E h \in Heads(d) : turns[k] = d.turns.of[h]
  /\ timeline = [k \in 1..w |-> TurnNode(d, turns[k], HeadsIn(d, turns[k]))]

LEMMA SessionTurnsAre ==
  ASSUME NEW d, NEW n, IsDerived(d, n)
  PROVE  \E turns, w : IsTimeline(d, SessionTurns(d), turns, w)
<1> DEFINE T == {d.turns.of[h] : h \in Heads(d)}
<1>1. n \in Nat /\ Heads(d) \in SUBSET (1..n) /\ IsFiniteSet(Heads(d))
  BY HeadsAre DEF IsDerived
<1>2. \A i \in 1..n : d.turns.of[i] \in Nat
  BY DEF IsDerived, AreTurns
<1>3. T \subseteq Nat /\ T \subseteq Int
  BY <1>1, <1>2
<1>4. IsFiniteSet(T)
  <2> DEFINE f == d.turns.of
  <2>1. IsFiniteSet({f[h] : h \in Heads(d)})
    BY <1>1, ImageIsFinite
  <2> QED
    BY <2>1
<1>14. \A x : x \in T <=> \E h \in Heads(d) : x = d.turns.of[h]
  OBVIOUS
<1>15. T = {d.turns.of[h] : h \in Heads(d)}
  OBVIOUS
<1> HIDE DEF T
<1>5. PICK turns : turns = Ascending(T)
  OBVIOUS
<1>6. /\ turns \in Seq(T)
      /\ \A x \in T : \E m \in 1..Len(turns) : turns[m] = x
      /\ \A a, b \in 1..Len(turns) : turns[a] = turns[b] => a = b
  <2>1. Lists(turns, T)
    BY <1>3, <1>4, <1>5, AscendingLists
  <2> QED
    BY <2>1, Zenon DEF Lists
<1>7. PICK w \in Nat : w = Len(turns)
  BY <1>6
<1>8. turns \in [1..w -> T] /\ DOMAIN turns = 1..w
  BY <1>6, <1>7
<1>9. SessionTurns(d) = [k \in 1..w |-> TurnNode(d, turns[k], HeadsIn(d, turns[k]))]
  BY <1>5, <1>8, <1>15, Zenon DEF SessionTurns, HeadsIn
<1>10. \A h \in Heads(d) : \E k \in 1..w : turns[k] = d.turns.of[h]
  <2>1. \A x \in T : \E m \in 1..w : turns[m] = x
    BY <1>6, <1>7
  <2> QED
    BY <2>1, <1>14
<1>11. \A k \in 1..w : \E h \in Heads(d) : turns[k] = d.turns.of[h]
  BY <1>8, <1>14
<1>12. turns \in [1..w -> Nat]
  BY <1>3, <1>8
<1>13. IsTimeline(d, SessionTurns(d), turns, w)
  BY <1>6, <1>7, <1>9, <1>10, <1>11, <1>12, Zenon DEF IsTimeline
<1> QED
  BY <1>13

\* What a node is made of.
LEMMA NodesAre ==
  ASSUME NEW d, NEW timeline, NEW turns, NEW w, IsTimeline(d, timeline, turns, w), NEW k \in 1..w
  PROVE  /\ timeline[k].turn = turns[k]
         /\ timeline[k].exchange_count = ExchangeCount(d, HeadsIn(d, turns[k]))
         /\ timeline[k].executors = Executors(d, HeadsIn(d, turns[k]))
<1>1. timeline[k] = TurnNode(d, turns[k], HeadsIn(d, turns[k]))
  BY DEF IsTimeline
<1> QED
  BY <1>1 DEF TurnNode, WithExecutors

\* A timeline shows every segment once.
LEMMA TimelineShows ==
  ASSUME NEW d, NEW n, IsDerived(d, n)
  PROVE  ShowsOnce(ShownIn(SessionTurns(d)), Heads(d))
<1>1. PICK timeline : timeline = SessionTurns(d)
  OBVIOUS
<1>2. PICK turns, w : IsTimeline(d, timeline, turns, w)
  BY <1>1, SessionTurnsAre
<1> DEFINE ss   == [k \in 1..w |-> ShownBy(timeline[k])]
           part == [k \in 1..w |-> HeadsIn(d, turns[k])]
<1>3. w \in Nat /\ DOMAIN timeline = 1..w
  BY <1>2 DEF IsTimeline
<1>4. ShownIn(timeline) = FlattenSeq(ss)
  BY <1>3 DEF ShownIn
<1>5. ss = [k \in 1..w |-> ss[k]] /\ \A k \in 1..w : ss[k] = ShownBy(timeline[k]) /\ part[k] = HeadsIn(d, turns[k])
  OBVIOUS
<1> HIDE DEF ss, part
<1>6. ASSUME NEW k \in 1..w PROVE ShowsOnce(ss[k], part[k])
  <2>1. HeadsIn(d, turns[k]) \in SUBSET Heads(d)
    BY DEF HeadsIn
  <2>2. timeline[k].executors = Executors(d, HeadsIn(d, turns[k]))
    BY <1>2, NodesAre
  <2>3. ShowsOnce(ShownBy(timeline[k]), HeadsIn(d, turns[k]))
    BY <2>1, <2>2, NodeShows
  <2> QED
    BY <1>5, <2>3
<1>7. \A i, j \in 1..w : \A h : h \in part[i] /\ h \in part[j] => i = j
  <2>1. \A i, j \in 1..w : turns[i] = turns[j] => i = j
    BY <1>2, Zenon DEF IsTimeline
  <2>2. \A i, j \in 1..w : \A h : h \in part[i] /\ h \in part[j] => turns[i] = turns[j]
    BY <1>5 DEF HeadsIn
  <2> QED
    BY <2>1, <2>2, Zenon
<1>8. \A h : h \in Heads(d) <=> \E k \in 1..w : h \in part[k]
  <2>1. \A h \in Heads(d) : \E k \in 1..w : turns[k] = d.turns.of[h]
    BY <1>2, Zenon DEF IsTimeline
  <2> QED
    BY <1>5, <2>1 DEF HeadsIn
<1>9. ArePartsOf(Heads(d), w, ss, part)
  BY <1>5, <1>6, <1>7, <1>8, Zenon DEF ArePartsOf
<1>10. ShowsOnce(FlattenSeq(ss), Heads(d))
  <2>1. PICK H : H = Heads(d)
    OBVIOUS
  <2>2. ShowsOnce(FlattenSeq(ss), H)
    <3>1. ArePartsOf(H, w, ss, part)
      BY <1>9, <2>1
    <3> QED
      BY <1>3, <3>1, FlatShows
  <2> QED
    BY <2>1, <2>2
<1> QED
  BY <1>1, <1>4, <1>10

\* What is shown once is shown.
LEMMA ShownIsSet ==
  ASSUME NEW S, NEW shown, ShowsOnce(shown, S)
  PROVE  IsInjective(shown) /\ ToSet(shown) = S
<1>1. shown \in Seq(S)
  BY DEF ShowsOnce
<1>2. DOMAIN shown = 1..Len(shown) /\ \A m \in 1..Len(shown) : shown[m] \in S
  BY <1>1
<1>3. IsInjective(shown)
  BY <1>2, Zenon DEF ShowsOnce, IsInjective
<1>4. ToSet(shown) = S
  <2>1. \A x \in S : \E m \in 1..Len(shown) : shown[m] = x
    BY Zenon DEF ShowsOnce
  <2> QED
    BY <1>2, <2>1 DEF ToSet
<1> QED
  BY <1>3, <1>4

-----------------------------------------------------------------------------
(* What the views of a session say of one another. *)

\* An exchange is in the turn of its head.
LEMMA HeadsShareTurn ==
  ASSUME NEW d, NEW n, IsDerived(d, n), NEW i \in 1..n
  PROVE  d.turns.of[d.head[i]] = d.turns.of[i]
<1>1. d.head[i] \in 1..n /\ d.key[d.head[i]] = d.key[i]
  BY HeadsHaveMembers
<1>2. \A j \in 1..n : d.key[j] = <<d.turns.of[j], d.key[j][2]>>
  BY DEF IsDerived
<1>3. \A j \in 1..n : d.key[j][1] = d.turns.of[j]
  <2> TAKE j \in 1..n
  <2>1. PICK a, b : a = d.turns.of[j] /\ b = d.key[j][2]
    OBVIOUS
  <2>2. d.key[j] = <<a, b>>
    BY <1>2, <2>1
  <2>3. d.key[j][1] = a
    BY <2>2
  <2> QED
    BY <2>1, <2>3
<1> QED
  BY <1>1, <1>3

\* The members of the segment of an exchange, from it on.
Onward(d, i) == {j \in Members(d, d.head[i]) : j >= i}

\* The run of a segment begins at its exchange and ends where the segment does.
LEMMA RunIs ==
  ASSUME NEW d, NEW n, IsDerived(d, n), NEW i \in 1..n, NEW run, run = SegmentRun(d, i)
  PROVE  /\ Lists(run, Onward(d, i)) /\ ToSet(run) = Onward(d, i)
         /\ run[1] = i /\ Last(run) = Max(Members(d, d.head[i]))
<1> DEFINE M == Members(d, d.head[i])
           S == Onward(d, i)
<1>1. n \in Nat /\ DOMAIN d.head = 1..n
  BY DEF IsDerived, IsCut
<1>2. M \in SUBSET (1..n) /\ i \in M /\ S = {j \in M : j >= i} /\ S \in SUBSET (1..n) /\ i \in S
  BY <1>1 DEF Members, Onward
<1> HIDE DEF M, S
<1>3. M \subseteq Int /\ S \subseteq Int /\ IsFiniteSet(M) /\ IsFiniteSet(S)
  <2>1. IsFiniteSet(1..n)
    BY <1>1, FS_Interval
  <2>2. IsFiniteSet(M) /\ IsFiniteSet(S)
    BY <1>2, <2>1, FS_Subset
  <2>3. M \subseteq Int /\ S \subseteq Int
    BY <1>2
  <2> QED
    BY <2>2, <2>3
<1>4. run = Ascending(S)
  BY DEF SegmentRun, S, Onward
<1>5. Lists(run, S) /\ \A a, b \in 1..Len(run) : a < b => run[a] < run[b]
  BY <1>3, <1>4, AscendingLists
<1>6. PICK k \in Nat : k = Len(run)
  BY <1>5 DEF Lists
<1>7. /\ run \in Seq(S) /\ \A x \in S : \E m \in 1..k : run[m] = x
      /\ \A m \in 1..k : run[m] \in S
      /\ \A a, b \in 1..k : a < b => run[a] < run[b]
  BY <1>5, <1>6 DEF Lists
<1>8. ToSet(run) = S
  <2>1. DOMAIN run = 1..k
    BY <1>6, <1>7
  <2> QED
    BY <1>7, <2>1 DEF ToSet
<1>9. 1 \in 1..k /\ k \in 1..k
  <2>1. PICK m \in 1..k : run[m] = i
    BY <1>2, <1>7
  <2> QED
    BY <2>1
<1>10. run[1] = i
  <2>1. PICK m \in 1..k : run[m] = i
    BY <1>2, <1>7
  <2>2. run[1] \in Int /\ i \in Int /\ run[1] >= i
    BY <1>2, <1>3, <1>7, <1>9
  <2>3. m # 1 => run[1] < run[m]
    BY <1>7, <1>9
  <2> QED
    BY <2>1, <2>2, <2>3
<1>11. run[k] = Max(M)
  <2>1. Max(M) \in M /\ \A x \in M : x <= Max(M)
    BY <1>2, <1>3, MaxIsGreatest
  <2>2. Max(M) \in S
    BY <1>2, <2>1
  <2>3. PICK m \in 1..k : run[m] = Max(M)
    BY <1>7, <2>2
  <2>4. run[k] \in M /\ run[k] \in Int /\ Max(M) \in Int
    BY <1>2, <1>3, <1>7, <1>9, <2>1
  <2>5. run[k] <= Max(M)
    BY <2>1, <2>4
  <2>6. m # k => run[m] < run[k]
    BY <1>7, <1>9
  <2> QED
    BY <2>3, <2>4, <2>5, <2>6
<1>12. Last(run) = Max(M)
  BY <1>6, <1>11 DEF Last
<1> QED
  BY <1>5, <1>8, <1>10, <1>12 DEF S, M

\* A segment begins with its head.
LEMMA HeadsComeFirst ==
  ASSUME NEW d, NEW n, IsDerived(d, n), NEW h \in Heads(d)
  PROVE  Onward(d, h) = Members(d, h) /\ h \in 1..n /\ d.head[h] = h
<1>1. n \in Nat /\ DOMAIN d.head = 1..n /\ DOMAIN d.key = 1..n
  BY DEF IsDerived, IsCut
<1>2. h \in 1..n /\ d.head[h] = h
  BY HeadsAre
<1>3. \A j \in 1..n : d.head[j] \in 1..j
  <2> TAKE j \in 1..n
  <2>1. d.head[j] = HeadOf(d.key, d.sides, j)
    BY DEF IsDerived, IsCut
  <2> QED
    BY <1>1, <2>1, HeadIsFirst
<1>4. \A j \in Members(d, h) : j \in 1..n /\ h \in 1..j
  BY <1>1, <1>3 DEF Members
<1>5. \A j \in Members(d, h) : j >= h
  BY <1>1, <1>4
<1> QED
  BY <1>2, <1>5 DEF Onward

\* The list of segments: their entries, and how many there are.
LEMMA StreamsAre ==
  ASSUME NEW d, NEW n, IsDerived(d, n), NEW streams, streams = StreamsOf(d)
  PROVE  /\ Len(streams) = Cardinality(Heads(d))
         /\ \A k \in DOMAIN streams :
              \E h \in Heads(d) : streams[k] = StreamSegment(d, h) /\ streams[k].head = h
<1>1. PICK heads : heads = Ascending(Heads(d))
  OBVIOUS
<1>2. Heads(d) \subseteq Int /\ IsFiniteSet(Heads(d))
  <2>1. Heads(d) \in SUBSET (1..n) /\ IsFiniteSet(Heads(d)) /\ n \in Nat
    BY HeadsAre DEF IsDerived
  <2> QED
    BY <2>1
<1>3. Lists(heads, Heads(d))
  BY <1>1, <1>2, AscendingLists
<1>4. PICK k \in Nat : k = Cardinality(Heads(d))
  BY <1>3 DEF Lists
<1>5. heads \in Seq(Heads(d)) /\ Len(heads) = k
  BY <1>3, <1>4 DEF Lists
<1>6. DOMAIN heads = 1..k /\ \A m \in 1..k : heads[m] \in Heads(d)
  BY <1>5
<1>7. streams = [m \in 1..k |-> StreamSegment(d, heads[m])]
  BY <1>1, <1>6 DEF StreamsOf
<1>8. Len(streams) = k
  BY <1>7
<1>9. ASSUME NEW m \in DOMAIN streams
      PROVE  \E h \in Heads(d) : streams[m] = StreamSegment(d, h) /\ streams[m].head = h
  <2>1. m \in 1..k /\ streams[m] = StreamSegment(d, heads[m])
    BY <1>7
  <2>2. streams[m].head = heads[m]
    BY <2>1 DEF StreamSegment
  <2> QED
    BY <1>6, <2>1, <2>2
<1> QED
  BY <1>4, <1>8, <1>9

\* The entry of a segment tells what its first exchange does.
LEMMA EntryAgrees ==
  ASSUME NEW d, NEW n, IsDerived(d, n), NEW h \in Heads(d)
  PROVE  /\ StreamSegment(d, h).parent \in {0, SegmentExchange(d, h).base_segment}
         /\ StreamSegment(d, h).turn_id = SegmentExchange(d, h).turn_id
         /\ StreamSegment(d, h).exchange_count = Len(SegmentRun(d, h))
<1>1. h \in 1..n /\ d.head[h] = h /\ Onward(d, h) = Members(d, h)
  BY HeadsComeFirst
<1>2. d.parent[h] = ParentOf(d.bases, d.head, h)
  BY <1>1 DEF IsDerived, IsCut
<1>3. StreamSegment(d, h).parent = d.parent[h]
  BY DEF StreamSegment
<1>4. SegmentExchange(d, h).base_segment
        = IF d.bases[h].base = 0 THEN 0 ELSE d.head[d.bases[h].base]
  BY DEF SegmentExchange
<1>5. d.parent[h] \in {0, SegmentExchange(d, h).base_segment}
  <2>1. CASE Earlier(d.bases, h) = 0
    BY <1>2, <2>1 DEF ParentOf
  <2>2. CASE Earlier(d.bases, h) # 0
    <3>1. Earlier(d.bases, h) = d.bases[h].base
      BY <2>2 DEF Earlier, Base
    <3> QED
      BY <1>2, <1>4, <2>2, <3>1 DEF ParentOf
  <2> QED
    BY <2>1, <2>2
<1>6. StreamSegment(d, h).turn_id = TurnId(d, d.turns.of[h])
  BY DEF StreamSegment
<1>7. SegmentExchange(d, h).turn_id = TurnId(d, d.turns.of[h])
  BY DEF SegmentExchange
<1>8. StreamSegment(d, h).exchange_count = Cardinality(Members(d, h))
  <2>1. StreamSegment(d, h).exchange_count = Cardinality(UNION {Members(d, g) : g \in {h}})
    BY DEF StreamSegment, ExchangeCount
  <2>2. UNION {Members(d, g) : g \in {h}} = Members(d, h)
    OBVIOUS
  <2> QED
    BY <2>1, <2>2
<1>9. Len(SegmentRun(d, h)) = Cardinality(Onward(d, h))
  <2>1. Lists(SegmentRun(d, h), Onward(d, h))
    BY <1>1, RunIs
  <2> QED
    BY <2>1 DEF Lists
<1> QED
  BY <1>1, <1>3, <1>5, <1>6, <1>7, <1>8, <1>9

\* The exchanges of the nodes of a timeline.
ExchangesShown(timeline) ==
  FoldLeft(LAMBDA sum, node : sum + node.exchange_count, 0, timeline)

\* Their number node by node: h[k] is that of the first k.
AddsUp(h, timeline, w) ==
  h[0] = 0 /\ \A k \in 1..w : h[k] = h[k - 1] + timeline[k].exchange_count

LEMMA ShownOneByOne ==
  ASSUME NEW w \in Nat, NEW timeline, DOMAIN timeline = 1..w,
         \A k \in 1..w : timeline[k].exchange_count \in Nat
  PROVE  \E h : AddsUp(h, timeline, w) /\ ExchangesShown(timeline) = h[w]
<1> DEFINE Step(sum, k) == sum + timeline[k].exchange_count
           step == [p \in Nat \X (1..w) |-> Step(p[1], p[2])]
           IsFold(g) == g = [T \in SUBSET DOMAIN timeline |->
                               IF T = {} THEN 0 ELSE Step(g[T \ {Max(T)}], Max(T))]
<1>1. ASSUME NEW sum \in Nat, NEW k \in 1..w PROVE Step(sum, k) \in Nat
  <2>1. timeline[k].exchange_count \in Nat
    OBVIOUS
  <2> QED
    BY <2>1
<1>2. ExchangesShown(timeline) = (CHOOSE g : IsFold(g))[DOMAIN timeline]
  BY Zenon DEF ExchangesShown, FoldLeft, MapThenFoldSet
<1> HIDE DEF Step
<1>3. step \in [Nat \X (1..w) -> Nat]
  BY <1>1
<1>4. \A sum \in Nat, k \in 1..w : step[<<sum, k>>] = Step(sum, k)
  OBVIOUS
<1> HIDE DEF step
<1>5. \A T \in SUBSET (1..w) : T # {} => Max(T) \in T
  <2> TAKE T \in SUBSET (1..w)
  <2>1. IsFiniteSet(1..w)
    BY FS_Interval
  <2>2. IsFiniteSet(T) /\ T \subseteq Int
    <3>1. IsFiniteSet(T)
      BY <2>1, FS_Subset
    <3> QED
      BY <3>1
  <2> QED
    BY <2>2, MaxIsGreatest
<1>6. \E g : IsFold(g)
  <2>1. PICK g \in [SUBSET (1..w) -> Nat] : FoldTo(g, w, 0, step)
    BY <1>3, FoldIsTyped
  <2>2. g = [T \in SUBSET (1..w) |-> IF T = {} THEN 0 ELSE step[<<g[T \ {Max(T)}], Max(T)>>]]
    BY <2>1, Zenon DEF FoldTo
  <2>3. ASSUME NEW T \in SUBSET (1..w), T # {}
        PROVE  step[<<g[T \ {Max(T)}], Max(T)>>] = Step(g[T \ {Max(T)}], Max(T))
    <3>1. Max(T) \in 1..w /\ T \ {Max(T)} \in SUBSET (1..w)
      BY <1>5, <2>3
    <3>2. g[T \ {Max(T)}] \in Nat
      BY <2>1, <3>1
    <3> QED
      BY <1>4, <3>1, <3>2
  <2>4. g = [T \in SUBSET (1..w) |-> g[T]]
    BY <2>1
  <2>5. \A T \in SUBSET (1..w) : g[T] = IF T = {} THEN 0 ELSE Step(g[T \ {Max(T)}], Max(T))
    <3> TAKE T \in SUBSET (1..w)
    <3>1. g[T] = IF T = {} THEN 0 ELSE step[<<g[T \ {Max(T)}], Max(T)>>]
      BY <2>2, Zenon
    <3> QED
      BY <2>3, <3>1, Zenon
  <2>6. g = [T \in SUBSET (1..w) |-> IF T = {} THEN 0 ELSE Step(g[T \ {Max(T)}], Max(T))]
    BY <2>4, <2>5
  <2>7. IsFold(g)
    BY <2>6
  <2> QED
    BY <2>7
<1>7. PICK g : g = CHOOSE f : IsFold(f)
  OBVIOUS
<1>8. IsFold(g)
  BY <1>6, <1>7, Zenon
<1>9. \A T \in SUBSET (1..w) : g[T] = IF T = {} THEN 0 ELSE Step(g[T \ {Max(T)}], Max(T))
  BY <1>8
<1> HIDE DEF IsFold
<1> DEFINE h == [k \in 0..w |-> g[1..k]]
<1>10. h[0] = 0
  <2>1. 1..0 = {} /\ 0 \in 0..w
    OBVIOUS
  <2> QED
    BY <1>9, <2>1
<1>11. ASSUME NEW k \in 1..w PROVE h[k] = Step(h[k - 1], k)
  <2>1. k \in Nat /\ k # 0 /\ k \in 0..w /\ k - 1 \in 0..w /\ 1..k \in SUBSET (1..w)
    OBVIOUS
  <2>2. 1..k # {} /\ Max(1..k) = k /\ (1..k) \ {k} = 1..(k - 1)
    BY <2>1, UpTo
  <2>3. g[1..k] = Step(g[1..(k - 1)], k)
    BY <1>9, <2>1, <2>2
  <2> QED
    BY <2>1, <2>3
<1>12. ExchangesShown(timeline) = h[w]
  <2>1. w \in 0..w
    OBVIOUS
  <2> QED
    BY <1>2, <1>7, <2>1
<1> HIDE DEF h
<1>13. AddsUp(h, timeline, w)
  BY <1>10, <1>11 DEF AddsUp, Step
<1> QED
  BY <1>12, <1>13

\* The nodes of a timeline show every exchange of the session, each once.
LEMMA EveryExchangeIsShown ==
  ASSUME NEW d, NEW n, IsDerived(d, n), NEW timeline, NEW turns, NEW w,
         IsTimeline(d, timeline, turns, w)
  PROVE  ExchangesShown(timeline) = n
<1> DEFINE In(k)   == {i \in 1..n : d.turns.of[i] = turns[k]}
           Begun(k) == {i \in 1..n : \E j \in 1..k : d.turns.of[i] = turns[j]}
<1>1. /\ w \in Nat /\ \A a, b \in 1..w : turns[a] = turns[b] => a = b
      /\ \A h \in Heads(d) : \E k \in 1..w : turns[k] = d.turns.of[h]
      /\ n \in Nat
  BY Zenon DEF IsTimeline, IsDerived
<1>2. DOMAIN timeline = 1..w
  BY DEF IsTimeline
<1>3. IsFiniteSet(1..n) /\ Cardinality(1..n) = n
  BY <1>1, FS_Interval
<1>4. \A k : /\ In(k) \in SUBSET (1..n) /\ Begun(k) \in SUBSET (1..n)
             /\ IsFiniteSet(In(k)) /\ IsFiniteSet(Begun(k))
             /\ Cardinality(In(k)) \in Nat /\ Cardinality(Begun(k)) \in Nat
  <2> TAKE k
  <2>1. In(k) \in SUBSET (1..n) /\ Begun(k) \in SUBSET (1..n)
    OBVIOUS
  <2> HIDE DEF In, Begun
  <2>2. IsFiniteSet(In(k)) /\ IsFiniteSet(Begun(k))
    BY <1>3, <2>1, FS_Subset
  <2> QED
    BY <2>1, <2>2, FS_CardinalityType
<1>5. ASSUME NEW k \in 1..w PROVE timeline[k].exchange_count = Cardinality(In(k))
  <2>1. timeline[k].exchange_count = ExchangeCount(d, HeadsIn(d, turns[k]))
    BY NodesAre
  <2>2. ExchangeCount(d, HeadsIn(d, turns[k])) = Cardinality(Inside(d, HeadsIn(d, turns[k])))
    BY DEF ExchangeCount, Inside
  <2>3. HeadsIn(d, turns[k]) \in SUBSET Heads(d)
    BY DEF HeadsIn
  <2>4. /\ Inside(d, HeadsIn(d, turns[k])) \in SUBSET (1..n)
        /\ \A i \in 1..n : i \in Inside(d, HeadsIn(d, turns[k])) <=> d.head[i] \in HeadsIn(d, turns[k])
    BY <2>3, InsideIs
  <2>5. \A i \in 1..n : d.head[i] \in HeadsIn(d, turns[k]) <=> i \in In(k)
    <3> TAKE i \in 1..n
    <3>1. d.head[i] \in Heads(d) /\ d.turns.of[d.head[i]] = d.turns.of[i]
      BY HeadsAre, HeadsShareTurn
    <3> QED
      BY <3>1 DEF HeadsIn
  <2> HIDE DEF In
  <2>6. Inside(d, HeadsIn(d, turns[k])) = In(k)
    BY <1>4, <2>4, <2>5
  <2> QED
    BY <2>1, <2>2, <2>6
<1>6. PICK h : AddsUp(h, timeline, w) /\ ExchangesShown(timeline) = h[w]
  <2>1. \A k \in 1..w : timeline[k].exchange_count \in Nat
    BY <1>4, <1>5
  <2> QED
    BY <1>1, <1>2, <2>1, ShownOneByOne
<1>7. h[0] = 0 /\ \A k \in 1..w : h[k] = h[k - 1] + Cardinality(In(k))
  BY <1>5, <1>6 DEF AddsUp
<1> DEFINE T == {k \in 0..w : h[k] = Cardinality(Begun(k))}
<1>8. 0 \in T
  <2>1. Begun(0) = {}
    OBVIOUS
  <2>2. Cardinality(Begun(0)) = 0 /\ 0 \in 0..w
    BY <1>1, <2>1, FS_EmptySet
  <2> QED
    BY <1>7, <2>2
<1>9. ASSUME NEW k \in 0..(w - 1), k \in T PROVE k + 1 \in T
  <2>1. PICK m : m = k + 1
    OBVIOUS
  <2>2. m \in 1..w /\ m \in 0..w /\ m - 1 = k
    BY <1>1, <2>1
  <2>3. Begun(m) = Begun(k) \cup In(m)
    <3>1. \A j : j \in 1..m <=> j = m \/ j \in 1..k
      BY <1>1, <2>1
    <3> QED
      BY <3>1
  <2>4. Begun(k) \cap In(m) = {}
    <3>1. \A j \in 1..k : j \in 1..w /\ j # m
      BY <1>1, <2>1
    <3> QED
      BY <1>1, <2>2, <3>1
  <2> HIDE DEF In, Begun
  <2>5. Cardinality(Begun(m)) = Cardinality(Begun(k)) + Cardinality(In(m)) - Cardinality({})
    BY <1>4, <2>3, <2>4, FS_Union
  <2>6. Cardinality({}) = 0
    BY FS_EmptySet
  <2>7. h[m] = h[k] + Cardinality(In(m)) /\ h[k] = Cardinality(Begun(k))
    BY <1>7, <1>9, <2>2
  <2>8. h[m] = Cardinality(Begun(m))
    BY <1>4, <2>5, <2>6, <2>7
  <2> QED
    BY <2>1, <2>2, <2>8
<1>10. h[w] = Cardinality(Begun(w))
  <2> HIDE DEF Begun
  <2>1. \A k \in 0..w : k \in T
    <3> HIDE DEF T
    <3> QED
      BY <1>1, <1>8, <1>9, CountsUp
  <2>2. w \in 0..w
    BY <1>1
  <2> QED
    BY <2>1, <2>2
<1>11. Begun(w) = 1..n
  <2>1. ASSUME NEW i \in 1..n PROVE \E k \in 1..w : d.turns.of[i] = turns[k]
    <3>1. d.head[i] \in Heads(d) /\ d.turns.of[d.head[i]] = d.turns.of[i]
      BY HeadsAre, HeadsShareTurn
    <3> QED
      BY <1>1, <3>1
  <2> QED
    BY <2>1
<1> QED
  BY <1>3, <1>6, <1>10, <1>11

\* The turns that have a number have a node each.
LEMMA EveryTurnIsShown ==
  ASSUME NEW d, NEW n, IsDerived(d, n), NEW timeline, NEW turns, NEW w,
         IsTimeline(d, timeline, turns, w)
  PROVE  Len(d.turns.ids) = Cardinality({k \in DOMAIN timeline : timeline[k].turn # 0})
<1>1. /\ w \in Nat /\ \A a, b \in 1..w : turns[a] = turns[b] => a = b
      /\ \A h \in Heads(d) : \E k \in 1..w : turns[k] = d.turns.of[h]
      /\ \A k \in 1..w : \E h \in Heads(d) : turns[k] = d.turns.of[h]
      /\ n \in Nat
  BY Zenon DEF IsTimeline, IsDerived
<1>2. DOMAIN timeline = 1..w /\ \A k \in 1..w : timeline[k].turn = turns[k]
  <2>1. DOMAIN timeline = 1..w
    BY DEF IsTimeline
  <2>2. ASSUME NEW k \in 1..w PROVE timeline[k].turn = turns[k]
    BY NodesAre
  <2> QED
    BY <2>1, <2>2
<1>3. PICK m \in Nat : m = Len(d.turns.ids)
  BY DEF IsDerived, AreTurns
<1>4. /\ \A i \in 1..n : d.turns.of[i] \in 0..m
      /\ \A t \in 1..m : \E i \in 1..n : d.turns.of[i] = t
  BY <1>3 DEF IsDerived, AreTurns
<1>5. PICK K : K = {k \in 1..w : turns[k] # 0}
  OBVIOUS
<1>6. {k \in DOMAIN timeline : timeline[k].turn # 0} = K
  BY <1>2, <1>5
<1>7. IsFiniteSet(K)
  <2>1. IsFiniteSet(1..w) /\ K \in SUBSET (1..w)
    BY <1>1, <1>5, FS_Interval
  <2> QED
    BY <2>1, FS_Subset
<1>11. PICK I : I = {turns[k] : k \in K}
  OBVIOUS
<1>8. Cardinality(I) = Cardinality(K)
  <2>1. \A a, b \in K : turns[a] = turns[b] => a = b
    BY <1>1, <1>5
  <2>2. Cardinality({turns[k] : k \in K}) = Cardinality(K)
    BY <1>7, <2>1, ImageIsFinite
  <2> QED
    BY <1>11, <2>2, Zenon
<1>9. I = 1..m
  <2>1. ASSUME NEW k \in K PROVE turns[k] \in 1..m
    <3>1. PICK h \in Heads(d) : turns[k] = d.turns.of[h]
      BY <1>1, <1>5
    <3>2. turns[k] \in 0..m /\ turns[k] # 0
      BY <1>4, <1>5, <3>1, HeadsAre
    <3> QED
      BY <3>2
  <2>2. ASSUME NEW t \in 1..m PROVE \E k \in K : turns[k] = t
    <3>1. PICK i \in 1..n : d.turns.of[i] = t
      BY <1>4
    <3>2. d.head[i] \in Heads(d) /\ d.turns.of[d.head[i]] = t
      BY <3>1, HeadsAre, HeadsShareTurn
    <3>3. PICK k \in 1..w : turns[k] = t
      BY <1>1, <3>2
    <3>4. t # 0
      OBVIOUS
    <3> QED
      BY <1>5, <3>3, <3>4
  <2> QED
    BY <1>11, <2>1, <2>2
<1>10. Cardinality(1..m) = m
  BY FS_Interval
<1> QED
  BY <1>3, <1>6, <1>8, <1>9, <1>10, Zenon

\* What the views say of exchange i, in the nodes of a timeline.
IsPlaced(d, timeline, i) ==
  LET place == EventPosition(d, i)
      run   == SegmentRun(d, i)
  IN  /\ \A n \in DOMAIN timeline :
           place.segment \in ToSet(ShownBy(timeline[n])) <=> timeline[n].turn = place.turn
      /\ run[1] = i /\ Last(run) = Max(Members(d, place.segment))
      /\ \A j \in ToSet(run) : EventPosition(d, j).turn = place.turn

LEMMA ExchangesArePlaced ==
  ASSUME NEW d, NEW n, IsDerived(d, n), NEW timeline, NEW turns, NEW w,
         IsTimeline(d, timeline, turns, w), NEW i \in 1..n
  PROVE  IsPlaced(d, timeline, i)
<1>1. \A j \in 1..n : EventPosition(d, j).segment = d.head[j] /\ EventPosition(d, j).turn = d.turns.of[j]
  BY DEF EventPosition
<1>2. d.head[i] \in Heads(d) /\ d.turns.of[d.head[i]] = d.turns.of[i]
  BY HeadsAre, HeadsShareTurn
<1>3. ASSUME NEW k \in DOMAIN timeline
      PROVE  d.head[i] \in ToSet(ShownBy(timeline[k])) <=> timeline[k].turn = d.turns.of[i]
  <2>1. k \in 1..w
    BY DEF IsTimeline
  <2>2. timeline[k].turn = turns[k] /\ timeline[k].executors = Executors(d, HeadsIn(d, turns[k]))
    BY <2>1, NodesAre
  <2>3. HeadsIn(d, turns[k]) \in SUBSET Heads(d)
    BY DEF HeadsIn
  <2>4. ShowsOnce(ShownBy(timeline[k]), HeadsIn(d, turns[k]))
    BY <2>2, <2>3, NodeShows
  <2>5. ToSet(ShownBy(timeline[k])) = HeadsIn(d, turns[k])
    BY <2>4, ShownIsSet
  <2>6. d.head[i] \in HeadsIn(d, turns[k]) <=> turns[k] = d.turns.of[i]
    BY <1>2 DEF HeadsIn
  <2> QED
    BY <2>2, <2>5, <2>6
<1>4. PICK run : run = SegmentRun(d, i)
  OBVIOUS
<1>5. ToSet(run) = Onward(d, i) /\ run[1] = i /\ Last(run) = Max(Members(d, d.head[i]))
  BY <1>4, RunIs
<1>6. ASSUME NEW j \in ToSet(run) PROVE EventPosition(d, j).turn = d.turns.of[i]
  <2>1. j \in 1..n /\ d.head[j] = d.head[i]
    <3>1. DOMAIN d.head = 1..n
      BY DEF IsDerived, IsCut
    <3> QED
      BY <1>5, <3>1 DEF Onward, Members
  <2>2. d.turns.of[d.head[j]] = d.turns.of[j]
    BY <2>1, HeadsShareTurn
  <2> QED
    BY <1>1, <1>2, <2>1, <2>2
<1>7. EventPosition(d, i).segment = d.head[i] /\ EventPosition(d, i).turn = d.turns.of[i]
  BY <1>1
<1> QED
  BY <1>3, <1>4, <1>5, <1>6, <1>7, Zenon DEF IsPlaced

\* What the list of segments says of the first exchange of one.
IsListed(d, entry) ==
  LET head == SegmentExchange(d, entry.head)
  IN  /\ entry.parent \in {0, head.base_segment}
      /\ entry.turn_id = head.turn_id
      /\ entry.exchange_count = Len(SegmentRun(d, entry.head))

LEMMA EntriesAreListed ==
  ASSUME NEW d, NEW n, IsDerived(d, n), NEW streams, streams = StreamsOf(d),
         NEW k \in DOMAIN streams
  PROVE  IsListed(d, streams[k])
<1>1. PICK h \in Heads(d) : streams[k] = StreamSegment(d, h) /\ streams[k].head = h
  BY StreamsAre
<1>2. /\ StreamSegment(d, h).parent \in {0, SegmentExchange(d, h).base_segment}
      /\ StreamSegment(d, h).turn_id = SegmentExchange(d, h).turn_id
      /\ StreamSegment(d, h).exchange_count = Len(SegmentRun(d, h))
  BY EntryAgrees
<1> QED
  BY <1>1, <1>2, Zenon DEF IsListed

\* What the header counts.
CountsAgree(timeline, streams, counts) ==
  /\ counts.segments = Len(streams)
  /\ counts.exchanges = ExchangesShown(timeline)
  /\ counts.turns = Cardinality({n \in DOMAIN timeline : timeline[n].turn # 0})

-----------------------------------------------------------------------------
(* The exchanges of some events, in their order. *)

\* What is needed of the events of a session: they have a number, which is that of
\* the response they name, one event for each side.
AreEvents(events) ==
  /\ IsFiniteSet(events)
  /\ \A e \in events : /\ e.at \in Int /\ e.pk \in Int /\ e.side \in {"request", "response"}
                       /\ e.response_id = e.pk /\ e.pk # None
  /\ \A e, f \in events : e.pk = f.pk /\ e.side = f.side => e = f

\* An order of what members have is one of the members, if no two have the same.
LEMMA OrderOfWhatTheyHave ==
  ASSUME NEW S, NEW T, NEW R, IsOrder(R, T), NEW f, NEW Q,
         \A a \in S : f[a] \in T,
         \A a, b \in S : f[a] = f[b] => a = b,
         \A a, b \in S : <<a, b>> \in Q <=> <<f[a], f[b]>> \in R
  PROVE  IsOrder(Q, S)
<1>1. ASSUME NEW a \in S PROVE <<a, a>> \notin Q
  BY Zenon DEF IsOrder
<1>2. ASSUME NEW a \in S, NEW b \in S, NEW c \in S, <<a, b>> \in Q, <<b, c>> \in Q
      PROVE  <<a, c>> \in Q
  BY <1>2, Zenon DEF IsOrder
<1>3. ASSUME NEW a \in S, NEW b \in S PROVE a = b \/ <<a, b>> \in Q \/ <<b, a>> \in Q
  BY Zenon DEF IsOrder
<1> QED
  BY <1>1, <1>2, <1>3, Zenon DEF IsOrder

\* The order of a session's events, as a relation.
ReadBefore(S) == {p \in S \X S : SessionOrder(p[1], p[2])}

LEMMA SessionOrderIsOrder ==
  ASSUME NEW events, AreEvents(events), NEW S \in SUBSET events
  PROVE  IsOrder(ReadBefore(S), S)
<1> DEFINE at   == [e \in S |-> e.at]
           side == [e \in S |-> IF e.side = "request" THEN 0 ELSE 1]
           pk   == [e \in S |-> e.pk]
           Q    == {p \in S \X S : \/ side[p[1]] < side[p[2]]
                                   \/ side[p[1]] = side[p[2]] /\ pk[p[1]] < pk[p[2]]}
<1>1. \A e \in S : at[e] \in Int /\ side[e] \in Int /\ pk[e] \in Int
  BY DEF AreEvents
<1>2. \A a, b \in S : side[a] = side[b] /\ pk[a] = pk[b] => a = b
  <2>1. \A a, b \in S : side[a] = side[b] => a.side = b.side
    BY DEF AreEvents
  <2> QED
    BY <2>1 DEF AreEvents
<1>3. \A a, b \in S : <<a, b>> \in ReadBefore(S) <=>
                        at[a] < at[b] \/ (at[a] = at[b] /\ <<a, b>> \in Q)
  BY DEF ReadBefore, SessionOrder, AreEvents
<1>4. \A a, b \in S : <<a, b>> \in Q <=> side[a] < side[b] \/ (side[a] = side[b] /\ pk[a] < pk[b])
  OBVIOUS
<1> HIDE DEF at, side, pk, Q
<1>5. IsOrder(Q, S)
  BY <1>1, <1>2, <1>4, NumbersOrder
<1> QED
  BY <1>1, <1>3, <1>5, NumberThenOrder

\* Some events have a first one.
LEMMA FirstIsOne ==
  ASSUME NEW events, AreEvents(events), NEW S \in SUBSET events, S # {}
  PROVE  First(S) \in S /\ \A f \in S \ {First(S)} : SessionOrder(First(S), f)
<1>1. IsFiniteSet(S)
  <2>1. IsFiniteSet(events)
    BY DEF AreEvents
  <2> QED
    BY <2>1, FS_Subset
<1>2. IsOrder(ReadBefore(S), S)
  BY SessionOrderIsOrder
<1>3. PICK s \in S : \A t \in S : <<t, s>> \notin ReadBefore(S)
  BY <1>1, <1>2, FirstExists
<1>4. ASSUME NEW f \in S \ {s} PROVE SessionOrder(s, f)
  <2>1. s = f \/ <<s, f>> \in ReadBefore(S) \/ <<f, s>> \in ReadBefore(S)
    BY <1>2, Zenon DEF IsOrder
  <2>2. <<s, f>> \in ReadBefore(S)
    BY <1>3, <2>1
  <2> QED
    BY <2>2 DEF ReadBefore
<1> QED
  BY <1>3, <1>4, Zenon DEF First

\* The events of one exchange, and the sets of them.
WithEvent(events, e) == {f \in events : SameExchange(e, f)}

EventGroups(events) == {WithEvent(events, e) : e \in events}

LEMMA EventGroupsAre ==
  ASSUME NEW events, AreEvents(events)
  PROVE  /\ \A S \in EventGroups(events) : S \in SUBSET events /\ S # {}
         /\ \A S, T \in EventGroups(events) : \A e : e \in S /\ e \in T => S = T
         /\ IsFiniteSet(EventGroups(events))
<1>1. \A e, f \in events : SameExchange(e, f) <=> e.pk = f.pk
  BY DEF SameExchange, AreEvents
<1>2. \A e \in events : WithEvent(events, e) = {f \in events : f.pk = e.pk}
  BY <1>1 DEF WithEvent
<1>3. \A S \in EventGroups(events) : S \in SUBSET events /\ S # {}
  BY <1>2 DEF EventGroups
<1>4. ASSUME NEW S \in EventGroups(events), NEW T \in EventGroups(events), NEW e, e \in S, e \in T
      PROVE  S = T
  <2>1. PICK a \in events : S = WithEvent(events, a)
    BY DEF EventGroups
  <2>2. PICK b \in events : T = WithEvent(events, b)
    BY DEF EventGroups
  <2>3. a.pk = b.pk
    BY <1>2, <1>4, <2>1, <2>2
  <2> QED
    BY <1>2, <2>1, <2>2, <2>3
<1> DEFINE f == [e \in events |-> WithEvent(events, e)]
<1>5. EventGroups(events) = {f[e] : e \in events}
  BY DEF EventGroups
<1>6. IsFiniteSet(events)
  BY DEF AreEvents
<1> HIDE DEF f
<1>7. IsFiniteSet({f[e] : e \in events})
  BY <1>6, ImageIsFinite
<1> QED
  BY <1>3, <1>4, <1>5, <1>7

\* An exchange begins with one of its events and has times.
LEMMA ExchangeIs ==
  ASSUME NEW events, AreEvents(events), NEW S \in SUBSET events, S # {}
  PROVE  /\ Exchange(S).opener \in S
         /\ Exchange(S).at \in Int /\ Exchange(S).end \in Int
<1>1. IsFiniteSet(S)
  <2>1. IsFiniteSet(events)
    BY DEF AreEvents
  <2> QED
    BY <2>1, FS_Subset
<1>2. First(S) \in S
  BY FirstIsOne
<1> DEFINE requests  == On(S, "request")
           responses == On(S, "response")
           T         == IF requests # {} THEN requests ELSE responses
<1>3. T \in SUBSET S /\ T # {}
  <2>1. \A e \in S : e.side \in {"request", "response"}
    BY DEF AreEvents
  <2> QED
    BY <2>1 DEF On
<1> HIDE DEF T
<1>4. First(T) \in S
  <2>1. T \in SUBSET events
    BY <1>3
  <2> QED
    BY <1>3, <2>1, FirstIsOne
<1>5. /\ Exchange(S).opener = First(S) /\ Exchange(S).at = First(T).at
      /\ Exchange(S).end = Max({e.at : e \in S})
  BY DEF Exchange, T
<1>6. \A e \in S : e.at \in Int
  BY DEF AreEvents
<1> DEFINE at == [e \in S |-> e.at]
           M  == {e.at : e \in S}
<1>7. M = {at[e] : e \in S} /\ M \subseteq Int /\ M # {}
  BY <1>6
<1> HIDE DEF at, M
<1>8. IsFiniteSet(M)
  BY <1>1, <1>7, ImageIsFinite
<1>9. Max(M) \in Int
  <2>1. Max(M) \in M
    BY <1>7, <1>8, MaxIsGreatest
  <2> QED
    BY <1>7, <2>1
<1> QED
  BY <1>2, <1>4, <1>5, <1>6, <1>9 DEF M

\* The exchanges of the events.
ExchangesOf(events) == {Exchange(S) : S \in EventGroups(events)}

\* There are finitely many, an event opens one only, and they have times.
LEMMA ExchangesOfAre ==
  ASSUME NEW events, AreEvents(events), NEW X, X = ExchangesOf(events)
  PROVE  /\ IsFiniteSet(X)
         /\ \A x \in X : x.opener \in events /\ x.at \in Int /\ x.end \in Int
         /\ \A x, y \in X : x.opener = y.opener => x = y
<1>1. /\ \A S \in EventGroups(events) : S \in SUBSET events /\ S # {}
      /\ \A S, T \in EventGroups(events) : \A e : e \in S /\ e \in T => S = T
      /\ IsFiniteSet(EventGroups(events))
  BY EventGroupsAre
<1> DEFINE f == [S \in EventGroups(events) |-> Exchange(S)]
<1>2. X = {f[S] : S \in EventGroups(events)}
  BY DEF ExchangesOf
<1> HIDE DEF f
<1>3. IsFiniteSet(X)
  BY <1>1, <1>2, ImageIsFinite
<1>4. ASSUME NEW x \in X
      PROVE  \E S \in EventGroups(events) : /\ x = Exchange(S) /\ x.opener \in S
                                            /\ x.at \in Int /\ x.end \in Int
  <2>1. PICK S \in EventGroups(events) : x = Exchange(S)
    BY DEF ExchangesOf
  <2>2. S \in SUBSET events /\ S # {}
    BY <1>1
  <2>3. Exchange(S).opener \in S /\ Exchange(S).at \in Int /\ Exchange(S).end \in Int
    BY <2>2, ExchangeIs
  <2> QED
    BY <2>1, <2>3
<1>5. \A x \in X : x.opener \in events /\ x.at \in Int /\ x.end \in Int
  BY <1>1, <1>4
<1>6. ASSUME NEW x \in X, NEW y \in X, x.opener = y.opener PROVE x = y
  <2>1. PICK S \in EventGroups(events) : x = Exchange(S) /\ x.opener \in S
    BY <1>4
  <2>2. PICK T \in EventGroups(events) : y = Exchange(T) /\ y.opener \in T
    BY <1>4
  <2>3. S = T
    BY <1>1, <1>6, <2>1, <2>2
  <2> QED
    BY <2>1, <2>2, <2>3
<1> QED
  BY <1>3, <1>5, <1>6

\* The order of exchanges, as a relation.
GoesBefore(X) == {p \in X \X X : ExchangeOrder(p[1], p[2])}

LEMMA ExchangeOrderIsOrder ==
  ASSUME NEW events, AreEvents(events), NEW X, X = ExchangesOf(events)
  PROVE  IsOrder(GoesBefore(X), X)
<1> DEFINE at     == [x \in X |-> x.at]
           opener == [x \in X |-> x.opener]
           Q      == {p \in X \X X : <<opener[p[1]], opener[p[2]]>> \in ReadBefore(events)}
<1>1. /\ \A x \in X : x.opener \in events /\ x.at \in Int
      /\ \A x, y \in X : x.opener = y.opener => x = y
  BY ExchangesOfAre
<1>2. /\ \A x \in X : at[x] \in Int /\ opener[x] \in events
      /\ \A x, y \in X : opener[x] = opener[y] => x = y
      /\ \A x, y \in X : <<x, y>> \in Q <=> <<opener[x], opener[y]>> \in ReadBefore(events)
  BY <1>1
<1>3. \A x, y \in X : <<x, y>> \in GoesBefore(X) <=>
                        at[x] < at[y] \/ (at[x] = at[y] /\ <<x, y>> \in Q)
  BY <1>1 DEF GoesBefore, ExchangeOrder, ReadBefore
<1> HIDE DEF at, opener, Q
<1>4. IsOrder(ReadBefore(events), events)
  BY SessionOrderIsOrder
<1>5. IsOrder(Q, X)
  BY <1>2, <1>4, OrderOfWhatTheyHave
<1> QED
  BY <1>2, <1>3, <1>5, NumberThenOrder

\* The exchanges of a session are a sequence, and have times.
LEMMA ExchangesAre ==
  ASSUME NEW events, AreEvents(events)
  PROVE  \E n \in Nat : /\ DOMAIN Exchanges(events) = 1..n /\ Len(Exchanges(events)) = n
                        /\ \A i \in 1..n : /\ Exchanges(events)[i].at \in Int
                                           /\ Exchanges(events)[i].end \in Int
<1>1. PICK X : X = ExchangesOf(events)
  OBVIOUS
<1>2. /\ IsFiniteSet(X)
      /\ \A x \in X : x.at \in Int /\ x.end \in Int
  BY <1>1, ExchangesOfAre
<1>3. PICK k \in Nat : k = Cardinality(X)
  BY <1>2, FS_CardinalityType
<1> DEFINE at(m) == CHOOSE x \in X : Cardinality({y \in X : ExchangeOrder(y, x)}) = m - 1
<1>4. PICK order : order = [m \in 1..k |-> at(m)]
  OBVIOUS
<1>5. X = {Exchange(S) : S \in {{f \in events : SameExchange(e, f)} : e \in events}}
  BY <1>1 DEF ExchangesOf, EventGroups, WithEvent
<1>6. Exchanges(events) = Evaluated(order)
  <2>1. Exchanges(events)
          = Ordered({Exchange(S) : S \in {{f \in events : SameExchange(e, f)} : e \in events}},
                    ExchangeOrder)
    BY Zenon DEF Exchanges
  <2>2. Exchanges(events) = Ordered(X, ExchangeOrder)
    BY <1>5, <2>1, Zenon
  <2> QED
    BY <1>3, <1>4, <2>2, Zenon DEF Ordered
<1>7. \A m \in 1..k : at(m) = CHOOSE x \in X : Cardinality({y \in X : ExchangeOrder(y, x)}) = m - 1
  OBVIOUS
<1> HIDE DEF at
<1>8. order = [m \in 1..k |-> order[m]]
  BY <1>4
<1>9. \A x \in X : {y \in X : ExchangeOrder(y, x)} = {y \in X : <<y, x>> \in GoesBefore(X)}
  BY DEF GoesBefore
<1>10. \A x \in X : Cardinality({y \in X : ExchangeOrder(y, x)}) = Rank(GoesBefore(X), X, x)
  BY <1>9 DEF Rank
<1>11. ASSUME NEW m \in 1..k PROVE order[m] = CHOOSE x \in X : Rank(GoesBefore(X), X, x) = m - 1
  <2> DEFINE before(x) == Cardinality({y \in X : ExchangeOrder(y, x)})
  <2>1. order[m] = CHOOSE x \in X : before(x) = m - 1
    BY <1>4, <1>7
  <2>2. \A x \in X : before(x) = Rank(GoesBefore(X), X, x)
    BY <1>10
  <2> HIDE DEF before
  <2> QED
    BY <2>1, <2>2
<1>12. IsOrder(GoesBefore(X), X)
  BY <1>1, ExchangeOrderIsOrder
<1>13. Enumerates(order, X, GoesBefore(X))
  BY <1>2, <1>3, <1>8, <1>11, <1>12, OrderPlaces, Zenon
<1>14. Exchanges(events) = order
  BY <1>6, <1>8, EvaluatedIsItself
<1>15. order \in [1..k -> X]
  BY <1>3, <1>13 DEF Enumerates
<1>16. DOMAIN order = 1..k /\ Len(order) = k
  BY <1>15
<1> QED
  BY <1>2, <1>14, <1>15, <1>16

-----------------------------------------------------------------------------
(* Turns. *)

\* What holds of the turns of the first k exchanges.
TurnsSoFar(t, k, U) ==
  /\ t = [ids |-> t.ids, of |-> t.of]
  /\ t.ids \in Seq(U) /\ t.of \in Seq(Nat) /\ Len(t.of) = k
  /\ \A i \in 1..k : t.of[i] \in 0..Len(t.ids)
  /\ \A m \in 1..Len(t.ids) : \E i \in 1..k : t.of[i] = m

\* What exchanges may open.
Openable(xs, n) == {xs[i].turn : i \in 1..n} \cup {xs[i].id : i \in 1..n}

\* An exchange opens a turn that is new or one before, or belongs to one before.
LEMMA TurnsWithKeeps ==
  ASSUME NEW n \in Nat, NEW xs, DOMAIN xs = 1..n, NEW bases,
         NEW k \in 1..n, NEW t, TurnsSoFar(t, k - 1, Openable(xs, n)),
         NEW next, next = TurnsWith(xs, bases, t, k)
  PROVE  TurnsSoFar(next, k, Openable(xs, n))
<1> DEFINE opened == Opens(xs, k, t.ids)
           known  == SelectInSeq(t.ids, LAMBDA id : id = opened)
           taken  == IF bases[k].base \in 1..(k - 1) THEN t.of[bases[k].base] ELSE Len(t.ids)
           U      == Openable(xs, n)
<1>1. /\ t = [ids |-> t.ids, of |-> t.of]
      /\ t.ids \in Seq(U) /\ t.of \in Seq(Nat) /\ Len(t.of) = k - 1
      /\ \A i \in 1..(k - 1) : t.of[i] \in 0..Len(t.ids)
      /\ \A m \in 1..Len(t.ids) : \E i \in 1..(k - 1) : t.of[i] = m
  BY Zenon DEF TurnsSoFar
<1>2. PICK m \in Nat : m = Len(t.ids)
  BY <1>1
<1>3. known \in 0..m
  <2> DEFINE I == {i \in 1..Len(t.ids) : t.ids[i] = opened}
  <2>1. known = IF I # {} THEN Min(I) ELSE 0
    BY Zenon DEF SelectInSeq
  <2>2. I \subseteq 1..m
    BY <1>2
  <2> HIDE DEF I, known
  <2>3. I \in SUBSET Nat
    BY <2>2
  <2>4. I # {} => Min(I) \in I
    BY <2>3, MinOfNumbers
  <2>5. CASE I = {}
    BY <1>2, <2>1, <2>5
  <2>6. CASE I # {}
    <3>1. known = Min(I) /\ Min(I) \in 1..m
      BY <2>1, <2>2, <2>4, <2>6
    <3> QED
      BY <1>2, <3>1
  <2> QED
    BY <2>5, <2>6
<1>4. taken \in 0..m
  BY <1>1, <1>2
<1>5. opened # None => opened \in U
  BY DEF Opens, Openable
<1>6. next = IF opened = None THEN [t EXCEPT !.of = Append(@, taken)]
             ELSE IF known # 0 THEN [t EXCEPT !.of = Append(@, known)]
             ELSE [ids |-> Append(t.ids, opened), of |-> Append(t.of, Len(t.ids) + 1)]
  BY Zenon DEF TurnsWith
<1> HIDE DEF opened, known, taken, U
<1>7. ASSUME NEW v \in 0..m, next = [ids |-> t.ids, of |-> Append(t.of, v)]
      PROVE  TurnsSoFar(next, k, U)
  <2>1. next = [ids |-> next.ids, of |-> next.of] /\ next.ids = t.ids /\ next.of = Append(t.of, v)
    BY <1>7
  <2>2. v \in Nat
    BY <1>2
  <2>3. /\ next.of \in Seq(Nat) /\ Len(next.of) = k /\ next.of[k] = v
        /\ \A i \in 1..(k - 1) : next.of[i] = t.of[i]
    BY <1>1, <2>1, <2>2
  <2>4. ASSUME NEW i \in 1..k PROVE next.of[i] \in 0..Len(next.ids)
    <3>1. i = k \/ i \in 1..(k - 1)
      OBVIOUS
    <3> QED
      BY <1>1, <1>2, <2>1, <2>3, <3>1
  <2>5. ASSUME NEW j \in 1..Len(next.ids) PROVE \E i \in 1..k : next.of[i] = j
    <3>1. PICK i \in 1..(k - 1) : t.of[i] = j
      BY <1>1, <2>1
    <3>2. i \in 1..k
      OBVIOUS
    <3> QED
      BY <2>3, <3>1, <3>2
  <2>6. next.ids \in Seq(U)
    BY <1>1, <2>1
  <2> QED
    BY <2>1, <2>3, <2>4, <2>5, <2>6, Zenon DEF TurnsSoFar
<1>8. ASSUME next = [ids |-> Append(t.ids, opened), of |-> Append(t.of, Len(t.ids) + 1)], opened \in U
      PROVE  TurnsSoFar(next, k, U)
  <2>1. /\ next = [ids |-> next.ids, of |-> next.of]
        /\ next.ids = Append(t.ids, opened) /\ next.of = Append(t.of, m + 1)
    BY <1>2, <1>8
  <2>2. next.ids \in Seq(U) /\ Len(next.ids) = m + 1
    BY <1>1, <1>2, <1>8, <2>1
  <2>3. /\ next.of \in Seq(Nat) /\ Len(next.of) = k /\ next.of[k] = m + 1
        /\ \A i \in 1..(k - 1) : next.of[i] = t.of[i]
    BY <1>1, <1>2, <2>1
  <2>4. ASSUME NEW i \in 1..k PROVE next.of[i] \in 0..Len(next.ids)
    <3>1. CASE i = k
      BY <2>2, <2>3, <3>1
    <3>2. CASE i \in 1..(k - 1)
      <4>1. t.of[i] \in 0..m
        BY <1>1, <1>2, <3>2
      <4> QED
        BY <2>2, <2>3, <3>2, <4>1
    <3> QED
      BY <3>1, <3>2
  <2>5. ASSUME NEW j \in 1..Len(next.ids) PROVE \E i \in 1..k : next.of[i] = j
    <3>1. CASE j = m + 1
      BY <2>3, <3>1
    <3>2. CASE j # m + 1
      <4>1. j \in 1..m
        BY <2>2, <3>2
      <4>2. PICK i \in 1..(k - 1) : t.of[i] = j
        BY <1>1, <1>2, <4>1
      <4>3. i \in 1..k
        OBVIOUS
      <4> QED
        BY <2>3, <4>2, <4>3
    <3> QED
      BY <3>1, <3>2
  <2> QED
    BY <2>1, <2>2, <2>3, <2>4, <2>5, Zenon DEF TurnsSoFar
<1>9. CASE opened = None
  <2>1. next = [ids |-> t.ids, of |-> Append(t.of, taken)]
    BY <1>1, <1>6, <1>9
  <2> QED
    BY <1>4, <1>7, <2>1 DEF U
<1>10. CASE opened # None /\ known # 0
  <2>1. next = [ids |-> t.ids, of |-> Append(t.of, known)]
    BY <1>1, <1>6, <1>10
  <2> QED
    BY <1>3, <1>7, <2>1 DEF U
<1>11. CASE opened # None /\ known = 0
  BY <1>5, <1>6, <1>8, <1>11 DEF U
<1> QED
  BY <1>9, <1>10, <1>11

NoTurns == [ids |-> <<>>, of |-> <<>>]

\* The turns after none, one, two ... exchanges.
AreTurnsOneByOne(g, xs, bases, n) ==
  /\ g[0] = NoTurns
  /\ \A k \in 1..n : g[k] = TurnsWith(xs, bases, g[k - 1], k)
  /\ \A k \in 0..n : TurnsSoFar(g[k], k, Openable(xs, n))

LEMMA TurnsOneByOne ==
  ASSUME NEW n \in Nat, NEW xs, DOMAIN xs = 1..n, Len(xs) = n, NEW bases
  PROVE  \E g : AreTurnsOneByOne(g, xs, bases, n) /\ Turns(xs, bases) = g[n]
<1> DEFINE U   == Openable(xs, n)
           St  == [ids : Seq(U), of : Seq(Nat)]
           Good(t, k) == TurnsSoFar(t, k, U)
           step == [p \in St \X (1..n) |->
                      IF Good(p[1], p[2] - 1) THEN TurnsWith(xs, bases, p[1], p[2]) ELSE p[1]]
           IsUpTo(g) == g = [i \in 0..n |-> IF i = 0 THEN [ids |-> <<>>, of |-> <<>>]
                                            ELSE TurnsWith(xs, bases, g[i - 1], i)]
<1>1. NoTurns \in St /\ Good(NoTurns, 0)
  <2>1. NoTurns.ids \in Seq(U) /\ NoTurns.of \in Seq(Nat)
    BY DEF NoTurns
  <2>2. NoTurns \in St
    BY <2>1 DEF NoTurns
  <2>3. Len(NoTurns.of) = 0 /\ Len(NoTurns.ids) = 0
    BY DEF NoTurns
  <2>4. NoTurns = [ids |-> NoTurns.ids, of |-> NoTurns.of]
    BY DEF NoTurns
  <2>5. /\ \A i \in 1..0 : NoTurns.of[i] \in 0..Len(NoTurns.ids)
        /\ \A m \in 1..Len(NoTurns.ids) : \E i \in 1..0 : NoTurns.of[i] = m
    BY <2>3
  <2> QED
    BY <2>1, <2>2, <2>3, <2>4, <2>5, Zenon DEF TurnsSoFar
<1>2. ASSUME NEW t, NEW k, Good(t, k) PROVE t \in St
  <2>1. t = [ids |-> t.ids, of |-> t.of] /\ t.ids \in Seq(U) /\ t.of \in Seq(Nat)
    BY <1>2, Zenon DEF TurnsSoFar
  <2> QED
    BY <2>1
<1>3. ASSUME NEW t, NEW k \in 1..n, Good(t, k - 1)
      PROVE  Good(TurnsWith(xs, bases, t, k), k)
  BY <1>3, TurnsWithKeeps
<1> HIDE DEF Good, U
<1>4. step \in [St \X (1..n) -> St]
  <2>1. ASSUME NEW t \in St, NEW k \in 1..n
        PROVE  (IF Good(t, k - 1) THEN TurnsWith(xs, bases, t, k) ELSE t) \in St
    BY <1>2, <1>3
  <2> HIDE DEF St
  <2> QED
    BY <2>1
<1>22. \A t \in St, k \in 1..n :
         step[<<t, k>>] = IF Good(t, k - 1) THEN TurnsWith(xs, bases, t, k) ELSE t
  OBVIOUS
<1> HIDE DEF St, step
<1>5. PICK h \in [0..n -> St] : h[0] = NoTurns /\ \A k \in 1..n : h[k] = step[<<h[k - 1], k>>]
  <2>1. PICK h \in [0..n -> St] : Iterates(h, n, NoTurns, step)
    BY <1>1, <1>4, IterationIsDefined
  <2> QED
    BY <2>1 DEF Iterates
<1>6. ASSUME NEW k \in 1..n, Good(h[k - 1], k - 1)
      PROVE  h[k] = TurnsWith(xs, bases, h[k - 1], k)
  <2>1. k - 1 \in 0..n
    OBVIOUS
  <2>2. h[k - 1] \in St
    BY <2>1
  <2> QED
    BY <1>5, <1>6, <1>22, <2>2
<1> DEFINE T == {k \in 0..n : Good(h[k], k)}
<1>7. 0 \in T
  BY <1>1, <1>5
<1>8. ASSUME NEW k \in 0..(n - 1), k \in T PROVE k + 1 \in T
  <2>1. k + 1 \in 1..n /\ k + 1 \in 0..n /\ (k + 1) - 1 = k
    OBVIOUS
  <2>2. Good(h[k], k)
    BY <1>8
  <2>3. Good(h[k + 1], k + 1)
    BY <1>3, <1>6, <2>1, <2>2
  <2> QED
    BY <2>1, <2>3
<1> HIDE DEF T
<1>9. \A k \in 0..n : k \in T
  BY <1>7, <1>8, CountsUp
<1>10. \A k \in 0..n : Good(h[k], k)
  BY <1>9 DEF T
<1>11. ASSUME NEW k \in 1..n PROVE h[k] = TurnsWith(xs, bases, h[k - 1], k)
  <2>1. k - 1 \in 0..n
    OBVIOUS
  <2> QED
    BY <1>6, <1>10, <2>1
<1>12. IsUpTo(h)
  <2>1. h = [i \in 0..n |-> h[i]]
    BY <1>5
  <2>2. ASSUME NEW i \in 0..n
        PROVE  h[i] = IF i = 0 THEN [ids |-> <<>>, of |-> <<>>] ELSE TurnsWith(xs, bases, h[i - 1], i)
    <3>1. CASE i = 0
      BY <1>5, <3>1 DEF NoTurns
    <3>2. CASE i # 0
      <4>1. i \in 1..n
        BY <3>2
      <4> QED
        BY <1>11, <3>2, <4>1
    <3> QED
      BY <3>1, <3>2
  <2> QED
    BY <2>1, <2>2, Zenon
<1>13. PICK g : g = CHOOSE f : IsUpTo(f)
  OBVIOUS
<1>14. IsUpTo(g)
  BY <1>12, <1>13, Zenon
<1>15. Turns(xs, bases) = g[n]
  BY <1>13, Zenon DEF Turns
<1>16. g[0] = NoTurns /\ \A k \in 1..n : g[k] = TurnsWith(xs, bases, g[k - 1], k)
  <2>1. g[0] = NoTurns
    BY <1>14 DEF NoTurns
  <2>2. ASSUME NEW k \in 1..n PROVE g[k] = TurnsWith(xs, bases, g[k - 1], k)
    <3>1. k \in 0..n /\ k # 0
      OBVIOUS
    <3> QED
      BY <1>14, <3>1
  <2> QED
    BY <2>1, <2>2
<1> HIDE DEF IsUpTo
<1> DEFINE V == {k \in 0..n : Good(g[k], k)}
<1>17. 0 \in V
  BY <1>1, <1>16
<1>18. ASSUME NEW k \in 0..(n - 1), k \in V PROVE k + 1 \in V
  <2>1. k + 1 \in 1..n /\ k + 1 \in 0..n /\ (k + 1) - 1 = k
    OBVIOUS
  <2>2. Good(g[k], k)
    BY <1>18
  <2>3. g[k + 1] = TurnsWith(xs, bases, g[k], k + 1)
    BY <1>16, <2>1
  <2>4. Good(g[k + 1], k + 1)
    BY <1>3, <2>1, <2>2, <2>3
  <2> QED
    BY <2>1, <2>4
<1> HIDE DEF V
<1>19. \A k \in 0..n : k \in V
  BY <1>17, <1>18, CountsUp
<1>20. \A k \in 0..n : TurnsSoFar(g[k], k, Openable(xs, n))
  BY <1>19 DEF V, Good, U
<1>21. AreTurnsOneByOne(g, xs, bases, n)
  BY <1>16, <1>20, Zenon DEF AreTurnsOneByOne
<1> QED
  BY <1>15, <1>21

-----------------------------------------------------------------------------
(* Groups. *)

\* Each exchange is in a group: a declared one, or a line of context when nothing is
\* declared.
AreGroups(group, n) ==
  /\ group = [i \in 1..n |-> group[i]]
  /\ \/ \A i \in 1..n : \E s : group[i] = <<"declared", s>>
     \/ \A i \in 1..n : \E j \in 1..n : group[i] = <<"line", j>>

LEMMA GroupsAreGroups ==
  ASSUME NEW n \in Nat, NEW xs, DOMAIN xs = 1..n, NEW bases, AreBases(bases, n)
  PROVE  AreGroups(Groups(xs, bases), n)
<1>0. PICK D : D = 1..n
  OBVIOUS
<1> USE <1>0
<1> DEFINE Goes(i) == /\ ~DeclaresAny(xs)
                      /\ Earlier(bases, i) # 0
                      /\ ~ /\ IsContinued(bases, i)
                           /\ Cardinality(ContinuedChildren(bases, Earlier(bases, i))) > 1
           Here(i) == IF DeclaresAny(xs) THEN <<"declared", xs[i].subagent>> ELSE <<"line", i>>
           stop == {i \in D : ~Goes(i)}
           base == [i \in D |-> Here(i)]
           next == [i \in D |-> Earlier(bases, i)]
           m    == [i \in D |-> i]
           Value(g, i) == IF DeclaresAny(xs) THEN <<"declared", xs[i].subagent>>
                          ELSE IF /\ Earlier(bases, i) # 0
                                  /\ ~ /\ IsContinued(bases, i)
                                       /\ Cardinality(ContinuedChildren(bases, Earlier(bases, i))) > 1
                               THEN g[Earlier(bases, i)]
                               ELSE <<"line", i>>
           IsGroup(g) == g = [i \in DOMAIN xs |-> Value(g, i)]
<1>1. \A i \in D : Earlier(bases, i) \in 0..n /\ (Earlier(bases, i) = 0 \/ Earlier(bases, i) < i)
  BY DEF AreBases, Base, Earlier
<1>2. m \in [D -> Nat] /\ \A i \in D : m[i] = i
  OBVIOUS
<1>3. \A i \in D : next[i] = Earlier(bases, i) /\ base[i] = Here(i)
  OBVIOUS
<1>4. \A i \in D \ stop : next[i] \in D /\ m[next[i]] < m[i]
  <2> TAKE i \in D \ stop
  <2>1. Earlier(bases, i) # 0 /\ next[i] = Earlier(bases, i)
    OBVIOUS
  <2>2. next[i] \in D /\ next[i] < i
    BY <1>1, <2>1
  <2> QED
    BY <1>2, <2>2
<1>5. \A g, i : Value(g, i) = IF Goes(i) THEN g[Earlier(bases, i)] ELSE Here(i)
  BY Zenon
<1>6. \A i \in D : i \in stop <=> ~Goes(i)
  OBVIOUS
<1>7. Groups(xs, bases) = Evaluated(CHOOSE g : IsGroup(g))
  BY Zenon DEF Groups
<1>8. \A i \in D : IF DeclaresAny(xs) THEN \E s : Here(i) = <<"declared", s>>
                   ELSE Here(i) = <<"line", i>>
  OBVIOUS
<1> HIDE DEF Goes, Here, stop, base, next, m, Value
<1>9. \E g : IsGroup(g)
  <2>1. \E g : DescentOf(g, D, stop, base, D, <<>>, next)
    <3>1. m \in [D -> Nat]
      BY <1>2
    <3> QED
      BY <1>4, <3>1, DescentIsDefined
  <2>2. PICK g : g = [i \in D |-> IF i \in stop THEN base[i]
                                  ELSE IF i \in D THEN g[next[i]] ELSE <<>>[i] \o g[next[i]]]
    BY <2>1, Zenon DEF DescentOf
  <2>3. \A i \in D : g[i] = Value(g, i)
    BY <1>3, <1>5, <1>6, <2>2
  <2>4. g = [i \in D |-> g[i]]
    BY <2>2
  <2>5. g = [i \in D |-> Value(g, i)]
    BY <2>3, <2>4, Zenon
  <2> QED
    BY <2>5, Zenon
<1>10. PICK g : g = CHOOSE f : IsGroup(f)
  OBVIOUS
<1>11. g = [i \in D |-> Value(g, i)]
  BY <1>9, <1>10, Zenon
<1>12. g = [i \in D |-> g[i]]
  BY <1>11
<1>13. Groups(xs, bases) = g
  BY <1>7, <1>10, <1>12, EvaluatedIsItself
<1>14. GoesOn(g, D, stop, base, next)
  BY <1>3, <1>5, <1>6, <1>11 DEF GoesOn
<1>15. GoesDown(m, D, stop, next)
  BY <1>2, <1>4 DEF GoesDown
<1>16. D \in SUBSET D /\ \A i \in D \ stop : next[i] \in D
  BY <1>4
<1>17. \A i \in D : \E j \in D \cap stop : g[i] = base[j]
  BY ONLY <1>14, <1>15, <1>16, DescentEnds
<1>18. \A i \in D : \E j \in D : g[i] = Here(j)
  BY <1>3, <1>17
<1>19. CASE DeclaresAny(xs)
  <2>1. \A i \in D : \E s : g[i] = <<"declared", s>>
    BY <1>8, <1>18, <1>19
  <2> QED
    BY <1>12, <1>13, <2>1, Zenon DEF AreGroups
<1>20. CASE ~DeclaresAny(xs)
  <2>1. \A i \in D : \E j \in D : g[i] = <<"line", j>>
    BY <1>8, <1>18, <1>20
  <2> QED
    BY <1>12, <1>13, <2>1, Zenon DEF AreGroups
<1> QED
  BY <1>19, <1>20

\* The derivation from exchanges that have times.
LEMMA DerivedIsDerived ==
  ASSUME NEW n \in Nat, NEW xs, DOMAIN xs = 1..n, Len(xs) = n,
         \A i \in 1..n : xs[i].at \in Int /\ xs[i].end \in Int
  PROVE  IsDerived(WithExchanges(xs), n)
<1> DEFINE bases == FindBases(xs)
           turns == Turns(xs, bases)
           group == Groups(xs, bases)
           key   == [i \in 1..n |-> <<turns.of[i], group[i]>>]
           d     == WithExchanges(xs)
<1>1. AreBases(bases, n)
  BY FindBasesAreBases
<1>2. AreGroups(group, n)
  BY <1>1, GroupsAreGroups
<1>3. PICK g : AreTurnsOneByOne(g, xs, bases, n) /\ turns = g[n]
  BY TurnsOneByOne
<1>4. AreTurns(turns, n)
  <2>1. TurnsSoFar(turns, n, Openable(xs, n))
    <3>1. n \in 0..n
      OBVIOUS
    <3>2. \A k \in 0..n : TurnsSoFar(g[k], k, Openable(xs, n))
      BY <1>3, Zenon DEF AreTurnsOneByOne
    <3>3. TurnsSoFar(g[n], n, Openable(xs, n))
      BY <3>1, <3>2, Zenon
    <3> QED
      BY <1>3, <3>3, Zenon
  <2>2. /\ turns.ids \in Seq(Openable(xs, n)) /\ turns.of \in Seq(Nat) /\ Len(turns.of) = n
        /\ \A i \in 1..n : turns.of[i] \in 0..Len(turns.ids)
        /\ \A m \in 1..Len(turns.ids) : \E i \in 1..n : turns.of[i] = m
    BY <2>1, Zenon DEF TurnsSoFar
  <2> HIDE DEF turns
  <2>3. Len(turns.ids) \in Nat
    BY <2>2
  <2>4. DOMAIN turns.of = 1..n
    <3>1. PICK of : of = turns.of
      OBVIOUS
    <3>2. of \in Seq(Nat) /\ Len(of) = n
      BY <2>2, <3>1
    <3>3. DOMAIN of = 1..n
      BY <3>2
    <3> QED
      BY <3>1, <3>3
  <2> QED
    BY <2>2, <2>3, <2>4, Zenon DEF AreTurns
<1>5. Evaluated(key) = key
  BY EvaluatedIsItself, Zenon
<1>6. d = WithKey(xs, bases, turns, key)
  BY <1>5, Zenon DEF WithExchanges, WithBases, WithTurns
<1>7. IsCut(d, n)
  BY CutIsCut
<1>8. \A i \in 1..n : key[i] = <<turns.of[i], group[i]>>
  OBVIOUS
<1> HIDE DEF bases, turns, group, key, d
<1>9. d.exchanges = xs /\ d.turns = turns /\ d.key = key
  BY <1>6 DEF WithKey, WithSides, Segmented
<1>10. \A i \in 1..n : /\ d.key[i] = <<d.turns.of[i], d.key[i][2]>>
                       /\ d.key[i][2] = group[i]
  BY <1>8, <1>9
<1>11. CASE \A i \in 1..n : \E s : group[i] = <<"declared", s>>
  <2>1. \A i \in 1..n : group[i] = <<group[i][1], group[i][2]>> /\ group[i][1] = "declared"
    BY <1>11
  <2> QED
    BY <1>4, <1>7, <1>9, <1>10, <2>1 DEF IsDerived, d
<1>12. CASE \A i \in 1..n : \E j \in 1..n : group[i] = <<"line", j>>
  <2>1. \A i \in 1..n : group[i] = <<group[i][1], group[i][2]>> /\ group[i][1] # "declared"
    BY <1>12
  <2> QED
    BY <1>4, <1>7, <1>9, <1>10, <2>1 DEF IsDerived, d
<1> QED
  BY <1>2, <1>11, <1>12 DEF AreGroups

-----------------------------------------------------------------------------
(* Sessions. *)

\* The structure of any events is cut as Segmentation::cut does, and can be viewed.
LEMMA StructureIsDerived ==
  ASSUME NEW events, AreEvents(events)
  PROVE  \E n : IsDerived(Structure(events), n)
<1>1. PICK n \in Nat :
        /\ DOMAIN Exchanges(events) = 1..n /\ Len(Exchanges(events)) = n
        /\ \A i \in 1..n : Exchanges(events)[i].at \in Int /\ Exchanges(events)[i].end \in Int
  BY ExchangesAre
<1>2. IsDerived(WithExchanges(Exchanges(events)), n)
  BY <1>1, DerivedIsDerived
<1> QED
  BY <1>2, Zenon DEF Structure

\* An exchange as the agent knows it.
IsSaying(s) ==
  /\ s = [from |-> s.from, mode |-> s.mode, context |-> s.context, sent |-> s.sent,
          asked |-> s.asked, reply |-> s.reply, answered |-> s.answered]
  /\ s.asked \in Int /\ s.answered \in Int

\* The clocks of a session show numbers.
SaidInv ==
  /\ client \in Clients /\ clock \in Int
  /\ \E S : said \in Seq(S) /\ \A s \in S : IsSaying(s)
  /\ Len(said) <= Len(client.replies)

\* The sides of an exchange.
EventSides == {"request", "response"}

\* Finitely many events of a session are stored, and the structure is derived from
\* some of them.
SInv ==
  /\ SaidInv
  /\ IsFiniteSet(stored) /\ stored \subseteq (1..Len(said)) \X EventSides
  /\ \E n : IsDerived(derived, n)

\* In the beginning nothing is said.
LEMMA InitSInv == Init => SInv
<1> SUFFICES ASSUME Init PROVE SInv
  OBVIOUS
<1>1. client \in Clients /\ clock \in Int /\ said = <<>> /\ stored = {} /\ derived = Structure({})
  BY DEF Init
<1>2. said \in Seq({}) /\ Len(said) = 0
  BY <1>1
<1>3. Len(client.replies) \in Nat
  BY <1>1, StreamConstants
<1>4. IsFiniteSet({})
  BY FS_EmptySet
<1>5. AreEvents({})
  BY <1>4 DEF AreEvents
<1>6. \E n : IsDerived(derived, n)
  BY <1>1, <1>5, StructureIsDerived
<1>7. Len(said) <= Len(client.replies)
  BY <1>2, <1>3
<1> QED
  BY <1>1, <1>2, <1>4, <1>6, <1>7 DEF SInv, SaidInv

\* A request keeps the invariant.
LEMMA AskKeepsSaid ==
  ASSUME SInv, NEW from, NEW mode, NEW context, NEW new, Ask(from, mode, context, new)
  PROVE  SInv'
<1>1. PICK S : said \in Seq(S) /\ \A s \in S : IsSaying(s)
  BY DEF SInv, SaidInv
<1>2. PICK m \in Nat : m = Len(said)
  BY <1>1
<1>3. client \in Clients /\ clock \in Int
  BY DEF SInv, SaidInv
<1>4. Len(client.replies) \in Nat /\ DOMAIN client.replies = 1..Len(client.replies)
      /\ client.behind \in [DOMAIN client.replies -> Nat]
  BY <1>3, StreamConstants
<1>5. m < Len(client.replies) /\ clock' = clock + 1 /\ client' = client /\ stored' = stored /\ derived' = derived
  BY <1>2 DEF Ask
<1>6. PICK asked : asked = Reading(m + 1)
  OBVIOUS
<1>7. asked \in Int
  <2>1. m + 1 \in 1..Len(client.replies)
    BY <1>4, <1>5
  <2>2. client.behind[m + 1] \in Nat
    BY <1>4, <2>1
  <2> QED
    BY <1>3, <1>6, <2>2 DEF Reading
<1>8. PICK s : s = [from |-> from, mode |-> mode, context |-> context \o new,
                    sent |-> IF SendsContext(mode) THEN context \o new ELSE new,
                    asked |-> asked, reply |-> NoReply, answered |-> 0]
  OBVIOUS
<1>9. said' = Append(said, s)
  BY <1>2, <1>6, <1>8, Zenon DEF Ask
<1>10. IsSaying(s)
  BY <1>7, <1>8 DEF IsSaying
<1>11. PICK T : T = S \cup {s}
  OBVIOUS
<1>12. said' \in Seq(T) /\ Len(said') = m + 1
  <2>1. said \in Seq(T) /\ s \in T
    BY <1>1, <1>11, SeqOfPart
  <2> QED
    BY <1>2, <1>9, <2>1
<1>13. \A t \in T : IsSaying(t)
  BY <1>1, <1>10, <1>11
<1>14. SaidInv'
  <2>1. Len(said') <= Len(client'.replies)
    BY <1>4, <1>5, <1>12
  <2> QED
    BY <1>3, <1>5, <1>12, <1>13, <2>1 DEF SaidInv
<1>15. stored' \subseteq (1..Len(said')) \X EventSides
  <2>1. stored \subseteq (1..m) \X EventSides
    BY <1>2 DEF SInv
  <2>2. 1..m \subseteq 1..(m + 1)
    OBVIOUS
  <2> QED
    BY <1>5, <1>12, <2>1, <2>2
<1> QED
  BY <1>5, <1>14, <1>15 DEF SInv

\* So does an answer.
LEMMA AnswerKeepsSaid ==
  ASSUME SInv, NEW x \in DOMAIN said, Answer(x)
  PROVE  SInv'
<1>1. PICK S : said \in Seq(S) /\ \A s \in S : IsSaying(s)
  BY DEF SInv, SaidInv
<1>2. PICK m \in Nat : m = Len(said)
  BY <1>1
<1>3. client \in Clients /\ clock \in Int /\ m <= Len(client.replies)
  BY <1>2 DEF SInv, SaidInv
<1>4. Len(client.replies) \in Nat /\ DOMAIN client.replies = 1..Len(client.replies)
      /\ client.behind \in [DOMAIN client.replies -> Nat]
  BY <1>3, StreamConstants
<1>5. clock' = clock + 1 /\ client' = client /\ stored' = stored /\ derived' = derived
  BY DEF Answer
<1>6. PICK reply : said' = [said EXCEPT ![x].reply = reply, ![x].answered = Reading(x)]
  BY DEF Answer
<1>7. x \in 1..m /\ DOMAIN said = 1..m
  BY <1>1, <1>2
<1>8. PICK answered : answered = Reading(x)
  OBVIOUS
<1>9. answered \in Int
  <2>1. x \in DOMAIN client.replies
    BY <1>3, <1>4, <1>7
  <2>2. client.behind[x] \in Nat
    BY <1>4, <2>1
  <2> QED
    BY <1>3, <1>8, <2>2 DEF Reading
<1>10. PICK s : s = [[said[x] EXCEPT !.reply = reply] EXCEPT !.answered = answered]
  OBVIOUS
<1>11. said[x] \in S
  BY <1>1, <1>2, <1>7
<1>12. IsSaying(s)
  <2>1. IsSaying(said[x])
    BY <1>1, <1>11
  <2> QED
    BY <1>9, <1>10, <2>1 DEF IsSaying
<1>13. PICK T : T = S \cup {s}
  OBVIOUS
<1>14. said' = [said EXCEPT ![x] = s]
  BY <1>6, <1>7, <1>8, <1>10
<1>15. said \in Seq(T) /\ s \in T
  BY <1>1, <1>13, SeqOfPart
<1>16. said' \in Seq(T) /\ Len(said') = m
  BY <1>2, <1>7, <1>14, <1>15
<1>17. \A t \in T : IsSaying(t)
  BY <1>1, <1>12, <1>13
<1>18. SaidInv'
  <2>1. Len(said') <= Len(client'.replies)
    BY <1>3, <1>5, <1>16
  <2> QED
    BY <1>3, <1>5, <1>16, <1>17, <2>1 DEF SaidInv
<1>19. stored' \subseteq (1..Len(said')) \X EventSides
  BY <1>2, <1>5, <1>16 DEF SInv
<1> QED
  BY <1>5, <1>18, <1>19 DEF SInv

\* The rows of stored events are events of a session.
LEMMA RowsAreEvents ==
  ASSUME SaidInv, NEW some \in SUBSET ((1..Len(said)) \X EventSides), IsFiniteSet(some)
  PROVE  AreEvents({Event(e[1], e[2]) : e \in some})
<1> DEFINE row  == [e \in some |-> Event(e[1], e[2])]
           rows == {Event(e[1], e[2]) : e \in some}
<1>1. PICK S : said \in Seq(S) /\ \A s \in S : IsSaying(s)
  BY DEF SaidInv
<1>2. PICK m \in Nat : m = Len(said)
  BY <1>1
<1>3. rows = {row[e] : e \in some}
  OBVIOUS
<1>4. IsFiniteSet(rows)
  <2> HIDE DEF row, rows
  <2> QED
    BY <1>3, ImageIsFinite
<1>5. ASSUME NEW x \in 1..m, NEW side \in EventSides
      PROVE  /\ Event(x, side).pk = x /\ Event(x, side).side = side
             /\ Event(x, side).response_id = x /\ Event(x, side).at \in Int
  <2>1. IsSaying(said[x])
    BY <1>1, <1>2
  <2>2. said[x].asked \in Int /\ said[x].answered \in Int
    BY <2>1 DEF IsSaying
  <2> QED
    BY <2>2 DEF Event
<1>6. ASSUME NEW r \in rows
      PROVE  \E x \in 1..m, side \in EventSides : r = Event(x, side)
  <2>1. PICK e \in some : r = Event(e[1], e[2])
    OBVIOUS
  <2>2. e[1] \in 1..m /\ e[2] \in EventSides
    BY <1>2
  <2> QED
    BY <2>1, <2>2
<1> HIDE DEF rows
<1>7. ASSUME NEW r \in rows
      PROVE  /\ r.at \in Int /\ r.pk \in Int /\ r.side \in {"request", "response"}
             /\ r.response_id = r.pk /\ r.pk # None
  <2>1. PICK x \in 1..m, side \in EventSides : r = Event(x, side)
    BY <1>6
  <2>2. x \in Nat /\ x # None
    BY StreamConstants
  <2> QED
    BY <1>5, <2>1, <2>2 DEF EventSides
<1>8. ASSUME NEW r \in rows, NEW s \in rows, r.pk = s.pk, r.side = s.side PROVE r = s
  <2>1. PICK x \in 1..m, side \in EventSides : r = Event(x, side)
    BY <1>6
  <2>2. PICK y \in 1..m, other \in EventSides : s = Event(y, other)
    BY <1>6
  <2>3. x = y /\ side = other
    BY <1>5, <1>8, <2>1, <2>2
  <2> QED
    BY <2>1, <2>2, <2>3
<1>9. AreEvents(rows)
  BY <1>4, <1>7, <1>8 DEF AreEvents
<1> QED
  BY <1>9 DEF rows

\* So does an event that is stored.
LEMMA StoreKeepsSaid ==
  ASSUME SInv, NEW event, Store(event)
  PROVE  SInv'
<1>1. /\ client' = client /\ said' = said /\ clock' = clock
      /\ event \in Occurred \ stored /\ stored' = stored \cup {event}
      /\ derived' = Structure({Event(e[1], e[2]) : e \in stored'})
  BY DEF Store
<1>2. PICK S : said \in Seq(S) /\ \A s \in S : IsSaying(s)
  BY DEF SInv, SaidInv
<1>3. event \in (1..Len(said)) \X EventSides
  <2>1. DOMAIN said = 1..Len(said)
    BY <1>2
  <2> QED
    BY <1>1, <2>1 DEF Occurred, EventSides
<1>4. IsFiniteSet(stored') /\ stored' \in SUBSET ((1..Len(said)) \X EventSides)
  <2>1. IsFiniteSet(stored')
    BY <1>1, FS_AddElement DEF SInv
  <2> QED
    BY <1>1, <1>3, <2>1 DEF SInv
<1>5. SaidInv
  BY DEF SInv
<1>6. PICK now : now = stored'
  OBVIOUS
<1>7. AreEvents({Event(e[1], e[2]) : e \in now})
  BY <1>4, <1>5, <1>6, RowsAreEvents
<1>8. derived' = Structure({Event(e[1], e[2]) : e \in now})
  BY <1>1, <1>6
<1>9. \E n : IsDerived(derived', n)
  BY <1>7, <1>8, StructureIsDerived
<1>10. SaidInv'
  BY <1>1 DEF SInv, SaidInv
<1> QED
  BY <1>1, <1>4, <1>9, <1>10 DEF SInv

\* Every step keeps it.
LEMMA NextSInv == SInv /\ [Next]_vars => SInv'
<1> SUFFICES ASSUME SInv, [Next]_vars PROVE SInv'
  OBVIOUS
<1>1. CASE AskAfresh
  BY <1>1, AskKeepsSaid DEF AskAfresh
<1>2. ASSUME NEW x \in DOMAIN said, Answer(x) PROVE SInv'
  BY <1>2, AnswerKeepsSaid
<1>3. ASSUME NEW x \in DOMAIN said, NEW mode, AskOn(x, mode) PROVE SInv'
  BY <1>3, AskKeepsSaid DEF AskOn
<1>4. ASSUME NEW event, Store(event) PROVE SInv'
  BY <1>4, StoreKeepsSaid
<1>5. CASE UNCHANGED vars
  BY <1>5 DEF vars, SInv, SaidInv
<1> QED
  BY <1>1, <1>2, <1>3, <1>4, <1>5, Zenon DEF Next

\* So in every state of every session.
LEMMA SessionInvariance == Spec => []SInv
BY InitSInv, NextSInv, PTL DEF Spec

\* Every group of exchanges of a turn has a main line, also after forks of forks
\* (segmentation.rs: a group without one is one), and the parents of segments make no
\* cycle in any session, whatever clients declare, however their clocks go and whichever
\* of their events are stored (a base that is later places the exchange as if it had none).
THEOREM SegmentsFormForestHolds == Spec => []SegmentsFormForest
<1>1. SInv => EveryGroupHasAMainLine
  BY GroupsHaveMainLines DEF SInv, IsDerived, EveryGroupHasAMainLine
<1>2. SInv => \A i \in DOMAIN derived.head : derived.parent[i] < derived.head[i]
  BY ParentsComeBefore DEF SInv, IsDerived
<1>3. SInv => SegmentsFormForest
  BY <1>1, <1>2 DEF SegmentsFormForest
<1> QED
  BY <1>3, SessionInvariance, PTL

\* A turn view shows every segment once, whatever parents the sub-agents declare: a
\* walk places an executor and all that it started, and no executor is left, for in
\* the second pass each that is not placed is begun at (timeline.rs, started_first).
THEOREM TimelineShowsEverySegmentOnceHolds == Spec => []TimelineShowsEverySegmentOnce
<1>1. ASSUME SInv PROVE TimelineShowsEverySegmentOnce
  <2>1. PICK n : IsDerived(derived, n)
    BY <1>1 DEF SInv
  <2>2. PICK shown : shown = ShownIn(SessionTurns(derived))
    OBVIOUS
  <2>3. ShowsOnce(shown, Heads(derived))
    BY <2>1, <2>2, TimelineShows
  <2>4. IsInjective(shown) /\ ToSet(shown) = Heads(derived)
    BY <2>3, ShownIsSet
  <2> QED
    BY <2>2, <2>4 DEF TimelineShowsEverySegmentOnce
<1> QED
  BY <1>1, SessionInvariance, PTL

\* "the main line first, each executor followed by the sub-agents it started"
\* (TurnNode::executors in usage/streams.rs), for every session: only where
\* declarations go round in a circle does an executor come before its starter.
THEOREM StartersComeFirstHolds == Spec => []StartersComeFirst
<1>1. ASSUME SInv PROVE StartersComeFirst
  <2>1. PICK n : IsDerived(derived, n)
    BY <1>1 DEF SInv
  <2>2. PICK timeline : timeline = SessionTurns(derived)
    OBVIOUS
  <2>3. PICK turns, w : IsTimeline(derived, timeline, turns, w)
    BY <2>1, <2>2, SessionTurnsAre
  <2>4. w \in Nat /\ DOMAIN timeline = 1..w
    BY <2>3 DEF IsTimeline
  <2>5. ASSUME NEW node \in ToSet(timeline), NEW i \in DOMAIN node.executors
        PROVE  ComesAfterStarter(node.executors, i)
    <3>1. PICK k \in 1..w : node = timeline[k]
      BY <2>4 DEF ToSet
    <3>2. node.executors = Executors(derived, HeadsIn(derived, turns[k]))
      BY <2>3, <3>1, NodesAre
    <3>3. HeadsIn(derived, turns[k]) \in SUBSET Heads(derived)
      BY DEF HeadsIn
    <3> QED
      BY <2>1, <3>2, <3>3, StartersOfNode
  <2>6. \A node \in ToSet(SessionTurns(derived)) : \A i \in DOMAIN node.executors :
          ComesAfterStarter(node.executors, i)
    BY <2>2, <2>5
  <2> QED
    BY <2>6, Zenon DEF StartersComeFirst, ComesAfterStarter
<1> QED
  BY <1>1, SessionInvariance, PTL

\* The node of a turn, the list of segments, the run of one, the location of an event
\* and the counts of the header (session_turns, session_streams, segment_run,
\* event_position and summary in usage/streams.rs) tell one story, for every session.
THEOREM ViewsAgreeHolds == Spec => []ViewsAgree
<1>1. ASSUME SInv PROVE ViewsAgree
  <2>1. PICK n : IsDerived(derived, n)
    BY <1>1 DEF SInv
  <2>2. PICK timeline : timeline = SessionTurns(derived)
    OBVIOUS
  <2>3. PICK turns, w : IsTimeline(derived, timeline, turns, w)
    BY <2>1, <2>2, SessionTurnsAre
  <2>4. PICK streams : streams = StreamsOf(derived)
    OBVIOUS
  <2>5. PICK counts : counts = Summary(derived)
    OBVIOUS
  <2>6. DOMAIN derived.exchanges = 1..n /\ Len(derived.exchanges) = n
    BY <2>1 DEF IsDerived
  <2>7. \A i \in DOMAIN derived.exchanges : IsPlaced(derived, timeline, i)
    BY <2>1, <2>3, <2>6, ExchangesArePlaced
  <2>8. \A k \in DOMAIN streams : IsListed(derived, streams[k])
    BY <2>1, <2>4, EntriesAreListed
  <2>9. CountsAgree(timeline, streams, counts)
    <3>1. /\ counts.exchanges = Len(derived.exchanges) /\ counts.turns = Len(derived.turns.ids)
          /\ counts.segments = Cardinality(Heads(derived))
      BY <2>5 DEF Summary
    <3>2. Len(streams) = Cardinality(Heads(derived))
      BY <2>1, <2>4, StreamsAre
    <3>3. ExchangesShown(timeline) = n
      BY <2>1, <2>3, EveryExchangeIsShown
    <3>4. Len(derived.turns.ids) = Cardinality({k \in DOMAIN timeline : timeline[k].turn # 0})
      BY <2>1, <2>3, EveryTurnIsShown
    <3> QED
      BY <2>6, <3>1, <3>2, <3>3, <3>4, Zenon DEF CountsAgree
  <2>10. \A t \in {SessionTurns(derived)}, s \in {StreamsOf(derived)} :
           /\ \A i \in DOMAIN derived.exchanges : IsPlaced(derived, t, i)
           /\ \A k \in DOMAIN s : IsListed(derived, s[k])
           /\ \A c \in {Summary(derived)} : CountsAgree(t, s, c)
    BY <2>2, <2>4, <2>5, <2>7, <2>8, <2>9
  <2> QED
    BY <2>10 DEF ViewsAgree, IsPlaced, IsListed, CountsAgree, ExchangesShown
<1> QED
  BY <1>1, SessionInvariance, PTL
=============================================================================
