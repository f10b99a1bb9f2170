----------------------------- MODULE DataProofs -----------------------------
(***************************************************************************)
(* Lemmas about the data the models are built from, whatever it holds:       *)
(* flattened sequences, positions in an order, sums, and recursion.  What an  *)
(* induction would show follows from a least counterexample.                 *)
(***************************************************************************)
EXTENDS Integers, FiniteSets, Sequences, SequencesExt, FiniteSetsExt, TLAPS,
        FiniteSetTheorems, SequenceTheorems

-----------------------------------------------------------------------------
(* Least counterexamples. *)

\* A set of natural numbers that is not empty has a least one.
LEMMA LeastNumber ==
  ASSUME NEW T \in SUBSET Nat, T # {}
  PROVE  \E x \in T : \A y \in T : x <= y
<1>1. PICK x \in T : \A y \in T : <<y, x>> \notin OpToRel(<, Nat)
  BY NatLessThanWellFounded, WFMin, Zenon
<1>2. ASSUME NEW y \in T PROVE ~(y < x)
  BY <1>1, <1>2 DEF OpToRel
<1> QED
  BY <1>2

\* A set with 0 that is closed under adding one has every number up to a bound.
LEMMA CountsUp ==
  ASSUME NEW n \in Nat, NEW T, 0 \in T, \A k \in 0..(n - 1) : k \in T => k + 1 \in T
  PROVE  \A k \in 0..n : k \in T
<1> DEFINE F == {k \in 0..n : k \notin T}
<1>1. SUFFICES ASSUME F # {} PROVE FALSE
  OBVIOUS
<1>2. PICK k \in F : \A j \in F : k <= j
  <2>1. F \in SUBSET Nat
    OBVIOUS
  <2> HIDE DEF F
  <2> QED
    BY <1>1, <2>1, LeastNumber
<1>3. k # 0 /\ k \in 0..n /\ k \notin T
  BY <1>2
<1>4. k - 1 \in 0..(n - 1) /\ k - 1 \in 0..n /\ ~(k <= k - 1) /\ (k - 1) + 1 = k
  BY <1>3
<1>5. k - 1 \in T
  BY <1>2, <1>4
<1>6. (k - 1) + 1 \in T
  BY <1>4, <1>5
<1> QED
  BY <1>3, <1>4, <1>6

-----------------------------------------------------------------------------
(* Flattened sequences. *)

\* The recursion of FlattenSeq has a solution.
LEMMA FlattenIsDefined ==
  ASSUME NEW n \in Nat, NEW ss
  PROVE  \E g : g = [i \in 1..n |-> IF i = 1 THEN ss[i] ELSE g[i - 1] \o ss[i]]
<1> DEFINE Solves(g, k) == g = [i \in 1..k |-> IF i = 1 THEN ss[i] ELSE g[i - 1] \o ss[i]]
           T == {k \in Nat : ~ \E g : Solves(g, k)}
<1>1. SUFFICES ASSUME T # {} PROVE FALSE
  OBVIOUS
<1>2. PICK k \in T : \A y \in T : k <= y
  BY <1>1, LeastNumber
<1>3. CASE k = 0
  <2>1. Solves([i \in 1..0 |-> 0], 0)
    OBVIOUS
  <2> QED
    BY <1>2, <1>3, <2>1
<1>4. CASE k # 0
  <2>1. k - 1 \in Nat /\ k - 1 \notin T
    <3> HIDE DEF Solves
    <3>1. k \in Nat /\ ~(k <= k - 1)
      BY <1>2
    <3> QED
      BY <1>2, <1>4, <3>1
  <2>2. PICK g : Solves(g, k - 1)
    BY <2>1
  <2> DEFINE h == [i \in 1..k |-> IF i = 1 THEN ss[i] ELSE g[i - 1] \o ss[i]]
  <2>3. ASSUME NEW i \in 1..k PROVE h[i] = IF i = 1 THEN ss[i] ELSE h[i - 1] \o ss[i]
    <3>1. CASE i = 1
      BY <3>1
    <3>2. CASE i # 1
      <4>1. i - 1 \in 1..(k - 1) /\ i - 1 \in 1..k
        BY <3>2
      <4>2. g[i - 1] = IF i - 1 = 1 THEN ss[i - 1] ELSE g[i - 1 - 1] \o ss[i - 1]
        BY <2>2, <4>1
      <4>3. h[i - 1] = g[i - 1]
        BY <4>1, <4>2
      <4> QED
        BY <3>2, <4>3
    <3> QED
      BY <3>1, <3>2
  <2>4. Solves(h, k)
    BY <2>3
  <2> QED
    BY <1>2, <2>4
<1> QED
  BY <1>3, <1>4

\* Flattening sequences over S gives a sequence over S, ...
LEMMA FlattenIsASequence ==
  ASSUME NEW S, NEW n \in Nat, NEW ss \in [1..n -> Seq(S)]
  PROVE  FlattenSeq(ss) \in Seq(S)
<1>1. Len(ss) = n
  OBVIOUS
<1>2. CASE n = 0
  BY <1>1, <1>2, EmptySeq DEF FlattenSeq
<1>3. CASE n # 0
  <2> DEFINE flat == CHOOSE g : g = [i \in 1..n |-> IF i = 1 THEN ss[i] ELSE g[i - 1] \o ss[i]]
  <2>1. flat = [i \in 1..n |-> IF i = 1 THEN ss[i] ELSE flat[i - 1] \o ss[i]]
    BY FlattenIsDefined
  <2>2. FlattenSeq(ss) = flat[n]
    BY <1>1, <1>3 DEF FlattenSeq
  <2> HIDE DEF flat
  <2> DEFINE T == {i \in 1..n : flat[i] \notin Seq(S)}
  <2>3. T = {}
    <3>1. SUFFICES ASSUME T # {} PROVE FALSE
      OBVIOUS
    <3>2. PICK i \in T : \A j \in T : i <= j
      <4> HIDE DEF flat
      <4>1. T \in SUBSET Nat
        OBVIOUS
      <4> HIDE DEF T
      <4> QED
        BY <3>1, <4>1, LeastNumber
    <3>3. CASE i = 1
      BY <2>1, <3>2, <3>3
    <3>4. CASE i # 1
      <4>1. i - 1 \in 1..n /\ i - 1 \notin T
        BY <3>2, <3>4
      <4>2. flat[i - 1] \in Seq(S) /\ flat[i] = flat[i - 1] \o ss[i] /\ ss[i] \in Seq(S)
        BY <2>1, <3>2, <3>4, <4>1
      <4>3. flat[i - 1] \o ss[i] \in Seq(S)
        BY <4>2, ConcatProperties
      <4> QED
        BY <3>2, <4>2, <4>3
    <3> QED
      BY <3>3, <3>4
  <2> QED
    BY <1>3, <2>2, <2>3
<1> QED
  BY <1>2, <1>3

-----------------------------------------------------------------------------
(* A sequence of one, and images of finite sets. *)

\* The head of what is wrapped is what was wrapped.
LEMMA HeadOfOne == ASSUME NEW x PROVE Head(<<x>>) = x
OBVIOUS

\* The values a function takes on a finite set; as many as members when no two are equal.
LEMMA ImageIsFinite ==
  ASSUME NEW S, IsFiniteSet(S), NEW f
  PROVE  /\ IsFiniteSet({f[x] : x \in S})
         /\ (\A x, y \in S : f[x] = f[y] => x = y) =>
              Cardinality({f[x] : x \in S}) = Cardinality(S)
<1> DEFINE T == {f[x] : x \in S}
           g == [x \in S |-> f[x]]
<1>1. g \in Surjection(S, T)
  BY DEF Surjection
<1>2. IsFiniteSet(T)
  BY <1>1, FS_Surjection
<1>3. ASSUME \A x, y \in S : f[x] = f[y] => x = y
      PROVE  Cardinality(T) = Cardinality(S)
  <2>1. g \in Injection(S, T)
    BY <1>1, <1>3 DEF Injection, IsInjective, Surjection
  <2> QED
    BY <1>1, <2>1, FS_Surjection
<1> QED
  BY <1>2, <1>3

-----------------------------------------------------------------------------
(* Positions in a total order. *)

\* R orders the members of S one after the other.
IsOrder(R, S) ==
  /\ \A a \in S : <<a, a>> \notin R
  /\ \A a, b, c \in S : <<a, b>> \in R /\ <<b, c>> \in R => <<a, c>> \in R
  /\ \A a, b \in S : a = b \/ <<a, b>> \in R \/ <<b, a>> \in R

\* The number of members of S that come before s.
Rank(R, S, s) == Cardinality({t \in S : <<t, s>> \in R})

\* Of two members the one that comes first has the lower rank; ranks count from 0.
LEMMA RankGrows ==
  ASSUME NEW S, IsFiniteSet(S), NEW R, IsOrder(R, S), NEW a \in S
  PROVE  /\ Rank(R, S, a) \in Nat /\ Rank(R, S, a) < Cardinality(S)
         /\ \A b \in S : <<a, b>> \in R => Rank(R, S, a) < Rank(R, S, b)
<1> DEFINE below(s) == {t \in S : <<t, s>> \in R}
<1>1. ASSUME NEW s \in S
      PROVE  IsFiniteSet(below(s)) /\ Rank(R, S, s) = Cardinality(below(s)) /\ Rank(R, S, s) \in Nat
  BY FS_Subset, FS_CardinalityType DEF Rank
<1>2. Rank(R, S, a) < Cardinality(S)
  <2>1. below(a) \subseteq S /\ below(a) # S
    BY DEF IsOrder
  <2>2. Cardinality(below(a)) <= Cardinality(S) /\ Cardinality(S) # Cardinality(below(a))
    BY <2>1, FS_Subset
  <2>3. Cardinality(S) \in Nat
    BY FS_CardinalityType
  <2> QED
    BY <1>1, <2>2, <2>3
<1>3. ASSUME NEW b \in S, <<a, b>> \in R PROVE Rank(R, S, a) < Rank(R, S, b)
  <2>1. below(a) \subseteq below(b)
    BY <1>3 DEF IsOrder
  <2>2. a \in below(b) /\ a \notin below(a)
    BY <1>3 DEF IsOrder
  <2>3. Cardinality(below(a)) <= Cardinality(below(b)) /\ Cardinality(below(b)) # Cardinality(below(a))
    BY <1>1, <2>1, <2>2, FS_Subset
  <2>4. /\ Rank(R, S, a) = Cardinality(below(a)) /\ Rank(R, S, a) \in Nat
        /\ Rank(R, S, b) = Cardinality(below(b)) /\ Rank(R, S, b) \in Nat
    BY <1>1
  <2> HIDE DEF below
  <2> QED
    BY <2>3, <2>4
<1> QED
  BY <1>1, <1>2, <1>3

\* Every rank below the number of members is taken, by one of them.
LEMMA RankIsBijection ==
  ASSUME NEW S, IsFiniteSet(S), NEW R, IsOrder(R, S)
  PROVE  /\ \A a, b \in S : Rank(R, S, a) = Rank(R, S, b) => a = b
         /\ \A n \in 0..(Cardinality(S) - 1) : \E s \in S : Rank(R, S, s) = n
<1>1. \A a, b \in S : Rank(R, S, a) = Rank(R, S, b) => a = b
  <2> SUFFICES ASSUME NEW a \in S, NEW b \in S, a # b PROVE Rank(R, S, a) # Rank(R, S, b)
    OBVIOUS
  <2>1. Rank(R, S, a) \in Nat /\ Rank(R, S, b) \in Nat
    BY RankGrows
  <2>2. Rank(R, S, a) < Rank(R, S, b) \/ Rank(R, S, b) < Rank(R, S, a)
    BY RankGrows DEF IsOrder
  <2> QED
    BY <2>1, <2>2
<1>2. PICK m \in Nat : m = Cardinality(S)
  BY FS_CardinalityType
<1> DEFINE T == 0..(m - 1)
           f == [s \in S |-> Rank(R, S, s)]
<1>3. IsFiniteSet(T) /\ Cardinality(T) = m
  <2>1. IsFiniteSet(T) /\ Cardinality(T) = IF 0 > m - 1 THEN 0 ELSE (m - 1) - 0 + 1
    BY FS_Interval
  <2> QED
    BY <2>1
<1>4. f \in Injection(S, T)
  <2>1. \A s \in S : Rank(R, S, s) \in T
    BY <1>2, RankGrows
  <2> HIDE DEF T
  <2>2. f \in [S -> T] /\ \A a, b \in S : f[a] = f[b] => a = b
    BY <1>1, <2>1
  <2> QED
    BY <2>2 DEF Injection, IsInjective
<1>5. f \in Surjection(S, T)
  BY <1>2, <1>3, <1>4, FS_Injection
<1>6. \A n \in T : \E s \in S : f[s] = n
  BY <1>5 DEF Surjection
<1> QED
  BY <1>1, <1>2, <1>6

\* A page of a sequence.
LEMMA PageOf ==
  ASSUME NEW S, NEW order \in Seq(S), NEW from \in Nat, NEW to \in Int, to <= Len(order)
  PROVE  /\ SubSeq(order, from + 1, to) \in Seq(S)
         /\ Len(SubSeq(order, from + 1, to)) = IF from < to THEN to - from ELSE 0
         /\ \A i \in 1..Len(SubSeq(order, from + 1, to)) :
              SubSeq(order, from + 1, to)[i] = order[from + i]
<1>1. SubSeq(order, from + 1, to) \in Seq(S)
  OBVIOUS
<1>2. Len(SubSeq(order, from + 1, to)) = IF from < to THEN to - from ELSE 0
  OBVIOUS
<1>3. ASSUME NEW i \in 1..Len(SubSeq(order, from + 1, to))
      PROVE  SubSeq(order, from + 1, to)[i] = order[from + i]
  BY <1>2
<1> QED
  BY <1>1, <1>2, <1>3

\* A page of the members of S in the order R shows those at its places.
LEMMA OrderIsPaged ==
  ASSUME NEW S, IsFiniteSet(S), NEW R, IsOrder(R, S),
         NEW order \in [1..Cardinality(S) -> S],
         \A n \in 1..Cardinality(S) : Rank(R, S, order[n]) = n - 1,
         NEW from \in Nat, NEW to \in Int, to <= Cardinality(S), NEW page \in Seq(S),
         Len(page) = IF from < to THEN to - from ELSE 0,
         \A i \in 1..Len(page) : page[i] = order[from + i]
  PROVE  \A s \in S : from <= Rank(R, S, s) /\ Rank(R, S, s) < to => s \in Range(page)
<1>1. PICK m \in Nat : m = Cardinality(S)
  BY FS_CardinalityType
<1>2. \A n \in 1..m : order[n] \in S /\ Rank(R, S, order[n]) = n - 1
  BY <1>1
<1>3. ASSUME NEW s \in S, from <= Rank(R, S, s), Rank(R, S, s) < to
      PROVE  s \in Range(page)
  <2>1. Rank(R, S, s) \in Nat /\ Rank(R, S, s) < m
    BY <1>1, RankGrows
  <2> DEFINE n == Rank(R, S, s) + 1
  <2>2. n \in 1..m /\ n - from \in 1..Len(page) /\ from + (n - from) = n
    BY <1>1, <1>3, <2>1
  <2>3. order[n] \in S /\ Rank(R, S, order[n]) = Rank(R, S, s)
    <3>1. PICK k \in 1..m : k = n
      BY <2>2
    <3>2. order[k] \in S /\ Rank(R, S, order[k]) = k - 1
      BY <1>2
    <3>3. k - 1 = Rank(R, S, s)
      BY <2>1, <3>1
    <3> HIDE DEF n
    <3> QED
      BY <3>1, <3>2, <3>3, Zenon
  <2>4. order[n] = s
    BY <2>3, RankIsBijection
  <2>5. page[n - from] = order[from + (n - from)]
    BY <2>2
  <2>6. n - from \in DOMAIN page
    BY <2>2
  <2> HIDE DEF n
  <2> QED
    BY <2>2, <2>4, <2>5, <2>6, Zenon DEF Range
<1> QED
  BY <1>3

\* Of some things in an order one comes first.
LEMMA FirstExists ==
  ASSUME NEW S, IsFiniteSet(S), S # {}, NEW R, IsOrder(R, S)
  PROVE  \E s \in S : \A t \in S : <<t, s>> \notin R
<1>1. Cardinality(S) \in Nat /\ Cardinality(S) # 0
  BY FS_CardinalityType, FS_EmptySet
<1>2. PICK s \in S : Rank(R, S, s) = 0
  <2>1. 0 \in 0..(Cardinality(S) - 1)
    BY <1>1
  <2> QED
    BY <2>1, RankIsBijection
<1>3. IsFiniteSet({t \in S : <<t, s>> \in R})
  BY FS_Subset
<1>4. {t \in S : <<t, s>> \in R} = {}
  BY <1>2, <1>3, FS_EmptySet DEF Rank
<1> QED
  BY <1>4

\* The greatest of some integers.
LEMMA MaxIsGreatest ==
  ASSUME NEW S, S \subseteq Int, IsFiniteSet(S), S # {}
  PROVE  Max(S) \in S /\ \A x \in S : x <= Max(S)
<1>0. PICK R : R = {p \in S \X S : p[1] > p[2]}
  OBVIOUS
<1>1. IsOrder(R, S)
  BY <1>0 DEF IsOrder
<1>2. PICK s \in S : \A t \in S : <<t, s>> \notin R
  BY <1>1, FirstExists
<1>3. ASSUME NEW x \in S PROVE s >= x
  <2>1. ~(x > s)
    BY <1>0, <1>2
  <2> QED
    BY <2>1
<1>4. Max(S) \in S /\ \A x \in S : Max(S) >= x
  BY <1>3, Zenon DEF Max
<1> QED
  BY <1>4

\* The least of some integers.
LEMMA MinIsLeast ==
  ASSUME NEW S, S \subseteq Int, IsFiniteSet(S), S # {}
  PROVE  Min(S) \in S /\ \A x \in S : Min(S) <= x
<1>0. PICK R : R = {p \in S \X S : p[1] < p[2]}
  OBVIOUS
<1>1. IsOrder(R, S)
  BY <1>0 DEF IsOrder
<1>2. PICK s \in S : \A t \in S : <<t, s>> \notin R
  BY <1>1, FirstExists
<1>3. ASSUME NEW x \in S PROVE s <= x
  <2>1. ~(x < s)
    BY <1>0, <1>2
  <2> QED
    BY <2>1
<1> QED
  BY <1>3, Zenon DEF Min

\* A finite set in an order, or as a sequence, has every member.
LEMMA OrderIsWhole ==
  ASSUME NEW S, IsFiniteSet(S), NEW R, IsOrder(R, S),
         NEW order, order = [m \in 1..Cardinality(S) |-> CHOOSE s \in S : Rank(R, S, s) = m - 1]
  PROVE  Range(order) = S
<1>1. PICK n \in Nat : n = Cardinality(S)
  BY FS_CardinalityType
<1>2. ASSUME NEW m \in 1..n
      PROVE  order[m] \in S /\ Rank(R, S, order[m]) = m - 1
  <2>1. order[m] = CHOOSE s \in S : Rank(R, S, s) = m - 1
    BY <1>1
  <2>2. m - 1 \in 0..(n - 1)
    OBVIOUS
  <2>3. \E s \in S : Rank(R, S, s) = m - 1
    BY <1>1, <2>2, RankIsBijection
  <2> QED
    BY <2>1, <2>3, Zenon
<1>3. DOMAIN order = 1..n
  BY <1>1
<1>4. ASSUME NEW s \in S PROVE \E m \in 1..n : order[m] = s
  <2>1. PICK k : k = Rank(R, S, s)
    OBVIOUS
  <2>2. k \in Nat /\ k < n
    BY <1>1, <2>1, RankGrows
  <2>3. PICK m \in 1..n : m - 1 = k
    <3>1. k + 1 \in 1..n /\ (k + 1) - 1 = k
      BY <2>2
    <3> QED
      BY <3>1
  <2>4. order[m] \in S /\ Rank(R, S, order[m]) = Rank(R, S, s)
    BY <1>2, <2>1, <2>3
  <2>5. order[m] = s
    BY <2>4, RankIsBijection
  <2> QED
    BY <2>5
<1> QED
  BY <1>2, <1>3, <1>4, Zenon DEF Range

\* A finite set as a sequence has every member.
LEMMA SetToSeqIsWhole ==
  ASSUME NEW S, IsFiniteSet(S)
  PROVE  SetToSeq(S) \in [1..Cardinality(S) -> S] /\ Range(SetToSeq(S)) = S
<1>1. PICK n \in Nat : n = Cardinality(S) /\ ExistsBijection(1..n, S)
  BY FS_CardinalityType
<1>2. PICK g \in Bijection(1..n, S) : TRUE
  BY <1>1 DEF ExistsBijection
<1>3. g \in [1..n -> S] /\ \A a, b \in 1..n : g[a] = g[b] => a = b
  BY <1>2 DEF Bijection, Injection, IsInjective
<1>4. \E f \in [1..n -> S] : IsInjective(f)
  BY <1>3 DEF IsInjective
<1>5. PICK f : f = SetToSeq(S)
  OBVIOUS
<1>6. f \in [1..n -> S] /\ IsInjective(f)
  BY <1>1, <1>4, <1>5, Zenon DEF SetToSeq
<1>7. f \in Injection(1..n, S)
  BY <1>6 DEF Injection, IsInjective
<1>8. f \in Surjection(1..n, S)
  <2>1. IsFiniteSet(1..n) /\ Cardinality(1..n) = n
    BY FS_Interval
  <2> QED
    BY <1>1, <1>7, <2>1, FS_Injection
<1>9. \A s \in S : \E i \in 1..n : f[i] = s
  BY <1>8 DEF Surjection
<1> QED
  BY <1>1, <1>5, <1>6, <1>9 DEF Range

\* Of one member there is one sequence.
LEMMA OneToSeq ==
  ASSUME NEW e
  PROVE  SetToSeq({e}) = <<e>>
<1>1. IsFiniteSet({e}) /\ Cardinality({e}) = 1
  BY FS_Singleton
<1>2. SetToSeq({e}) \in [1..1 -> {e}]
  BY <1>1, SetToSeqIsWhole
<1> QED
  BY <1>2

-----------------------------------------------------------------------------
(* Sums over finite sets. *)

\* g adds up f over the subsets of S, whichever member is taken last.
Adds(g, f, S) ==
  /\ g[{}] = 0
  /\ \A T \in SUBSET S : g[T] \in Int /\ \A x \in T : g[T] = g[T \ {x}] + f[x]

\* The recursion of a fold that adds up f.
FoldOf(g, f, S) ==
  g = [T \in SUBSET S |-> IF T = {} THEN 0
                          ELSE g[T \ {CHOOSE x \in T : TRUE}] + f[CHOOSE x \in T : TRUE]]

\* It has a solution.
LEMMA FoldIsDefined ==
  ASSUME NEW S, IsFiniteSet(S), NEW f
  PROVE  \E g : FoldOf(g, f, S)
<1> DEFINE Small(k) == {T \in SUBSET S : Cardinality(T) <= k}
           Next(g, T) == IF T = {} THEN 0
                         ELSE g[T \ {CHOOSE x \in T : TRUE}] + f[CHOOSE x \in T : TRUE]
           Solves(g, k) == g = [T \in Small(k) |-> Next(g, T)]
           C == {k \in Nat : ~ \E g : Solves(g, k)}
<1>1. \A T \in SUBSET S : IsFiniteSet(T) /\ Cardinality(T) \in Nat /\ Cardinality(T) <= Cardinality(S)
  BY FS_Subset, FS_CardinalityType
<1>2. ASSUME NEW k \in Nat, NEW g, Solves(g, k)
      PROVE  \E h : Solves(h, k + 1)
  <2> DEFINE h == [T \in Small(k + 1) |-> Next(g, T)]
  <2>1. ASSUME NEW T \in Small(k + 1) PROVE h[T] = Next(h, T)
    <3>1. CASE T = {}
      BY <3>1
    <3>2. CASE T # {}
      <4> DEFINE c == CHOOSE x \in T : TRUE
                 U == T \ {c}
      <4>1. c \in T
        BY <3>2
      <4>2. IsFiniteSet(T) /\ Cardinality(U) = Cardinality(T) - 1 /\ U \in SUBSET S
        BY <1>1, <4>1, FS_RemoveElement
      <4>3. U \in Small(k) /\ U \in Small(k + 1)
        <5>1. Cardinality(T) \in Nat /\ Cardinality(U) \in Nat /\ Cardinality(T) <= k + 1
          BY <1>1, <4>2
        <5> QED
          BY <4>2, <5>1
      <4>4. g[U] = Next(g, U) /\ h[U] = Next(g, U)
        <5> HIDE DEF U, Next, Small
        <5> QED
          BY <1>2, <4>3
      <4>5. h[T] = Next(g, T)
        OBVIOUS
      <4>6. Next(g, T) = g[U] + f[c] /\ Next(h, T) = h[U] + f[c]
        BY <3>2, Zenon
      <4> HIDE DEF h, U, Next
      <4> QED
        BY <4>4, <4>5, <4>6, Zenon
    <3> QED
      BY <3>1, <3>2
  <2>2. Solves(h, k + 1)
    <3> HIDE DEF Next
    <3>1. h = [T \in Small(k + 1) |-> h[T]]
      OBVIOUS
    <3> QED
      BY <2>1
  <2> QED
    BY <2>2
<1>3. C = {}
  <2>1. SUFFICES ASSUME C # {} PROVE FALSE
    OBVIOUS
  <2>2. PICK k \in C : \A j \in C : k <= j
    <3>1. C \in SUBSET Nat
      OBVIOUS
    <3> HIDE DEF C
    <3> QED
      BY <2>1, <3>1, LeastNumber
  <2>3. CASE k = 0
    <3> DEFINE g == [T \in Small(0) |-> 0]
    <3>1. \A T \in Small(0) : T = {}
      BY <1>1, FS_EmptySet
    <3>2. Solves(g, 0)
      BY <3>1
    <3> QED
      BY <2>2, <2>3, <3>2
  <2>4. CASE k # 0
    <3> HIDE DEF Solves
    <3>1. k - 1 \in Nat /\ k - 1 \notin C /\ (k - 1) + 1 = k
      BY <2>2, <2>4
    <3>2. PICK g : Solves(g, k - 1)
      BY <3>1
    <3>3. \E h : Solves(h, k)
      BY <1>2, <3>1, <3>2
    <3> QED
      BY <2>2, <3>3
  <2> QED
    BY <2>3, <2>4
<1>4. PICK n \in Nat : n = Cardinality(S)
  BY FS_CardinalityType
<1>5. Small(n) = SUBSET S
  BY <1>1, <1>4
<1>6. PICK g : Solves(g, n)
  BY <1>3
<1> QED
  BY <1>5, <1>6 DEF FoldOf

\* It adds up f.
LEMMA FoldAdds ==
  ASSUME NEW S, IsFiniteSet(S), NEW f \in [S -> Int], NEW g, FoldOf(g, f, S)
  PROVE  Adds(g, f, S)
<1> DEFINE c(T) == CHOOSE x \in T : TRUE
           Fails(T) == ~(g[T] \in Int /\ \A x \in T : g[T] = g[T \ {x}] + f[x])
           C == {n \in Nat : \E T \in SUBSET S : Cardinality(T) = n /\ Fails(T)}
<1>1. \A T \in SUBSET S : IsFiniteSet(T) /\ Cardinality(T) \in Nat
  BY FS_Subset, FS_CardinalityType
<1>2. /\ g[{}] = 0
      /\ \A T \in SUBSET S : T # {} => c(T) \in T /\ g[T] = g[T \ {c(T)}] + f[c(T)]
  <2>1. \A T \in SUBSET S : T # {} => c(T) \in T
    OBVIOUS
  <2> HIDE DEF c
  <2>2. g = [T \in SUBSET S |-> IF T = {} THEN 0 ELSE g[T \ {c(T)}] + f[c(T)]]
    BY DEF FoldOf, c
  <2>3. g[{}] = 0
    BY <2>2
  <2>4. \A T \in SUBSET S : T # {} => g[T] = g[T \ {c(T)}] + f[c(T)]
    BY <2>2
  <2> QED
    BY <2>1, <2>3, <2>4
<1> HIDE DEF c
<1>3. C = {}
  <2>1. SUFFICES ASSUME C # {} PROVE FALSE
    OBVIOUS
  <2>2. PICK n \in C : \A j \in C : n <= j
    <3>1. C \in SUBSET Nat
      OBVIOUS
    <3> HIDE DEF C
    <3> QED
      BY <2>1, <3>1, LeastNumber
  <2>3. PICK T \in SUBSET S : Cardinality(T) = n /\ Fails(T)
    BY <2>2
  <2>4. n \in Nat
    BY <2>2
  <2>5. ASSUME NEW U \in SUBSET S, Cardinality(U) < n
        PROVE  g[U] \in Int /\ \A x \in U : g[U] = g[U \ {x}] + f[x]
    <3>1. Cardinality(U) \in Nat /\ Cardinality(U) \notin C
      <4>1. Cardinality(U) \in Nat /\ ~(n <= Cardinality(U))
        BY <1>1, <2>4, <2>5
      <4> QED
        BY <2>2, <4>1
    <3> QED
      BY <3>1
  <2>6. CASE T = {}
    BY <1>2, <2>3, <2>6
  <2>7. CASE T # {}
    <3> DEFINE a == c(T)
               U == T \ {a}
    <3>1. a \in T /\ g[T] = g[U] + f[a]
      BY <1>2, <2>7
    <3>2. ASSUME NEW x \in T
          PROVE  Cardinality(T \ {x}) < n /\ f[x] \in Int
      <4>1. Cardinality(T \ {x}) = Cardinality(T) - 1
        BY <1>1, FS_RemoveElement
      <4> QED
        BY <2>3, <2>4, <4>1
    <3>3. g[U] \in Int /\ g[T] \in Int
      BY <2>5, <3>1, <3>2
    <3>4. ASSUME NEW x \in T PROVE g[T] = g[T \ {x}] + f[x]
      <4>1. CASE x = a
        BY <3>1, <4>1
      <4>2. CASE x # a
        <5>1. g[U] = g[U \ {x}] + f[x]
          BY <2>5, <3>1, <3>2, <4>2
        <5>2. g[T \ {x}] = g[(T \ {x}) \ {a}] + f[a]
          BY <2>5, <3>1, <3>2, <4>2
        <5>3. (T \ {x}) \ {a} = U \ {x}
          OBVIOUS
        <5>4. g[U \ {x}] \in Int /\ f[x] \in Int /\ f[a] \in Int
          <6>1. U \ {x} \in SUBSET S /\ Cardinality(U \ {x}) < n
            <7>1. IsFiniteSet(U) /\ x \in U /\ Cardinality(U \ {x}) = Cardinality(U) - 1
              BY <1>1, <4>2, FS_RemoveElement
            <7>2. Cardinality(U) < n /\ Cardinality(U) \in Nat /\ Cardinality(U \ {x}) \in Nat
              BY <1>1, <3>1, <3>2
            <7> QED
              BY <2>4, <7>1, <7>2
          <6> QED
            BY <2>5, <3>1, <3>2, <6>1
        <5>5. g[T \ {x}] = g[U \ {x}] + f[a]
          BY <5>2, <5>3, Zenon
        <5>6. g[T] = g[U] + f[a]
          BY <3>1, Zenon
        <5> HIDE DEF U, a
        <5> QED
          BY <5>1, <5>4, <5>5, <5>6
      <4> QED
        BY <4>1, <4>2
    <3> QED
      BY <2>3, <3>3, <3>4
  <2> QED
    BY <2>6, <2>7
<1>4. ASSUME NEW T \in SUBSET S PROVE ~Fails(T)
  BY <1>1, <1>3, <1>4
<1> QED
  BY <1>2, <1>4 DEF Adds

\* A sum over the union of sets without a common member.
LEMMA SumOfUnion ==
  ASSUME NEW S, IsFiniteSet(S), NEW f, NEW g, Adds(g, f, S), \A x \in S : f[x] \in Int,
         NEW A \in SUBSET S
  PROVE  \A B \in SUBSET S : A \cap B = {} => g[A \cup B] = g[A] + g[B]
<1> DEFINE Fails(B) == A \cap B = {} /\ g[A \cup B] # g[A] + g[B]
           C == {n \in Nat : \E B \in SUBSET S : Cardinality(B) = n /\ Fails(B)}
<1>1. \A T \in SUBSET S : IsFiniteSet(T) /\ Cardinality(T) \in Nat /\ g[T] \in Int
  BY FS_Subset, FS_CardinalityType DEF Adds
<1>2. C = {}
  <2>1. SUFFICES ASSUME C # {} PROVE FALSE
    OBVIOUS
  <2>2. PICK n \in C : \A j \in C : n <= j
    <3>1. C \in SUBSET Nat
      OBVIOUS
    <3> HIDE DEF C
    <3> QED
      BY <2>1, <3>1, LeastNumber
  <2>3. PICK B \in SUBSET S : Cardinality(B) = n /\ Fails(B)
    BY <2>2
  <2>4. CASE B = {}
    <3>1. A \cup B = A
      BY <2>4
    <3>2. g[A \cup B] = g[A] /\ g[B] = 0
      BY <2>4, <3>1, Zenon DEF Adds
    <3>3. g[A \cup B] = g[A] + g[B]
      BY <1>1, <3>2
    <3> QED
      BY <2>3, <3>3
  <2>5. CASE B # {}
    <3>1. PICK x \in B : TRUE
      BY <2>5
    <3> DEFINE D == B \ {x}
    <3>2. IsFiniteSet(B) /\ Cardinality(D) = Cardinality(B) - 1 /\ D \in SUBSET S
      BY <1>1, <3>1, FS_RemoveElement
    <3>3. ~Fails(D)
      <4>1. Cardinality(D) \in Nat /\ n \in Nat /\ ~(n <= Cardinality(D))
        BY <1>1, <2>2, <2>3, <3>2
      <4>2. Cardinality(D) \notin C
        BY <2>2, <4>1
      <4> QED
        BY <3>2, <4>1, <4>2
    <3>4. (A \cup B) \ {x} = A \cup D /\ A \cap D = {} /\ x \in A \cup B /\ A \cup B \in SUBSET S
      BY <2>3, <3>1
    <3>5. g[A \cup D] = g[A] + g[D]
      BY <3>3, <3>4
    <3>6. g[A \cup B] = g[A \cup D] + f[x]
      <4>1. g[A \cup B] = g[(A \cup B) \ {x}] + f[x]
        BY <3>4 DEF Adds
      <4> QED
        BY <3>4, <4>1, Zenon
    <3>7. g[B] = g[D] + f[x]
      BY <3>1 DEF Adds
    <3>8. g[A] \in Int /\ g[D] \in Int /\ f[x] \in Int
      BY <1>1, <3>1, <3>2
    <3> HIDE DEF D
    <3>9. g[A \cup B] = g[A] + g[B]
      BY <3>5, <3>6, <3>7, <3>8
    <3> QED
      BY <2>3, <3>9
  <2> QED
    BY <2>4, <2>5
<1> QED
  BY <1>1, <1>2

\* A sum is the sum of the sums of the parts the set is divided into: part tells the part
\* each member is in, and h, which k adds up, the sum of each part.
LEMMA SumOfParts ==
  ASSUME NEW S, IsFiniteSet(S), NEW f, NEW g, Adds(g, f, S), \A x \in S : f[x] \in Int,
         NEW R, IsFiniteSet(R), NEW h, NEW k, Adds(k, h, R),
         NEW part \in [S -> R],
         \A r \in R : \E T \in SUBSET S : h[r] = g[T] /\ \A x \in S : x \in T <=> part[x] = r
  PROVE  k[R] = g[S]
<1> DEFINE In(Q) == {x \in S : part[x] \in Q}
           Of(r) == {x \in S : part[x] = r}
           Fails(Q) == k[Q] # g[In(Q)]
           C == {n \in Nat : \E Q \in SUBSET R : Cardinality(Q) = n /\ Fails(Q)}
<1>1. \A Q \in SUBSET R : IsFiniteSet(Q) /\ Cardinality(Q) \in Nat /\ k[Q] \in Int
  BY FS_Subset, FS_CardinalityType DEF Adds
<1>2. \A T \in SUBSET S : g[T] \in Int
  BY DEF Adds
<1>3. C = {}
  <2>1. SUFFICES ASSUME C # {} PROVE FALSE
    OBVIOUS
  <2>2. PICK n \in C : \A j \in C : n <= j
    <3>1. C \in SUBSET Nat
      OBVIOUS
    <3> HIDE DEF C
    <3> QED
      BY <2>1, <3>1, LeastNumber
  <2>3. PICK Q \in SUBSET R : Cardinality(Q) = n /\ Fails(Q)
    BY <2>2
  <2>4. CASE Q = {}
    <3>1. In(Q) = {}
      BY <2>4
    <3>2. g[In(Q)] = 0 /\ k[Q] = 0
      BY <2>4, <3>1, Zenon DEF Adds
    <3> QED
      BY <2>3, <3>2
  <2>5. CASE Q # {}
    <3>1. PICK r \in Q : TRUE
      BY <2>5
    <3> DEFINE P == Q \ {r}
    <3>2. IsFiniteSet(Q) /\ Cardinality(P) = Cardinality(Q) - 1 /\ P \in SUBSET R
      BY <1>1, <3>1, FS_RemoveElement
    <3>3. ~Fails(P)
      <4>1. Cardinality(P) \in Nat /\ n \in Nat /\ ~(n <= Cardinality(P))
        BY <1>1, <2>2, <2>3, <3>2
      <4>2. Cardinality(P) \notin C
        BY <2>2, <4>1
      <4> QED
        BY <3>2, <4>1, <4>2
    <3>4. k[Q] = k[P] + h[r]
      BY <3>1 DEF Adds
    <3>5. In(Q) = In(P) \cup Of(r) /\ In(P) \cap Of(r) = {} /\ In(P) \in SUBSET S /\ Of(r) \in SUBSET S
      BY <3>1
    <3>6. g[In(P) \cup Of(r)] = g[In(P)] + g[Of(r)]
      <4>1. PICK A, B : A = In(P) /\ B = Of(r)
        OBVIOUS
      <4>2. A \in SUBSET S /\ B \in SUBSET S /\ A \cap B = {}
        BY <3>5, <4>1, Zenon
      <4> HIDE DEF In, Of
      <4>3. g[A \cup B] = g[A] + g[B]
        BY <4>2, SumOfUnion
      <4> QED
        BY <4>1, <4>3, Zenon
    <3>7. g[In(Q)] = g[In(P)] + g[Of(r)]
      BY <3>5, <3>6, Zenon
    <3>8. k[P] = g[In(P)] /\ h[r] = g[Of(r)]
      <4>1. PICK T \in SUBSET S : h[r] = g[T] /\ \A x \in S : x \in T <=> part[x] = r
        BY <3>1
      <4>2. T = Of(r)
        BY <4>1
      <4> HIDE DEF Of
      <4> QED
        BY <3>3, <4>1, <4>2
    <3>9. k[Q] = g[In(Q)]
      <4> HIDE DEF In, Of, P
      <4> QED
        BY <3>4, <3>7, <3>8, Zenon
    <3> QED
      BY <2>3, <3>9
  <2> QED
    BY <2>4, <2>5
<1>4. ~Fails(R)
  <2> HIDE DEF In, Fails
  <2>1. R \in SUBSET R /\ Cardinality(R) \in Nat
    BY <1>1
  <2> QED
    BY <1>3, <2>1
<1>5. In(R) = S
  OBVIOUS
<1> QED
  BY <1>4, <1>5, Zenon

\* No member adds more than the sum, when none is negative.
LEMMA SumBounds ==
  ASSUME NEW S, IsFiniteSet(S), NEW f, NEW g, Adds(g, f, S), \A x \in S : f[x] \in Nat
  PROVE  g[S] \in Nat /\ \A x \in S : f[x] <= g[S]
<1> DEFINE C == {n \in Nat : \E T \in SUBSET S : Cardinality(T) = n /\ ~(g[T] >= 0)}
<1>1. \A T \in SUBSET S : IsFiniteSet(T) /\ Cardinality(T) \in Nat /\ g[T] \in Int
  BY FS_Subset, FS_CardinalityType DEF Adds
<1>2. C = {}
  <2>1. SUFFICES ASSUME C # {} PROVE FALSE
    OBVIOUS
  <2>2. PICK n \in C : \A j \in C : n <= j
    <3>1. C \in SUBSET Nat
      OBVIOUS
    <3> HIDE DEF C
    <3> QED
      BY <2>1, <3>1, LeastNumber
  <2>3. PICK T \in SUBSET S : Cardinality(T) = n /\ ~(g[T] >= 0)
    BY <2>2
  <2>4. T # {}
    <3>1. SUFFICES ASSUME T = {} PROVE g[T] >= 0
      BY <2>3
    <3>2. g[{}] = 0
      BY DEF Adds
    <3>3. g[T] = 0
      BY <3>1, <3>2, Zenon
    <3> QED
      BY <3>3
  <2>5. PICK x \in T : TRUE
    BY <2>4
  <2> DEFINE U == T \ {x}
  <2>6. Cardinality(U) = Cardinality(T) - 1 /\ U \in SUBSET S
    BY <1>1, FS_RemoveElement
  <2>7. g[U] >= 0
    <3>1. Cardinality(U) \in Nat /\ n \in Nat /\ ~(n <= Cardinality(U))
      BY <1>1, <2>2, <2>3, <2>6
    <3>2. Cardinality(U) \notin C
      BY <2>2, <3>1
    <3> QED
      BY <2>6, <3>1, <3>2
  <2>8. g[T] = g[U] + f[x] /\ f[x] \in Nat /\ g[U] \in Int
    BY <1>1, <2>6 DEF Adds
  <2> HIDE DEF U
  <2> QED
    BY <2>3, <2>7, <2>8
<1>3. \A T \in SUBSET S : g[T] >= 0
  BY <1>1, <1>2
<1>4. ASSUME NEW x \in S PROVE f[x] <= g[S]
  <2>1. g[S] = g[S \ {x}] + f[x] /\ g[S \ {x}] >= 0 /\ g[S \ {x}] \in Int /\ f[x] \in Nat
    BY <1>1, <1>3 DEF Adds
  <2> QED
    BY <2>1
<1> QED
  BY <1>1, <1>3, <1>4

\* What adds up the same adds up to the same.
LEMMA SumIsUnique ==
  ASSUME NEW S, NEW f, NEW g, Adds(g, f, S), NEW Q, NEW h, NEW k, Adds(k, h, Q),
         NEW T, IsFiniteSet(T), T \subseteq S, T \subseteq Q, \A x \in T : f[x] = h[x]
  PROVE  g[T] = k[T]
<1> DEFINE Fails(U) == g[U] # k[U]
           C == {n \in Nat : \E U \in SUBSET T : Cardinality(U) = n /\ Fails(U)}
<1>1. \A U \in SUBSET T : IsFiniteSet(U) /\ Cardinality(U) \in Nat
  BY FS_Subset, FS_CardinalityType
<1>2. C = {}
  <2>1. SUFFICES ASSUME C # {} PROVE FALSE
    OBVIOUS
  <2>2. PICK n \in C : \A j \in C : n <= j
    <3>1. C \in SUBSET Nat
      OBVIOUS
    <3> HIDE DEF C
    <3> QED
      BY <2>1, <3>1, LeastNumber
  <2>3. PICK U \in SUBSET T : Cardinality(U) = n /\ Fails(U)
    BY <2>2
  <2>4. U # {}
    <3>1. g[{}] = 0 /\ k[{}] = 0
      BY DEF Adds
    <3> QED
      BY <2>3, <3>1, Zenon
  <2>5. PICK x \in U : TRUE
    BY <2>4
  <2> DEFINE V == U \ {x}
  <2>6. Cardinality(V) = Cardinality(U) - 1 /\ V \in SUBSET T
    BY <1>1, FS_RemoveElement
  <2>7. g[V] = k[V]
    <3>1. Cardinality(V) \in Nat /\ n \in Nat /\ ~(n <= Cardinality(V))
      BY <1>1, <2>2, <2>3, <2>6
    <3>2. Cardinality(V) \notin C
      BY <2>2, <3>1
    <3> QED
      BY <2>6, <3>1, <3>2
  <2>8. g[U] = g[V] + f[x] /\ k[U] = k[V] + h[x]
    BY DEF Adds
  <2>9. f[x] = h[x]
    OBVIOUS
  <2> HIDE DEF V
  <2> QED
    BY <2>3, <2>7, <2>8, <2>9, Zenon
<1> QED
  BY <1>1, <1>2

-----------------------------------------------------------------------------
(* Recursion along a measure. *)

\* g[x] is base[x] at a stop, else that of next[x], after pre[x] unless x keeps nothing.
DescentOf(g, D, stop, base, skip, pre, next) ==
  g = [x \in D |-> IF x \in stop THEN base[x]
                   ELSE IF x \in skip THEN g[next[x]] ELSE pre[x] \o g[next[x]]]

\* A recursion that goes down a measure has a solution.
LEMMA DescentIsDefined ==
  ASSUME NEW D, NEW m \in [D -> Nat], NEW stop, NEW base, NEW skip, NEW pre, NEW next,
         \A x \in D \ stop : next[x] \in D /\ m[next[x]] < m[x]
  PROVE  \E g : DescentOf(g, D, stop, base, skip, pre, next)
<1> DEFINE Small(k) == {x \in D : m[x] <= k}
           Value(g, x) == IF x \in stop THEN base[x]
                          ELSE IF x \in skip THEN g[next[x]] ELSE pre[x] \o g[next[x]]
           Solves(g, k) == g = [x \in Small(k) |-> Value(g, x)]
           C == {k \in Nat : ~ \E g : Solves(g, k)}
<1>1. ASSUME NEW k \in Nat, NEW g, Solves(g, k)
      PROVE  \E h : Solves(h, k + 1)
  <2> DEFINE h == [x \in Small(k + 1) |-> Value(g, x)]
  <2>1. ASSUME NEW x \in Small(k + 1) PROVE h[x] = Value(h, x)
    <3>1. h[x] = Value(g, x)
      OBVIOUS
    <3>2. CASE x \in stop
      BY <3>1, <3>2, Zenon
    <3>3. CASE x \notin stop
      <4>1. next[x] \in D /\ m[next[x]] <= k
        BY <3>3
      <4>2. next[x] \in Small(k) /\ next[x] \in Small(k + 1)
        BY <4>1
      <4>3. g[next[x]] = Value(g, next[x]) /\ h[next[x]] = Value(g, next[x])
        <5> HIDE DEF Value, Small
        <5> QED
          BY <1>1, <4>2
      <4>4. g[next[x]] = h[next[x]]
        BY <4>3
      <4> HIDE DEF h
      <4> QED
        BY <3>1, <3>3, <4>4, Zenon
    <3> QED
      BY <3>2, <3>3
  <2>2. h = [x \in Small(k + 1) |-> h[x]]
    OBVIOUS
  <2>3. Solves(h, k + 1)
    <3> HIDE DEF h, Value, Small
    <3> QED
      BY <2>1, <2>2
  <2> QED
    BY <2>3
<1>2. C = {}
  <2>1. SUFFICES ASSUME C # {} PROVE FALSE
    OBVIOUS
  <2>2. PICK k \in C : \A j \in C : k <= j
    <3>1. C \in SUBSET Nat
      OBVIOUS
    <3> HIDE DEF C
    <3> QED
      BY <2>1, <3>1, LeastNumber
  <2>3. CASE k = 0
    <3> DEFINE g == [x \in Small(0) |-> base[x]]
    <3>1. \A x \in Small(0) : x \in stop
      <4> SUFFICES ASSUME NEW x \in D, m[x] <= 0, x \notin stop PROVE FALSE
        OBVIOUS
      <4>1. m[next[x]] \in Nat /\ m[x] \in Nat /\ m[next[x]] < m[x]
        OBVIOUS
      <4> QED
        BY <4>1
    <3>2. Solves(g, 0)
      BY <3>1
    <3> QED
      BY <2>2, <2>3, <3>2
  <2>4. CASE k # 0
    <3> HIDE DEF Solves
    <3>1. k - 1 \in Nat /\ k - 1 \notin C /\ (k - 1) + 1 = k
      BY <2>2, <2>4
    <3>2. PICK g : Solves(g, k - 1)
      BY <3>1
    <3>3. \E h : Solves(h, k)
      BY <1>1, <3>1, <3>2
    <3> QED
      BY <2>2, <3>3
  <2> QED
    BY <2>3, <2>4
<1>3. ASSUME NEW k \in Nat, NEW l \in Nat, NEW g, NEW h, Solves(g, k), Solves(h, l), NEW x \in D,
             m[x] <= k, m[x] <= l
      PROVE  g[x] = h[x]
  <2> DEFINE Fails(n) == \E y \in D : m[y] = n /\ m[y] <= k /\ m[y] <= l /\ g[y] # h[y]
             F == {n \in Nat : Fails(n)}
  <2>1. SUFFICES ASSUME F # {} PROVE FALSE
    <3>1. m[x] \in Nat
      OBVIOUS
    <3>2. F = {} => ~Fails(m[x])
      BY <3>1
    <3>3. ~Fails(m[x]) => g[x] = h[x]
      BY <1>3
    <3> HIDE DEF F, Fails
    <3> QED
      BY <3>2, <3>3
  <2>2. PICK n \in F : \A j \in F : n <= j
    <3>1. F \in SUBSET Nat
      OBVIOUS
    <3> HIDE DEF F
    <3> QED
      BY <2>1, <3>1, LeastNumber
  <2>3. PICK y \in D : m[y] = n /\ m[y] <= k /\ m[y] <= l /\ g[y] # h[y]
    BY <2>2
  <2>4. g[y] = Value(g, y) /\ h[y] = Value(h, y)
    <3>1. y \in Small(k) /\ y \in Small(l)
      BY <2>3
    <3> HIDE DEF Value, Small
    <3> QED
      BY <1>3, <3>1
  <2>5. y \notin stop
    BY <2>3, <2>4
  <2>6. next[y] \in D /\ m[next[y]] \in Nat /\ m[next[y]] < n
    BY <2>3, <2>5
  <2>7. m[next[y]] \notin F
    <3> HIDE DEF F
    <3>1. n \in Nat
      BY <2>2 DEF F
    <3> QED
      BY <2>2, <2>6, <3>1
  <2>8. g[next[y]] = h[next[y]]
    <3>1. m[next[y]] <= k /\ m[next[y]] <= l
      BY <2>3, <2>6
    <3> QED
      BY <2>6, <2>7, <3>1
  <2>9. Value(g, y) = Value(h, y)
    BY <2>8
  <2> HIDE DEF F, Value
  <2> QED
    BY <2>3, <2>4, <2>9
<1> DEFINE At(k) == CHOOSE g : Solves(g, k)
           G == [x \in D |-> At(m[x])[x]]
<1>4. \A k \in Nat : Solves(At(k), k)
  <2> HIDE DEF Solves
  <2>1. \A k \in Nat : \E g : Solves(g, k)
    BY <1>2
  <2> QED
    BY <2>1, Zenon
<1> HIDE DEF At, C
<1>5. ASSUME NEW x \in D PROVE G[x] = Value(G, x)
  <2>0. m[x] \in Nat /\ G[x] = At(m[x])[x]
    OBVIOUS
  <2>1. x \in Small(m[x])
    BY <2>0
  <2>2. Solves(At(m[x]), m[x])
    BY <1>4, <2>0, Zenon
  <2>3. At(m[x])[x] = Value(At(m[x]), x)
    <3> HIDE DEF Value, Small
    <3> QED
      BY <2>1, <2>2
  <2>4. CASE x \in stop
    BY <2>0, <2>3, <2>4, Zenon
  <2>5. CASE x \notin stop
    <3>1. next[x] \in D /\ m[next[x]] \in Nat /\ m[next[x]] <= m[x]
      BY <2>0, <2>5
    <3>2. G[next[x]] = At(m[next[x]])[next[x]]
      BY <3>1
    <3>3. Solves(At(m[next[x]]), m[next[x]])
      BY <1>4, <3>1, Zenon
    <3>4. At(m[next[x]])[next[x]] = At(m[x])[next[x]]
      <4> HIDE DEF Solves
      <4>1. m[next[x]] <= m[next[x]]
        BY <3>1
      <4> QED
        BY <1>3, <2>0, <2>2, <3>1, <3>3, <4>1
    <3>5. G[next[x]] = At(m[x])[next[x]]
      BY <3>2, <3>4
    <3> HIDE DEF G
    <3> QED
      BY <2>0, <2>3, <2>5, <3>5, Zenon
  <2> QED
    BY <2>4, <2>5
<1>6. G = [x \in D |-> G[x]]
  OBVIOUS
<1> HIDE DEF G
<1>7. G = [x \in D |-> Value(G, x)]
  <2> HIDE DEF Value
  <2> QED
    BY <1>5, <1>6
<1> QED
  BY <1>7 DEF DescentOf

-----------------------------------------------------------------------------
(* The places of a flattened sequence. *)

\* A place of a flattened sequence is one of the places of its parts, in their order.
FlatPlaces(w, flat, ss, n) ==
  /\ w \in [1..Len(flat) -> (1..n) \X Nat]
  /\ \A p \in 1..Len(flat) :
       w[p][2] \in 1..Len(ss[w[p][1]]) /\ flat[p] = ss[w[p][1]][w[p][2]]
  /\ \A p, q \in 1..Len(flat) :
       p < q => w[p][1] < w[q][1] \/ (w[p][1] = w[q][1] /\ w[p][2] < w[q][2])
  /\ \A i \in 1..n : \A j \in 1..Len(ss[i]) : \E p \in 1..Len(flat) : w[p] = <<i, j>>

\* One more part.
LEMMA FlatPlacesGrow ==
  ASSUME NEW S, NEW n \in Nat, NEW ss, \A i \in 1..(n + 1) : ss[i] \in Seq(S),
         NEW flat \in Seq(S), NEW w, FlatPlaces(w, flat, ss, n)
  PROVE  \E v : FlatPlaces(v, flat \o ss[n + 1], ss, n + 1)
<1> DEFINE part == ss[n + 1]
           more == flat \o part
           v == [p \in 1..Len(more) |-> IF p <= Len(flat) THEN w[p] ELSE <<n + 1, p - Len(flat)>>]
<1>1. part \in Seq(S) /\ Len(flat) \in Nat /\ Len(part) \in Nat
  <2>1. n + 1 \in 1..(n + 1)
    OBVIOUS
  <2> QED
    BY <2>1
<1>2. /\ more \in Seq(S) /\ Len(more) = Len(flat) + Len(part)
      /\ \A p \in 1..Len(more) : more[p] = IF p <= Len(flat) THEN flat[p] ELSE part[p - Len(flat)]
  <2> HIDE DEF part
  <2> QED
    BY <1>1, ConcatProperties
<1> HIDE DEF more
<1>3. ASSUME NEW p \in 1..Len(more)
      PROVE  /\ v[p] \in (1..(n + 1)) \X Nat
             /\ v[p][2] \in 1..Len(ss[v[p][1]]) /\ more[p] = ss[v[p][1]][v[p][2]]
             /\ p > Len(flat) => v[p][1] = n + 1 /\ v[p][2] = p - Len(flat)
             /\ p <= Len(flat) => v[p] = w[p] /\ v[p][1] < n + 1
  <2>1. CASE p <= Len(flat)
    <3>1. p \in 1..Len(flat)
      BY <1>1, <2>1
    <3>2. /\ w[p] \in (1..n) \X Nat /\ w[p][2] \in 1..Len(ss[w[p][1]])
          /\ flat[p] = ss[w[p][1]][w[p][2]]
      BY <3>1 DEF FlatPlaces
    <3>3. v[p] = w[p]
      BY <2>1
    <3> HIDE DEF v
    <3>4. w[p] \in (1..(n + 1)) \X Nat /\ w[p][1] < n + 1
      BY <3>2
    <3>5. more[p] = flat[p]
      BY <1>2, <2>1
    <3>6. ~(p > Len(flat))
      BY <1>1, <3>1
    <3> QED
      BY <3>2, <3>3, <3>4, <3>5, <3>6, Zenon
  <2>2. CASE ~(p <= Len(flat))
    <3>1. v[p] = <<n + 1, p - Len(flat)>> /\ more[p] = part[p - Len(flat)]
      BY <1>2, <2>2
    <3>2. p - Len(flat) \in 1..Len(part)
      BY <1>1, <1>2, <2>2
    <3> HIDE DEF v
    <3> QED
      BY <1>1, <2>2, <3>1, <3>2
  <2> QED
    BY <2>1, <2>2
<1>4. ASSUME NEW p \in 1..Len(more), NEW q \in 1..Len(more), p < q
      PROVE  v[p][1] < v[q][1] \/ (v[p][1] = v[q][1] /\ v[p][2] < v[q][2])
  <2> HIDE DEF v
  <2>1. CASE q <= Len(flat)
    <3>1. p \in 1..Len(flat) /\ q \in 1..Len(flat) /\ v[p] = w[p] /\ v[q] = w[q]
      <4>1. p \in Nat /\ q \in Nat /\ 1 <= p /\ 1 <= q /\ p < q
        BY <1>4
      <4>2. p <= Len(flat)
        BY <1>1, <2>1, <4>1
      <4>3. v[p] = w[p] /\ v[q] = w[q]
        BY <1>3, <2>1, <4>2, Zenon
      <4> QED
        BY <1>1, <2>1, <4>1, <4>2, <4>3
    <3> QED
      BY <1>4, <3>1 DEF FlatPlaces
  <2>2. CASE ~(q <= Len(flat)) /\ p <= Len(flat)
    <3>1. v[q][1] = n + 1 /\ v[p][1] < n + 1
      BY <1>1, <1>3, <2>2
    <3> QED
      BY <3>1
  <2>3. CASE ~(q <= Len(flat)) /\ ~(p <= Len(flat))
    <3>1. v[q][1] = n + 1 /\ v[p][1] = n + 1
      BY <1>1, <1>3, <2>3
    <3>2. v[q][2] = q - Len(flat) /\ v[p][2] = p - Len(flat)
      BY <1>1, <1>3, <2>3
    <3> QED
      BY <1>1, <1>4, <3>1, <3>2
  <2> QED
    BY <2>1, <2>2, <2>3
<1>5. ASSUME NEW i \in 1..(n + 1), NEW j \in 1..Len(ss[i])
      PROVE  \E p \in 1..Len(more) : v[p] = <<i, j>>
  <2>1. CASE i = n + 1
    <3>1. Len(flat) + j \in 1..Len(more) /\ ~(Len(flat) + j <= Len(flat))
      BY <1>1, <1>2, <2>1
    <3>2. v[Len(flat) + j] = <<n + 1, (Len(flat) + j) - Len(flat)>> /\ (Len(flat) + j) - Len(flat) = j
      BY <1>1, <3>1
    <3> HIDE DEF v
    <3> QED
      BY <2>1, <3>1, <3>2
  <2>2. CASE i # n + 1
    <3>1. i \in 1..n
      BY <2>2
    <3>2. PICK p \in 1..Len(flat) : w[p] = <<i, j>>
      BY <3>1 DEF FlatPlaces
    <3>3. p \in 1..Len(more) /\ p <= Len(flat)
      BY <1>1, <1>2
    <3>4. v[p] = w[p]
      BY <3>3
    <3> HIDE DEF v
    <3> QED
      BY <3>2, <3>3, <3>4
  <2> QED
    BY <2>1, <2>2
<1>6. v \in [1..Len(more) -> (1..(n + 1)) \X Nat]
  <2>1. v = [p \in 1..Len(more) |-> v[p]]
    OBVIOUS
  <2> HIDE DEF v
  <2> QED
    BY <1>3, <2>1
<1>7. FlatPlaces(v, more, ss, n + 1)
  <2> HIDE DEF v
  <2> QED
    BY <1>3, <1>4, <1>5, <1>6 DEF FlatPlaces
<1> QED
  BY <1>7 DEF more

\* The first part.
LEMMA FlatPlacesBegin ==
  ASSUME NEW S, NEW ss, ss[1] \in Seq(S)
  PROVE  \E w : FlatPlaces(w, ss[1], ss, 1)
<1> DEFINE w == [p \in 1..Len(ss[1]) |-> <<1, p>>]
<1>1. Len(ss[1]) \in Nat
  OBVIOUS
<1>2. w \in [1..Len(ss[1]) -> (1..1) \X Nat]
  BY <1>1
<1>3. \A p \in 1..Len(ss[1]) : w[p] = <<1, p>>
  OBVIOUS
<1> HIDE DEF w
<1>4. \A p \in 1..Len(ss[1]) : w[p][1] = 1 /\ w[p][2] = p
  BY <1>3
<1>5. \A p \in 1..Len(ss[1]) : w[p][2] \in 1..Len(ss[w[p][1]]) /\ ss[1][p] = ss[w[p][1]][w[p][2]]
  BY <1>4
<1>6. \A p, q \in 1..Len(ss[1]) :
        p < q => w[p][1] < w[q][1] \/ (w[p][1] = w[q][1] /\ w[p][2] < w[q][2])
  BY <1>4
<1>7. \A i \in 1..1 : \A j \in 1..Len(ss[i]) : \E p \in 1..Len(ss[1]) : w[p] = <<i, j>>
  BY <1>3
<1>8. FlatPlaces(w, ss[1], ss, 1)
  BY <1>2, <1>5, <1>6, <1>7 DEF FlatPlaces
<1> QED
  BY <1>8

\* Every flattened sequence has them.
LEMMA FlattenPlaces ==
  ASSUME NEW S, NEW n \in Nat, NEW ss \in [1..n -> Seq(S)]
  PROVE  FlattenSeq(ss) \in Seq(S) /\ \E w : FlatPlaces(w, FlattenSeq(ss), ss, n)
<1>1. Len(ss) = n /\ FlattenSeq(ss) \in Seq(S)
  BY FlattenIsASequence
<1>2. CASE n = 0
  <2>1. FlattenSeq(ss) = ss /\ Len(ss) = 0
    BY <1>1, <1>2 DEF FlattenSeq
  <2>2. FlatPlaces([p \in 1..0 |-> <<1, 1>>], ss, ss, n)
    BY <1>2, <2>1 DEF FlatPlaces
  <2> QED
    BY <1>1, <2>1, <2>2
<1>3. CASE n # 0
  <2> DEFINE flat == CHOOSE g : g = [i \in 1..n |-> IF i = 1 THEN ss[i] ELSE g[i - 1] \o ss[i]]
  <2>1. flat = [i \in 1..n |-> IF i = 1 THEN ss[i] ELSE flat[i - 1] \o ss[i]]
    BY FlattenIsDefined
  <2>2. FlattenSeq(ss) = flat[n]
    BY <1>1, <1>3 DEF FlattenSeq
  <2> HIDE DEF flat
  <2> DEFINE Whole(i) == flat[i] \in Seq(S) /\ \E w : FlatPlaces(w, flat[i], ss, i)
             T == {i \in 1..n : ~Whole(i)}
  <2>3. T = {}
    <3>1. SUFFICES ASSUME T # {} PROVE FALSE
      OBVIOUS
    <3>2. PICK i \in T : \A j \in T : i <= j
      <4>1. T \in SUBSET Nat
        OBVIOUS
      <4> HIDE DEF T
      <4> QED
        BY <3>1, <4>1, LeastNumber
    <3>3. i \in 1..n /\ ~Whole(i) /\ \A j \in 1..n : j < i => Whole(j)
      <4> HIDE DEF Whole
      <4>1. i \in 1..n /\ ~Whole(i) /\ \A j \in 1..n : ~Whole(j) => i <= j
        BY <3>2
      <4>2. \A j \in 1..n : j < i => ~(i <= j)
        BY <4>1
      <4> QED
        BY <4>1, <4>2
    <3> HIDE DEF T
    <3>4. CASE i = 1
      <4>1. flat[1] = ss[1] /\ ss[1] \in Seq(S)
        BY <2>1, <3>3, <3>4
      <4>2. \E w : FlatPlaces(w, flat[1], ss, 1)
        BY <4>1, FlatPlacesBegin
      <4> QED
        BY <3>3, <3>4, <4>1, <4>2
    <3>5. CASE i # 1
      <4>1. i - 1 \in 1..n /\ i - 1 \in Nat /\ (i - 1) + 1 = i /\ i - 1 < i
        BY <3>3, <3>5
      <4>2. Whole(i - 1)
        <5> HIDE DEF Whole
        <5> QED
          BY <3>3, <4>1
      <4>3. PICK w : FlatPlaces(w, flat[i - 1], ss, i - 1)
        BY <4>2
      <4>4. flat[i] = flat[i - 1] \o ss[i] /\ \A j \in 1..i : ss[j] \in Seq(S)
        <5> HIDE DEF Whole
        <5>1. \A j \in 1..n : flat[j] = IF j = 1 THEN ss[j] ELSE flat[j - 1] \o ss[j]
          BY <2>1, Zenon
        <5>2. flat[i] = flat[i - 1] \o ss[i]
          BY <3>3, <3>5, <5>1, Zenon
        <5>3. \A j \in 1..i : j \in 1..n
          BY <3>3
        <5> QED
          BY <5>2, <5>3
      <4>5. flat[i - 1] \in Seq(S) /\ ss[i] \in Seq(S)
        BY <3>3, <4>2
      <4>6. \E v : FlatPlaces(v, flat[i - 1] \o ss[i], ss, i)
        <5> HIDE DEF Whole
        <5>1. PICK m \in Nat : m = i - 1 /\ m + 1 = i
          BY <4>1
        <5>2. /\ FlatPlaces(w, flat[m], ss, m) /\ flat[m] \in Seq(S)
              /\ \A j \in 1..(m + 1) : ss[j] \in Seq(S)
          BY <4>3, <4>4, <4>5, <5>1
        <5>3. \E v : FlatPlaces(v, flat[m] \o ss[m + 1], ss, m + 1)
          BY <5>2, FlatPlacesGrow
        <5>4. flat[i - 1] \o ss[i] = flat[m] \o ss[m + 1]
          BY <5>1
        <5> QED
          BY <5>1, <5>3, <5>4, Zenon
      <4>7. flat[i - 1] \o ss[i] \in Seq(S)
        BY <4>5, ConcatProperties
      <4>8. Whole(i)
        BY <4>4, <4>6, <4>7
      <4> QED
        BY <3>3, <4>8
    <3> QED
      BY <3>4, <3>5
  <2>4. n \in 1..n
    BY <1>3
  <2>5. Whole(n)
    <3> HIDE DEF Whole
    <3> QED
      BY <2>3, <2>4
  <2> QED
    BY <2>2, <2>5
<1> QED
  BY <1>2, <1>3

\* Sequences without repetitions that have no member in common.
AreApart(ss, n) ==
  /\ \A i \in 1..n : \A a, b \in 1..Len(ss[i]) : ss[i][a] = ss[i][b] => a = b
  /\ \A i, j \in 1..n : \A a \in 1..Len(ss[i]), b \in 1..Len(ss[j]) :
       ss[i][a] = ss[j][b] => i = j

\* A sequence without repetitions that has what they have and nothing else.
Gathers(flat, ss, n) ==
  /\ \A p, q \in 1..Len(flat) : flat[p] = flat[q] => p = q
  /\ \A x : (\E p \in 1..Len(flat) : flat[p] = x)
              <=> \E i \in 1..n : \E a \in 1..Len(ss[i]) : ss[i][a] = x

\* The parts are kept apart in a flattened sequence, which has nothing else.
LEMMA FlatIsInjective ==
  ASSUME NEW S, NEW n \in Nat, NEW ss \in [1..n -> Seq(S)], AreApart(ss, n)
  PROVE  FlattenSeq(ss) \in Seq(S) /\ Gathers(FlattenSeq(ss), ss, n)
<1>1. FlattenSeq(ss) \in Seq(S) /\ \E v : FlatPlaces(v, FlattenSeq(ss), ss, n)
  BY FlattenPlaces
<1>2. PICK flat \in Seq(S) : flat = FlattenSeq(ss)
  BY <1>1
<1>3. PICK w : FlatPlaces(w, flat, ss, n)
  BY <1>1, <1>2
<1>4. Len(flat) \in Nat
  BY <1>2
<1>5. ASSUME NEW p \in 1..Len(flat)
      PROVE  /\ w[p] \in (1..n) \X Nat /\ w[p][1] \in 1..n /\ w[p][2] \in 1..Len(ss[w[p][1]])
             /\ flat[p] = ss[w[p][1]][w[p][2]]
  BY <1>3 DEF FlatPlaces
<1>6. ASSUME NEW p \in 1..Len(flat), NEW q \in 1..Len(flat), flat[p] = flat[q], p < q
      PROVE  FALSE
  <2>0. PICK i \in 1..n, j \in 1..n : i = w[p][1] /\ j = w[q][1]
    BY <1>5
  <2>5. PICK a \in 1..Len(ss[i]), b \in 1..Len(ss[j]) : a = w[p][2] /\ b = w[q][2]
    BY <1>5, <2>0
  <2>6. ss[i][a] = ss[j][b]
    BY <1>5, <1>6, <2>0, <2>5
  <2>7. i = j
    BY <2>6 DEF AreApart
  <2>8. a = b
    BY <2>6, <2>7 DEF AreApart
  <2>1. w[p][1] = w[q][1]
    BY <2>0, <2>7
  <2>2. w[p][2] = w[q][2]
    BY <2>5, <2>8
  <2>3. w[p][1] < w[q][1] \/ (w[p][1] = w[q][1] /\ w[p][2] < w[q][2])
    BY <1>3, <1>6 DEF FlatPlaces
  <2>4. w[p][1] \in 1..n /\ w[p][2] \in Nat
    BY <1>5
  <2>9. w[p][1] < w[p][1] \/ w[p][2] < w[p][2]
    BY <2>1, <2>2, <2>3, Zenon
  <2>10. \A x \in Int : ~(x < x)
    OBVIOUS
  <2>11. w[p][1] \in Int /\ w[p][2] \in Int
    BY <2>4
  <2> QED
    BY <2>9, <2>10, <2>11, Zenon
<1>7. \A p, q \in 1..Len(flat) : flat[p] = flat[q] => p = q
  BY <1>4, <1>6
<1>8. ASSUME NEW i \in 1..n, NEW a \in 1..Len(ss[i])
      PROVE  \E p \in 1..Len(flat) : flat[p] = ss[i][a]
  <2>3. \A k \in 1..n : \A b \in 1..Len(ss[k]) : \E p \in 1..Len(flat) : w[p] = <<k, b>>
    BY <1>3 DEF FlatPlaces
  <2>1. PICK p \in 1..Len(flat) : w[p] = <<i, a>>
    BY <2>3
  <2>2. w[p][1] = i /\ w[p][2] = a
    BY <2>1
  <2> QED
    BY <1>5, <2>2
<1>9. \A x : (\E p \in 1..Len(flat) : flat[p] = x)
               <=> \E i \in 1..n : \E a \in 1..Len(ss[i]) : ss[i][a] = x
  <2>1. ASSUME NEW x, NEW p \in 1..Len(flat), flat[p] = x
        PROVE  \E i \in 1..n : \E a \in 1..Len(ss[i]) : ss[i][a] = x
    <3>1. w[p][1] \in 1..n /\ w[p][2] \in 1..Len(ss[w[p][1]]) /\ x = ss[w[p][1]][w[p][2]]
      BY <1>5, <2>1
    <3> QED
      BY <3>1, Zenon
  <2>2. ASSUME NEW x, NEW i \in 1..n, NEW a \in 1..Len(ss[i]), ss[i][a] = x
        PROVE  \E p \in 1..Len(flat) : flat[p] = x
    <3>1. PICK p \in 1..Len(flat) : flat[p] = ss[i][a]
      BY <1>8
    <3> QED
      BY <2>2, <3>1, Zenon
  <2> DEFINE InFlat(x) == \E p \in 1..Len(flat) : flat[p] = x
             InPart(x) == \E i \in 1..n : \E a \in 1..Len(ss[i]) : ss[i][a] = x
  <2>3. \A x : InFlat(x) => InPart(x)
    BY <2>1, Zenon
  <2>4. \A x : InPart(x) => InFlat(x)
    BY <2>2, Zenon
  <2> HIDE DEF InFlat, InPart
  <2>5. \A x : InFlat(x) <=> InPart(x)
    BY <2>3, <2>4
  <2> QED
    BY <2>5 DEF InFlat, InPart
<1>10. Gathers(flat, ss, n)
  BY <1>7, <1>9, Zenon DEF Gathers
<1> QED
  BY <1>2, <1>10

\* A set is ordered by two numbers that tell its members apart.
LEMMA NumbersOrder ==
  ASSUME NEW S, NEW f, NEW g, NEW R,
         \A a \in S : f[a] \in Int /\ g[a] \in Int,
         \A a, b \in S : f[a] = f[b] /\ g[a] = g[b] => a = b,
         \A a, b \in S : <<a, b>> \in R <=> f[a] < f[b] \/ (f[a] = f[b] /\ g[a] < g[b])
  PROVE  IsOrder(R, S)
<1>1. \A a \in S : <<a, a>> \notin R
  OBVIOUS
<1>2. ASSUME NEW a \in S, NEW b \in S, NEW c \in S, <<a, b>> \in R, <<b, c>> \in R
      PROVE  <<a, c>> \in R
  <2>1. f[a] < f[b] \/ (f[a] = f[b] /\ g[a] < g[b])
    BY <1>2
  <2>2. f[b] < f[c] \/ (f[b] = f[c] /\ g[b] < g[c])
    BY <1>2
  <2>3. f[a] < f[c] \/ (f[a] = f[c] /\ g[a] < g[c])
    BY <2>1, <2>2
  <2> QED
    BY <2>3
<1>3. ASSUME NEW a \in S, NEW b \in S
      PROVE  a = b \/ <<a, b>> \in R \/ <<b, a>> \in R
  <2>1. f[a] < f[b] \/ f[b] < f[a] \/ (f[a] = f[b] /\ (g[a] < g[b] \/ g[b] < g[a] \/ g[a] = g[b]))
    OBVIOUS
  <2>2. (f[a] = f[b] /\ g[a] = g[b]) => a = b
    BY Zenon
  <2> QED
    BY <2>1, <2>2
<1> QED
  BY <1>1, <1>2, <1>3 DEF IsOrder

\* An order is refined by a number that comes before it.
LEMMA NumberThenOrder ==
  ASSUME NEW S, NEW f, NEW Q, NEW R,
         \A a \in S : f[a] \in Int, IsOrder(Q, S),
         \A a, b \in S : <<a, b>> \in R <=> f[a] < f[b] \/ (f[a] = f[b] /\ <<a, b>> \in Q)
  PROVE  IsOrder(R, S)
<1>1. ASSUME NEW a \in S PROVE <<a, a>> \notin R
  <2>1. <<a, a>> \notin Q
    BY Zenon DEF IsOrder
  <2>2. ~(f[a] < f[a])
    OBVIOUS
  <2> QED
    BY <2>1, <2>2
<1>2. ASSUME NEW a \in S, NEW b \in S, NEW c \in S, <<a, b>> \in R, <<b, c>> \in R
      PROVE  <<a, c>> \in R
  <2>1. f[a] < f[b] \/ (f[a] = f[b] /\ <<a, b>> \in Q)
    BY <1>2
  <2>2. f[b] < f[c] \/ (f[b] = f[c] /\ <<b, c>> \in Q)
    BY <1>2
  <2>3. <<a, b>> \in Q /\ <<b, c>> \in Q => <<a, c>> \in Q
    BY Zenon DEF IsOrder
  <2>4. f[a] < f[c] \/ (f[a] = f[c] /\ <<a, c>> \in Q)
    BY <2>1, <2>2, <2>3
  <2> QED
    BY <2>4
<1>3. ASSUME NEW a \in S, NEW b \in S
      PROVE  a = b \/ <<a, b>> \in R \/ <<b, a>> \in R
  <2>1. f[a] < f[b] \/ f[b] < f[a] \/ f[a] = f[b]
    OBVIOUS
  <2>2. a = b \/ <<a, b>> \in Q \/ <<b, a>> \in Q
    BY Zenon DEF IsOrder
  <2> QED
    BY <2>1, <2>2
<1> QED
  BY <1>1, <1>2, <1>3, Zenon DEF IsOrder

\* The members of a set one by one, as an order has them.
Enumerates(order, S, R) ==
  /\ order \in [1..Cardinality(S) -> S]
  /\ \A s \in S : \E m \in 1..Cardinality(S) : order[m] = s
  /\ \A a, b \in 1..Cardinality(S) : order[a] = order[b] => a = b
  /\ \A a, b \in 1..Cardinality(S) : a < b => <<order[a], order[b]>> \in R

\* Taking them by their ranks enumerates them.
LEMMA OrderPlaces ==
  ASSUME NEW S, IsFiniteSet(S), NEW R, IsOrder(R, S),
         NEW order, order = [m \in 1..Cardinality(S) |-> order[m]],
         \A m \in 1..Cardinality(S) : order[m] = CHOOSE s \in S : Rank(R, S, s) = m - 1
  PROVE  Cardinality(S) \in Nat /\ Enumerates(order, S, R)
<1>1. PICK n \in Nat : n = Cardinality(S)
  BY FS_CardinalityType
<1>2. ASSUME NEW m \in 1..n
      PROVE  order[m] \in S /\ Rank(R, S, order[m]) = m - 1
  <2>1. order[m] = CHOOSE s \in S : Rank(R, S, s) = m - 1
    BY <1>1
  <2>2. m - 1 \in 0..(n - 1)
    OBVIOUS
  <2>3. \E s \in S : Rank(R, S, s) = m - 1
    <3>1. \A k \in 0..(n - 1) : \E s \in S : Rank(R, S, s) = k
      BY <1>1, RankIsBijection
    <3> QED
      BY <2>2, <3>1
  <2> QED
    BY <2>1, <2>3, Zenon
<1>3. order \in [1..n -> S]
  BY <1>1, <1>2
<1>4. ASSUME NEW s \in S PROVE \E m \in 1..n : order[m] = s
  <2>1. PICK k : k = Rank(R, S, s)
    OBVIOUS
  <2>2. k \in Nat /\ k < n
    BY <1>1, <2>1, RankGrows
  <2>3. PICK m \in 1..n : m - 1 = k
    <3>1. k + 1 \in 1..n /\ (k + 1) - 1 = k
      BY <2>2
    <3> QED
      BY <3>1
  <2>4. order[m] \in S /\ Rank(R, S, order[m]) = Rank(R, S, s)
    BY <1>2, <2>1, <2>3
  <2>5. order[m] = s
    BY <2>4, RankIsBijection
  <2> QED
    BY <2>5
<1>5. ASSUME NEW a \in 1..n, NEW b \in 1..n, order[a] = order[b] PROVE a = b
  <2>1. a - 1 = b - 1
    BY <1>2, <1>5
  <2> QED
    BY <2>1
<1>6. ASSUME NEW a \in 1..n, NEW b \in 1..n, a < b PROVE <<order[a], order[b]>> \in R
  <2>1. order[a] \in S /\ order[b] \in S /\ order[a] # order[b]
    <3>1. order[a] \in S /\ order[b] \in S
      BY <1>2
    <3>2. ASSUME order[a] = order[b] PROVE FALSE
      <4>1. a = b
        BY <1>5, <3>2
      <4> QED
        BY <1>6, <4>1
    <3> QED
      BY <3>1, <3>2
  <2>2. CASE <<order[b], order[a]>> \in R
    <3>1. Rank(R, S, order[b]) < Rank(R, S, order[a])
      BY <2>1, <2>2, RankGrows
    <3>2. Rank(R, S, order[b]) = b - 1 /\ Rank(R, S, order[a]) = a - 1
      BY <1>2
    <3> QED
      BY <1>6, <3>1, <3>2
  <2>3. \A x, y \in S : x = y \/ <<x, y>> \in R \/ <<y, x>> \in R
    BY Zenon DEF IsOrder
  <2> QED
    BY <2>1, <2>2, <2>3
<1> QED
  BY <1>1, <1>3, <1>4, <1>5, <1>6 DEF Enumerates

\* B compares the members of S, some of which may be alike.
IsWeakOrder(B, S) ==
  /\ \A a, b \in S : <<a, b>> \in B => <<b, a>> \notin B
  /\ \A a, b, c \in S : <<a, c>> \in B => <<a, b>> \in B \/ <<b, c>> \in B

\* n members of S that come first: one by one, none before one that precedes it, and none
\* that is left out precedes one of them.
AreFirst(kept, n, S, B) ==
  /\ kept \in [1..n -> S]
  /\ \A i, j \in 1..n : i < j => kept[i] # kept[j] /\ <<kept[j], kept[i]>> \notin B
  /\ \A i \in 1..n, b \in S : <<b, kept[i]>> \in B => \E j \in 1..n : b = kept[j]

\* Any number of members of a finite set come first.
LEMMA FirstsExist ==
  ASSUME NEW S, IsFiniteSet(S), NEW B, IsWeakOrder(B, S), NEW n \in Nat, n <= Cardinality(S)
  PROVE  \E kept : AreFirst(kept, n, S, B)
<1>1. PICK m \in Nat : m = Cardinality(S)
  BY FS_CardinalityType
<1>2. PICK number \in [S -> Nat] : \A a, b \in S : number[a] = number[b] => a = b
  <2>1. PICK f \in Bijection(1..m, S) : TRUE
    BY <1>1, FS_CardinalityType, Zenon DEF ExistsBijection
  <2>2. /\ f \in [1..m -> S]
        /\ \A a \in S : \E i \in 1..m : f[i] = a
    BY <2>1 DEF Bijection, Surjection
  <2> DEFINE number == [a \in S |-> CHOOSE i \in 1..m : f[i] = a]
  <2>3. \A a \in S : number[a] \in 1..m /\ f[number[a]] = a
    BY <2>2
  <2>4. number \in [S -> Nat]
    BY <2>3
  <2> HIDE DEF number
  <2> QED
    BY <2>3, <2>4
<1> DEFINE R == {p \in S \X S : \/ <<p[1], p[2]>> \in B
                                \/ <<p[2], p[1]>> \notin B /\ number[p[1]] < number[p[2]]}
<1>3. \A a, b \in S : <<a, b>> \in R <=> <<a, b>> \in B \/ (<<b, a>> \notin B /\ number[a] < number[b])
  OBVIOUS
<1> HIDE DEF R
<1>4. IsOrder(R, S)
  <2>1. \A a \in S : <<a, a>> \notin R
    BY <1>2, <1>3 DEF IsWeakOrder
  <2>2. ASSUME NEW a \in S, NEW b \in S, NEW c \in S, <<a, b>> \in R, <<b, c>> \in R
        PROVE  <<a, c>> \in R
    <3>1. PICK x, y, z \in Nat : x = number[a] /\ y = number[b] /\ z = number[c]
      BY <1>2
    <3>2. /\ <<a, b>> \in B \/ (<<b, a>> \notin B /\ x < y)
          /\ <<b, c>> \in B \/ (<<c, b>> \notin B /\ y < z)
          /\ <<a, c>> \in B \/ (<<c, a>> \notin B /\ x < z) => <<a, c>> \in R
      BY <1>3, <2>2, <3>1
    <3>3. /\ <<a, b>> \in B => <<b, a>> \notin B
          /\ <<b, c>> \in B => <<c, b>> \notin B
          /\ <<a, b>> \in B => <<a, c>> \in B \/ <<c, b>> \in B
          /\ <<b, c>> \in B => <<b, a>> \in B \/ <<a, c>> \in B
          /\ <<c, a>> \in B => <<c, b>> \in B \/ <<b, a>> \in B
      BY Zenon DEF IsWeakOrder
    <3>4. x < y /\ y < z => x < z
      OBVIOUS
    <3> QED
      BY <3>2, <3>3, <3>4
  <2>3. ASSUME NEW a \in S, NEW b \in S PROVE a = b \/ <<a, b>> \in R \/ <<b, a>> \in R
    <3>1. number[a] < number[b] \/ number[b] < number[a] \/ a = b
      BY <1>2
    <3> QED
      BY <1>3, <3>1
  <2> QED
    BY <2>1, <2>2, <2>3, Zenon DEF IsOrder
<1> DEFINE order == [k \in 1..m |-> CHOOSE s \in S : Rank(R, S, s) = k - 1]
<1>5. Enumerates(order, S, R)
  <2>1. /\ order = [k \in 1..Cardinality(S) |-> order[k]]
        /\ \A k \in 1..Cardinality(S) : order[k] = CHOOSE s \in S : Rank(R, S, s) = k - 1
    BY <1>1
  <2> HIDE DEF order
  <2> QED
    BY <1>4, <2>1, OrderPlaces
<1> HIDE DEF order
<1>6. /\ order \in [1..m -> S]
      /\ \A s \in S : \E k \in 1..m : order[k] = s
      /\ \A i, j \in 1..m : order[i] = order[j] => i = j
      /\ \A i, j \in 1..m : i < j => <<order[i], order[j]>> \in R
  BY <1>1, <1>5, Zenon DEF Enumerates
<1> DEFINE kept == [i \in 1..n |-> order[i]]
<1>7. n <= m /\ 1..n \subseteq 1..m
  BY <1>1
<1>8. \A i, j \in 1..m : i < j => <<order[j], order[i]>> \notin B
  <2> SUFFICES ASSUME NEW i \in 1..m, NEW j \in 1..m, i < j PROVE <<order[j], order[i]>> \notin B
    OBVIOUS
  <2>1. order[i] \in S /\ order[j] \in S /\ <<order[i], order[j]>> \in R
    BY <1>6
  <2> QED
    BY <1>3, <2>1 DEF IsWeakOrder
<1>9. kept \in [1..n -> S] /\ \A i \in 1..n : kept[i] = order[i]
  BY <1>6, <1>7
<1> HIDE DEF kept
<1>10. \A i, j \in 1..n : i < j => kept[i] # kept[j] /\ <<kept[j], kept[i]>> \notin B
  <2> SUFFICES ASSUME NEW i \in 1..n, NEW j \in 1..n, i < j
               PROVE  kept[i] # kept[j] /\ <<kept[j], kept[i]>> \notin B
    OBVIOUS
  <2>1. i \in 1..m /\ j \in 1..m /\ i # j
    BY <1>7
  <2> QED
    BY <1>6, <1>8, <1>9, <2>1
<1>11. ASSUME NEW i \in 1..n, NEW b \in S, <<b, kept[i]>> \in B PROVE \E j \in 1..n : b = kept[j]
  <2>1. PICK k \in 1..m : order[k] = b
    BY <1>6
  <2>2. ~(i < k)
    BY <1>7, <1>8, <1>9, <1>11, <2>1
  <2>3. k \in 1..n
    BY <2>2
  <2> QED
    BY <1>9, <2>1, <2>3
<1> QED
  BY <1>9, <1>10, <1>11, Zenon DEF AreFirst

\* The recursion of a fold that chooses the member it takes.
ChoiceOf(g, S, base, choose, step) ==
  g = [T \in SUBSET S |-> IF T = {} THEN base
                         ELSE step[<<g[T \ {choose[T]}], choose[T]>>]]

\* It has a solution, ...
LEMMA ChoiceIsDefined ==
  ASSUME NEW S, IsFiniteSet(S), NEW base, NEW choose, NEW step,
         \A T \in SUBSET S : T # {} => choose[T] \in T
  PROVE  \E g : ChoiceOf(g, S, base, choose, step)
<1> DEFINE Small(k) == {T \in SUBSET S : Cardinality(T) <= k}
           Value(g, T) == IF T = {} THEN base ELSE step[<<g[T \ {choose[T]}], choose[T]>>]
           Solves(g, k) == g = [T \in Small(k) |-> Value(g, T)]
           C == {k \in Nat : ~ \E g : Solves(g, k)}
<1>1. \A T \in SUBSET S : IsFiniteSet(T) /\ Cardinality(T) \in Nat /\ Cardinality(T) <= Cardinality(S)
  BY FS_Subset, FS_CardinalityType
<1>2. ASSUME NEW k \in Nat, NEW g, Solves(g, k)
      PROVE  \E h : Solves(h, k + 1)
  <2> DEFINE h == [T \in Small(k + 1) |-> Value(g, T)]
  <2>1. ASSUME NEW T \in Small(k + 1) PROVE h[T] = Value(h, T)
    <3>1. CASE T = {}
      BY <3>1
    <3>2. CASE T # {}
      <4> DEFINE c == choose[T]
                 U == T \ {c}
      <4>1. c \in T
        BY <3>2
      <4>2. IsFiniteSet(T) /\ Cardinality(U) = Cardinality(T) - 1 /\ U \in SUBSET S
        BY <1>1, <4>1, FS_RemoveElement
      <4>3. U \in Small(k) /\ U \in Small(k + 1)
        <5>1. Cardinality(T) \in Nat /\ Cardinality(U) \in Nat /\ Cardinality(T) <= k + 1
          BY <1>1, <4>2
        <5> QED
          BY <4>2, <5>1
      <4>4. g[U] = Value(g, U) /\ h[U] = Value(g, U)
        <5> HIDE DEF U, Value, Small
        <5> QED
          BY <1>2, <4>3
      <4>5. h[T] = Value(g, T)
        OBVIOUS
      <4>6. Value(g, T) = step[<<g[U], c>>] /\ Value(h, T) = step[<<h[U], c>>]
        BY <3>2, Zenon
      <4> HIDE DEF h, U, Value
      <4> QED
        BY <4>4, <4>5, <4>6, Zenon
    <3> QED
      BY <3>1, <3>2
  <2>2. Solves(h, k + 1)
    <3> HIDE DEF Value
    <3>1. h = [T \in Small(k + 1) |-> h[T]]
      OBVIOUS
    <3> QED
      BY <2>1
  <2> QED
    BY <2>2
<1>3. C = {}
  <2>1. SUFFICES ASSUME C # {} PROVE FALSE
    OBVIOUS
  <2>2. PICK k \in C : \A j \in C : k <= j
    <3>1. C \in SUBSET Nat
      OBVIOUS
    <3> HIDE DEF C
    <3> QED
      BY <2>1, <3>1, LeastNumber
  <2>3. CASE k = 0
    <3> DEFINE g == [T \in Small(0) |-> base]
    <3>1. \A T \in Small(0) : T = {}
      BY <1>1, FS_EmptySet
    <3>2. Solves(g, 0)
      BY <3>1
    <3> QED
      BY <2>2, <2>3, <3>2
  <2>4. CASE k # 0
    <3> HIDE DEF Solves
    <3>1. k - 1 \in Nat /\ k - 1 \notin C /\ (k - 1) + 1 = k
      BY <2>2, <2>4
    <3>2. PICK g : Solves(g, k - 1)
      BY <3>1
    <3>3. \E h : Solves(h, k)
      BY <1>2, <3>1, <3>2
    <3> QED
      BY <2>2, <3>3
  <2> QED
    BY <2>3, <2>4
<1>4. PICK n \in Nat : n = Cardinality(S)
  BY FS_CardinalityType
<1>5. Small(n) = SUBSET S
  BY <1>1, <1>4
<1>6. PICK g : Solves(g, n)
  BY <1>3
<1> QED
  BY <1>5, <1>6 DEF ChoiceOf

\* ... which stays in a set that the steps do not leave.
LEMMA ChoiceIsTyped ==
  ASSUME NEW S, IsFiniteSet(S), NEW St, NEW base \in St, NEW choose,
         NEW step \in [St \X S -> St],
         \A T \in SUBSET S : T # {} => choose[T] \in T,
         NEW g, ChoiceOf(g, S, base, choose, step)
  PROVE  g \in [SUBSET S -> St]
<1>0. g = [T \in SUBSET S |-> IF T = {} THEN base
                             ELSE step[<<g[T \ {choose[T]}], choose[T]>>]]
  BY DEF ChoiceOf
<1>1. \A T \in SUBSET S : IsFiniteSet(T) /\ Cardinality(T) \in Nat /\ Cardinality(T) <= Cardinality(S)
  BY FS_Subset, FS_CardinalityType
<1>2. PICK n \in Nat : n = Cardinality(S)
  BY FS_CardinalityType
<1> DEFINE Typed(k) == \A T \in SUBSET S : Cardinality(T) = k => g[T] \in St
           C == {k \in 0..n : Typed(k)}
<1>3. 0 \in C
  <2>1. ASSUME NEW T \in SUBSET S, Cardinality(T) = 0 PROVE g[T] \in St
    <3>1. T = {}
      BY <1>1, <2>1, FS_EmptySet
    <3> QED
      BY <1>0, <3>1
  <2>2. Typed(0)
    BY <2>1
  <2> HIDE DEF Typed
  <2> QED
    BY <2>2
<1>4. ASSUME NEW k \in 0..(n - 1), k \in C PROVE k + 1 \in C
  <2>1. ASSUME NEW T \in SUBSET S, Cardinality(T) = k + 1 PROVE g[T] \in St
    <3>1. T # {}
      <4>1. Cardinality({}) = 0 /\ k + 1 # 0
        BY FS_EmptySet
      <4> QED
        BY <2>1, <4>1
    <3>2. PICK c \in T : c = choose[T]
      <4>1. choose[T] \in T
        BY <3>1
      <4> QED
        BY <4>1, Zenon
    <3>3. T \ {c} \in SUBSET S /\ Cardinality(T \ {c}) = k
      <4>1. Cardinality(T \ {c}) = Cardinality(T) - 1
        <5>1. IsFiniteSet(T)
          BY <1>1
        <5> QED
          BY <5>1, FS_RemoveElement
      <4>2. T \ {c} \in SUBSET S
        OBVIOUS
      <4> QED
        BY <2>1, <4>1, <4>2
    <3>4. g[T \ {c}] \in St
      <4>1. Typed(k)
        BY <1>4
      <4> QED
        BY <3>3, <4>1
    <3>5. g[T] = step[<<g[T \ {c}], c>>]
      BY <1>0, <3>1, <3>2, Zenon
    <3>6. step[<<g[T \ {c}], c>>] \in St
      BY <3>4
    <3> QED
      BY <3>5, <3>6
  <2>2. k + 1 \in 0..n
    OBVIOUS
  <2>3. Typed(k + 1)
    BY <2>1
  <2> HIDE DEF Typed
  <2> QED
    BY <2>2, <2>3
<1>5. \A k \in 0..n : k \in C
  <2> HIDE DEF C
  <2> QED
    BY <1>3, <1>4, CountsUp
<1>6. ASSUME NEW T \in SUBSET S PROVE g[T] \in St
  <2>1. Cardinality(T) \in 0..n
    BY <1>1, <1>2
  <2> QED
    BY <1>5, <2>1
<1>7. g = [T \in SUBSET S |-> g[T]]
  BY <1>0
<1> QED
  BY <1>6, <1>7

\* What the numbers up to one leave when it is taken.
LEMMA UpTo ==
  ASSUME NEW k \in Nat, k # 0
  PROVE  1..k # {} /\ Max(1..k) = k /\ (1..k) \ {k} = 1..(k - 1)
<1>1. k \in 1..k /\ (1..k) \ {k} = 1..(k - 1)
  OBVIOUS
<1>2. Max(1..k) \in 1..k /\ k <= Max(1..k)
  <2>1. 1..k \subseteq Int /\ IsFiniteSet(1..k)
    BY FS_Interval
  <2> QED
    BY <1>1, <2>1, MaxIsGreatest
<1> QED
  BY <1>1, <1>2

\* The recursion of a fold over the numbers up to n, from the last one down.
FoldTo(g, n, base, step) ==
  g = [T \in SUBSET (1..n) |-> IF T = {} THEN base
                              ELSE step[<<g[T \ {Max(T)}], Max(T)>>]]

\* It has a solution.
LEMMA FoldIsTyped ==
  ASSUME NEW n \in Nat, NEW St, NEW base \in St, NEW step \in [St \X (1..n) -> St]
  PROVE  \E g \in [SUBSET (1..n) -> St] : FoldTo(g, n, base, step)
<1> DEFINE choose == [T \in SUBSET (1..n) |-> Max(T)]
<1>1. IsFiniteSet(1..n)
  BY FS_Interval
<1>2. ASSUME NEW T \in SUBSET (1..n), T # {} PROVE choose[T] \in T
  <2>1. T \subseteq Int /\ IsFiniteSet(T)
    <3>1. IsFiniteSet(T)
      BY <1>1, FS_Subset
    <3> QED
      BY <3>1
  <2>2. Max(T) \in T
    BY <1>2, <2>1, MaxIsGreatest
  <2> QED
    BY <2>2
<1>3. \A T \in SUBSET (1..n) : choose[T] = Max(T)
  OBVIOUS
<1> HIDE DEF choose
<1>4. PICK g : ChoiceOf(g, 1..n, base, choose, step)
  <2>1. \A T \in SUBSET (1..n) : T # {} => choose[T] \in T
    BY <1>2
  <2> QED
    BY <1>1, <2>1, ChoiceIsDefined, Zenon
<1>5. g \in [SUBSET (1..n) -> St]
  <2>1. \A T \in SUBSET (1..n) : T # {} => choose[T] \in T
    BY <1>2
  <2> QED
    BY <1>1, <1>4, <2>1, ChoiceIsTyped, Zenon
<1>6. g = [T \in SUBSET (1..n) |-> IF T = {} THEN base ELSE step[<<g[T \ {Max(T)}], Max(T)>>]]
  BY <1>3, <1>4 DEF ChoiceOf
<1> QED
  BY <1>5, <1>6 DEF FoldTo

\* The steps of D that do not stop go down the measure m.
GoesDown(m, D, stop, next) ==
  m \in [D -> Nat] /\ \A x \in D \ stop : next[x] \in D /\ m[next[x]] < m[x]

\* g goes on to the next and gives what it finds where it stops.
GoesOn(g, D, stop, base, next) ==
  \A x \in D : g[x] = IF x \in stop THEN base[x] ELSE g[next[x]]

\* Going down a measure without leaving I ends in I.
LEMMA DescentEnds ==
  ASSUME NEW D, NEW m, NEW stop, NEW base, NEW next, GoesDown(m, D, stop, next),
         NEW g, GoesOn(g, D, stop, base, next),
         NEW I \in SUBSET D, \A x \in I \ stop : next[x] \in I
  PROVE  \A x \in I : \E y \in I \cap stop : g[x] = base[y]
<1> USE DEF GoesDown, GoesOn
<1> DEFINE Ends(x) == \E y \in I \cap stop : g[x] = base[y]
           F == {m[x] : x \in {z \in I : ~Ends(z)}}
<1>1. SUFFICES ASSUME F # {} PROVE FALSE
  OBVIOUS
<1>2. PICK k \in F : \A j \in F : k <= j
  <2>1. F \in SUBSET Nat
    OBVIOUS
  <2> HIDE DEF F
  <2> QED
    BY <1>1, <2>1, LeastNumber
<1>3. PICK x \in I : ~Ends(x) /\ m[x] = k
  BY <1>2
<1>4. x \notin stop
  BY <1>3
<1>5. next[x] \in I /\ m[next[x]] < m[x] /\ g[x] = g[next[x]]
  BY <1>3, <1>4
<1>6. Ends(next[x])
  <2>1. ASSUME ~Ends(next[x]) PROVE FALSE
    <3>1. m[next[x]] \in F
      BY <1>5, <2>1
    <3>2. k <= m[next[x]]
      BY <1>2, <3>1
    <3>3. m[next[x]] \in Nat /\ m[x] \in Nat
      BY <1>5
    <3> QED
      BY <1>3, <1>5, <3>2, <3>3
  <2> QED
    BY <2>1
<1> QED
  BY <1>3, <1>5, <1>6

\* The results h of steps taken one after the other, up to the n-th.
Iterates(h, n, base, step) ==
  h[0] = base /\ \A k \in 1..n : h[k] = step[<<h[k - 1], k>>]

\* There are such.
LEMMA IterationIsDefined ==
  ASSUME NEW n \in Nat, NEW St, NEW base \in St, NEW step \in [St \X (1..n) -> St]
  PROVE  \E h \in [0..n -> St] : Iterates(h, n, base, step)
<1>1. PICK g \in [SUBSET (1..n) -> St] : FoldTo(g, n, base, step)
  BY FoldIsTyped
<1> DEFINE h == [k \in 0..n |-> g[1..k]]
<1>2. h \in [0..n -> St]
  <2>1. ASSUME NEW k \in 0..n PROVE g[1..k] \in St
    <3>1. 1..k \in SUBSET (1..n)
      OBVIOUS
    <3> QED
      BY <3>1
  <2>2. h = [k \in 0..n |-> h[k]] /\ \A k \in 0..n : h[k] = g[1..k]
    OBVIOUS
  <2> HIDE DEF h
  <2>3. \A k \in 0..n : h[k] \in St
    BY <2>1, <2>2
  <2> QED
    BY <2>2, <2>3
<1>3. h[0] = base
  <2>1. 1..0 = {} /\ {} \in SUBSET (1..n) /\ 0 \in 0..n
    OBVIOUS
  <2>2. h[0] = g[{}]
    BY <2>1
  <2> HIDE DEF h
  <2> QED
    BY <1>1, <2>1, <2>2 DEF FoldTo
<1>4. ASSUME NEW k \in 1..n PROVE h[k] = step[<<h[k - 1], k>>]
  <2>1. /\ k \in Nat /\ k # 0 /\ k \in 0..n /\ k - 1 \in 0..n /\ 1..k \in SUBSET (1..n)
    OBVIOUS
  <2>2. 1..k # {} /\ Max(1..k) = k /\ (1..k) \ {k} = 1..(k - 1)
    BY <2>1, UpTo
  <2>3. h[k] = g[1..k] /\ h[k - 1] = g[1..(k - 1)]
    BY <2>1
  <2> HIDE DEF h
  <2>4. g[1..k] = step[<<g[(1..k) \ {Max(1..k)}], Max(1..k)>>]
    BY <1>1, <2>1, <2>2, Zenon DEF FoldTo
  <2> QED
    BY <2>2, <2>3, <2>4, Zenon
<1> HIDE DEF h
<1>5. Iterates(h, n, base, step)
  BY <1>3, <1>4 DEF Iterates
<1> QED
  BY <1>2, <1>5
=============================================================================
