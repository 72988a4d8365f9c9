-------------------------- MODULE RetrievalProofs --------------------------
(***************************************************************************)
(* Theorems about Retrieval, for any documents, any two rankings that are  *)
(* no longer than the pool, and any searches, uploads and exclusions.      *)
(***************************************************************************)
EXTENDS Retrieval, IngestionProofs, SequenceTheorems

(***************************************************************************)
(* The order that the fused list is sorted by, for any entries.            *)
(***************************************************************************)
Entry == [score : [num : Nat, den : Nat \ {0}], inserted : Nat]

\* "No smaller than" is transitive for fractions.
LEMMA FractionsOrdered ==
    ASSUME NEW s \in [num : Nat, den : Nat \ {0}], NEW t \in [num : Nat, den : Nat \ {0}],
           NEW u \in [num : Nat, den : Nat \ {0}], ~Above(t, s), ~Above(u, t)
    PROVE  ~Above(u, s)
<1> DEFINE a == s.num
           b == s.den
           c == t.num
           d == t.den
           e == u.num
           f == u.den
<1>1. /\ a \in Nat /\ c \in Nat /\ e \in Nat
      /\ b \in Nat /\ d \in Nat /\ f \in Nat /\ 0 < b /\ 0 < d /\ 0 < f
  OBVIOUS
<1>2. c * b <= a * d /\ e * d <= c * f
  BY <1>1 DEF Above
<1> HIDE DEF a, b, c, d, e, f
<1>3. (e * b) * d <= (a * f) * d
  <2>1. (e * d) * b <= (c * f) * b
    BY <1>1, <1>2
  <2>2. (c * b) * f <= (a * d) * f
    BY <1>1, <1>2
  <2>3. (e * d) * b = (e * b) * d /\ (c * f) * b = (c * b) * f /\ (a * d) * f = (a * f) * d
    BY <1>1
  <2>4. (e * d) * b \in Nat /\ (c * f) * b \in Nat /\ (a * d) * f \in Nat
    BY <1>1
  <2> QED BY <2>1, <2>2, <2>3, <2>4
<1>4. e * b <= a * f
  <2>1. e * b \in Nat /\ a * f \in Nat
    BY <1>1
  <2>2. ASSUME a * f < e * b PROVE FALSE
    <3>1. (a * f) * d < (e * b) * d
      BY <1>1, <2>1, <2>2
    <3>2. (a * f) * d \in Nat /\ (e * b) * d \in Nat
      BY <1>1
    <3> QED BY <1>3, <3>1, <3>2
  <2> QED BY <2>1, <2>2
<1>5. e * b \in Nat /\ a * f \in Nat
  BY <1>1
<1> QED BY <1>4, <1>5 DEF Above, a, b, e, f

\* One fraction is not above another that is above it.
LEMMA FractionsCompared ==
    ASSUME NEW s \in [num : Nat, den : Nat \ {0}], NEW t \in [num : Nat, den : Nat \ {0}],
           Above(s, t)
    PROVE  ~Above(t, s)
<1>1. s.num * t.den \in Nat /\ t.num * s.den \in Nat
  OBVIOUS
<1> QED BY <1>1 DEF Above

\* The order is strict, and total on entries inserted at different times.
LEMMA PrecedesStrict ==
    ASSUME NEW p \in Entry, NEW q \in Entry
    PROVE  /\ ~Precedes(p, p)
           /\ ~(Precedes(p, q) /\ Precedes(q, p))
           /\ p.inserted # q.inserted => Precedes(p, q) \/ Precedes(q, p)
<1>1. /\ p.score \in [num : Nat, den : Nat \ {0}] /\ q.score \in [num : Nat, den : Nat \ {0}]
      /\ p.inserted \in Nat /\ q.inserted \in Nat
  BY DEF Entry
<1>2. ~(Above(p.score, q.score) /\ Above(q.score, p.score)) /\ ~Above(p.score, p.score)
  BY <1>1, FractionsCompared
<1> QED BY <1>1, <1>2 DEF Precedes
LEMMA PrecedesTransitive ==
    ASSUME NEW p \in Entry, NEW q \in Entry, NEW r \in Entry, Precedes(p, q), Precedes(q, r)
    PROVE  Precedes(p, r)
<1>1. /\ \A e \in {p, q, r} : e.score \in [num : Nat, den : Nat \ {0}]
      /\ p.inserted \in Nat /\ q.inserted \in Nat /\ r.inserted \in Nat
  BY DEF Entry
<1>2. ~Above(q.score, p.score) /\ ~Above(r.score, q.score)
  BY <1>1, FractionsCompared DEF Precedes
<1>3. ~Above(r.score, p.score)
  BY <1>1, <1>2, FractionsOrdered
<1>4. ~Above(p.score, r.score) => ~Above(p.score, q.score) /\ ~Above(q.score, r.score)
  BY <1>1, <1>2, FractionsOrdered
<1> QED BY <1>1, <1>3, <1>4 DEF Precedes

(***************************************************************************)
(* Sorting by place: the place of a hit is after all that precede it.      *)
(***************************************************************************)
\* What can be sorted: finitely many entries, inserted at different times.
Ranked(entries) ==
    /\ IsFiniteSet(DOMAIN entries)
    /\ \A x \in DOMAIN entries : entries[x] \in Entry
    /\ \A x, y \in DOMAIN entries : entries[x].inserted = entries[y].inserted => x = y
Place(entries, x) == Cardinality(Before(entries, x)) + 1

\* A hit that precedes another has fewer before it.
LEMMA PlaceOrder ==
    ASSUME NEW e, Ranked(e), NEW x \in DOMAIN e, NEW y \in DOMAIN e, Precedes(e[x], e[y])
    PROVE  Cardinality(Before(e, x)) < Cardinality(Before(e, y))
<1>1. Before(e, x) \subseteq Before(e, y)
  BY PrecedesTransitive DEF Ranked, Before
<1>2. x \in Before(e, y) /\ x \notin Before(e, x)
  BY PrecedesStrict DEF Ranked, Before
<1>3. IsFiniteSet(Before(e, y))
  BY FS_Subset DEF Ranked, Before
<1>4. /\ Cardinality(Before(e, x)) <= Cardinality(Before(e, y))
      /\ Cardinality(Before(e, x)) # Cardinality(Before(e, y))
      /\ IsFiniteSet(Before(e, x))
  BY <1>1, <1>2, <1>3, FS_Subset
<1>5. Cardinality(Before(e, x)) \in Nat /\ Cardinality(Before(e, y)) \in Nat
  BY <1>3, <1>4, FS_CardinalityType
<1> QED BY <1>4, <1>5

\* Every hit has a place of its own, and every place is taken.
LEMMA PlacesTaken ==
    ASSUME NEW e, Ranked(e)
    PROVE  /\ Cardinality(DOMAIN e) \in Nat
           /\ \A x \in DOMAIN e : Place(e, x) \in 1 .. Cardinality(DOMAIN e)
           /\ \A x, y \in DOMAIN e : Place(e, x) = Place(e, y) => x = y
           /\ \A k \in 1 .. Cardinality(DOMAIN e) : \E x \in DOMAIN e : Place(e, x) = k
<1> DEFINE n == Cardinality(DOMAIN e)
           place == [x \in DOMAIN e |-> Place(e, x)]
<1>1. n \in Nat /\ IsFiniteSet(DOMAIN e)
  BY FS_CardinalityType DEF Ranked
<1>2. ASSUME NEW x \in DOMAIN e
      PROVE  Cardinality(Before(e, x)) \in Nat /\ Place(e, x) \in 1 .. n
  <2>1. Before(e, x) \subseteq DOMAIN e /\ x \notin Before(e, x)
    BY PrecedesStrict DEF Ranked, Before
  <2>2. /\ IsFiniteSet(Before(e, x)) /\ Cardinality(Before(e, x)) <= n
        /\ Cardinality(Before(e, x)) # n
    BY <1>1, <2>1, FS_Subset
  <2>3. Cardinality(Before(e, x)) \in Nat
    BY <2>2, FS_CardinalityType
  <2> QED BY <1>1, <2>2, <2>3 DEF Place
<1>3. ASSUME NEW x \in DOMAIN e, NEW y \in DOMAIN e, Place(e, x) = Place(e, y)
      PROVE  x = y
  <2>1. Cardinality(Before(e, x)) = Cardinality(Before(e, y))
    BY <1>2, <1>3 DEF Place
  <2>2. ~Precedes(e[x], e[y]) /\ ~Precedes(e[y], e[x])
    BY <1>2, <2>1, PlaceOrder
  <2> QED BY <2>2, PrecedesStrict DEF Ranked
<1>4. place \in Injection(DOMAIN e, 1 .. n)
  BY <1>2, <1>3 DEF Injection, IsInjective
<1>5. IsFiniteSet(1 .. n) /\ Cardinality(1 .. n) = n
  BY <1>1, FS_Interval
<1>6. place \in Surjection(DOMAIN e, 1 .. n)
  BY <1>4, <1>5, FS_Injection
<1>7. \A k \in 1 .. n : \E x \in DOMAIN e : Place(e, x) = k
  BY <1>6 DEF Surjection
<1> QED BY <1>1, <1>2, <1>3, <1>7

\* Sorted enumerates the hits, each once, none before one that precedes it, and
\* puts each at its place.
THEOREM SortedSorts ==
    ASSUME NEW e, Ranked(e)
    PROVE  /\ Sorted(e) \in [1 .. Cardinality(DOMAIN e) -> DOMAIN e]
           /\ \A x \in DOMAIN e : Sorted(e)[Place(e, x)] = x
           /\ \A i, j \in 1 .. Cardinality(DOMAIN e) :
                i < j => Precedes(e[Sorted(e)[i]], e[Sorted(e)[j]])
<1> DEFINE n == Cardinality(DOMAIN e)
           at(k) == CHOOSE x \in DOMAIN e : Place(e, x) = k
<1>1. n \in Nat
  BY PlacesTaken
<1>2. Sorted(e) = [k \in 1 .. n |-> at(k)]
  BY DEF Sorted, Place
<1>3. \A k \in 1 .. n : at(k) \in DOMAIN e /\ Place(e, at(k)) = k
  BY PlacesTaken
<1>4. \A x \in DOMAIN e : Place(e, x) \in 1 .. n /\ at(Place(e, x)) = x
  BY PlacesTaken
<1> HIDE DEF at, n
<1>5. Sorted(e) \in [1 .. n -> DOMAIN e] /\ \A k \in 1 .. n : Sorted(e)[k] = at(k)
  BY <1>2, <1>3
<1>6. ASSUME NEW i \in 1 .. n, NEW j \in 1 .. n, i < j
      PROVE  Precedes(e[at(i)], e[at(j)])
  <2>1. /\ at(i) \in DOMAIN e /\ at(j) \in DOMAIN e /\ at(i) # at(j)
        /\ Place(e, at(i)) = i /\ Place(e, at(j)) = j
    BY <1>1, <1>3, <1>6
  <2>2. Precedes(e[at(i)], e[at(j)]) \/ Precedes(e[at(j)], e[at(i)])
    BY <2>1, PrecedesStrict DEF Ranked
  <2>3. ASSUME Precedes(e[at(j)], e[at(i)]) PROVE FALSE
    <3>1. Cardinality(Before(e, at(j))) < Cardinality(Before(e, at(i)))
      BY <2>1, <2>3, PlaceOrder
    <3>2. IsFiniteSet(Before(e, at(i))) /\ IsFiniteSet(Before(e, at(j)))
      BY FS_Subset DEF Ranked, Before
    <3>3. Cardinality(Before(e, at(i))) \in Nat /\ Cardinality(Before(e, at(j))) \in Nat
      BY <3>2, FS_CardinalityType
    <3> QED BY <1>6, <2>1, <3>1, <3>3 DEF Place
  <2> QED BY <2>2, <2>3
<1>7. \A x \in DOMAIN e : Sorted(e)[Place(e, x)] = x
  BY <1>4, <1>5
<1> QED BY <1>5, <1>6, <1>7 DEF n

(***************************************************************************)
(* Reciprocal rank fusion prefers what both indexes agree on, for lists of *)
(* any hits that are no longer than the pool.                              *)
(***************************************************************************)
\* A rank is a place in the list, the hit's own.
LEMMA RankWithin ==
    ASSUME NEW S, NEW list \in Seq(S), NEW x \in Range(list)
    PROVE  /\ RankIn(list, x) \in Nat
           /\ 1 <= RankIn(list, x) /\ RankIn(list, x) <= Len(list)
           /\ list[RankIn(list, x)] = x
<1>1. \E i \in DOMAIN list : list[i] = x
  BY DEF Range
<1>2. RankIn(list, x) \in DOMAIN list /\ list[RankIn(list, x)] = x
  BY <1>1 DEF RankIn
<1>3. DOMAIN list = 1 .. Len(list) /\ Len(list) \in Nat
  OBVIOUS
<1> QED BY <1>2, <1>3

\* Two fractions 1/a and 1/b, neither as small as half of 1/c, are together
\* more than 1/c.
LEMMA TwoHalves ==
    ASSUME NEW a \in Nat, NEW b \in Nat, NEW c \in Nat, 0 < a, 0 < b, a < 2 * c, b < 2 * c
    PROVE  (a + b) * c > a * b
<1>1. a * b < 2 * c * b
  BY SMT
<1>2. a * b < a * (2 * c)
  BY SMT
<1>3. (a + b) * c = a * c + b * c
  BY SMT
<1>4. 2 * c * b = 2 * (b * c) /\ a * (2 * c) = 2 * (a * c)
  BY SMT
<1>5. a * b \in Nat /\ a * c \in Nat /\ b * c \in Nat
  BY SMT
<1> QED BY <1>1, <1>2, <1>3, <1>4, <1>5

\* A chunk that both indexes return precedes any that only one returns, at
\* whatever ranks, for every pool smaller than k + 2: the fused list begins with
\* what both agree on (_reciprocal_rank_fusion).
THEOREM AgreedPrecedes ==
    ASSUME NEW S, NEW v \in Seq(S), NEW w \in Seq(S),
           Len(v) <= CandidatePool, Len(w) <= CandidatePool,
           NEW x \in Range(v) \cap Range(w),
           NEW y \in (Range(v) \cup Range(w)) \ (Range(v) \cap Range(w))
    PROVE  Precedes(Entries(v, w)[x], Entries(v, w)[y])
<1> DEFINE a == Weight(v, x)
           b == Weight(w, x)
           c == IF y \in Range(v) THEN Weight(v, y) ELSE Weight(w, y)
<1>0. /\ RankConstant \in Nat /\ Len(v) \in Nat /\ Len(w) \in Nat
      /\ CandidatePool \in Nat /\ CandidatePool < RankConstant + 2
  BY RetrievalAssumption
<1>1. a \in Nat /\ RankConstant + 1 <= a /\ a < 2 * (RankConstant + 1)
  <2>1. RankIn(v, x) \in Nat /\ 1 <= RankIn(v, x) /\ RankIn(v, x) <= CandidatePool
    BY <1>0, RankWithin
  <2> QED BY <1>0, <2>1 DEF Weight
<1>2. b \in Nat /\ RankConstant + 1 <= b /\ b < 2 * (RankConstant + 1)
  <2>1. RankIn(w, x) \in Nat /\ 1 <= RankIn(w, x) /\ RankIn(w, x) <= CandidatePool
    BY <1>0, RankWithin
  <2> QED BY <1>0, <2>1 DEF Weight
<1>3. c \in Nat /\ RankConstant + 1 <= c
  <2>1. CASE y \in Range(v)
    <3>1. RankIn(v, y) \in Nat /\ 1 <= RankIn(v, y)
      BY <2>1, RankWithin
    <3> QED BY <1>0, <2>1, <3>1 DEF Weight
  <2>2. CASE y \notin Range(v)
    <3>1. RankIn(w, y) \in Nat /\ 1 <= RankIn(w, y)
      BY <2>2, RankWithin
    <3> QED BY <1>0, <2>2, <3>1 DEF Weight
  <2> QED BY <2>1, <2>2
<1>4. Score(v, w, x) = [num |-> a + b, den |-> a * b]
  BY DEF Score
<1>5. Score(v, w, y) = [num |-> 1, den |-> c]
  BY DEF Score
<1> HIDE DEF a, b, c
<1>6. (a + b) * c > a * b
  <2>1. 0 < a /\ 0 < b /\ a < 2 * c /\ b < 2 * c
    BY <1>0, <1>1, <1>2, <1>3
  <2> QED BY <1>1, <1>2, <1>3, <2>1, TwoHalves
<1>7. Above(Score(v, w, x), Score(v, w, y))
  <2>1. a * b = 1 * (a * b)
    BY <1>1, <1>2
  <2> QED BY <1>4, <1>5, <1>6, <2>1 DEF Above
<1>8. /\ Entries(v, w)[x].score = Score(v, w, x) /\ Entries(v, w)[y].score = Score(v, w, y)
  BY DEF Entries
<1> QED BY <1>7, <1>8 DEF Precedes

\* A list has no more hits than places.
LEMMA RangeSize ==
    ASSUME NEW S, NEW list \in Seq(S)
    PROVE  IsFiniteSet(Range(list)) /\ Cardinality(Range(list)) <= Len(list)
<1>1. /\ Len(list) \in Nat /\ DOMAIN list = 1 .. Len(list)
      /\ list \in [DOMAIN list -> Range(list)]
  BY DEF Range
<1>2. list \in Surjection(1 .. Len(list), Range(list))
  BY <1>1 DEF Surjection, Range
<1>3. ExistsSurjection(1 .. Len(list), Range(list))
  BY <1>2 DEF ExistsSurjection
<1> QED BY <1>1, <1>3, FS_NatSurjection, FS_SurjCardinalityBound

\* What is fused can be sorted, whatever the two lists.
LEMMA EntriesRanked ==
    ASSUME NEW S, NEW v \in Seq(S), NEW w \in Seq(S)
    PROVE  Ranked(Entries(v, w)) /\ DOMAIN Entries(v, w) = Range(v) \cup Range(w)
<1> DEFINE e == Entries(v, w)
<1>1. DOMAIN e = Range(v) \cup Range(w)
  BY DEF Entries
<1>2. IsFiniteSet(DOMAIN e)
  <2>1. IsFiniteSet(Range(v)) /\ IsFiniteSet(Range(w))
    BY RangeSize
  <2> QED BY <1>1, <2>1, FS_Union
<1>3. /\ \A x \in Range(v) : /\ Weight(v, x) \in Nat \ {0} /\ v[RankIn(v, x)] = x
                             /\ RankIn(v, x) \in Nat /\ RankIn(v, x) <= Len(v)
      /\ \A x \in Range(w) : /\ Weight(w, x) \in Nat \ {0} /\ w[RankIn(w, x)] = x
                             /\ RankIn(w, x) \in Nat /\ 1 <= RankIn(w, x)
      /\ Len(v) \in Nat
  BY RankWithin, RetrievalAssumption DEF Weight
<1>4. ASSUME NEW x \in DOMAIN e PROVE e[x] \in Entry
  <2>1. Score(v, w, x) \in [num : Nat, den : Nat \ {0}]
    <3>1. CASE x \in Range(v) /\ x \in Range(w)
      <4>1. PICK a \in Nat \ {0}, b \in Nat \ {0} : a = Weight(v, x) /\ b = Weight(w, x)
        BY <1>3, <3>1
      <4>2. a + b \in Nat /\ a * b \in Nat \ {0}
        BY <4>1
      <4> QED BY <3>1, <4>1, <4>2 DEF Score
    <3>2. CASE ~(x \in Range(v) /\ x \in Range(w))
      BY <1>1, <1>3, <1>4, <3>2 DEF Score
    <3> QED BY <3>1, <3>2
  <2>2. e[x].inserted \in Nat
    BY <1>1, <1>3, <1>4 DEF Entries
  <2> QED BY <1>1, <1>4, <2>1, <2>2 DEF Entries, Entry
<1>5. ASSUME NEW x \in DOMAIN e, NEW y \in DOMAIN e, e[x].inserted = e[y].inserted
      PROVE  x = y
  <2>1. /\ e[x].inserted = IF x \in Range(v) THEN RankIn(v, x) ELSE Len(v) + RankIn(w, x)
        /\ e[y].inserted = IF y \in Range(v) THEN RankIn(v, y) ELSE Len(v) + RankIn(w, y)
    BY <1>1 DEF Entries
  <2> HIDE DEF e
  <2>a. PICK a \in Int : x \in Range(v) => a = RankIn(v, x)
    BY <1>3
  <2>b. PICK b \in Int : y \in Range(v) => b = RankIn(v, y)
    BY <1>3
  <2>c. PICK c \in Int : x \in Range(w) => c = RankIn(w, x)
    BY <1>3
  <2>d. PICK d \in Int : y \in Range(w) => d = RankIn(w, y)
    BY <1>3
  <2>n. PICK n \in Nat : n = Len(v)
    BY <1>3
  <2>2. /\ n \in Nat /\ a \in Int /\ b \in Int /\ c \in Int /\ d \in Int
        /\ n = Len(v) /\ (x \in Range(v) => a = RankIn(v, x))
        /\ (y \in Range(v) => b = RankIn(v, y))
        /\ (x \in Range(w) => c = RankIn(w, x)) /\ (y \in Range(w) => d = RankIn(w, y))
    BY <2>a, <2>b, <2>c, <2>d, <2>n
  <2>3. /\ x \in Range(v) => a <= n /\ v[a] = x
        /\ y \in Range(v) => b <= n /\ v[b] = y
        /\ x \notin Range(v) => 1 <= c /\ w[c] = x
        /\ y \notin Range(v) => 1 <= d /\ w[d] = y
    BY <1>1, <1>3, <2>2
  <2>4. (IF x \in Range(v) THEN a ELSE n + c) = (IF y \in Range(v) THEN b ELSE n + d)
    BY <1>1, <1>5, <2>1, <2>2
  <2>5. \/ x \in Range(v) /\ y \in Range(v) /\ a = b
        \/ x \notin Range(v) /\ y \notin Range(v) /\ c = d
    BY <2>2, <2>3, <2>4
  <2> QED BY <2>3, <2>5
<1> QED BY <1>1, <1>2, <1>4, <1>5 DEF Ranked

\* The fused list: every hit of either list, once.
LEMMA FusedHits ==
    ASSUME NEW S, NEW v \in Seq(S), NEW w \in Seq(S)
    PROVE  /\ Fused(v, w) \in Seq(S) /\ Range(Fused(v, w)) = Range(v) \cup Range(w)
           /\ Len(Fused(v, w)) = Cardinality(Range(v) \cup Range(w))
           /\ Len(Fused(v, w)) \in Nat
<1> DEFINE e == Entries(v, w)
           n == Cardinality(DOMAIN e)
<1>1. Ranked(e) /\ DOMAIN e = Range(v) \cup Range(w)
  BY EntriesRanked
<1>2. n \in Nat /\ \A x \in DOMAIN e : Place(e, x) \in 1 .. n
  BY <1>1, PlacesTaken
<1>3. /\ Fused(v, w) \in [1 .. n -> DOMAIN e]
      /\ \A x \in DOMAIN e : Fused(v, w)[Place(e, x)] = x
  BY <1>1, SortedSorts DEF Fused
<1>4. DOMAIN e \subseteq S
  BY <1>1 DEF Range
<1> HIDE DEF e, n
<1>5. Fused(v, w) \in Seq(S) /\ Len(Fused(v, w)) = n
  <2>1. Fused(v, w) \in [1 .. n -> S] /\ DOMAIN Fused(v, w) = 1 .. n
    BY <1>3, <1>4
  <2> QED BY <1>2, <2>1
<1>6. Range(Fused(v, w)) = DOMAIN e
  BY ZenonT(60), <1>2, <1>3 DEF Range
<1> QED BY <1>1, <1>2, <1>5, <1>6 DEF n

LEMMA FunctionIsList ==
    ASSUME NEW S, NEW m \in Nat, NEW list \in [1 .. m -> S]
    PROVE  list \in Seq(S) /\ Len(list) = m
OBVIOUS

LEMMA MinOfTwo ==
    ASSUME NEW a \in Nat, NEW b \in Nat
    PROVE  Min({a, b}) \in {a, b} /\ Min({a, b}) <= a /\ Min({a, b}) <= b
<1>1. \E x \in {a, b} : \A y \in {a, b} : x =< y
  OBVIOUS
<1> QED BY <1>1 DEF Min

\* The candidates: hits of either list, with all that are in both.
Pool(v, w) == SubSeq(Fused(v, w), 1, Min({CandidatePool, Len(Fused(v, w))}))
LEMMA CandidatesKeepAgreed ==
    ASSUME NEW S, NEW v \in Seq(S), NEW w \in Seq(S),
           Len(v) <= CandidatePool, Len(w) <= CandidatePool
    PROVE  /\ Pool(v, w) \in Seq(S)
           /\ Range(Pool(v, w)) \subseteq Range(v) \cup Range(w)
           /\ Range(v) \cap Range(w) \subseteq Range(Pool(v, w))
<1> DEFINE e == Entries(v, w)
           agreed == Range(v) \cap Range(w)
<1>1. PICK fused, n, list : /\ fused = Fused(v, w) /\ n = Cardinality(Range(v) \cup Range(w))
                            /\ list = Pool(v, w)
  OBVIOUS
<1>2. /\ fused \in Seq(S) /\ Range(fused) = Range(v) \cup Range(w) /\ Len(fused) = n /\ n \in Nat
      /\ DOMAIN fused = 1 .. n
  <2>1. /\ fused \in Seq(S) /\ Range(fused) = Range(v) \cup Range(w) /\ Len(fused) = n /\ n \in Nat
    BY <1>1, FusedHits
  <2> QED BY <2>1
<1>3. PICK m \in Nat : /\ m = Min({CandidatePool, n}) /\ m \in {CandidatePool, n}
                       /\ m <= n /\ m <= CandidatePool
  <2>1. CandidatePool \in Nat
    BY RetrievalAssumption
  <2>2. PICK m : m = Min({CandidatePool, n})
    OBVIOUS
  <2>3. m \in {CandidatePool, n} /\ m <= n /\ m <= CandidatePool
    BY <1>2, <2>1, <2>2, MinOfTwo
  <2> QED BY <1>2, <2>1, <2>2, <2>3
<1>4. /\ list \in Seq(S) /\ DOMAIN list = 1 .. m /\ \A k \in 1 .. m : list[k] = fused[k]
      /\ Range(list) \subseteq Range(fused)
  <2>1. list = Restrict(fused, 1 .. m)
    <3>1. list = SubSeq(fused, 1, m)
      BY <1>1, <1>2, <1>3 DEF Pool
    <3>2. m \in 0 .. Len(fused)
      BY <1>2, <1>3
    <3> QED BY <1>2, <3>1, <3>2, SubSeqRestrict
  <2>2. list = [k \in 1 .. m |-> fused[k]]
    BY <2>1 DEF Restrict
  <2>3. \A k \in 1 .. m : k \in DOMAIN fused /\ fused[k] \in S
    BY <1>2, <1>3
  <2>4. DOMAIN list = 1 .. m /\ \A k \in 1 .. m : list[k] = fused[k]
    BY <2>2
  <2>5. list \in [1 .. m -> S]
    BY <2>2, <2>3
  <2>6. list \in Seq(S)
    BY <2>5, FunctionIsList
  <2>7. Range(list) \subseteq Range(fused)
    BY <2>3, <2>4 DEF Range
  <2> QED BY <2>4, <2>6, <2>7
<1>5. Ranked(e) /\ DOMAIN e = Range(v) \cup Range(w)
  BY EntriesRanked
<1>6. ASSUME NEW x \in agreed PROVE x \in Range(list)
  <2>1. x \in DOMAIN e /\ \A y \in DOMAIN e \ agreed : Precedes(e[x], e[y])
    BY <1>5, AgreedPrecedes
  <2>2. Before(e, x) \subseteq agreed /\ x \notin Before(e, x)
    <3>1. \A y \in DOMAIN e : ~(Precedes(e[x], e[y]) /\ Precedes(e[y], e[x]))
      BY <1>5, <2>1, PrecedesStrict DEF Ranked
    <3> QED BY <2>1, <3>1 DEF Before
  <2>3. /\ IsFiniteSet(agreed) /\ Cardinality(agreed) <= CandidatePool
        /\ Cardinality(agreed) \in Nat
    <3>1. /\ IsFiniteSet(Range(v)) /\ Cardinality(Range(v)) <= Len(v)
          /\ Len(v) \in Nat /\ CandidatePool \in Nat
      BY RangeSize, RetrievalAssumption
    <3>2. /\ IsFiniteSet(agreed) /\ Cardinality(agreed) <= Cardinality(Range(v))
      BY <3>1, FS_Subset
    <3>3. Cardinality(agreed) \in Nat /\ Cardinality(Range(v)) \in Nat
      BY <3>1, <3>2, FS_CardinalityType
    <3> QED BY <3>1, <3>2, <3>3
  <2>4. /\ Cardinality(Before(e, x)) <= Cardinality(agreed)
        /\ Cardinality(Before(e, x)) # Cardinality(agreed)
        /\ IsFiniteSet(Before(e, x))
    BY <1>6, <2>2, <2>3, FS_Subset
  <2>5. Cardinality(Before(e, x)) \in Nat
    BY <2>4, FS_CardinalityType
  <2>6. Place(e, x) \in 1 .. n /\ fused[Place(e, x)] = x
    BY <1>1, <1>5, <2>1, PlacesTaken, SortedSorts DEF Fused
  <2>7. Place(e, x) \in 1 .. m
    BY <1>3, <2>3, <2>4, <2>5, <2>6, RetrievalAssumption DEF Place
  <2> QED BY <1>4, <2>6, <2>7 DEF Range
<1> QED BY <1>1, <1>2, <1>4, <1>6

-----------------------------------------------------------------------------
(***************************************************************************)
(* A search holds nothing but chunks that it may show: those its caller    *)
(* was not barred from when it began, and that were not gone by then.      *)
(***************************************************************************)
SearchState ==
    [pc : {"new", "query_vector", "query_keyword", "rerank", "done", "failed"},
     authenticated : BOOLEAN, vector_hits : Seq(Chunk), keyword_hits : Seq(Chunk),
     candidates : Seq(Chunk), found : SUBSET Chunk, gone : SUBSET Chunk,
     barred : SUBSET Upload]
Shown(s) == {x \in Chunk : x.by \notin s.barred /\ x \notin s.gone}
\* What a search has read.
Honest(s) ==
    /\ s.pc = "new" => s = NewSearch
    /\ Range(s.vector_hits) \subseteq Shown(s) /\ Len(s.vector_hits) <= CandidatePool
    /\ Range(s.keyword_hits) \subseteq Shown(s) /\ Len(s.keyword_hits) <= CandidatePool
    /\ Range(s.candidates) \subseteq Shown(s) /\ s.found \subseteq Shown(s)
    /\ s.pc = "rerank" =>
        Range(s.vector_hits) \cap Range(s.keyword_hits) \subseteq Range(s.candidates)
\* What the system cannot show it any more.
Past(s) ==
    /\ \A x \in s.gone : Quiet(x.by) /\ x \notin Searchable \cup shown
    /\ s.barred \subseteq lapsed \cup (IF s.authenticated THEN {} ELSE InternalUpload)
SearchInv ==
    /\ lapsed \subseteq Upload /\ search \in [Search -> SearchState]
    /\ \A q \in Search : Honest(search[q]) /\ Past(search[q])

\* Every step of the system is a step of the knowledge base or leaves it alone.
LEMMA KnowledgeMoves ==
    ASSUME [RetrievalNext]_allVars
    PROVE  [Next]_vars
BY DEF RetrievalNext, allVars, KnowledgeStep, BeginSearch, QueryVector, QueryKeyword,
   Rerank, FailSearch, Lapse

\* A refresh shows what the keyword index holds.
LEMMA ShownIsStored ==
    ASSUME TypeInv, [Next]_vars
    PROVE  shown' \subseteq shown \cup keyword
<1>1. ASSUME NEW u \in Upload, Begin(u) \/ UploadStep(u) \/ FailUpload(u)
      PROVE  shown' \subseteq shown \cup keyword
  BY <1>1, BeginShape, UploadStepShape
<1>2. CASE \A u \in Upload : ~Begin(u) /\ ~UploadStep(u) /\ ~FailUpload(u)
  BY <1>2, OtherShape
<1> QED BY <1>1, <1>2

\* What was removed is gone for good.
LEMMA RemovedStaysGone ==
    ASSUME PurgeInv, ReplacedInv
    PROVE  \A x \in Removed : Quiet(x.by) /\ x \notin Searchable
<1> SUFFICES ASSUME NEW x \in Removed
             PROVE  Quiet(x.by) /\ x \notin Searchable
  OBVIOUS
<1>1. CASE \E u \in Upload : /\ upload[u].pc = "done" /\ upload[u].document = x.document
                             /\ x.by \in superseded[u]
  BY <1>1 DEF ReplacedInv, Replaced, Stale
<1>2. ASSUME NEW e \in Exclusion, exclusion[e].pc = "done", x.by \in published[e],
             x.document \in Matches[exclusion[e].pattern], x.document \notin overlooked[e],
             x \in Condemned(exclusion[e].rule, x.document, {x})
      PROVE  Quiet(x.by) /\ x \notin Searchable
  <2>1. Quiet(x.by)
    BY <1>2 DEF PurgeInv, Purged
  <2>2. x \in Searchable => x \in Condemned(exclusion[e].rule, x.document, Searchable)
    BY <1>2 DEF Condemned, Of
  <2>3. x \notin Searchable
    BY <1>2, <2>2, PurgedIsGone DEF PurgeReachesPublished
  <2> QED BY <2>1, <2>3
<1> QED BY <1>1, <1>2 DEF Removed

\* A ranking of chunks, as a list.
LEMMA RankingIsList ==
    ASSUME NEW chunks, NEW hits \in Rankings(chunks)
    PROVE  /\ hits \in Seq(chunks) /\ Len(hits) <= CandidatePool
           /\ Range(hits) \subseteq chunks
<1>1. PICK n \in 0 .. CandidatePool : hits \in [1 .. n -> chunks]
  BY DEF Rankings
<1>2. n \in Nat /\ n <= CandidatePool
  BY <1>1, RetrievalAssumption
<1>3. hits \in Seq(chunks) /\ Len(hits) = n
  BY <1>1, <1>2, FunctionIsList
<1>4. Range(hits) \subseteq chunks
  BY <1>1 DEF Range
<1> QED BY <1>2, <1>3, <1>4

\* What an index answers may be shown.
LEMMA VisibleIsShown ==
    ASSUME TypeInv, SearchInv, NEW q \in Search, NEW chunks, chunks \subseteq Searchable \cup shown
    PROVE  Visible(q, chunks) \subseteq Shown(search[q])
BY DEF SearchInv, Past, Visible, Barred, Shown, Searchable, TypeInv, TypeOK

\* A search's own steps.
LEMMA SearchStep ==
    ASSUME TypeInv, PurgeInv, ReplacedInv, SearchInv, NEW q \in Search,
           BeginSearch(q) \/ QueryVector(q) \/ QueryKeyword(q) \/ Rerank(q) \/ FailSearch(q)
    PROVE  SearchInv'
<1>0. /\ search \in [Search -> SearchState] /\ search[q] \in SearchState
      /\ Honest(search[q]) /\ Past(search[q]) /\ lapsed \subseteq Upload
      /\ InternalUpload \subseteq Upload
  BY RetrievalAssumption DEF SearchInv
<1>1. UNCHANGED <<upload, versions, vector, keyword, shown, lapsed>>
  BY Zenon DEF BeginSearch, QueryVector, QueryKeyword, Rerank, FailSearch, vars, stores
<1>2. ASSUME NEW s \in SearchState, search' = [search EXCEPT ![q] = s], Honest(s), Past(s)
      PROVE  SearchInv'
  BY <1>0, <1>1, <1>2 DEF SearchInv, Past, Searchable, Quiet
<1>3. CASE BeginSearch(q)
  <2>1. PICK authenticated \in BOOLEAN :
            search' = [search EXCEPT ![q] =
                [@ EXCEPT !.pc = "query_vector", !.authenticated = authenticated,
                          !.gone = Removed \ shown,
                          !.barred = lapsed \cup (IF authenticated THEN {} ELSE InternalUpload)]]
    BY <1>3, Zenon DEF BeginSearch
  <2> DEFINE barred == lapsed \cup (IF authenticated THEN {} ELSE InternalUpload)
             s == [search[q] EXCEPT !.pc = "query_vector", !.authenticated = authenticated,
                                    !.gone = Removed \ shown, !.barred = barred]
  <2>2. Removed \subseteq Chunk /\ barred \subseteq Upload
    BY <1>0 DEF Removed
  <2>3. search[q] = NewSearch
    BY <1>0, <1>3 DEF BeginSearch, Honest
  <2>4. /\ s \in SearchState /\ s.pc = "query_vector" /\ s.authenticated = authenticated
        /\ s.gone = Removed \ shown /\ s.barred = barred /\ s.vector_hits = <<>>
        /\ s.keyword_hits = <<>> /\ s.candidates = <<>> /\ s.found = {}
    <3>1. /\ search[q].vector_hits = <<>> /\ search[q].keyword_hits = <<>>
          /\ search[q].candidates = <<>> /\ search[q].found = {}
      BY <2>3 DEF NewSearch
    <3>2. /\ s \in SearchState /\ s.pc = "query_vector" /\ s.authenticated = authenticated
          /\ s.gone = Removed \ shown /\ s.barred = barred
      BY <1>0, <2>2 DEF SearchState
    <3>3. /\ s.vector_hits = search[q].vector_hits /\ s.keyword_hits = search[q].keyword_hits
          /\ s.candidates = search[q].candidates /\ s.found = search[q].found
      BY <1>0 DEF SearchState
    <3> HIDE DEF s
    <3> QED BY <3>1, <3>2, <3>3
  <2>5. search' = [search EXCEPT ![q] = s]
    BY <2>1
  <2> HIDE DEF s
  <2>6. Honest(s)
    BY <2>4, RetrievalAssumption DEF Honest, Range
  <2>7. Past(s)
    BY <2>4, RemovedStaysGone DEF Past
  <2> QED BY <1>2, <2>4, <2>5, <2>6, <2>7
<1>4. CASE QueryVector(q)
  <2>1. PICK hits \in Rankings(Visible(q, vector)) :
            search' = [search EXCEPT ![q] =
                [@ EXCEPT !.pc = "query_keyword", !.vector_hits = hits]]
    BY <1>4, Zenon DEF QueryVector
  <2> DEFINE s == [search[q] EXCEPT !.pc = "query_keyword", !.vector_hits = hits]
  <2>2. /\ hits \in Seq(Visible(q, vector)) /\ Len(hits) <= CandidatePool
        /\ Range(hits) \subseteq Shown(search[q])
    BY RankingIsList, VisibleIsShown DEF Searchable
  <2>3. hits \in Seq(Chunk)
    BY <2>2 DEF Visible, TypeInv, TypeOK
  <2>4. s \in SearchState
    BY <1>0, <2>3 DEF SearchState
  <2>5. /\ s.pc = "query_keyword" /\ s.vector_hits = hits /\ s.gone = search[q].gone
        /\ s.barred = search[q].barred /\ s.keyword_hits = search[q].keyword_hits
        /\ s.candidates = search[q].candidates /\ s.found = search[q].found
        /\ s.authenticated = search[q].authenticated
    BY <1>0 DEF SearchState
  <2>6. search' = [search EXCEPT ![q] = s]
    BY <2>1
  <2> HIDE DEF s
  <2>7. Honest(s) /\ Past(s)
    BY <1>0, <2>2, <2>5 DEF Honest, Past, Shown
  <2> QED BY <1>2, <2>4, <2>6, <2>7
<1>5. CASE QueryKeyword(q)
  <2>1. PICK hits \in Rankings(Visible(q, shown)) :
            search' = [search EXCEPT ![q] =
                [@ EXCEPT !.pc = "rerank", !.keyword_hits = hits,
                          !.candidates = SubSeq(Fused(search[q].vector_hits, hits), 1,
                             Min({CandidatePool, Len(Fused(search[q].vector_hits, hits))}))]]
    BY <1>5, Zenon DEF QueryKeyword
  <2>2. PICK list : list = Pool(search[q].vector_hits, hits)
    OBVIOUS
  <2> DEFINE s == [search[q] EXCEPT !.pc = "rerank", !.keyword_hits = hits, !.candidates = list]
  <2>3. /\ hits \in Seq(Visible(q, shown)) /\ Len(hits) <= CandidatePool
        /\ Range(hits) \subseteq Shown(search[q])
    BY RankingIsList, VisibleIsShown DEF Searchable
  <2>4. hits \in Seq(Chunk)
    BY <2>3 DEF Visible, TypeInv, TypeOK
  <2>5. /\ search[q].vector_hits \in Seq(Chunk) /\ Len(search[q].vector_hits) <= CandidatePool
        /\ Range(search[q].vector_hits) \subseteq Shown(search[q])
    BY <1>0 DEF Honest, SearchState
  <2>6. /\ list \in Seq(Chunk)
        /\ Range(list) \subseteq Range(search[q].vector_hits) \cup Range(hits)
        /\ Range(search[q].vector_hits) \cap Range(hits) \subseteq Range(list)
    <3>1. PICK v \in Seq(Chunk) : v = search[q].vector_hits
      BY <2>5
    <3>2. list = Pool(v, hits) /\ Len(v) <= CandidatePool /\ Len(hits) <= CandidatePool
      BY <2>2, <2>3, <2>5, <3>1
    <3>3. /\ list \in Seq(Chunk) /\ Range(list) \subseteq Range(v) \cup Range(hits)
          /\ Range(v) \cap Range(hits) \subseteq Range(list)
      BY <2>4, <3>2, CandidatesKeepAgreed
    <3> QED BY <3>1, <3>3
  <2>7. s \in SearchState
    BY <1>0, <2>4, <2>6 DEF SearchState
  <2>8. /\ s.pc = "rerank" /\ s.vector_hits = search[q].vector_hits /\ s.gone = search[q].gone
        /\ s.barred = search[q].barred /\ s.keyword_hits = hits
        /\ s.candidates = list /\ s.found = search[q].found
        /\ s.authenticated = search[q].authenticated
    BY <1>0 DEF SearchState
  <2>9. search' = [search EXCEPT ![q] = s]
    BY <2>1, <2>2 DEF Pool
  <2> HIDE DEF s
  <2>10. Honest(s) /\ Past(s)
    BY <1>0, <2>3, <2>5, <2>6, <2>8 DEF Honest, Past, Shown
  <2> QED BY <1>2, <2>7, <2>9, <2>10
<1>6. CASE Rerank(q)
  <2>1. PICK best \in SUBSET Range(search[q].candidates) :
            search' = [search EXCEPT ![q] =
                [@ EXCEPT !.pc = "done", !.found = best, !.vector_hits = <<>>,
                          !.keyword_hits = <<>>, !.candidates = <<>>]]
    BY <1>6, Zenon DEF Rerank, kSubset
  <2> DEFINE s == [search[q] EXCEPT !.pc = "done", !.found = best, !.vector_hits = <<>>,
                                    !.keyword_hits = <<>>, !.candidates = <<>>]
  <2>2. best \subseteq Shown(search[q]) /\ best \subseteq Chunk
    BY <1>0, <2>1 DEF Honest, Shown
  <2>3. s \in SearchState
    <3>1. <<>> \in Seq(Chunk)
      OBVIOUS
    <3> QED BY <1>0, <2>2, <3>1 DEF SearchState
  <2>4. /\ s.pc = "done" /\ s.vector_hits = <<>> /\ s.gone = search[q].gone
        /\ s.barred = search[q].barred /\ s.keyword_hits = <<>>
        /\ s.candidates = <<>> /\ s.found = best
        /\ s.authenticated = search[q].authenticated
    BY <1>0 DEF SearchState
  <2>5. search' = [search EXCEPT ![q] = s]
    BY <2>1
  <2> HIDE DEF s
  <2>6. Honest(s)
    BY <2>2, <2>4, RetrievalAssumption DEF Honest, Shown, Range
  <2>7. Past(s)
    BY <1>0, <2>4 DEF Past
  <2> QED BY <1>2, <2>3, <2>5, <2>6, <2>7
<1>7. CASE FailSearch(q)
  <2> DEFINE s == [NewSearch EXCEPT !.pc = "failed"]
  <2>1. search' = [search EXCEPT ![q] = s]
    BY <1>7 DEF FailSearch
  <2>2. /\ s \in SearchState /\ s.pc = "failed" /\ s.gone = {} /\ s.barred = {}
        /\ s.vector_hits = <<>> /\ s.keyword_hits = <<>> /\ s.candidates = <<>> /\ s.found = {}
    <3>1. NewSearch \in SearchState
      BY DEF SearchState, NewSearch
    <3>2. /\ NewSearch.gone = {} /\ NewSearch.barred = {} /\ NewSearch.vector_hits = <<>>
          /\ NewSearch.keyword_hits = <<>> /\ NewSearch.candidates = <<>> /\ NewSearch.found = {}
      BY DEF NewSearch
    <3> QED BY <3>1, <3>2 DEF SearchState
  <2> HIDE DEF s
  <2>3. Honest(s) /\ Past(s)
    BY <2>2, RetrievalAssumption DEF Honest, Past, Range
  <2> QED BY <1>2, <2>1, <2>2, <2>3
<1> QED BY <1>3, <1>4, <1>5, <1>6, <1>7

\* SearchInv is inductive: whatever the knowledge base does, nothing that is gone
\* comes back.
LEMMA SearchInit == RetrievalInit => SearchInv
<1> SUFFICES ASSUME RetrievalInit PROVE SearchInv
  OBVIOUS
<1>1. NewSearch \in SearchState
  BY DEF SearchState, NewSearch
<1>2. Honest(NewSearch) /\ Past(NewSearch)
  BY RetrievalAssumption DEF Honest, Past, NewSearch, Range
<1> QED BY <1>1, <1>2 DEF RetrievalInit, SearchInv
LEMMA SearchNext ==
    ASSUME TypeInv, PurgeInv, ReplacedInv, SearchInv, [RetrievalNext]_allVars
    PROVE  SearchInv'
<1>1. ASSUME NEW q \in Search, \/ BeginSearch(q) \/ QueryVector(q) \/ QueryKeyword(q)
                               \/ Rerank(q) \/ FailSearch(q)
      PROVE  SearchInv'
  BY <1>1, SearchStep
<1>2. CASE KnowledgeStep \/ UNCHANGED allVars
  <2>1. UNCHANGED <<search, lapsed>>
    BY <1>2 DEF KnowledgeStep, allVars, retrievalVars
  <2>2. [Next]_vars
    BY KnowledgeMoves
  <2>3. ASSUME NEW q \in Search, NEW x \in search[q].gone
        PROVE  Quiet(x.by)' /\ x \notin (Searchable \cup shown)'
    <3>1. Quiet(x.by) /\ x \notin Searchable \cup shown /\ x \in Chunk
      BY <2>3 DEF SearchInv, Past, SearchState
    <3>2. x.by \in Upload
      BY <3>1 DEF Chunk
    <3>3. Quiet(x.by)' /\ x \notin vector' \ vector /\ x \notin keyword' \ keyword
      BY <2>2, <3>1, <3>2, QuietStays
    <3> QED BY <2>2, <3>1, <3>3, ShownIsStored DEF Searchable
  <2> QED BY <2>1, <2>3 DEF SearchInv, Past
<1>3. ASSUME NEW u \in ExpiringUpload, Lapse(u) PROVE SearchInv'
  <2>1. /\ UNCHANGED <<upload, versions, vector, keyword, shown, search>> /\ lapsed' = lapsed \cup {u}
        /\ u \in Upload
    BY <1>3, RetrievalAssumption DEF Lapse, vars, stores
  <2> QED BY <2>1 DEF SearchInv, Past, Searchable, Quiet
<1> QED BY <1>1, <1>2, <1>3 DEF RetrievalNext

\* The four invariants, in every execution of the system.
LEMMA RetrievalInvariance == RetrievalSpec => [](TypeInv /\ PurgeInv /\ ReplacedInv /\ SearchInv)
<1>1. RetrievalInit => TypeInv /\ PurgeInv /\ ReplacedInv /\ SearchInv
  BY TypeInit, PurgeInit, ReplacedInit, SearchInit DEF RetrievalInit
<1>2. TypeInv /\ PurgeInv /\ ReplacedInv /\ SearchInv /\ [RetrievalNext]_allVars
        => (TypeInv /\ PurgeInv /\ ReplacedInv /\ SearchInv)'
  <2> SUFFICES ASSUME TypeInv, PurgeInv, ReplacedInv, SearchInv, [RetrievalNext]_allVars
               PROVE  TypeInv' /\ PurgeInv' /\ ReplacedInv' /\ SearchInv'
    OBVIOUS
  <2>1. [Next]_vars
    BY KnowledgeMoves
  <2>2. TypeInv' /\ PurgeInv'
    BY <2>1, TypeNext, PurgeInvNext
  <2>3. ReplacedInv'
    BY <2>1, ReplacedNext DEF PurgeInv
  <2>4. SearchInv'
    BY SearchNext
  <2> QED BY <2>2, <2>3, <2>4
<1> QED BY <1>1, <1>2, PTL DEF RetrievalSpec

\* FoundWasVisible: whatever runs or fails while a search is under way, it cites
\* no chunk that was expired, or closed to its caller, when it began.
THEOREM FoundWasVisibleTheorem == RetrievalSpec => []FoundWasVisible
<1>1. SearchInv => FoundWasVisible
  BY DEF SearchInv, Honest, Shown, FoundWasVisible
<1> QED BY <1>1, RetrievalInvariance, PTL

\* RemovedIsNotFound: a search that begins after a re-upload or an exclusion has
\* succeeded cites nothing that they removed, whatever runs or fails besides.
THEOREM RemovedIsNotFoundTheorem == RetrievalSpec => []RemovedIsNotFound
<1>1. SearchInv => RemovedIsNotFound
  BY DEF SearchInv, Honest, Shown, RemovedIsNotFound
<1> QED BY <1>1, RetrievalInvariance, PTL

\* AgreedReachesReranker: whatever both indexes return is among the candidates,
\* at whatever ranks, for every pool smaller than k + 2.
THEOREM AgreedReachesRerankerTheorem == RetrievalSpec => []AgreedReachesReranker
<1>1. SearchInv => AgreedReachesReranker
  BY DEF SearchInv, Honest, AgreedReachesReranker
<1> QED BY <1>1, RetrievalInvariance, PTL
=============================================================================
