----------------------------- MODULE WidgetProofs -----------------------------
(***************************************************************************)
(* Theorems about Widget, for any messages, conversations and bounds: what *)
(* the transcript shows for each message, however exchanges overlap, reads *)
(* split the stream and connections break.                                 *)
(***************************************************************************)
EXTENDS Widget, TLAPS, FiniteSetTheorems, FunctionTheorems, SequenceTheorems

(***************************************************************************)
(* What a sequence holds at some of its positions.                         *)
(***************************************************************************)

Enumerates(g, h, P) ==
    /\ g \in [1 .. h -> P]
    /\ \A i, j \in 1 .. h : i < j => g[i] < g[j]
    /\ P = {g[i] : i \in 1 .. h}

\* An increasing enumeration of the positions gives the entries.
LEMMA EntriesEnumerated ==
    ASSUME NEW s, NEW h \in Nat, NEW P \in SUBSET Nat, NEW g, Enumerates(g, h, P)
    PROVE  EntriesAt(s, P) = [k \in 1 .. h |-> s[g[k]]]
<1>0. /\ g \in [1 .. h -> Nat] /\ P = {g[i] : i \in 1 .. h}
      /\ \A i, j \in 1 .. h : i < j => g[i] < g[j]
  BY DEF Enumerates
<1>1. \A i, j \in 1 .. h : (g[i] <= g[j] <=> i <= j) /\ (g[i] = g[j] => i = j)
  BY <1>0
<1>2. ASSUME NEW k \in 0 .. h, NEW Q, Q = {g[i] : i \in 1 .. k}
      PROVE  Cardinality(Q) = k
  <2> DEFINE f == [i \in 1 .. k |-> g[i]]
  <2>1. IsFiniteSet(1 .. k) /\ Cardinality(1 .. k) = k
    <3>1. k \in Nat /\ 1 \in Int /\ k \in Int
      OBVIOUS
    <3> QED BY <3>1, FS_Interval
  <2>2. f \in Bijection(1 .. k, Q)
    <3>1. f \in Injection(1 .. k, Q)
      BY <1>0, <1>1, <1>2 DEF Injection, IsInjective
    <3>2. f \in Surjection(1 .. k, Q)
      BY <1>2 DEF Surjection
    <3> QED BY <3>1, <3>2 DEF Bijection
  <2>3. ExistsBijection(1 .. k, Q)
    BY <2>2 DEF ExistsBijection
  <2> QED BY <2>1, <2>3, FS_Bijection
<1>3. Cardinality(P) = h
  BY <1>0, <1>2
<1>4. ASSUME NEW k \in 1 .. h PROVE Cardinality({q \in P : q <= g[k]}) = k
  <2>1. {q \in P : q <= g[k]} = {g[i] : i \in 1 .. k}
    BY <1>0, <1>1
  <2> QED BY <2>1, <1>2
<1> DEFINE place(k) == CHOOSE p \in P : Cardinality({q \in P : q <= p}) = k
<1>5. ASSUME NEW k \in 1 .. h PROVE place(k) = g[k]
  <2>1. g[k] \in P /\ Cardinality({q \in P : q <= g[k]}) = k
    BY <1>0, <1>4
  <2>2. \A p \in P : Cardinality({q \in P : q <= p}) = k => p = g[k]
    BY SMTT(30), <1>0, <1>4
  <2> DEFINE Counts(p) == p \in P /\ Cardinality({q \in P : q <= p}) = k
  <2>3. Counts(g[k]) /\ \A p : Counts(p) => p = g[k]
    BY <2>1, <2>2
  <2>4. place(k) = CHOOSE p : Counts(p)
    BY Zenon
  <2> HIDE DEF Counts, place
  <2> QED BY <2>3, <2>4, Zenon
<1>6. EntriesAt(s, P) = [k \in 1 .. h |-> s[place(k)]]
  BY <1>3 DEF EntriesAt
<1> HIDE DEF place
<1> QED BY <1>5, <1>6

\* Every finite set of positions has an increasing enumeration.
LEMMA PositionsEnumerated ==
    ASSUME NEW n \in Nat, NEW P \in SUBSET (1 .. n)
    PROVE  \E h \in Nat : \E g : Enumerates(g, h, P)
<1> DEFINE upto(p) == {q \in P : q <= p}
           h == Cardinality(P)
           rank == [p \in P |-> Cardinality(upto(p))]
           g == [k \in 1 .. h |-> CHOOSE p \in P : rank[p] = k]
<1>0. \A x \in P : x \in Nat
  OBVIOUS
<1>1. IsFiniteSet(P) /\ h \in Nat
  <2>1. IsFiniteSet(1 .. n)
    BY FS_Interval
  <2> QED BY <2>1, FS_Subset, FS_CardinalityType
<1>2. \A p \in P : IsFiniteSet(upto(p)) /\ Cardinality(upto(p)) \in Nat
                   /\ Cardinality(upto(p)) <= h
  BY <1>1, FS_Subset, FS_CardinalityType
<1>3. \A p \in P : rank[p] \in 1 .. h
  <2> TAKE p \in P
  <2>1. p \in upto(p)
    OBVIOUS
  <2>2. Cardinality(upto(p)) # 0
    BY <1>2, <2>1, FS_EmptySet
  <2> QED BY <1>2, <2>2, <1>1
<1>4. ASSUME NEW p \in P, NEW q \in P, p < q PROVE rank[p] < rank[q]
  <2>0. q <= q /\ ~(q <= p) /\ \A x \in P : x <= p => x <= q
    BY <1>0, <1>4
  <2>1. upto(p) \subseteq upto(q) /\ q \in upto(q) /\ q \notin upto(p)
    BY <2>0
  <2>2. Cardinality(upto(p)) <= Cardinality(upto(q)) /\ Cardinality(upto(p)) # Cardinality(upto(q))
    BY <1>2, <2>1, FS_Subset
  <2> QED BY <1>2, <2>2
<1> HIDE DEF rank
<1>5. rank \in Surjection(P, 1 .. h)
  <2>1. rank \in Injection(P, 1 .. h)
    <3>1. \A p, q \in P : rank[p] = rank[q] => p = q
      BY <1>3, <1>4
    <3>2. rank \in [P -> 1 .. h]
      BY <1>3 DEF rank
    <3> QED BY <3>1, <3>2 DEF Injection, IsInjective
  <2>2. IsFiniteSet(1 .. h) /\ Cardinality(1 .. h) = h
    BY <1>1, FS_Interval
  <2> QED BY <2>1, <2>2, FS_Injection
<1>6. \A k \in 1 .. h : \E p \in P : rank[p] = k
  BY <1>5 DEF Surjection
<1>7. g \in [1 .. h -> P] /\ \A k \in 1 .. h : rank[g[k]] = k
  BY <1>6
<1> HIDE DEF g, h
<1>8. \A i, j \in 1 .. h : i < j => g[i] < g[j]
  <2> TAKE i, j \in 1 .. h
  <2> HAVE i < j
  <2>1. g[i] \in P /\ g[j] \in P /\ rank[g[i]] = i /\ rank[g[j]] = j
    BY <1>7
  <2>2. g[i] \in Nat /\ g[j] \in Nat
    BY <1>0, <2>1
  <2>3. ~(g[j] < g[i])
    <3>1. SUFFICES ASSUME g[j] < g[i] PROVE FALSE
      OBVIOUS
    <3>2. rank[g[j]] < rank[g[i]]
      BY <2>1, <3>1, <1>4
    <3>3. j < i
      BY <2>1, <3>2
    <3> QED BY <3>3
  <2>4. g[i] # g[j]
    BY <2>1
  <2> QED BY <2>2, <2>3, <2>4
<1>9. \A p \in P : rank[p] \in 1 .. h /\ g[rank[p]] = p
  <2> TAKE p \in P
  <2>1. rank[p] \in 1 .. h /\ g[rank[p]] \in P /\ rank[g[rank[p]]] = rank[p]
    BY <1>3, <1>7
  <2>2. g[rank[p]] \in Nat /\ p \in Nat
    BY <1>0, <2>1
  <2>3. rank[p] \in Nat
    BY <2>1, <1>1
  <2>4. ~(p < g[rank[p]]) /\ ~(g[rank[p]] < p)
    <3>1. ASSUME p < g[rank[p]] PROVE FALSE
      <4>1. rank[p] < rank[g[rank[p]]]
        BY <2>1, <3>1, <1>4
      <4> QED BY <2>1, <2>3, <4>1
    <3>2. ASSUME g[rank[p]] < p PROVE FALSE
      <4>1. rank[g[rank[p]]] < rank[p]
        BY <2>1, <3>2, <1>4
      <4> QED BY <2>1, <2>3, <4>1
    <3> QED BY <3>1, <3>2
  <2> QED BY <2>1, <2>2, <2>4
<1>10. P = {g[i] : i \in 1 .. h}
  <2>1. \A i \in 1 .. h : g[i] \in P
    BY <1>7
  <2>2. \A p \in P : \E i \in 1 .. h : p = g[i]
    BY <1>9
  <2> QED BY <2>1, <2>2
<1>11. h \in Nat
  BY <1>1 DEF h
<1>12. Enumerates(g, h, P)
  BY <1>7, <1>8, <1>10 DEF Enumerates
<1> QED BY <1>11, <1>12

\* The entries kept of a sequence are some of its entries, each at a place of its
\* own, in the order of before.
LEMMA EntriesKept ==
    ASSUME NEW S, NEW s \in Seq(S), NEW P \in SUBSET DOMAIN s
    PROVE  /\ EntriesAt(s, P) \in Seq(S)
           /\ Len(EntriesAt(s, P)) \in Nat
           /\ \E g : /\ Enumerates(g, Len(EntriesAt(s, P)), P)
                    /\ \A i \in 1 .. Len(EntriesAt(s, P)) : EntriesAt(s, P)[i] = s[g[i]]
<1>1. Len(s) \in Nat /\ DOMAIN s = 1 .. Len(s) /\ s \in [1 .. Len(s) -> S]
  BY LenProperties
<1>2. P \in SUBSET (1 .. Len(s)) /\ P \in SUBSET Nat
  BY <1>1
<1>3. PICK h \in Nat : \E g : Enumerates(g, h, P)
  BY <1>1, <1>2, PositionsEnumerated
<1>4. PICK g : Enumerates(g, h, P)
  BY <1>3
<1>5. EntriesAt(s, P) = [k \in 1 .. h |-> s[g[k]]]
  BY <1>2, <1>4, EntriesEnumerated
<1>6. EntriesAt(s, P) \in [1 .. h -> S]
  BY <1>1, <1>4, <1>5 DEF Enumerates
<1>7. EntriesAt(s, P) \in Seq(S) /\ Len(EntriesAt(s, P)) = h
  BY <1>6
<1> QED BY <1>4, <1>5, <1>7

(***************************************************************************)
(* The transcript: what it shows for a message, and what removing, adding  *)
(* and rewriting elements does to that.                                    *)
(***************************************************************************)
Elem == [kind : {"user", "typing", "assistant", "error"}, of : Message, text : Text]

Absent(els, m) == \A p \in 1 .. Len(els) : els[p].of # m

\* The message and, after it, the element are all there is for m.
Pair(els, m, el, i, j) ==
    /\ i \in 1 .. Len(els) /\ j \in 1 .. Len(els) /\ i < j
    /\ els[i].kind = "user" /\ els[j] = el
    /\ \A p \in 1 .. Len(els) : els[p].of = m <=> p \in {i, j}
Holds(els, m, el) == \E i, j \in 1 .. Len(els) : Pair(els, m, el, i, j)

\* An element of another message at the end changes nothing for this one.
LEMMA OthersAppended ==
    ASSUME NEW els \in Seq(Elem), NEW x \in Elem, NEW n, x.of # n
    PROVE  /\ Append(els, x) \in Seq(Elem)
           /\ Absent(els, n) => Absent(Append(els, x), n)
           /\ \A el : Holds(els, n, el) => Holds(Append(els, x), n, el)
<1> DEFINE t == Append(els, x)
<1>1. /\ t \in Seq(Elem) /\ Len(t) = Len(els) + 1 /\ Len(els) \in Nat
      /\ \A i \in 1 .. Len(els) : t[i] = els[i]
      /\ t[Len(els) + 1] = x
  BY AppendProperties, LenProperties
<1> HIDE DEF t
<1>2. Absent(els, n) => Absent(t, n)
  BY <1>1 DEF Absent
<1>3. ASSUME NEW el, Holds(els, n, el) PROVE Holds(t, n, el)
  <2>1. PICK i, j \in 1 .. Len(els) : Pair(els, n, el, i, j)
    BY <1>3 DEF Holds
  <2>2. i \in 1 .. Len(t) /\ j \in 1 .. Len(t) /\ i # Len(els) + 1 /\ j # Len(els) + 1
    BY <1>1
  <2>3. \A p \in 1 .. Len(t) : p \in 1 .. Len(els) \/ p = Len(els) + 1
    BY <1>1
  <2>4. Pair(t, n, el, i, j)
    BY <1>1, <2>1, <2>2, <2>3 DEF Pair
  <2> QED BY <2>2, <2>4 DEF Holds
<1> QED BY <1>1, <1>2, <1>3 DEF t

\* Keeping what is not of m keeps what is shown for the others.
LEMMA OthersKept ==
    ASSUME NEW els \in Seq(Elem), NEW P \in SUBSET DOMAIN els, NEW n,
           \A p \in DOMAIN els : els[p].of = n => p \in P
    PROVE  /\ Absent(els, n) => Absent(EntriesAt(els, P), n)
           /\ \A el : Holds(els, n, el) => Holds(EntriesAt(els, P), n, el)
<1> DEFINE t == EntriesAt(els, P)
<1>1. Len(t) \in Nat /\ Len(els) \in Nat /\ DOMAIN els = 1 .. Len(els)
  BY EntriesKept, LenProperties
<1>2. PICK g : Enumerates(g, Len(t), P) /\ \A i \in 1 .. Len(t) : t[i] = els[g[i]]
  BY EntriesKept
<1> HIDE DEF t
<1>3. /\ \A i \in 1 .. Len(t) : g[i] \in P /\ g[i] \in 1 .. Len(els) /\ g[i] \in Nat
      /\ \A p \in P : \E i \in 1 .. Len(t) : p = g[i]
      /\ \A i, j \in 1 .. Len(t) : i < j => g[i] < g[j]
  BY <1>1, <1>2 DEF Enumerates
<1>4. Absent(els, n) => Absent(t, n)
  BY <1>2, <1>3 DEF Absent
<1>5. ASSUME NEW el, Holds(els, n, el) PROVE Holds(t, n, el)
  <2>1. PICK i, j \in 1 .. Len(els) : Pair(els, n, el, i, j)
    BY <1>5 DEF Holds
  <2>2. i \in P /\ j \in P /\ i < j
    BY <1>1, <2>1 DEF Pair
  <2>3. PICK u \in 1 .. Len(t) : i = g[u]
    BY <1>3, <2>2
  <2>4. PICK v \in 1 .. Len(t) : j = g[v]
    BY <1>3, <2>2
  <2>5. u < v
    <3>1. ~(v < u) /\ u # v
      BY <1>3, <2>2, <2>3, <2>4
    <3> QED BY <3>1, <1>1
  <2>6. \A p \in 1 .. Len(t) : t[p].of = n <=> p \in {u, v}
    <3> TAKE p \in 1 .. Len(t)
    <3>1. t[p].of = n <=> g[p] \in {i, j}
      BY SMTT(30), <1>2, <1>3, <2>1 DEF Pair
    <3>2. \A q \in 1 .. Len(t) : g[p] = g[q] => p = q
      <4> TAKE q \in 1 .. Len(t)
      <4>1. p < q => g[p] < g[q]
        BY <1>3
      <4>2. q < p => g[q] < g[p]
        BY <1>3
      <4> QED BY <1>1, <1>3, <4>1, <4>2
    <3> QED BY <2>3, <2>4, <3>1, <3>2
  <2>7. Pair(t, n, el, u, v)
    BY <1>2, <2>1, <2>3, <2>4, <2>5, <2>6 DEF Pair
  <2> QED BY <2>7 DEF Holds
<1> QED BY <1>4, <1>5 DEF t

\* Removing the element shown for a message and adding one at the end shows that.
LEMMA ElementReplaced ==
    ASSUME NEW els \in Seq(Elem), NEW m, NEW el, Holds(els, m, el), NEW kinds,
           el.kind \in kinds, "user" \notin kinds, NEW x \in Elem, x.of = m,
           NEW P, P = {p \in DOMAIN els : ~(els[p].of = m /\ els[p].kind \in kinds)}
    PROVE  Holds(Append(EntriesAt(els, P), x), m, x)
<1> DEFINE t == EntriesAt(els, P)
           r == Append(t, x)
<1>0. P \in SUBSET DOMAIN els
  OBVIOUS
<1>1. /\ Len(t) \in Nat /\ Len(els) \in Nat /\ DOMAIN els = 1 .. Len(els)
      /\ t \in Seq(Elem)
  BY <1>0, EntriesKept, LenProperties
<1>2. PICK g : Enumerates(g, Len(t), P) /\ \A i \in 1 .. Len(t) : t[i] = els[g[i]]
  BY ZenonT(60), <1>0, EntriesKept
<1> HIDE DEF t
<1>3. /\ Len(r) = Len(t) + 1 /\ r[Len(t) + 1] = x
      /\ \A i \in 1 .. Len(t) : r[i] = t[i]
  BY <1>1, AppendProperties
<1> HIDE DEF r
<1>4. /\ \A i \in 1 .. Len(t) : g[i] \in P /\ g[i] \in 1 .. Len(els) /\ g[i] \in Nat
      /\ \A p \in P : \E i \in 1 .. Len(t) : p = g[i]
      /\ \A i, j \in 1 .. Len(t) : i < j => g[i] < g[j]
  BY <1>0, <1>1, <1>2 DEF Enumerates
<1>5. PICK i, j \in 1 .. Len(els) : Pair(els, m, el, i, j)
  BY DEF Holds
<1>6. i \in P /\ j \notin P
  BY <1>1, <1>5 DEF Pair
<1>7. PICK u \in 1 .. Len(t) : i = g[u]
  BY <1>4, <1>6
<1>8. \A p \in 1 .. Len(t) : t[p].of = m <=> p = u
  <2> TAKE p \in 1 .. Len(t)
  <2>1. t[p].of = m <=> g[p] = i
    BY <1>2, <1>4, <1>5, <1>6 DEF Pair
  <2>2. g[p] = g[u] => p = u
    <3>1. p < u => g[p] < g[u]
      BY <1>4
    <3>2. u < p => g[u] < g[p]
      BY <1>4
    <3> QED BY <1>1, <1>4, <3>1, <3>2
  <2> QED BY <1>7, <2>1, <2>2
<1>9. Pair(r, m, x, u, Len(t) + 1)
  <2>1. u \in 1 .. Len(r) /\ Len(t) + 1 \in 1 .. Len(r) /\ u < Len(t) + 1
    BY <1>1, <1>3
  <2>2. r[u].kind = "user"
    <3>1. r[u] = t[u] /\ t[u] = els[g[u]]
      BY <1>2, <1>3
    <3>2. els[i].kind = "user"
      BY <1>5 DEF Pair
    <3> QED BY <1>7, <3>1, <3>2
  <2>3. \A p \in 1 .. Len(r) : p \in 1 .. Len(t) \/ p = Len(t) + 1
    <3>1. Len(t) \in Nat
      BY <1>1
    <3>2. Len(r) = Len(t) + 1
      BY <1>3
    <3>3. \A a \in Nat : \A p \in 1 .. a + 1 : p \in 1 .. a \/ p = a + 1
      BY SMTT(30)
    <3> QED BY <3>1, <3>2, <3>3
  <2>4. \A p \in 1 .. Len(r) : r[p].of = m <=> p \in {u, Len(t) + 1}
    <3> TAKE p \in 1 .. Len(r)
    <3>1. CASE p \in 1 .. Len(t)
      <4>1. r[p] = t[p] /\ p # Len(t) + 1
        BY <1>1, <1>3, <3>1
      <4> QED BY <1>8, <3>1, <4>1
    <3>2. CASE p = Len(t) + 1
      <4>1. r[p] = x
        BY <1>3, <3>2
      <4> QED BY <3>2, <4>1
    <3> QED BY <2>3, <3>1, <3>2
  <2> QED BY <1>3, <2>1, <2>2, <2>4 DEF Pair
<1>10. Len(t) + 1 \in 1 .. Len(r) /\ u \in 1 .. Len(r)
  BY <1>1, <1>3
<1> QED BY <1>9, <1>10 DEF Holds, r, t

Rewritten(els, m, x) ==
    [i \in DOMAIN els |-> IF els[i].of = m /\ els[i].kind = "assistant" THEN x ELSE els[i]]

\* Rewriting the element shown for a message shows the new text, and nothing else
\* for the others.
LEMMA ElementRewritten ==
    ASSUME NEW els \in Seq(Elem), NEW m, NEW el, Holds(els, m, el), el.kind = "assistant",
           NEW x \in Elem, x.of = m,
           NEW t, t = Rewritten(els, m, x)
    PROVE  /\ t \in Seq(Elem)
           /\ Holds(t, m, x)
           /\ \A n : n # m =>
                /\ Absent(els, n) => Absent(t, n)
                /\ \A y : Holds(els, n, y) => Holds(t, n, y)
<1>1. Len(els) \in Nat /\ DOMAIN els = 1 .. Len(els) /\ els \in [1 .. Len(els) -> Elem]
  BY LenProperties
<1>2. t \in [1 .. Len(els) -> Elem]
  BY <1>1 DEF Rewritten
<1>3. t \in Seq(Elem) /\ Len(t) = Len(els)
  BY <1>1, <1>2
<1>4. \A i \in 1 .. Len(els) :
        t[i] = IF els[i].of = m /\ els[i].kind = "assistant" THEN x ELSE els[i]
  BY <1>1 DEF Rewritten
<1>5. \A i \in 1 .. Len(els) : t[i].of = els[i].of /\ (els[i].of # m => t[i] = els[i])
  BY <1>4
<1>6. PICK i, j \in 1 .. Len(els) : Pair(els, m, el, i, j)
  BY DEF Holds
<1>7. Pair(t, m, x, i, j)
  BY <1>3, <1>4, <1>5, <1>6 DEF Pair
<1>8. ASSUME NEW n, n # m, NEW y, Holds(els, n, y) PROVE Holds(t, n, y)
  <2>1. PICK u, v \in 1 .. Len(els) : Pair(els, n, y, u, v)
    BY <1>8 DEF Holds
  <2>2. Pair(t, n, y, u, v)
    BY <1>3, <1>5, <1>8, <2>1 DEF Pair
  <2> QED BY <1>3, <2>2 DEF Holds
<1> QED BY <1>3, <1>5, <1>7, <1>8 DEF Holds, Absent

(***************************************************************************)
(* The stream: what a read takes off it.                                   *)
(***************************************************************************)
Entries == Frame \cup {Boundary}

\* r frames are on their way, each with the boundary that ends it.
Framed(on, r) ==
    /\ on \in Seq(Entries) /\ Len(on) = 2 * r
    /\ \A k \in 1 .. r : on[2 * k - 1] # Boundary /\ on[2 * k] = Boundary

\* What is left of a sequence behind its first a entries.
LEMMA Remainder ==
    ASSUME NEW S, NEW s \in Seq(S), NEW a \in Nat, a <= Len(s)
    PROVE  /\ SubSeq(s, a + 1, Len(s)) \in Seq(S)
           /\ Len(SubSeq(s, a + 1, Len(s))) = Len(s) - a
           /\ \A i \in 1 .. Len(s) - a : SubSeq(s, a + 1, Len(s))[i] = s[a + i]
<1>1. Len(s) \in Nat /\ s \in [1 .. Len(s) -> S]
  BY LenProperties
<1>2. PICK lo \in Int : lo = a + 1
  OBVIOUS
<1>3. PICK hi : hi = Len(s)
  OBVIOUS
<1>4. \A i \in lo .. hi : s[i] \in S
  BY <1>1, <1>2, <1>3
<1>0. hi \in Int
  BY <1>1, <1>3
<1>5. /\ SubSeq(s, lo, hi) \in Seq(S)
      /\ Len(SubSeq(s, lo, hi)) = IF lo <= hi THEN hi - lo + 1 ELSE 0
      /\ \A i \in 1 .. hi - lo + 1 : SubSeq(s, lo, hi)[i] = s[lo + i - 1]
  BY <1>0, <1>4, SubSeqProperties
<1>6. Len(SubSeq(s, lo, hi)) = hi - a
  BY <1>0, <1>2, <1>3, <1>5
<1>7. ASSUME NEW i \in 1 .. hi - a PROVE SubSeq(s, lo, hi)[i] = s[a + i]
  <2>1. i \in 1 .. hi - lo + 1 /\ lo + i - 1 = a + i
    BY <1>0, <1>2
  <2> QED BY <1>5, <2>1
<1> QED BY <1>2, <1>3, <1>5, <1>6, <1>7

\* The entries at the first h odd positions.
Odds(h) == {2 * k - 1 : k \in 1 .. h}
LEMMA OddEntries ==
    ASSUME NEW s, NEW h \in Nat
    PROVE  EntriesAt(s, Odds(h)) = [k \in 1 .. h |-> s[2 * k - 1]]
<1> DEFINE g == [k \in 1 .. h |-> 2 * k - 1]
<1>1. /\ g \in [1 .. h -> Odds(h)] /\ Odds(h) = {g[k] : k \in 1 .. h} /\ Odds(h) \in SUBSET Nat
      /\ \A k \in 1 .. h : g[k] = 2 * k - 1
  BY DEF Odds
<1>2. \A i, j \in 1 .. h : i < j => g[i] < g[j]
  OBVIOUS
<1> HIDE DEF g
<1>3. Enumerates(g, h, Odds(h))
  BY <1>1, <1>2 DEF Enumerates
<1>4. EntriesAt(s, Odds(h)) = [k \in 1 .. h |-> s[g[k]]]
  <2>1. PICK P \in SUBSET Nat : P = Odds(h)
    BY <1>1
  <2>2. PICK f : f = g
    OBVIOUS
  <2>3. Enumerates(f, h, P)
    BY <1>3, <2>1, <2>2
  <2>4. EntriesAt(s, P) = [k \in 1 .. h |-> s[f[k]]]
    BY <2>3, EntriesEnumerated
  <2> QED BY <2>1, <2>2, <2>4
<1>5. \A k \in 1 .. h : g[k] = 2 * k - 1
  BY <1>1
<1> QED BY <1>4, <1>5

AtOdds(b, h) == [k \in 1 .. h |-> b[2 * k - 1]]
\* The frames of a buffer of frames and boundaries by turns.
LEMMA FramesAtOdds ==
    ASSUME NEW b, NEW h \in Nat, Complete(b) = 2 * h,
           \A k \in 1 .. h : b[2 * k - 1] # Boundary /\ b[2 * k] = Boundary
    PROVE  FramesIn(b) = AtOdds(b, h)
<1> DEFINE P == {i \in 1 .. 2 * h : IsFrame(b[i])}
<1>1. \A k \in 1 .. h : 2 * k - 1 \in P
  BY DEF IsFrame
<1>2. ASSUME NEW i \in P PROVE \E k \in 1 .. h : i = 2 * k - 1
  <2>1. /\ i \in 1 .. 2 * h /\ i \div 2 \in Nat
        /\ i = 2 * (i \div 2) \/ i = 2 * (i \div 2) + 1
    OBVIOUS
  <2>2. i # 2 * (i \div 2)
    <3>1. i = 2 * (i \div 2) => i \div 2 \in 1 .. h
      BY <2>1
    <3> QED BY <3>1 DEF IsFrame
  <2>3. (i \div 2) + 1 \in 1 .. h /\ i = 2 * ((i \div 2) + 1) - 1
    BY <2>1, <2>2
  <2> QED BY <2>3
<1>3. P = Odds(h)
  <2>1. \A i \in P : i \in Odds(h)
    BY <1>2 DEF Odds
  <2>2. \A i \in Odds(h) : i \in P
    BY <1>1 DEF Odds
  <2> QED BY <2>1, <2>2
<1>4. EntriesAt(b, Odds(h)) = [k \in 1 .. h |-> b[2 * k - 1]]
  BY OddEntries
<1> QED BY <1>3, <1>4 DEF FramesIn, AtOdds

LEMMA Leftover ==
    ASSUME NEW lb \in Nat, NEW lw \in Nat, NEW n \in Nat, NEW h \in Nat, NEW r \in Nat,
           lb + lw = 2 * r
    PROVE  ((lb + n) - 2 * h) + (lw - n) = 2 * (r - h)
OBVIOUS

\* What it is that b holds h complete frames of those on the way.
Split(on, r, b, kept, h) ==
    /\ b \in Seq(Entries)
    /\ FramesIn(b) = AtOdds(on, h)
    /\ Rest(b) \in Seq(Entries) /\ Len(Rest(b)) <= 1
    /\ kept \in Seq(Entries)
    /\ Rest(b) \o kept \in Seq(Entries) /\ Len(Rest(b) \o kept) = 2 * (r - h)
    /\ \A i \in 1 .. 2 * (r - h) : (Rest(b) \o kept)[i] = on[2 * h + i]

\* A read completes h frames; at most the text of the next is left in the buffer.
LEMMA ReadSplits ==
    ASSUME NEW buffer \in Seq(Entries), NEW wire \in Seq(Entries), NEW r \in Nat,
           Framed(buffer \o wire, r), Len(buffer) <= 1, NEW n \in 1 .. Len(wire),
           NEW b, b = buffer \o SubSeq(wire, 1, n)
    PROVE  \E h \in 0 .. r :
               Split(buffer \o wire, r, b, SubSeq(wire, n + 1, Len(wire)), h)
<1> DEFINE on == buffer \o wire
           taken == SubSeq(wire, 1, n)
           kept == SubSeq(wire, n + 1, Len(wire))
           len == Len(buffer) + n
<1>1. /\ Len(buffer) \in Nat /\ Len(wire) \in Nat /\ n \in Nat /\ len \in Nat
      /\ wire \in [1 .. Len(wire) -> Entries]
  BY LenProperties
<1>2. /\ taken \in Seq(Entries) /\ Len(taken) = n
      /\ \A i \in 1 .. n : taken[i] = wire[i]
  <2>1. \A i \in 1 .. n : wire[i] \in Entries
    BY <1>1
  <2>2. taken \in Seq(Entries) /\ Len(taken) = n
    BY <1>1, <2>1, SubSeqProperties
  <2>3. \A i \in 1 .. n - 1 + 1 : taken[i] = wire[1 + i - 1]
    BY <1>1, <2>1, SubSeqProperties
  <2> QED BY <1>1, <2>2, <2>3
<1>3. /\ kept \in Seq(Entries) /\ Len(kept) = Len(wire) - n
      /\ \A i \in 1 .. Len(wire) - n : kept[i] = wire[n + i]
  <2>1. n <= Len(wire)
    BY <1>1
  <2> QED BY <1>1, <2>1, Remainder
<1>4. /\ on \in Seq(Entries) /\ Len(on) = Len(buffer) + Len(wire)
      /\ \A i \in 1 .. Len(on) :
            on[i] = IF i <= Len(buffer) THEN buffer[i] ELSE wire[i - Len(buffer)]
  BY ConcatProperties
<1>5. /\ b \in Seq(Entries) /\ Len(b) = len
      /\ \A i \in 1 .. len : b[i] = IF i <= Len(buffer) THEN buffer[i] ELSE taken[i - Len(buffer)]
  BY <1>2, ConcatProperties
<1>6. len <= Len(on) /\ \A i \in 1 .. len : b[i] = on[i]
  BY <1>1, <1>2, <1>4, <1>5
<1>7. Len(on) = 2 * r
      /\ \A k \in 1 .. r : on[2 * k - 1] # Boundary /\ on[2 * k] = Boundary
  BY DEF Framed
<1> HIDE DEF on, taken, kept, len
<1>8. PICK h \in 0 .. r : len = 2 * h \/ len = 2 * h + 1
  <2>1. len \div 2 \in Nat /\ (len = 2 * (len \div 2) \/ len = 2 * (len \div 2) + 1)
    BY <1>1
  <2>2. len \div 2 <= r
    BY <1>1, <1>6, <1>7, <2>1
  <2> QED BY <2>1, <2>2
<1>9. \A i \in 1 .. len : (\E k \in 1 .. h : i = 2 * k) \/ (\E k \in 1 .. r : i = 2 * k - 1)
  <2> TAKE i \in 1 .. len
  <2>1. i \div 2 \in Nat /\ (i = 2 * (i \div 2) \/ i = 2 * (i \div 2) + 1)
    OBVIOUS
  <2>2. CASE i = 2 * (i \div 2)
    <3>1. i \div 2 \in 1 .. h
      BY <1>1, <1>8, <2>1, <2>2
    <3> QED BY <2>2, <3>1
  <2>3. CASE i = 2 * (i \div 2) + 1
    <3>1. (i \div 2) + 1 \in 1 .. r /\ i = 2 * ((i \div 2) + 1) - 1
      BY <1>1, <1>6, <1>7, <2>1, <2>3
    <3> QED BY <3>1
  <2> QED BY <2>1, <2>2, <2>3
<1>10. \A i \in 1 .. len : (b[i] = Boundary) <=> \E k \in 1 .. h : i = 2 * k
  <2> TAKE i \in 1 .. len
  <2>1. ASSUME NEW k \in 1 .. h, i = 2 * k PROVE b[i] = Boundary
    <3>1. k \in 1 .. r
      BY <1>8
    <3>2. on[i] = Boundary
      BY <1>7, <2>1, <3>1
    <3> QED BY <1>6, <3>2
  <2>2. ASSUME NEW k \in 1 .. r, i = 2 * k - 1 PROVE b[i] # Boundary
    BY <1>6, <1>7, <1>8, <2>2
  <2> QED BY <1>9, <2>1, <2>2
<1>11. DOMAIN b = 1 .. len
  BY <1>5, LenProperties
<1>12. Complete(b) = 2 * h
  <2> DEFINE ends == {i \in DOMAIN b : b[i] = Boundary}
  <2>0. \A i : i \in ends <=> i \in 1 .. len /\ \E k \in 1 .. h : i = 2 * k
    BY <1>10, <1>11
  <2> HIDE DEF ends
  <2>1. \A i \in ends : i \in Nat /\ i <= 2 * h
    <3>1. \A i \in ends : i \in Nat /\ \E k \in 1 .. h : i = 2 * k
      BY <1>1, <2>0
    <3> QED BY <1>8, <3>1
  <2>2. CASE h = 0
    <3>1. ends = {}
      BY <2>0, <2>2
    <3> QED BY <2>2, <3>1 DEF Complete, ends
  <2>3. CASE h # 0
    <3>1. 2 * h \in ends
      <4>1. 2 * h \in 1 .. len /\ h \in 1 .. h
        BY <1>1, <1>8, <2>3
      <4> QED BY <2>0, <4>1
    <3>2. Max(ends) = 2 * h
      <4>1. 2 * h \in ends /\ \A y \in ends : 2 * h >= y
        BY <1>8, <2>1, <3>1
      <4>2. ASSUME NEW x \in ends, \A y \in ends : x >= y PROVE x = 2 * h
        <5>1. x \in Nat /\ x <= 2 * h /\ x >= 2 * h /\ h \in Nat
          BY <1>8, <2>1, <3>1, <4>2
        <5> QED BY <5>1
      <4> QED BY <4>1, <4>2 DEF Max
    <3> QED BY <3>1, <3>2 DEF Complete, ends
  <2> QED BY <2>2, <2>3
<1>13. FramesIn(b) = [k \in 1 .. h |-> on[2 * k - 1]]
  <2>1. h \in Nat
    BY <1>8
  <2>2. \A k \in 1 .. h : 2 * k - 1 \in 1 .. len /\ 2 * k \in 1 .. len /\ k \in 1 .. r
    BY <1>1, <1>8
  <2>3. \A k \in 1 .. h : b[2 * k - 1] = on[2 * k - 1] /\ b[2 * k] = on[2 * k]
    BY <1>6, <2>2
  <2>4. \A k \in 1 .. h : b[2 * k - 1] # Boundary /\ b[2 * k] = Boundary
    BY <1>7, <2>2, <2>3
  <2>5. FramesIn(b) = AtOdds(b, h)
    BY <1>12, <2>1, <2>4, FramesAtOdds
  <2> QED BY <2>3, <2>5 DEF AtOdds
<1>14. /\ Rest(b) \in Seq(Entries) /\ Len(Rest(b)) = len - 2 * h
       /\ \A i \in 1 .. len - 2 * h : Rest(b)[i] = on[2 * h + i]
  <2>1. PICK a \in Nat : a = 2 * h
    BY <1>8
  <2>2. Rest(b) = SubSeq(b, a + 1, Len(b)) /\ a <= Len(b)
    <3>1. Rest(b) = SubSeq(b, a + 1, Len(b))
      BY <1>12, <2>1 DEF Rest
    <3>2. a <= len /\ Len(b) = len
      BY <1>1, <1>5, <1>8, <2>1
    <3> QED BY <3>1, <3>2
  <2>3. /\ Rest(b) \in Seq(Entries) /\ Len(Rest(b)) = Len(b) - a
        /\ \A i \in 1 .. Len(b) - a : Rest(b)[i] = b[a + i]
    <3>1. PICK sub : sub = SubSeq(b, a + 1, Len(b))
      OBVIOUS
    <3>2. sub \in Seq(Entries) /\ Len(sub) = Len(b) - a /\ \A i \in 1 .. Len(b) - a : sub[i] = b[a + i]
      BY <1>5, <2>2, <3>1, Remainder
    <3> QED BY <2>2, <3>1, <3>2
  <2>4. \A i \in 1 .. len - a : a + i \in 1 .. len
    BY <1>1
  <2> QED BY <1>5, <1>6, <2>1, <2>3, <2>4
<1> DEFINE rest == Rest(b)
           left == rest \o kept
<1>15. /\ left \in Seq(Entries) /\ Len(left) = Len(rest) + Len(kept)
       /\ \A i \in 1 .. Len(rest) + Len(kept) : left[i] =
            IF i <= Len(rest) THEN rest[i] ELSE kept[i - Len(rest)]
  <2>1. rest \in Seq(Entries) /\ kept \in Seq(Entries)
    BY <1>3, <1>14
  <2> HIDE DEF rest
  <2> QED BY <2>1, ConcatProperties
<1> HIDE DEF rest
<1>16. Len(left) = 2 * (r - h)
  <2>1. Len(rest) = len - 2 * h /\ Len(on) = 2 * r
    BY <1>7, <1>14 DEF rest
  <2>2. Len(left) = (len - 2 * h) + (Len(wire) - n)
    BY <1>3, <1>15, <2>1
  <2>3. Len(buffer) + Len(wire) = 2 * r
    BY <1>4, <2>1
  <2>4. len = Len(buffer) + n /\ h \in Nat /\ r \in Nat
    BY <1>8 DEF len
  <2>5. PICK lb : lb = Len(buffer)
    OBVIOUS
  <2>6. PICK lw : lw = Len(wire)
    OBVIOUS
  <2>7. lb \in Nat /\ lw \in Nat /\ lb + lw = 2 * r
    BY <1>1, <2>3, <2>5, <2>6
  <2>8. ((lb + n) - 2 * h) + (lw - n) = 2 * (r - h)
    BY <1>1, <2>4, <2>7, Leftover
  <2> HIDE DEF left
  <2> QED BY <2>2, <2>4, <2>5, <2>6, <2>8
<1>17. ASSUME NEW i \in 1 .. 2 * (r - h) PROVE left[i] = on[2 * h + i]
  <2>0. i \in 1 .. Len(rest) + Len(kept) /\ Len(rest) = len - 2 * h
    BY <1>14, <1>15, <1>16 DEF rest
  <2>1. CASE i <= Len(rest)
    <3>1. i \in 1 .. len - 2 * h
      BY <1>1, <1>8, <2>0, <2>1
    <3> QED BY <1>14, <1>15, <2>0, <2>1, <3>1 DEF rest
  <2>2. CASE ~(i <= Len(rest))
    <3>1. i - Len(rest) \in 1 .. Len(wire) - n
      BY <1>1, <1>3, <1>8, <2>0, <2>2
    <3>2. left[i] = wire[n + (i - Len(rest))]
      BY <1>3, <1>15, <2>0, <2>2, <3>1
    <3>3. 2 * h + i \in 1 .. Len(on) /\ ~(2 * h + i <= Len(buffer))
          /\ 2 * h + i - Len(buffer) = n + (i - Len(rest))
      <4>1. len = Len(buffer) + n /\ i \in Nat /\ h \in Nat /\ r \in Nat /\ i <= 2 * (r - h) /\ 1 <= i
        BY <1>8 DEF len
      <4>2. Len(on) = 2 * r /\ Len(rest) = len - 2 * h /\ i > len - 2 * h
        BY <1>1, <1>7, <1>8, <2>0, <2>2
      <4> QED BY SMTT(30), <1>1, <4>1, <4>2
    <3> QED BY SMTT(30), <1>4, <3>2, <3>3
  <2> QED BY <2>1, <2>2
<1>18. Len(rest) <= 1
  BY <1>1, <1>8, <1>14 DEF rest
<1>19. Split(on, r, b, kept, h)
  BY <1>3, <1>5, <1>13, <1>14, <1>15, <1>16, <1>17, <1>18 DEF Split, AtOdds, rest
<1> QED BY <1>8, <1>19 DEF on, kept

\* The words of frames of which the first d are deltas.
FirstWords(frames, d) == [k \in 1 .. d |-> frames[k].text[1]]
LEMMA WordsRead ==
    ASSUME NEW h \in Nat, NEW d \in 0 .. h, NEW frames, DOMAIN frames = 1 .. h,
           \A k \in 1 .. h : IsDelta(frames[k]) <=> k <= d
    PROVE  WordsOf(frames) = FirstWords(frames, d)
<1> DEFINE g == [k \in 1 .. d |-> k]
           P == {i \in DOMAIN frames : IsDelta(frames[i])}
<1>1. d \in Nat
  OBVIOUS
<1>2. P = 1 .. d
  BY <1>1
<1>3. Enumerates(g, d, P)
  <2>1. g \in [1 .. d -> P] /\ P = {g[k] : k \in 1 .. d}
    BY <1>2
  <2>2. \A i, j \in 1 .. d : i < j => g[i] < g[j]
    OBVIOUS
  <2> QED BY <2>1, <2>2 DEF Enumerates
<1>4. P \in SUBSET Nat
  BY <1>2
<1>5. EntriesAt(frames, P) = [k \in 1 .. d |-> frames[g[k]]]
  <2> HIDE DEF P, g
  <2> QED BY <1>1, <1>3, <1>4, EntriesEnumerated
<1>6. DeltasOf(frames) = [k \in 1 .. d |-> frames[k]]
  BY <1>5 DEF DeltasOf
<1> QED BY <1>6 DEF WordsOf, FirstWords

(***************************************************************************)
(* One exchange and the server's side of it.                               *)
(***************************************************************************)
Exch == [pc : {"unsent", "fetching", "reading", "settled", "failed"},
         conversation_id : Conversation \cup {Null}, buffer : Seq(Entries),
         accumulated : Seq(Word), shown : BOOLEAN]
Serv == [pc : {"idle", "answering", "answered", "cut"},
         conversation : Conversation \cup {Null}, streamed : Seq(Word), answer : Text,
         wire : Seq(Entries)]

\* The frames the server has sent, by number.
Frames(s) == Len(s.streamed) + (IF s.pc = "answered" THEN 1 ELSE 0)
FrameOf(m, s, k) ==
    IF k <= Len(s.streamed) THEN Delta(<<m, k>>) ELSE Done(s.conversation, s.answer)
WordCount(s, c) == IF c <= Len(s.streamed) THEN c ELSE Len(s.streamed)

\* The page has handled c frames, and the others are in its buffer and on the wire.
Handled(m, e, s, cid, c) ==
    /\ c \in 0 .. Frames(s)
    /\ Framed(e.buffer \o s.wire, Frames(s) - c)
    /\ \A k \in 1 .. Frames(s) - c : (e.buffer \o s.wire)[2 * k - 1] = FrameOf(m, s, c + k)
    /\ Len(e.accumulated) = WordCount(s, c)
    /\ \A i \in 1 .. WordCount(s, c) : e.accumulated[i] = <<m, i>>
    /\ e.shown <=> c > 0
    /\ c > Len(s.streamed) => cid # Null

Idle(e, s) ==
    /\ s.pc = "idle" /\ s.conversation = Null /\ s.streamed = <<>> /\ s.wire = <<>>
    /\ e.buffer = <<>> /\ e.accumulated = <<>> /\ ~e.shown

\* What the stages of the two sides have to do with each other.
Paired(e, s) ==
    /\ e.pc = "reading" => s.pc \in {"answering", "answered"}
    /\ e.pc = "settled" => s.pc = "answered" /\ s.wire = <<>>
    /\ e.pc = "failed" => s.pc = "cut"
    /\ e.pc \in {"unsent", "fetching"} => Idle(e, s)

StreamOK(m, e, s, cid) ==
    /\ Len(s.streamed) <= MaxDeltas
    /\ \A i \in 1 .. Len(s.streamed) : s.streamed[i] = <<m, i>>
    /\ Paired(e, s)
    /\ s.pc \in {"answering", "answered"} =>
        /\ s.conversation \in Conversation
        /\ Len(e.buffer) <= 1
        /\ \E c \in Nat : Handled(m, e, s, cid, c)

OneMore(more, on, r, f) ==
    /\ Framed(more, r + 1)
    /\ \A k \in 1 .. r : more[2 * k - 1] = on[2 * k - 1]
    /\ more[2 * (r + 1) - 1] = f

\* A frame sent, with its boundary, is the last one on the way.
LEMMA FrameSent ==
    ASSUME NEW buffer \in Seq(Entries), NEW wire \in Seq(Entries), NEW r \in Nat,
           Framed(buffer \o wire, r), NEW f \in Frame
    PROVE  /\ wire \o <<f, Boundary>> \in Seq(Entries)
           /\ OneMore(buffer \o (wire \o <<f, Boundary>>), buffer \o wire, r, f)
<1> DEFINE on == buffer \o wire
           new == <<f, Boundary>>
           more == buffer \o (wire \o new)
<1>1. f # Boundary /\ f \in Entries /\ Boundary \in Entries
  BY WidgetAssumption DEF Entries
<1>2. new \in Seq(Entries) /\ Len(new) = 2 /\ new[1] = f /\ new[2] = Boundary
  BY <1>1
<1>3. on \in Seq(Entries) /\ wire \o new \in Seq(Entries)
  BY <1>2, ConcatProperties
<1>4. more = on \o new
  BY <1>2, ConcatAssociative
<1>5. Len(on) = 2 * r /\ \A k \in 1 .. r : on[2 * k - 1] # Boundary /\ on[2 * k] = Boundary
  BY DEF Framed
<1> HIDE DEF on, new
<1>6. /\ on \o new \in Seq(Entries) /\ Len(on \o new) = Len(on) + 2
      /\ \A i \in 1 .. Len(on) + 2 :
            (on \o new)[i] = IF i <= Len(on) THEN on[i] ELSE new[i - Len(on)]
  <2>1. Len(on \o new) = Len(on) + Len(new)
    BY <1>2, <1>3, ConcatProperties
  <2>2. \A i \in 1 .. Len(on) + Len(new) :
            (on \o new)[i] = IF i <= Len(on) THEN on[i] ELSE new[i - Len(on)]
    BY <1>2, <1>3, ConcatProperties
  <2> QED BY <1>2, <1>3, <2>1, <2>2, ConcatProperties
<1> DEFINE sent == on \o new
<1> HIDE DEF sent
<1>7. /\ sent \in Seq(Entries) /\ Len(sent) = 2 * r + 2
      /\ \A i \in 1 .. 2 * r + 2 : sent[i] = IF i <= 2 * r THEN on[i] ELSE new[i - 2 * r]
  BY <1>5, <1>6 DEF sent
<1>8. sent[2 * r + 1] = f /\ sent[2 * r + 2] = Boundary
  <2>1. sent[2 * r + 1] = new[(2 * r + 1) - 2 * r] /\ sent[2 * r + 2] = new[(2 * r + 2) - 2 * r]
    BY <1>7
  <2>2. (2 * r + 1) - 2 * r = 1 /\ (2 * r + 2) - 2 * r = 2
    OBVIOUS
  <2> QED BY <1>2, <2>1, <2>2
<1>9. \A k \in 1 .. r : sent[2 * k - 1] = on[2 * k - 1] /\ sent[2 * k] = on[2 * k]
  <2> TAKE k \in 1 .. r
  <2>1. /\ 2 * k - 1 \in 1 .. 2 * r + 2 /\ 2 * k - 1 <= 2 * r
        /\ 2 * k \in 1 .. 2 * r + 2 /\ 2 * k <= 2 * r
    OBVIOUS
  <2> QED BY <1>7, <2>1
<1>10. Framed(sent, r + 1)
  <2>1. \A k \in 1 .. r + 1 : k \in 1 .. r \/ k = r + 1
    OBVIOUS
  <2>2. 2 * (r + 1) - 1 = 2 * r + 1 /\ 2 * (r + 1) = 2 * r + 2
    OBVIOUS
  <2>3. \A k \in 1 .. r + 1 : sent[2 * k - 1] # Boundary /\ sent[2 * k] = Boundary
    BY <1>1, <1>5, <1>8, <1>9, <2>1, <2>2
  <2> QED BY <1>7, <2>2, <2>3 DEF Framed
<1>11. 2 * (r + 1) - 1 = 2 * r + 1
  OBVIOUS
<1>12. OneMore(sent, on, r, f)
  BY <1>8, <1>9, <1>10, <1>11 DEF OneMore
<1> QED BY <1>3, <1>4, <1>12 DEF sent, on, new

\* What the exchange and the server do in a step, one lemma per action.
LEMMA AcceptStream ==
    ASSUME NEW m, NEW e \in Exch, NEW s \in Serv, NEW cid, StreamOK(m, e, s, cid),
           e.pc = "fetching", NEW conversation \in Conversation
    PROVE  StreamOK(m, [e EXCEPT !.pc = "reading"],
                    [s EXCEPT !.pc = "answering", !.conversation = conversation], cid)
<1> DEFINE x == [e EXCEPT !.pc = "reading"]
           y == [s EXCEPT !.pc = "answering", !.conversation = conversation]
<1>1. /\ x.pc = "reading" /\ x.buffer = <<>> /\ x.accumulated = <<>> /\ ~x.shown
      /\ y.pc = "answering" /\ y.conversation = conversation /\ y.streamed = <<>> /\ y.wire = <<>>
  BY DEF StreamOK, Paired, Idle, Exch, Serv
<1> HIDE DEF x, y
<1>2. Framed(x.buffer \o y.wire, 0)
  <2>1. <<>> \in Seq(Entries) /\ <<>> \o <<>> = <<>> /\ Len(<<>>) = 0
    OBVIOUS
  <2> QED BY <1>1, <2>1 DEF Framed
<1>3. Handled(m, x, y, cid, 0)
  BY <1>1, <1>2 DEF Handled, Frames, WordCount
<1> QED BY <1>1, <1>3, WidgetAssumption DEF StreamOK, Paired, x, y

LEMMA SendDeltaStream ==
    ASSUME NEW m \in Message, NEW e \in Exch, NEW s \in Serv, NEW cid, StreamOK(m, e, s, cid),
           s.pc = "answering", Len(s.streamed) < MaxDeltas
    PROVE  LET w == <<m, Len(s.streamed) + 1>>
               y == [s EXCEPT !.streamed = Append(s.streamed, w), !.wire = s.wire \o <<Delta(w), Boundary>>]
           IN  y \in Serv /\ StreamOK(m, e, y, cid)
<1> DEFINE w == <<m, Len(s.streamed) + 1>>
           y == [s EXCEPT !.streamed = Append(s.streamed, w), !.wire = s.wire \o <<Delta(w), Boundary>>]
<1>1. PICK k \in Nat : k = Len(s.streamed)
  BY LenProperties DEF Serv
<1>2. w \in Word /\ Delta(w) \in Frame
  <2>1. w \in Word
    BY <1>1, WidgetAssumption DEF Word
  <2>2. <<w>> \in Text
    BY <2>1 DEF Text
  <2> QED BY <2>1, <2>2 DEF Delta, Frame
<1>3. PICK c \in Nat : Handled(m, e, s, cid, c)
  BY DEF StreamOK
<1>4. c <= k /\ Frames(s) = k
  BY <1>1, <1>3 DEF Handled, Frames
<1>5. /\ e.buffer \in Seq(Entries) /\ s.wire \in Seq(Entries) /\ k - c \in Nat
      /\ Framed(e.buffer \o s.wire, k - c)
  BY <1>3, <1>4 DEF Handled, Exch, Serv
<1>6. /\ y.pc = "answering" /\ y.conversation = s.conversation /\ y.streamed = Append(s.streamed, w)
      /\ y.wire = s.wire \o <<Delta(w), Boundary>> /\ y.answer = s.answer
  BY DEF Serv
<1>0. w = <<m, k + 1>>
  BY <1>1
<1> DEFINE with(streamed, wire) == [s EXCEPT !.streamed = streamed, !.wire = wire]
<1>w. \A a \in Seq(Word), b \in Seq(Entries) : with(a, b) \in Serv
  BY DEF Serv
<1>y. y = with(Append(s.streamed, w), s.wire \o <<Delta(w), Boundary>>)
  OBVIOUS
<1> HIDE DEF with
<1> HIDE DEF w, y
<1>7. /\ y.streamed \in Seq(Word) /\ Len(y.streamed) = k + 1
      /\ y.streamed[k + 1] = w /\ \A i \in 1 .. k : y.streamed[i] = s.streamed[i]
  BY <1>1, <1>2, <1>6, AppendProperties DEF Serv
<1>8. PICK on : on = e.buffer \o s.wire
  OBVIOUS
<1>9. PICK more : more = e.buffer \o y.wire
  OBVIOUS
<1>10. /\ y.wire \in Seq(Entries) /\ Framed(more, (k - c) + 1)
       /\ \A i \in 1 .. k - c : more[2 * i - 1] = on[2 * i - 1]
       /\ more[2 * ((k - c) + 1) - 1] = Delta(w)
  <2>1. PICK r \in Nat : r = k - c
    BY <1>5
  <2>2. PICK f \in Frame : f = Delta(w)
    BY <1>2
  <2>3. y.wire = s.wire \o <<f, Boundary>> /\ Framed(e.buffer \o s.wire, r)
    BY <1>5, <1>6, <2>1, <2>2
  <2>4. /\ y.wire \in Seq(Entries) /\ Framed(more, r + 1)
        /\ \A i \in 1 .. r : more[2 * i - 1] = on[2 * i - 1]
        /\ more[2 * (r + 1) - 1] = f
    <3> DEFINE new == s.wire \o <<f, Boundary>>
    <3>1. new \in Seq(Entries) /\ OneMore(e.buffer \o new, e.buffer \o s.wire, r, f)
      BY <1>5, <2>3, FrameSent
    <3>2. y.wire = new
      BY <2>3
    <3> HIDE DEF new
    <3> QED BY <1>8, <1>9, <3>1, <3>2 DEF OneMore
  <2> QED BY <2>1, <2>2, <2>4
<1>11. y \in Serv
  BY <1>6, <1>7, <1>10, <1>w, <1>y
<1>12. Handled(m, e, y, cid, c)
  <2>1. Frames(y) = k + 1 /\ (k + 1) - c = (k - c) + 1 /\ c \in 0 .. k + 1
    BY <1>4, <1>6, <1>7 DEF Frames
  <2>2. ASSUME NEW i \in 1 .. (k - c) + 1 PROVE more[2 * i - 1] = FrameOf(m, y, c + i)
    <3>1. CASE i = (k - c) + 1
      <4>1. c + i = k + 1
        BY <1>4, <3>1
      <4>2. more[2 * i - 1] = Delta(w)
        BY <1>10, <3>1
      <4>3. w = <<m, k + 1>>
        BY <1>0, <1>1
      <4>4. FrameOf(m, y, k + 1) = Delta(<<m, k + 1>>)
        BY <1>7 DEF FrameOf
      <4> QED BY <4>1, <4>2, <4>3, <4>4
    <3>2. CASE i # (k - c) + 1
      <4>1. i \in 1 .. k - c /\ c + i <= k /\ c + i <= k + 1
        BY <1>4, <3>2
      <4>2. on[2 * i - 1] = Delta(<<m, c + i>>)
        BY <1>1, <1>3, <1>4, <1>8, <4>1 DEF Handled, FrameOf
      <4> QED BY <1>7, <1>10, <4>1, <4>2 DEF FrameOf
    <3> QED BY <3>1, <3>2
  <2>3. WordCount(y, c) = WordCount(s, c) /\ ~(c > Len(y.streamed))
    BY <1>1, <1>4, <1>7 DEF WordCount
  <2> QED BY <1>3, <1>9, <1>10, <2>1, <2>2, <2>3 DEF Handled
<1>13. \A i \in 1 .. k + 1 : y.streamed[i] = <<m, i>>
  <2>1. \A i \in 1 .. k + 1 : i \in 1 .. k \/ i = k + 1
    OBVIOUS
  <2> QED BY <1>0, <1>1, <1>7, <2>1 DEF StreamOK
<1>14. Paired(e, y)
  BY <1>6 DEF StreamOK, Paired, Idle
<1>15. k + 1 <= MaxDeltas
  BY <1>1, WidgetAssumption
<1> QED BY <1>3, <1>6, <1>7, <1>11, <1>12, <1>13, <1>14, <1>15 DEF StreamOK, y, w

LEMMA SendDoneStream ==
    ASSUME NEW m \in Message, NEW e \in Exch, NEW s \in Serv, NEW cid, StreamOK(m, e, s, cid),
           s.pc = "answering", NEW text \in Text
    PROVE  LET y == [s EXCEPT !.pc = "answered", !.answer = text,
                              !.wire = s.wire \o <<Done(s.conversation, text), Boundary>>]
           IN  y \in Serv /\ StreamOK(m, e, y, cid)
<1> DEFINE y == [s EXCEPT !.pc = "answered", !.answer = text,
                          !.wire = s.wire \o <<Done(s.conversation, text), Boundary>>]
<1>1. PICK k \in Nat : k = Len(s.streamed)
  BY LenProperties DEF Serv
<1>2. PICK f : f = Done(s.conversation, text)
  OBVIOUS
<1>3. f \in Frame
  BY <1>2 DEF Done, Frame, Serv
<1>4. PICK c \in Nat : Handled(m, e, s, cid, c)
  BY DEF StreamOK
<1>5. c <= k /\ Frames(s) = k
  BY <1>1, <1>4 DEF Handled, Frames
<1>6. /\ e.buffer \in Seq(Entries) /\ s.wire \in Seq(Entries) /\ k - c \in Nat
      /\ Framed(e.buffer \o s.wire, k - c)
  BY <1>4, <1>5 DEF Handled, Exch, Serv
<1>7. /\ y.pc = "answered" /\ y.conversation = s.conversation /\ y.streamed = s.streamed
      /\ y.wire = s.wire \o <<f, Boundary>> /\ y.answer = text
  BY <1>2 DEF Serv
<1> DEFINE with(wire) == [s EXCEPT !.pc = "answered", !.answer = text, !.wire = wire]
<1>w. \A b \in Seq(Entries) : with(b) \in Serv
  BY DEF Serv
<1>y. y = with(s.wire \o <<f, Boundary>>)
  BY <1>2
<1> HIDE DEF with
<1> HIDE DEF y
<1>8. PICK on : on = e.buffer \o s.wire
  OBVIOUS
<1>9. PICK more : more = e.buffer \o y.wire
  OBVIOUS
<1>10. /\ y.wire \in Seq(Entries) /\ Framed(more, (k - c) + 1)
       /\ \A i \in 1 .. k - c : more[2 * i - 1] = on[2 * i - 1]
       /\ more[2 * ((k - c) + 1) - 1] = f
  <2>1. PICK r \in Nat : r = k - c
    BY <1>6
  <2>2. Framed(e.buffer \o s.wire, r)
    BY <1>6, <2>1
  <2>3. /\ y.wire \in Seq(Entries) /\ Framed(more, r + 1)
        /\ \A i \in 1 .. r : more[2 * i - 1] = on[2 * i - 1]
        /\ more[2 * (r + 1) - 1] = f
    <3> DEFINE new == s.wire \o <<f, Boundary>>
    <3>1. new \in Seq(Entries) /\ OneMore(e.buffer \o new, e.buffer \o s.wire, r, f)
      BY <1>3, <1>6, <2>2, FrameSent
    <3>2. y.wire = new
      BY <1>7
    <3> HIDE DEF new
    <3> QED BY <1>8, <1>9, <3>1, <3>2 DEF OneMore
  <2> QED BY <2>1, <2>3
<1>11. y \in Serv
  BY <1>7, <1>10, <1>w, <1>y
<1>12. Handled(m, e, y, cid, c)
  <2>1. Frames(y) = k + 1 /\ (k + 1) - c = (k - c) + 1 /\ c \in 0 .. k + 1
    BY <1>1, <1>5, <1>7 DEF Frames
  <2>2. ASSUME NEW i \in 1 .. (k - c) + 1 PROVE more[2 * i - 1] = FrameOf(m, y, c + i)
    <3>1. CASE i = (k - c) + 1
      <4>1. ~(c + i <= k)
        BY <1>5, <3>1
      <4> QED BY <1>1, <1>2, <1>7, <1>10, <3>1, <4>1 DEF FrameOf
    <3>2. CASE i # (k - c) + 1
      <4>1. i \in 1 .. k - c /\ c + i <= k
        BY <1>5, <3>2
      <4>2. on[2 * i - 1] = Delta(<<m, c + i>>)
        BY <1>1, <1>4, <1>5, <1>8, <4>1 DEF Handled, FrameOf
      <4> QED BY <1>1, <1>7, <1>10, <4>1, <4>2 DEF FrameOf
    <3> QED BY <3>1, <3>2
  <2>3. WordCount(y, c) = WordCount(s, c) /\ ~(c > Len(y.streamed))
    BY <1>1, <1>5, <1>7 DEF WordCount
  <2> QED BY <1>4, <1>9, <1>10, <2>1, <2>2, <2>3 DEF Handled
<1>13. Paired(e, y)
  BY <1>7 DEF StreamOK, Paired, Idle
<1> QED BY <1>4, <1>7, <1>11, <1>12, <1>13 DEF StreamOK, y

LEMMA ReadEndStream ==
    ASSUME NEW m, NEW e \in Exch, NEW s \in Serv, NEW cid, StreamOK(m, e, s, cid),
           e.pc = "reading", s.pc = "answered", s.wire = <<>>
    PROVE  StreamOK(m, [e EXCEPT !.pc = "settled"], s, cid)
<1> DEFINE x == [e EXCEPT !.pc = "settled"]
<1>1. /\ x.pc = "settled" /\ x.buffer = e.buffer /\ x.accumulated = e.accumulated
      /\ x.shown = e.shown
  BY DEF Exch
<1> HIDE DEF x
<1>2. \A c \in Nat : Handled(m, e, s, cid, c) => Handled(m, x, s, cid, c)
  BY <1>1 DEF Handled
<1> QED BY <1>1, <1>2 DEF StreamOK, Paired, x

LEMMA ThrowStream ==
    ASSUME NEW m, NEW e \in Exch, NEW s \in Serv, NEW cid, StreamOK(m, e, s, cid)
    PROVE  StreamOK(m, [e EXCEPT !.pc = "failed"], [s EXCEPT !.pc = "cut", !.wire = <<>>], cid)
BY DEF StreamOK, Paired, Exch, Serv

\* With nothing left on the wire of an answer, the page has handled all of it.
LEMMA AllHandled ==
    ASSUME NEW m, NEW e \in Exch, NEW s \in Serv, NEW cid, StreamOK(m, e, s, cid),
           s.pc = "answered", s.wire = <<>>
    PROVE  e.shown /\ e.accumulated = s.streamed /\ cid # Null
<1>1. PICK k \in Nat : k = Len(s.streamed)
  BY LenProperties DEF Serv
<1>2. PICK c \in Nat : Handled(m, e, s, cid, c)
  BY DEF StreamOK
<1>3. Frames(s) = k + 1 /\ c \in 0 .. k + 1
  BY <1>1, <1>2 DEF Handled, Frames
<1>4. e.buffer \in Seq(Entries) /\ s.wire \in Seq(Entries) /\ Len(e.buffer) \in Nat /\ Len(s.wire) = 0
  BY LenProperties DEF Exch, Serv
<1>5. Len(e.buffer) = 2 * ((k + 1) - c) /\ Len(e.buffer) <= 1
  <2>1. Len(e.buffer \o s.wire) = 2 * ((k + 1) - c)
    BY <1>2, <1>3 DEF Handled, Framed
  <2>2. Len(e.buffer \o s.wire) = Len(e.buffer) + Len(s.wire)
    BY <1>4, ConcatProperties
  <2> QED BY <1>4, <2>1, <2>2 DEF StreamOK
<1>6. c = k + 1
  BY <1>3, <1>5
<1>7. e.shown /\ cid # Null /\ Len(e.accumulated) = k /\ \A i \in 1 .. k : e.accumulated[i] = <<m, i>>
  <2>1. WordCount(s, c) = k /\ c > Len(s.streamed) /\ c > 0
    BY <1>1, <1>6 DEF WordCount
  <2> QED BY <1>2, <2>1 DEF Handled
<1>8. \A i \in 1 .. k : s.streamed[i] = <<m, i>>
  BY <1>1 DEF StreamOK
<1>9. e.accumulated = s.streamed
  <2>1. e.accumulated \in Seq(Word) /\ s.streamed \in Seq(Word)
    BY DEF Exch, Serv
  <2>2. /\ Len(e.accumulated) = Len(s.streamed)
        /\ \A i \in 1 .. Len(e.accumulated) : e.accumulated[i] = s.streamed[i]
    BY <1>1, <1>7, <1>8
  <2> QED BY <2>1, <2>2, SeqEqual
<1> QED BY <1>7, <1>9

\* A function from 1 to n is a sequence of words.
LEMMA WordList ==
    ASSUME NEW n \in Nat, NEW words \in [1 .. n -> Word]
    PROVE  words \in Seq(Word) /\ Len(words) = n
OBVIOUS

\* What a read hands to the page, from the exchange e and the wire of s.
BufferRead(e, s, n) == e.buffer \o SubSeq(s.wire, 1, n)
FramesRead(e, s, n) == FramesIn(BufferRead(e, s, n))
DoneRead(e, s, n) ==
    {FramesRead(e, s, n)[i] :
        i \in {j \in DOMAIN FramesRead(e, s, n) : IsDone(FramesRead(e, s, n)[j])}}
TextRead(e, s, n) == e.accumulated \o WordsOf(FramesRead(e, s, n))
Reader(e, s, n) ==
    [e EXCEPT !.buffer = Rest(BufferRead(e, s, n)), !.accumulated = TextRead(e, s, n),
              !.shown = e.shown \/ FramesRead(e, s, n) # <<>>]
Sender(s, n) == [s EXCEPT !.wire = SubSeq(s.wire, n + 1, Len(s.wire))]

\* A read handles the next frames, in order: their words follow those that came
\* before, and the done frame is the answer's.
LEMMA ReadStream ==
    ASSUME NEW m \in Message, NEW e \in Exch, NEW s \in Serv, NEW cid,
           StreamOK(m, e, s, cid), e.pc = "reading", NEW n \in DOMAIN s.wire
    PROVE  /\ Reader(e, s, n) \in Exch /\ Sender(s, n) \in Serv
           /\ FramesRead(e, s, n) = <<>> =>
                TextRead(e, s, n) = e.accumulated /\ DoneRead(e, s, n) = {}
           /\ DoneRead(e, s, n) # {} => DoneRead(e, s, n) = {Done(s.conversation, s.answer)}
           /\ s.conversation \in Conversation
           /\ \A id : (id = IF DoneRead(e, s, n) = {} THEN cid ELSE s.conversation) =>
                StreamOK(m, Reader(e, s, n), Sender(s, n), id)
<1> DEFINE K == Len(s.streamed)
           b == BufferRead(e, s, n)
           frames == FramesRead(e, s, n)
           acc == TextRead(e, s, n)
           done == DoneRead(e, s, n)
           x == Reader(e, s, n)
           y == Sender(s, n)
           kept == SubSeq(s.wire, n + 1, Len(s.wire))
           on == e.buffer \o s.wire
           left == Rest(b) \o kept
<1>1. /\ e.buffer \in Seq(Entries) /\ s.wire \in Seq(Entries) /\ K \in Nat
      /\ e.accumulated \in Seq(Word) /\ s.streamed \in Seq(Word) /\ n \in 1 .. Len(s.wire)
      /\ Len(e.accumulated) \in Nat
  BY LenProperties DEF Exch, Serv
<1>2. s.pc \in {"answering", "answered"} /\ Len(e.buffer) <= 1 /\ s.conversation \in Conversation
  BY DEF StreamOK, Paired
<1>3. PICK c \in Nat : Handled(m, e, s, cid, c)
  BY <1>2 DEF StreamOK
<1>4. PICK r \in Nat : r = Frames(s) - c /\ (Frames(s) = K \/ Frames(s) = K + 1) /\ c + r = Frames(s)
  <2>0. c \in 0 .. Frames(s)
    BY <1>3 DEF Handled
  <2>1. Frames(s) = K \/ Frames(s) = K + 1
    <3> HIDE DEF K
    <3>1. Frames(s) = K + (IF s.pc = "answered" THEN 1 ELSE 0) /\ K \in Nat
      BY <1>1 DEF Frames, K
    <3>2. CASE s.pc = "answered"
      BY <3>1, <3>2
    <3>3. CASE s.pc # "answered"
      BY <3>1, <3>3
    <3> QED BY <3>2, <3>3
  <2>2. Frames(s) \in Nat
    BY <1>1, <2>1
  <2> QED BY <2>0, <2>1, <2>2
<1>5. Framed(on, r) /\ \A k \in 1 .. r : on[2 * k - 1] = FrameOf(m, s, c + k)
  BY <1>3, <1>4 DEF Handled
<1>6. PICK h \in 0 .. r :
            /\ b \in Seq(Entries)
            /\ frames = [k \in 1 .. h |-> on[2 * k - 1]]
            /\ Rest(b) \in Seq(Entries) /\ Len(Rest(b)) <= 1
            /\ kept \in Seq(Entries)
            /\ left \in Seq(Entries) /\ Len(left) = 2 * (r - h)
            /\ \A i \in 1 .. 2 * (r - h) : left[i] = on[2 * h + i]
  <2>1. b = e.buffer \o SubSeq(s.wire, 1, n) /\ frames = FramesIn(b)
    BY DEF BufferRead, FramesRead
  <2>2. \E h \in 0 .. r : Split(on, r, b, kept, h)
    <3> HIDE DEF b
    <3> QED BY <1>1, <1>2, <1>5, <2>1, ReadSplits
  <2>3. PICK h \in 0 .. r : Split(on, r, b, kept, h)
    BY <2>2
  <2> HIDE DEF b, frames, on, kept
  <2>4. frames = [k \in 1 .. h |-> on[2 * k - 1]]
    BY <2>1, <2>3 DEF Split, AtOdds
  <2>5. /\ b \in Seq(Entries)
        /\ Rest(b) \in Seq(Entries) /\ Len(Rest(b)) <= 1
        /\ kept \in Seq(Entries)
        /\ left \in Seq(Entries) /\ Len(left) = 2 * (r - h)
        /\ \A i \in 1 .. 2 * (r - h) : left[i] = on[2 * h + i]
    BY <2>3 DEF Split
  <2> HIDE DEF left
  <2> QED BY <2>4, <2>5
<1>7. x.buffer = Rest(b) /\ x.accumulated = acc /\ x.pc = e.pc /\ (x.shown <=> e.shown \/ frames # <<>>)
  BY DEF Exch, Reader
<1>8. y.wire = kept /\ y.pc = s.pc /\ y.conversation = s.conversation /\ y.streamed = s.streamed
      /\ y.answer = s.answer
  BY DEF Serv, Sender
<1>9. (Rest(b) \in Seq(Entries) /\ acc \in Seq(Word)) => x \in Exch
  BY DEF Exch, Reader
<1>10. kept \in Seq(Entries) => y \in Serv
  BY DEF Serv, Sender
<1>11. done = {frames[i] : i \in {j \in DOMAIN frames : IsDone(frames[j])}}
  BY DEF DoneRead
<1>12. acc = e.accumulated \o WordsOf(frames)
  BY DEF TextRead
<1> HIDE DEF K, b, frames, acc, done, x, y, kept, on, left
<1>13. /\ h \in Nat /\ DOMAIN frames = 1 .. h
       /\ \A k \in 1 .. h : frames[k] = FrameOf(m, s, c + k)
  BY <1>5, <1>6
<1>14. \A k \in 1 .. h : /\ IsDelta(frames[k]) <=> c + k <= K
                         /\ IsDone(frames[k]) <=> c + k > K
                         /\ c + k <= K => frames[k] = Delta(<<m, c + k>>)
                         /\ c + k > K => frames[k] = Done(s.conversation, s.answer)
  <2> TAKE k \in 1 .. h
  <2>1. frames[k] = IF c + k <= K THEN Delta(<<m, c + k>>) ELSE Done(s.conversation, s.answer)
    BY <1>13 DEF FrameOf, K
  <2>2. frames[k] # Boundary
    <3>1. k \in 1 .. r
      BY <1>6
    <3> QED BY <1>5, <1>6, <1>13, <3>1 DEF Framed
  <2>3. (c + k <= K) \/ (c + k > K)
    BY <1>1, <1>13
  <2>4. ~((c + k <= K) /\ (c + k > K))
    BY <1>1, <1>13
  <2> QED BY <2>1, <2>2, <2>3, <2>4 DEF IsDelta, IsDone, IsFrame, Delta, Done
<1>15. PICK d \in 0 .. h : \A k \in 1 .. h : c + k <= K <=> k <= d
  <2>1. CASE c + h <= K
    <3>1. \A k \in 1 .. h : c + k <= K <=> k <= h
      BY <1>1, <1>13, <2>1
    <3> QED BY <1>13, <3>1
  <2>2. CASE ~(c + h <= K) /\ c <= K
    <3>1. K - c \in 0 .. h /\ \A k \in 1 .. h : c + k <= K <=> k <= K - c
      BY <1>1, <1>13, <2>2
    <3> QED BY <3>1
  <2>3. CASE ~(c <= K)
    <3>1. h = 0
      BY <1>1, <1>4, <1>6, <2>3
    <3> QED BY <3>1
  <2> QED BY <2>1, <2>2, <2>3
<1>d. d \in Nat /\ d <= h /\ \A k \in 1 .. d : k \in 1 .. h /\ c + k <= K
  <2>1. d \in Nat /\ d <= h
    BY <1>13
  <2>2. \A k \in 1 .. d : k \in 1 .. h /\ k <= d
    BY <1>13, <2>1
  <2> QED BY <1>15, <2>1, <2>2
<1>16. WordsOf(frames) = [k \in 1 .. d |-> <<m, c + k>>]
  <2>1. \A k \in 1 .. h : IsDelta(frames[k]) <=> k <= d
    BY <1>14, <1>15
  <2>2. WordsOf(frames) = FirstWords(frames, d)
    BY <1>13, <2>1, WordsRead
  <2>3. \A w : Delta(w).text[1] = w
    BY DEF Delta
  <2>4. \A k \in 1 .. d : frames[k].text[1] = <<m, c + k>>
    BY <1>14, <1>d, <2>3
  <2> QED BY <2>2, <2>4 DEF FirstWords
<1>17. /\ WordCount(s, c) \in Nat /\ WordCount(s, c + h) = WordCount(s, c) + d
       /\ d > 0 => WordCount(s, c) = c
  <2>0. /\ WordCount(s, c) = IF c <= K THEN c ELSE K
        /\ WordCount(s, c + h) = IF c + h <= K THEN c + h ELSE K
    BY DEF WordCount, K
  <2>1. (d < h => ~(c + (d + 1) <= K)) /\ (d > 0 => c + d <= K)
    <3>1. d < h => d + 1 \in 1 .. h /\ ~(d + 1 <= d)
      BY <1>13, <1>d
    <3>2. d > 0 => d \in 1 .. d
      BY <1>d
    <3> QED BY <1>15, <1>d, <3>1, <3>2
  <2>2. c <= K + 1 /\ c + h <= K + 1
    BY SMTT(30), <1>1, <1>4, <1>6
  <2>3. CASE d = h
    BY <1>1, <1>13, <2>0, <2>1, <2>2, <2>3
  <2>4. CASE d < h
    <3>1. c + d >= K
      BY <1>1, <1>13, <1>d, <2>1, <2>4
    <3>2. c <= K => c + d = K
      BY <1>1, <1>13, <1>d, <2>1, <2>4, <3>1
    <3>3. c <= K
      BY <1>1, <1>13, <1>d, <2>2, <2>4
    <3> QED BY <1>1, <1>13, <1>d, <2>0, <2>4, <3>2, <3>3
  <2> QED BY <1>13, <1>d, <2>3, <2>4
<1>18. \A k \in 1 .. d : <<m, c + k>> \in Word
  <2>1. K <= MaxDeltas
    BY DEF StreamOK, K
  <2>2. \A k \in 1 .. d : c + k \in 1 .. MaxDeltas
    BY SMTT(30), <1>1, <1>d, <2>1, WidgetAssumption
  <2> QED BY <2>2 DEF Word
<1>19. WordsOf(frames) \in Seq(Word) /\ Len(WordsOf(frames)) = d
  <2>1. [k \in 1 .. d |-> <<m, c + k>>] \in [1 .. d -> Word]
    BY <1>18
  <2> QED BY <1>16, <1>d, <2>1, WordList
<1>20. /\ acc \in Seq(Word) /\ Len(acc) = WordCount(s, c + h)
       /\ \A i \in 1 .. WordCount(s, c + h) : acc[i] = <<m, i>>
  <2>1. /\ acc \in Seq(Word) /\ Len(acc) = WordCount(s, c) + d
        /\ \A i \in 1 .. WordCount(s, c) + d : acc[i] =
             IF i <= WordCount(s, c) THEN e.accumulated[i] ELSE WordsOf(frames)[i - WordCount(s, c)]
    <3>1. Len(e.accumulated) = WordCount(s, c)
      BY <1>3 DEF Handled
    <3>2. PICK words \in Seq(Word) : words = WordsOf(frames)
      BY <1>19
    <3>3. /\ e.accumulated \o words \in Seq(Word)
          /\ Len(e.accumulated \o words) = Len(e.accumulated) + Len(words)
          /\ \A i \in 1 .. Len(e.accumulated) + Len(words) : (e.accumulated \o words)[i] =
                IF i <= Len(e.accumulated) THEN e.accumulated[i] ELSE words[i - Len(e.accumulated)]
      BY <1>1, ConcatProperties
    <3> QED BY <1>12, <1>19, <3>1, <3>2, <3>3
  <2>2. ASSUME NEW i \in 1 .. WordCount(s, c) + d PROVE acc[i] = <<m, i>>
    <3>1. CASE i <= WordCount(s, c)
      <4>1. i \in 1 .. WordCount(s, c)
        BY <1>17, <3>1
      <4> QED BY <1>3, <2>1, <3>1, <4>1 DEF Handled
    <3>2. CASE ~(i <= WordCount(s, c))
      <4>1. i - WordCount(s, c) \in 1 .. d /\ d > 0
        BY <1>17, <3>2
      <4>2. i - c \in 1 .. d /\ c + (i - c) = i /\ acc[i] = WordsOf(frames)[i - c]
        BY <1>17, <2>1, <3>2, <4>1
      <4> QED BY <1>16, <4>2
    <3> QED BY <3>1, <3>2
  <2> QED BY <1>17, <2>1, <2>2
<1>21. done # {} <=> c <= K /\ c + h > K
  <2>1. done # {} <=> \E k \in 1 .. h : c + k > K
    BY <1>11, <1>13, <1>14
  <2>2. (\E k \in 1 .. h : c + k > K) => c + h > K /\ c <= K
    <3>1. (\E k \in 1 .. h : c + k > K) => h # 0 /\ c + h > K
      BY <1>1, <1>13
    <3> QED BY SMTT(30), <1>1, <1>4, <1>6, <3>1
  <2>3. c <= K /\ c + h > K => h \in 1 .. h
    BY <1>1, <1>13
  <2> QED BY <2>1, <2>2, <2>3
<1>22. done # {} => done = {Done(s.conversation, s.answer)}
  BY <1>11, <1>13, <1>14
<1>23. frames = <<>> <=> h = 0
  BY <1>6, <1>13
<1>24. frames = <<>> => acc = e.accumulated /\ done = {}
  <2>1. SUFFICES ASSUME h = 0 PROVE acc = e.accumulated /\ done = {}
    BY <1>23
  <2>2. done = {}
    BY <1>1, <1>21, <2>1
  <2>3. WordCount(s, c + h) = WordCount(s, c)
    BY <2>1
  <2>4. Len(acc) = Len(e.accumulated) /\ \A i \in 1 .. Len(acc) : acc[i] = e.accumulated[i]
    BY <1>3, <1>20, <2>3 DEF Handled
  <2> QED BY <1>1, <1>20, <2>2, <2>4, SeqEqual
<1>25. ASSUME NEW id, id = IF done = {} THEN cid ELSE s.conversation
       PROVE  Handled(m, x, y, id, c + h)
  <2>1. Frames(y) = Frames(s) /\ Len(y.streamed) = K /\ WordCount(y, c + h) = WordCount(s, c + h)
    BY <1>8 DEF Frames, WordCount, K
  <2>2. c + h \in 0 .. Frames(s) /\ Frames(s) - (c + h) = r - h /\ r - h \in Nat
    <3>1. h <= r /\ Frames(s) = c + r /\ c + r \in Nat
      BY SMTT(30), <1>4, <1>6
    <3> QED BY <1>4, <1>13, <3>1
  <2>3. x.buffer \o y.wire = left
    BY <1>7, <1>8 DEF left
  <2>4. ASSUME NEW k \in 1 .. r - h
        PROVE  left[2 * k - 1] = FrameOf(m, s, (c + h) + k) /\ left[2 * k - 1] # Boundary
               /\ left[2 * k] = Boundary
    <3>1. /\ 2 * k - 1 \in 1 .. 2 * (r - h) /\ 2 * k \in 1 .. 2 * (r - h)
          /\ 2 * h + (2 * k - 1) = 2 * (h + k) - 1 /\ 2 * h + 2 * k = 2 * (h + k)
          /\ h + k \in 1 .. r /\ c + (h + k) = (c + h) + k
      BY <1>13, <2>2
    <3>2. left[2 * k - 1] = on[2 * (h + k) - 1] /\ left[2 * k] = on[2 * (h + k)]
      BY <1>6, <3>1
    <3>3. on[2 * (h + k) - 1] = FrameOf(m, s, c + (h + k))
          /\ on[2 * (h + k) - 1] # Boundary /\ on[2 * (h + k)] = Boundary
      BY <1>5, <3>1 DEF Framed
    <3> QED BY <3>1, <3>2, <3>3
  <2>5. Framed(left, r - h)
    BY <1>6, <2>4 DEF Framed
  <2>6. \A k : FrameOf(m, y, k) = FrameOf(m, s, k)
    BY <1>8 DEF FrameOf
  <2>7. x.shown <=> c + h > 0
    BY <1>3, <1>7, <1>13, <1>23 DEF Handled
  <2>8. c + h > K => id # Null
    <3>1. CASE done = {}
      <4>1. c + h > K => c > K
        BY <1>1, <1>13, <1>21, <3>1
      <4> QED BY <1>3, <1>25, <3>1, <4>1 DEF Handled, K
    <3>2. CASE done # {}
      BY <1>2, <1>25, <3>2, WidgetAssumption
    <3> QED BY <3>1, <3>2
  <2> QED BY <1>7, <1>20, <2>1, <2>2, <2>3, <2>4, <2>5, <2>6, <2>7, <2>8 DEF Handled
<1>26. Paired(x, y)
  BY <1>2, <1>7, <1>8 DEF Paired
<1>27. ASSUME NEW id, id = IF done = {} THEN cid ELSE s.conversation
       PROVE  StreamOK(m, x, y, id)
  <2>1. c + h \in Nat /\ Handled(m, x, y, id, c + h)
    BY <1>13, <1>25, <1>27
  <2>2. Len(x.buffer) <= 1
    BY <1>6, <1>7
  <2> QED BY <1>2, <1>8, <1>26, <2>1, <2>2 DEF StreamOK
<1> QED BY <1>2, <1>6, <1>9, <1>10, <1>20, <1>22, <1>24, <1>27 DEF frames, acc, done, x, y

(***************************************************************************)
(* The invariant, and that every action keeps it.                          *)
(***************************************************************************)
TypeInv ==
    /\ conversationId \in Conversation \cup {Null}
    /\ exchange \in [Message -> Exch]
    /\ messagesEl \in Seq(Elem)
    /\ server \in [Message -> Serv]

StreamInv == \A m \in Message : StreamOK(m, exchange[m], server[m], conversationId)

\* The element that stands for the exchange e, and its text once there is one.
KindOf(e) == IF e.pc = "failed" THEN "error" ELSE IF e.shown THEN "assistant" ELSE "typing"
Visible(m, e, els) ==
    /\ e.pc = "unsent" => Absent(els, m)
    /\ e.pc # "unsent" => \E text \in Text :
            /\ Holds(els, m, Element(KindOf(e), m, text))
            /\ e.pc # "failed" /\ e.shown /\ e.accumulated # <<>> => text = e.accumulated
TranscriptInv == \A m \in Message : Visible(m, exchange[m], messagesEl)

\* The id to send is that of a conversation the server has answered in.
JoinInv == conversationId # Null => \E n \in Message : server[n].conversation = conversationId

WidgetInv == TypeInv /\ StreamInv /\ TranscriptInv /\ JoinInv

LEMMA InvInit == Init => WidgetInv
<1> SUFFICES ASSUME Init PROVE WidgetInv
  OBVIOUS
<1>1. <<>> \in Seq(Elem) /\ <<>> \in Seq(Entries) /\ <<>> \in Seq(Word) /\ <<>> \in Text
      /\ Len(<<>>) = 0
  BY DEF Text
<1>2. TypeInv
  BY <1>1 DEF Init, TypeInv, Exch, Serv
<1>3. StreamInv
  BY <1>1, WidgetAssumption DEF Init, StreamInv, StreamOK, Paired, Idle
<1>4. TranscriptInv
  BY <1>1 DEF Init, TranscriptInv, Visible, Absent
<1>5. JoinInv
  BY DEF Init, JoinInv
<1> QED BY <1>2, <1>3, <1>4, <1>5 DEF WidgetInv

LEMMA SendStep ==
    ASSUME WidgetInv, NEW m \in Message, Send(m)
    PROVE  WidgetInv'
<1> DEFINE x == [exchange[m] EXCEPT !.pc = "fetching", !.conversation_id = conversationId]
           user == Element("user", m, <<>>)
           typing == Element("typing", m, <<>>)
<1>1. /\ exchange' = [exchange EXCEPT ![m] = x] /\ exchange[m].pc = "unsent"
      /\ messagesEl' = messagesEl \o <<user, typing>>
      /\ conversationId' = conversationId /\ server' = server
  BY DEF Send
<1>2. TypeInv /\ StreamInv /\ TranscriptInv /\ JoinInv /\ exchange[m] \in Exch /\ messagesEl \in Seq(Elem)
  BY DEF WidgetInv, TypeInv
<1>3. /\ x \in Exch /\ x.pc = "fetching" /\ x.buffer = exchange[m].buffer
      /\ x.accumulated = exchange[m].accumulated /\ x.shown = exchange[m].shown
  BY <1>2 DEF TypeInv, Exch
<1>4. user \in Elem /\ typing \in Elem /\ user.of = m /\ typing.of = m /\ user.kind = "user"
      /\ <<>> \in Text
  BY DEF Element, Elem, Text
<1> HIDE DEF x, user, typing
<1>5. /\ exchange'[m] = x /\ exchange' \in [Message -> Exch]
      /\ \A n \in Message : n # m => exchange'[n] = exchange[n]
  BY <1>1, <1>2, <1>3 DEF TypeInv
<1>6. messagesEl' = Append(Append(messagesEl, user), typing)
  BY <1>1, <1>2, <1>4
<1>7. Append(messagesEl, user) \in Seq(Elem) /\ messagesEl' \in Seq(Elem)
  BY <1>2, <1>4, <1>6, AppendProperties
<1>8. TypeInv'
  BY <1>1, <1>2, <1>5, <1>7 DEF TypeInv
<1>9. StreamInv'
  <2>1. StreamOK(m, x, server[m], conversationId)
    BY <1>1, <1>2, <1>3 DEF StreamInv, StreamOK, Paired, Idle
  <2> QED BY <1>1, <1>2, <1>5, <2>1 DEF StreamInv
<1>10. ASSUME NEW n \in Message, n # m PROVE Visible(n, exchange[n], messagesEl')
  <2>1. user.of # n /\ typing.of # n
    BY <1>4, <1>10
  <2>2. /\ Absent(messagesEl, n) => Absent(messagesEl', n)
        /\ \A el : Holds(messagesEl, n, el) => Holds(messagesEl', n, el)
    BY <1>2, <1>4, <1>6, <1>7, <2>1, OthersAppended
  <2> QED BY <1>2, <2>2 DEF TranscriptInv, Visible
<1>11. Visible(m, x, messagesEl')
  <2>1. Absent(messagesEl, m)
    BY <1>1, <1>2 DEF TranscriptInv, Visible
  <2>2. PICK k \in Nat : k = Len(messagesEl)
    BY <1>2, LenProperties
  <2>3. /\ Len(messagesEl') = k + 2 /\ messagesEl'[k + 1] = user /\ messagesEl'[k + 2] = typing
        /\ \A i \in 1 .. k : messagesEl'[i] = messagesEl[i]
    <3>1. PICK els \in Seq(Elem) : els = Append(messagesEl, user)
      BY <1>7
    <3>2. /\ Len(els) = k + 1 /\ els[k + 1] = user
          /\ \A i \in 1 .. k : els[i] = messagesEl[i]
      BY <1>2, <1>4, <2>2, <3>1, AppendProperties
    <3>3. /\ Len(messagesEl') = Len(els) + 1 /\ messagesEl'[Len(els) + 1] = typing
          /\ \A i \in 1 .. Len(els) : messagesEl'[i] = els[i]
      BY <1>4, <1>6, <3>1, AppendProperties
    <3> QED BY <2>2, <3>2, <3>3
  <2>4. Pair(messagesEl', m, typing, k + 1, k + 2)
    <3>1. \A p \in 1 .. k + 2 : p \in 1 .. k \/ p = k + 1 \/ p = k + 2
      BY <2>2
    <3>2. \A p \in 1 .. k + 2 : messagesEl'[p].of = m <=> p \in {k + 1, k + 2}
      BY <1>4, <2>1, <2>2, <2>3, <3>1 DEF Absent
    <3> QED BY <1>4, <2>2, <2>3, <3>2 DEF Pair
  <2>5. Holds(messagesEl', m, typing)
    <3>1. k + 1 \in 1 .. Len(messagesEl') /\ k + 2 \in 1 .. Len(messagesEl')
      BY <2>2, <2>3
    <3> QED BY <2>4, <3>1 DEF Holds
  <2>6. KindOf(x) = "typing" /\ ~x.shown
    BY <1>1, <1>2, <1>3 DEF KindOf, StreamInv, StreamOK, Paired, Idle
  <2> QED BY <1>3, <1>4, <2>5, <2>6 DEF Visible, typing
<1>12. TranscriptInv'
  BY <1>5, <1>10, <1>11 DEF TranscriptInv
<1>13. JoinInv'
  BY <1>1, <1>2 DEF JoinInv
<1> QED BY <1>8, <1>9, <1>12, <1>13 DEF WidgetInv

\* The steps that leave the page as it is.
LEMMA ElsewhereStep ==
    ASSUME WidgetInv, NEW m \in Message, NEW x \in Exch, NEW y \in Serv,
           exchange' = [exchange EXCEPT ![m] = x], server' = [server EXCEPT ![m] = y],
           UNCHANGED <<conversationId, messagesEl>>,
           StreamOK(m, x, y, conversationId),
           server[m].conversation = Null \/ y.conversation = server[m].conversation,
           x.pc # "failed", exchange[m].pc # "failed", x.pc # "unsent", exchange[m].pc # "unsent",
           x.shown = exchange[m].shown, x.accumulated = exchange[m].accumulated
    PROVE  WidgetInv'
<1>1. TypeInv /\ StreamInv /\ TranscriptInv /\ JoinInv
  BY DEF WidgetInv
<1>2. /\ exchange'[m] = x /\ server'[m] = y
      /\ \A n \in Message : n # m => exchange'[n] = exchange[n] /\ server'[n] = server[n]
  BY <1>1 DEF TypeInv
<1>3. TypeInv'
  BY <1>1 DEF TypeInv
<1>4. StreamInv'
  BY <1>1, <1>2 DEF StreamInv
<1>5. TranscriptInv'
  <2>1. Visible(m, x, messagesEl)
    BY <1>1 DEF TranscriptInv, Visible, KindOf
  <2> QED BY <1>1, <1>2, <2>1 DEF TranscriptInv
<1>6. JoinInv'
  <2>1. ASSUME conversationId # Null, NEW n \in Message, server[n].conversation = conversationId
        PROVE  server'[n].conversation = conversationId
    BY <1>2, <2>1
  <2> QED BY <1>1, <2>1 DEF JoinInv
<1> QED BY <1>3, <1>4, <1>5, <1>6 DEF WidgetInv

LEMMA AcceptStep ==
    ASSUME WidgetInv, NEW m \in Message, Accept(m)
    PROVE  WidgetInv'
<1>1. PICK c \in Conversation :
        server' = [server EXCEPT ![m] = [@ EXCEPT !.pc = "answering", !.conversation = c]]
  BY DEF Accept
<1> DEFINE x == [exchange[m] EXCEPT !.pc = "reading"]
           y == [server[m] EXCEPT !.pc = "answering", !.conversation = c]
<1>2. /\ exchange[m].pc = "fetching"
      /\ exchange' = [exchange EXCEPT ![m] = x] /\ server' = [server EXCEPT ![m] = y]
      /\ UNCHANGED <<conversationId, messagesEl>>
  BY <1>1 DEF Accept
<1>3. exchange[m] \in Exch /\ server[m] \in Serv /\ StreamOK(m, exchange[m], server[m], conversationId)
  BY DEF WidgetInv, TypeInv, StreamInv
<1>4. x \in Exch /\ y \in Serv /\ x.pc = "reading" /\ y.conversation = c
      /\ x.shown = exchange[m].shown /\ x.accumulated = exchange[m].accumulated
  BY <1>3 DEF Exch, Serv
<1>5. StreamOK(m, x, y, conversationId)
  BY <1>2, <1>3, AcceptStream
<1>6. server[m].conversation = Null \/ y.conversation = server[m].conversation
  BY <1>2, <1>3 DEF StreamOK, Paired, Idle
<1> HIDE DEF x, y
<1> QED BY <1>2, <1>4, <1>5, <1>6, ElsewhereStep

LEMMA SendDeltaStep ==
    ASSUME WidgetInv, NEW m \in Message, SendDelta(m)
    PROVE  WidgetInv'
<1> DEFINE w == <<m, Len(server[m].streamed) + 1>>
           x == exchange[m]
           y == [server[m] EXCEPT !.streamed = Append(server[m].streamed, w),
                                  !.wire = server[m].wire \o <<Delta(w), Boundary>>]
<1>1. /\ server[m].pc = "answering" /\ Len(server[m].streamed) < MaxDeltas
      /\ server' = [server EXCEPT ![m] = y] /\ UNCHANGED <<conversationId, exchange, messagesEl>>
  <2>1. server' = [server EXCEPT ![m] = y]
    BY Zenon DEF SendDelta
  <2>2. server[m].pc = "answering" /\ Len(server[m].streamed) < MaxDeltas
    BY DEF SendDelta
  <2>3. conversationId' = conversationId /\ exchange' = exchange /\ messagesEl' = messagesEl
    BY DEF SendDelta
  <2> HIDE DEF y
  <2> QED BY <2>1, <2>2, <2>3
<1>2. /\ x \in Exch /\ server[m] \in Serv /\ StreamOK(m, x, server[m], conversationId)
      /\ exchange \in [Message -> Exch]
  BY DEF WidgetInv, TypeInv, StreamInv
<1>3. y \in Serv /\ StreamOK(m, x, y, conversationId)
  BY <1>1, <1>2, SendDeltaStream
<1>4. y.conversation = server[m].conversation
  BY <1>2 DEF Serv
<1>5. exchange' = [exchange EXCEPT ![m] = x]
  BY <1>1, <1>2
<1>6. x.pc # "failed" /\ x.pc # "unsent"
  BY <1>1, <1>2 DEF StreamOK, Paired, Idle
<1> HIDE DEF y
<1> QED BY <1>1, <1>2, <1>3, <1>4, <1>5, <1>6, ElsewhereStep

LEMMA SendDoneStep ==
    ASSUME WidgetInv, NEW m \in Message, SendDone(m)
    PROVE  WidgetInv'
<1>1. PICK text \in {server[m].streamed, <<FixedText>>} :
        server' = [server EXCEPT ![m] =
            [@ EXCEPT !.pc = "answered", !.answer = text,
                      !.wire = server[m].wire
                                \o <<Done(server[m].conversation, text), Boundary>>]]
  BY DEF SendDone
<1> DEFINE x == exchange[m]
           y == [server[m] EXCEPT !.pc = "answered", !.answer = text,
                    !.wire = server[m].wire \o <<Done(server[m].conversation, text), Boundary>>]
<1>2. /\ server[m].pc = "answering"
      /\ server' = [server EXCEPT ![m] = y] /\ UNCHANGED <<conversationId, exchange, messagesEl>>
  <2>1. server' = [server EXCEPT ![m] = y]
    BY <1>1, Zenon
  <2>2. server[m].pc = "answering"
    BY DEF SendDone
  <2>3. conversationId' = conversationId /\ exchange' = exchange /\ messagesEl' = messagesEl
    BY DEF SendDone
  <2> HIDE DEF y
  <2> QED BY <2>1, <2>2, <2>3
<1>3. /\ x \in Exch /\ server[m] \in Serv /\ StreamOK(m, x, server[m], conversationId)
      /\ exchange \in [Message -> Exch]
  BY DEF WidgetInv, TypeInv, StreamInv
<1>4. text \in Text
  <2>1. server[m].streamed \in Text
    <3>1. PICK words \in Seq(Word) : words = server[m].streamed
      BY <1>3 DEF Serv
    <3> QED BY <3>1 DEF Text
  <2>2. <<FixedText>> \in Text
    BY DEF Text
  <2> QED BY <2>1, <2>2
<1>5. y \in Serv /\ StreamOK(m, x, y, conversationId)
  BY <1>2, <1>3, <1>4, SendDoneStream
<1>6. y.conversation = server[m].conversation
  BY <1>3 DEF Serv
<1>7. exchange' = [exchange EXCEPT ![m] = x]
  BY <1>2, <1>3
<1>8. x.pc # "failed" /\ x.pc # "unsent"
  BY <1>2, <1>3 DEF StreamOK, Paired, Idle
<1> HIDE DEF y
<1> QED BY <1>2, <1>3, <1>5, <1>6, <1>7, <1>8, ElsewhereStep

LEMMA ReadEndStep ==
    ASSUME WidgetInv, NEW m \in Message, ReadEnd(m)
    PROVE  WidgetInv'
<1> DEFINE x == [exchange[m] EXCEPT !.pc = "settled"]
           y == server[m]
<1>1. /\ exchange[m].pc = "reading" /\ y.pc = "answered" /\ y.wire = <<>>
      /\ exchange' = [exchange EXCEPT ![m] = x] /\ UNCHANGED <<conversationId, messagesEl, server>>
  BY DEF ReadEnd
<1>2. /\ exchange[m] \in Exch /\ y \in Serv /\ StreamOK(m, exchange[m], y, conversationId)
      /\ server \in [Message -> Serv]
  BY DEF WidgetInv, TypeInv, StreamInv
<1>3. x \in Exch /\ x.pc = "settled"
      /\ x.shown = exchange[m].shown /\ x.accumulated = exchange[m].accumulated
  BY <1>2 DEF Exch
<1>4. StreamOK(m, x, y, conversationId)
  BY <1>1, <1>2, ReadEndStream
<1>5. server' = [server EXCEPT ![m] = y]
  BY <1>1, <1>2
<1> HIDE DEF x
<1> QED BY <1>1, <1>2, <1>3, <1>4, <1>5, ElsewhereStep

LEMMA ThrowStep ==
    ASSUME WidgetInv, NEW m \in Message, Throw(m)
    PROVE  WidgetInv'
<1> DEFINE x == [exchange[m] EXCEPT !.pc = "failed"]
           y == [server[m] EXCEPT !.pc = "cut", !.wire = <<>>]
           kinds == {"typing", "assistant"}
           P == {p \in DOMAIN messagesEl : ~(messagesEl[p].of = m /\ messagesEl[p].kind \in kinds)}
           error == Element("error", m, <<>>)
<1>1. /\ exchange[m].pc \in {"fetching", "reading"}
      /\ exchange' = [exchange EXCEPT ![m] = x] /\ server' = [server EXCEPT ![m] = y]
      /\ conversationId' = conversationId
      /\ messagesEl' = Append(EntriesAt(messagesEl, P), error)
  BY DEF Throw, Open, Catch, Without
<1>2. TypeInv /\ StreamInv /\ TranscriptInv /\ JoinInv /\ messagesEl \in Seq(Elem)
  BY DEF WidgetInv, TypeInv
<1>3. exchange[m] \in Exch /\ server[m] \in Serv /\ StreamOK(m, exchange[m], server[m], conversationId)
  BY <1>2 DEF TypeInv, StreamInv
<1>4. x \in Exch /\ y \in Serv /\ x.pc = "failed" /\ y.conversation = server[m].conversation
  <2>1. <<>> \in Seq(Entries)
    OBVIOUS
  <2> QED BY <1>3, <2>1 DEF Exch, Serv
<1>5. StreamOK(m, x, y, conversationId)
  BY <1>3, ThrowStream
<1>6. error \in Elem /\ error.of = m /\ <<>> \in Text
  BY DEF Element, Elem, Text
<1>7. P \in SUBSET DOMAIN messagesEl /\ \A n : n # m => \A p \in DOMAIN messagesEl : messagesEl[p].of = n => p \in P
  OBVIOUS
<1>8. EntriesAt(messagesEl, P) \in Seq(Elem)
  BY <1>2, <1>7, EntriesKept
<1>9. messagesEl' \in Seq(Elem)
  BY <1>1, <1>6, <1>8, AppendProperties
<1>10. Holds(messagesEl', m, error)
  <2>1. PICK text \in Text : Holds(messagesEl, m, Element(KindOf(exchange[m]), m, text))
    BY <1>1, <1>2 DEF TranscriptInv, Visible
  <2>2. PICK el : el = Element(KindOf(exchange[m]), m, text)
    OBVIOUS
  <2>3. el.kind \in kinds /\ "user" \notin kinds
    BY <1>1, <2>2 DEF Element, KindOf
  <2>4. Holds(messagesEl, m, el)
    BY <2>1, <2>2
  <2> HIDE DEF error
  <2> QED BY <1>1, <1>2, <1>6, <2>3, <2>4, ElementReplaced
<1>11. ASSUME NEW n \in Message, n # m PROVE Visible(n, exchange[n], messagesEl')
  <2>1. PICK kept \in Seq(Elem) : kept = EntriesAt(messagesEl, P)
    BY <1>8
  <2>2. /\ Absent(messagesEl, n) => Absent(kept, n)
        /\ \A el : Holds(messagesEl, n, el) => Holds(kept, n, el)
    <3>1. \A p \in DOMAIN messagesEl : messagesEl[p].of = n => p \in P
      BY <1>7, <1>11
    <3> HIDE DEF P
    <3> QED BY <1>2, <1>7, <2>1, <3>1, OthersKept
  <2>3. messagesEl' = Append(kept, error) /\ error.of # n
    BY <1>1, <1>6, <1>11, <2>1
  <2> HIDE DEF error
  <2>4. /\ Absent(kept, n) => Absent(messagesEl', n)
        /\ \A el : Holds(kept, n, el) => Holds(messagesEl', n, el)
    BY <1>6, <2>3, OthersAppended
  <2> QED BY <1>2, <2>2, <2>4 DEF TranscriptInv, Visible
<1>12. Visible(m, x, messagesEl')
  BY <1>4, <1>6, <1>10 DEF Visible, KindOf
<1> HIDE DEF x, y, P, error
<1>13. /\ exchange'[m] = x /\ server'[m] = y
       /\ \A n \in Message : n # m => exchange'[n] = exchange[n] /\ server'[n] = server[n]
  BY <1>1, <1>2 DEF TypeInv
<1>14. TypeInv'
  BY <1>1, <1>2, <1>4, <1>9 DEF TypeInv
<1>15. StreamInv'
  BY <1>1, <1>2, <1>5, <1>13 DEF StreamInv
<1>16. TranscriptInv'
  BY <1>11, <1>12, <1>13 DEF TranscriptInv
<1>17. JoinInv'
  <2>1. \A n \in Message : server'[n].conversation = server[n].conversation
    BY <1>4, <1>13
  <2> QED BY <1>1, <1>2, <2>1 DEF JoinInv
<1> QED BY <1>14, <1>15, <1>16, <1>17 DEF WidgetInv

\* Once the page has an id to send, which one makes no difference to an exchange.
LEMMA AnyId ==
    ASSUME NEW m, NEW e, NEW s, NEW cid, StreamOK(m, e, s, cid), NEW id, cid # Null => id # Null
    PROVE  StreamOK(m, e, s, id)
<1>1. \A c \in Nat : Handled(m, e, s, cid, c) => Handled(m, e, s, id, c)
  BY DEF Handled
<1> QED BY <1>1 DEF StreamOK

\* The reply's text takes the place of the typing indicator, or of the text so far,
\* and what is shown for the others stays.
LEMMA Revealed ==
    ASSUME messagesEl \in Seq(Elem), TranscriptInv, NEW m \in Message,
           exchange[m].pc = "reading", exchange[m].shown \in BOOLEAN, NEW text \in Text
    PROVE  /\ Reveal(m, text) \in Seq(Elem)
           /\ Holds(Reveal(m, text), m, Element("assistant", m, text))
           /\ \A n \in Message : n # m => Visible(n, exchange[n], Reveal(m, text))
<1>1. PICK x : x = Element("assistant", m, text)
  OBVIOUS
<1>2. x \in Elem /\ x.of = m
  BY <1>1 DEF Element, Elem
<1>3. PICK el : el.kind = (IF exchange[m].shown THEN "assistant" ELSE "typing")
                /\ Holds(messagesEl, m, el)
  <2>1. PICK old \in Text : Holds(messagesEl, m, Element(KindOf(exchange[m]), m, old))
    BY DEF TranscriptInv, Visible
  <2>2. PICK el : el = Element(KindOf(exchange[m]), m, old)
    OBVIOUS
  <2>3. el.kind = (IF exchange[m].shown THEN "assistant" ELSE "typing")
    BY <2>2 DEF Element, KindOf
  <2> QED BY <2>1, <2>2, <2>3
<1>4. PICK t : t = Reveal(m, text)
  OBVIOUS
<1>5. CASE exchange[m].shown
  <2>1. t = Rewritten(messagesEl, m, x)
    BY <1>1, <1>4, <1>5 DEF Reveal, Rewritten
  <2>2. el.kind = "assistant"
    BY <1>3, <1>5
  <2>3. /\ t \in Seq(Elem) /\ Holds(t, m, x)
        /\ \A n : n # m =>
             /\ Absent(messagesEl, n) => Absent(t, n)
             /\ \A y : Holds(messagesEl, n, y) => Holds(t, n, y)
    BY <1>2, <1>3, <2>1, <2>2, ElementRewritten
  <2>4. \A n \in Message : n # m => Visible(n, exchange[n], t)
    BY <2>3 DEF TranscriptInv, Visible
  <2> QED BY <1>1, <1>4, <2>3, <2>4
<1>6. CASE ~exchange[m].shown
  <2> DEFINE kinds == {"typing"}
             P == {p \in DOMAIN messagesEl : ~(messagesEl[p].of = m /\ messagesEl[p].kind \in kinds)}
  <2>1. t = Append(EntriesAt(messagesEl, P), x)
    BY <1>1, <1>4, <1>6 DEF Reveal, Without
  <2>2. /\ P \in SUBSET DOMAIN messagesEl
        /\ \A n : n # m => \A p \in DOMAIN messagesEl : messagesEl[p].of = n => p \in P
    OBVIOUS
  <2>3. PICK kept \in Seq(Elem) : kept = EntriesAt(messagesEl, P)
    BY <2>2, EntriesKept
  <2>4. t \in Seq(Elem)
    BY <1>2, <2>1, <2>3, AppendProperties
  <2>5. Holds(t, m, x)
    <3>1. el.kind \in kinds /\ "user" \notin kinds
      BY <1>3, <1>6
    <3> QED BY <1>2, <1>3, <2>1, <3>1, ElementReplaced
  <2>6. ASSUME NEW n \in Message, n # m PROVE Visible(n, exchange[n], t)
    <3>1. /\ Absent(messagesEl, n) => Absent(kept, n)
          /\ \A y : Holds(messagesEl, n, y) => Holds(kept, n, y)
      <4>1. \A p \in DOMAIN messagesEl : messagesEl[p].of = n => p \in P
        BY <2>2, <2>6
      <4> HIDE DEF P
      <4> QED BY <2>2, <2>3, <4>1, OthersKept
    <3>2. t = Append(kept, x) /\ x.of # n
      BY <1>2, <2>1, <2>3, <2>6
    <3>3. /\ Absent(kept, n) => Absent(t, n)
          /\ \A y : Holds(kept, n, y) => Holds(t, n, y)
      BY <1>2, <3>2, OthersAppended
    <3> QED BY <3>1, <3>3 DEF TranscriptInv, Visible
  <2> QED BY <1>1, <1>4, <2>4, <2>5, <2>6
<1> QED BY <1>5, <1>6

LEMMA ReadStep ==
    ASSUME WidgetInv, NEW m \in Message, Read(m)
    PROVE  WidgetInv'
<1>1. TypeInv /\ StreamInv /\ TranscriptInv /\ JoinInv /\ messagesEl \in Seq(Elem)
  BY DEF WidgetInv, TypeInv
<1> DEFINE e == exchange[m]
           s == server[m]
<1>2. /\ e \in Exch /\ s \in Serv /\ e.pc = "reading"
      /\ StreamOK(m, e, s, conversationId)
  BY <1>1 DEF StreamInv, TypeInv, Read
<1>3. PICK n \in DOMAIN s.wire :
        LET done == DoneRead(e, s, n)
            finalText == IF TextRead(e, s, n) = <<>> /\ done # {}
                         THEN (CHOOSE d \in done : TRUE).text ELSE TextRead(e, s, n)
        IN  /\ exchange' = [exchange EXCEPT ![m] = Reader(e, s, n)]
            /\ messagesEl' = IF FramesRead(e, s, n) = <<>> THEN messagesEl
                             ELSE Reveal(m, finalText)
            /\ conversationId' = ConversationAfter(m, done)
            /\ server' = [server EXCEPT ![m].wire = SubSeq(s.wire, n + 1, Len(s.wire))]
  BY Zenon DEF Read, FramesRead, DoneRead, TextRead, BufferRead, Reader
<1>4. PICK done : done = DoneRead(e, s, n)
  OBVIOUS
<1>5. PICK acc : acc = TextRead(e, s, n)
  OBVIOUS
<1>6. PICK x : x = Reader(e, s, n)
  OBVIOUS
<1>7. PICK y : y = Sender(s, n)
  OBVIOUS
<1>8. PICK id : id = IF done = {} THEN conversationId ELSE s.conversation
  OBVIOUS
<1>9. /\ x \in Exch /\ y \in Serv /\ s.conversation \in Conversation
      /\ FramesRead(e, s, n) = <<>> => acc = e.accumulated /\ done = {}
      /\ done # {} => done = {Done(s.conversation, s.answer)}
      /\ StreamOK(m, x, y, id)
  BY <1>2, <1>3, <1>4, <1>5, <1>6, <1>7, <1>8, ReadStream
<1>10. /\ x.pc = "reading" /\ x.accumulated = acc
       /\ x.shown <=> e.shown \/ FramesRead(e, s, n) # <<>>
       /\ y.conversation = s.conversation
  BY <1>2, <1>5, <1>6, <1>7 DEF Exch, Serv, Reader, Sender
<1>11. ASSUME done # {}
       PROVE  /\ (CHOOSE d \in done : TRUE).conversation = s.conversation
              /\ (CHOOSE d \in done : TRUE).text = s.answer
  <2>1. PICK only : only = Done(s.conversation, s.answer)
    OBVIOUS
  <2>2. (CHOOSE d \in done : TRUE) = only
    BY <1>9, <1>11, <2>1
  <2>3. only.conversation = s.conversation /\ only.text = s.answer
    BY <2>1 DEF Done
  <2> QED BY <2>2, <2>3
<1>12. conversationId' = id
  <2>1. done # {} => (CHOOSE d \in done : TRUE).conversation = s.conversation
    BY <1>11
  <2>2. conversationId' = ConversationAfter(m, done)
    BY <1>3, <1>4
  <2> QED BY <1>8, <2>1, <2>2 DEF ConversationAfter
<1>13. exchange' = [exchange EXCEPT ![m] = x]
  BY <1>3, <1>6
<1>14. server' = [server EXCEPT ![m] = y]
  BY <1>3, <1>7 DEF Sender
<1>15. PICK finalText \in Text :
         /\ acc # <<>> => finalText = acc
         /\ messagesEl' = IF FramesRead(e, s, n) = <<>> THEN messagesEl ELSE Reveal(m, finalText)
  <2>1. PICK final : final = IF acc = <<>> /\ done # {}
                             THEN (CHOOSE d \in done : TRUE).text ELSE acc
    OBVIOUS
  <2>2. final \in Text
    <3>1. acc \in Text
      BY <1>9, <1>10 DEF Exch, Text
    <3>2. done # {} => (CHOOSE d \in done : TRUE).text \in Text
      BY <1>2, <1>11 DEF Serv
    <3> QED BY <2>1, <3>1, <3>2
  <2>3. messagesEl' = IF FramesRead(e, s, n) = <<>> THEN messagesEl ELSE Reveal(m, final)
    BY <1>3, <1>4, <1>5, <2>1
  <2>4. acc # <<>> => final = acc
    BY <2>1
  <2> QED BY <2>2, <2>3, <2>4
<1>16. /\ messagesEl' \in Seq(Elem) /\ Visible(m, x, messagesEl')
       /\ \A k \in Message : k # m => Visible(k, exchange[k], messagesEl')
  <2>1. CASE FramesRead(e, s, n) = <<>>
    <3>1. messagesEl' = messagesEl /\ x.accumulated = e.accumulated /\ (x.shown <=> e.shown)
      BY <1>9, <1>10, <1>15, <2>1
    <3> QED BY <1>1, <1>2, <1>10, <3>1 DEF TranscriptInv, Visible, KindOf
  <2>2. CASE FramesRead(e, s, n) # <<>>
    <3>1. messagesEl' = Reveal(m, finalText)
      BY <1>15, <2>2
    <3>2. exchange[m].pc = "reading" /\ exchange[m].shown \in BOOLEAN
      BY <1>2 DEF Exch
    <3>3. /\ messagesEl' \in Seq(Elem)
          /\ Holds(messagesEl', m, Element("assistant", m, finalText))
          /\ \A k \in Message : k # m => Visible(k, exchange[k], messagesEl')
      BY <1>1, <3>1, <3>2, Revealed
    <3>4. KindOf(x) = "assistant"
      BY <1>10, <2>2 DEF KindOf
    <3>5. Visible(m, x, messagesEl')
      BY <1>10, <1>15, <3>3, <3>4 DEF Visible
    <3> QED BY <3>3, <3>5
  <2> QED BY <2>1, <2>2
<1>17. /\ exchange'[m] = x /\ server'[m] = y
       /\ exchange' \in [Message -> Exch] /\ server' \in [Message -> Serv]
       /\ \A k \in Message : k # m => exchange'[k] = exchange[k] /\ server'[k] = server[k]
  BY <1>1, <1>9, <1>13, <1>14 DEF TypeInv
<1>18. TypeInv'
  <2>1. conversationId' \in Conversation \cup {Null}
    BY <1>1, <1>8, <1>9, <1>12 DEF TypeInv
  <2> QED BY <1>16, <1>17, <2>1 DEF TypeInv
<1>19. StreamInv'
  <2>1. ASSUME NEW k \in Message PROVE StreamOK(k, exchange'[k], server'[k], id)
    <3>1. CASE k = m
      BY <1>9, <1>17, <3>1
    <3>2. CASE k # m
      <4>1. conversationId # Null => id # Null
        BY <1>8, <1>9, WidgetAssumption
      <4>2. StreamOK(k, exchange[k], server[k], conversationId)
        BY <1>1 DEF StreamInv
      <4>3. StreamOK(k, exchange[k], server[k], id)
        BY <4>1, <4>2, AnyId
      <4> QED BY <1>17, <3>2, <4>3
    <3> QED BY <3>1, <3>2
  <2> QED BY <1>12, <2>1 DEF StreamInv
<1>20. TranscriptInv'
  BY <1>16, <1>17 DEF TranscriptInv
<1>21. JoinInv'
  <2>1. \A k \in Message : server'[k].conversation = server[k].conversation
    BY <1>10, <1>17
  <2> QED BY <1>1, <1>8, <1>12, <2>1 DEF JoinInv
<1> QED BY <1>18, <1>19, <1>20, <1>21 DEF WidgetInv

LEMMA InvNext ==
    ASSUME WidgetInv, [Next]_vars
    PROVE  WidgetInv'
<1>1. ASSUME NEW m \in Message, Send(m) PROVE WidgetInv'
  BY <1>1, SendStep
<1>2. ASSUME NEW m \in Message, Accept(m) PROVE WidgetInv'
  BY <1>2, AcceptStep
<1>3. ASSUME NEW m \in Message, SendDelta(m) PROVE WidgetInv'
  BY <1>3, SendDeltaStep
<1>4. ASSUME NEW m \in Message, SendDone(m) PROVE WidgetInv'
  BY <1>4, SendDoneStep
<1>5. ASSUME NEW m \in Message, Read(m) PROVE WidgetInv'
  BY <1>5, ReadStep
<1>6. ASSUME NEW m \in Message, ReadEnd(m) PROVE WidgetInv'
  BY <1>6, ReadEndStep
<1>7. ASSUME NEW m \in Message, Throw(m) PROVE WidgetInv'
  BY <1>7, ThrowStep
<1>8. CASE UNCHANGED vars
  BY <1>8 DEF vars, WidgetInv, TypeInv, StreamInv, TranscriptInv, JoinInv
<1> QED BY <1>1, <1>2, <1>3, <1>4, <1>5, <1>6, <1>7, <1>8 DEF Next

LEMMA Invariance == Spec => []WidgetInv
<1>1. Init => WidgetInv
  BY InvInit
<1>2. WidgetInv /\ [Next]_vars => WidgetInv'
  BY InvNext
<1> QED BY <1>1, <1>2, PTL DEF Spec

(***************************************************************************)
(* The properties.                                                         *)
(***************************************************************************)
\* Every variable keeps its type, whatever the number of messages, words and
\* conversations and however the exchanges overlap.
THEOREM Typing == Spec => []TypeOK
<1>1. WidgetInv => TypeOK
  BY DEF WidgetInv, TypeInv, TypeOK, Exch, Serv, Elem, Entries
<1> QED BY <1>1, Invariance, PTL

\* From the moment it is sent, a message has exactly one of a typing indicator, a
\* reply and an error in the transcript, after the message itself, for any number
\* of overlapping exchanges (ChatUI._send).
THEOREM OneReplyEachTheorem == Spec => []OneReplyEach
<1>1. ASSUME WidgetInv, NEW m \in Message, exchange[m].pc # "unsent"
      PROVE  /\ Cardinality(Shown(m, {"typing", "assistant", "error"})) = 1
             /\ \A i \in Shown(m, {"user"}), j \in Shown(m, {"typing", "assistant", "error"}) : i < j
  <2>1. PICK text \in Text : Holds(messagesEl, m, Element(KindOf(exchange[m]), m, text))
    BY <1>1 DEF WidgetInv, TranscriptInv, Visible
  <2>2. PICK el : el = Element(KindOf(exchange[m]), m, text)
    OBVIOUS
  <2>3. el.kind \in {"typing", "assistant", "error"}
    BY <2>2 DEF Element, KindOf
  <2>4. PICK i, j \in 1 .. Len(messagesEl) : Pair(messagesEl, m, el, i, j)
    BY <2>1, <2>2 DEF Holds
  <2>5. DOMAIN messagesEl = 1 .. Len(messagesEl)
    BY <1>1, LenProperties DEF WidgetInv, TypeInv
  <2>6. Shown(m, {"typing", "assistant", "error"}) = {j} /\ Shown(m, {"user"}) = {i} /\ i < j
    BY <2>3, <2>4, <2>5 DEF Shown, Pair
  <2>7. Cardinality({j}) = 1
    BY FS_Singleton
  <2> QED BY <2>6, <2>7
<1>2. WidgetInv => OneReplyEach
  BY <1>1 DEF OneReplyEach
<1> QED BY <1>2, Invariance, PTL

\* However reads split and join the frames, a reply that ended well shows exactly
\* the words streamed for it, in order (ChatClient.sendMessageStreaming).
THEOREM NoWordLostTheorem == Spec => []NoWordLost
<1>1. ASSUME WidgetInv, NEW m \in Message, exchange[m].pc = "settled",
             server[m].streamed # <<>>, NEW i \in Shown(m, {"assistant"})
      PROVE  messagesEl[i].text = server[m].streamed
  <2>1. exchange[m].shown /\ exchange[m].accumulated = server[m].streamed
    <3>1. /\ exchange[m] \in Exch /\ server[m] \in Serv
          /\ StreamOK(m, exchange[m], server[m], conversationId)
      BY <1>1 DEF WidgetInv, TypeInv, StreamInv
    <3>2. server[m].pc = "answered" /\ server[m].wire = <<>>
      BY <1>1, <3>1 DEF StreamOK, Paired
    <3> QED BY <3>1, <3>2, AllHandled
  <2>2. Holds(messagesEl, m, Element("assistant", m, server[m].streamed))
    BY <1>1, <2>1 DEF WidgetInv, TranscriptInv, Visible, KindOf
  <2>3. PICK el : el = Element("assistant", m, server[m].streamed)
    OBVIOUS
  <2>4. PICK u, j \in 1 .. Len(messagesEl) : Pair(messagesEl, m, el, u, j)
    BY <2>2, <2>3 DEF Holds
  <2>5. DOMAIN messagesEl = 1 .. Len(messagesEl)
    BY <1>1, LenProperties DEF WidgetInv, TypeInv
  <2>6. i = j
    BY <1>1, <2>4, <2>5 DEF Shown, Pair
  <2> QED BY <2>3, <2>4, <2>6 DEF Pair, Element
<1>2. WidgetInv => NoWordLost
  BY <1>1 DEF NoWordLost
<1> QED BY <1>2, Invariance, PTL

\* A message sent when a reply is on screen carries the id of a conversation the
\* server has answered in, however the replies overtake each other.
THEOREM FollowUpsJoinTheorem == Spec => FollowUpsJoin
<1>1. ASSUME WidgetInv, NEW m \in Message, Send(m), NEW n \in Message, Replied(n)
      PROVE  \E k \in Message : exchange'[m].conversation_id = server[k].conversation
                                /\ server[k].conversation # Null
  <2>1. /\ exchange[n] \in Exch /\ server[n] \in Serv /\ exchange \in [Message -> Exch]
        /\ StreamOK(n, exchange[n], server[n], conversationId)
    BY <1>1 DEF WidgetInv, TypeInv, StreamInv
  <2>2. server[n].pc = "answered" /\ server[n].wire = <<>>
    BY <1>1, <2>1 DEF Replied, StreamOK, Paired
  <2>3. conversationId # Null
    BY <2>1, <2>2, AllHandled
  <2>4. exchange'[m].conversation_id = conversationId
    <3>1. exchange[m] \in Exch
      BY <2>1
    <3> QED BY <1>1, <2>1, <3>1 DEF Send, Exch
  <2> QED BY <1>1, <2>3, <2>4 DEF WidgetInv, JoinInv
<1>2. WidgetInv => \A m \in Message : Send(m) /\ (\E n \in Message : Replied(n)) =>
            \E n \in Message : exchange'[m].conversation_id = server[n].conversation
                               /\ server[n].conversation # Null
  BY <1>1
<1> QED BY <1>2, Invariance, PTL DEF FollowUpsJoin
=============================================================================
