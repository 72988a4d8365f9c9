--------------------------- MODULE GatewayProofs ---------------------------
(***************************************************************************)
(* Theorems about Gateway, for any calls, keys and limits, and that the    *)
(* admin console is one of its users.                                      *)
(***************************************************************************)
EXTENDS AdminConsole, FiniteSetTheorems, TLAPS

\* The invariant holds every variable to its type.
LEMMA GatewayTyping == GatewaySpec => []GatewayTypeOK
<1>1. GatewayInit => GatewayTypeOK
  BY GatewayAssumption DEF GatewayInit, GatewayTypeOK, Request
<1>2. GatewayTypeOK /\ [GatewayNext]_gatewayVars => GatewayTypeOK'
  <2> SUFFICES ASSUME GatewayTypeOK, [GatewayNext]_gatewayVars PROVE GatewayTypeOK'
    OBVIOUS
  <2> USE GatewayAssumption DEF GatewayTypeOK, history, Ended
  <2>1. ASSUME NEW new \in SUBSET Call, NEW asked \in [new -> Request], Arrive(asked)
        PROVE  GatewayTypeOK'
    <3>1. \A c \in new : asked[c] \in Request
      OBVIOUS
    <3>2. \A q \in Request : Admission(q) \in {"unauthorized", "limit", "forbidden", "handle"}
      BY DEF Admission, Entry
    <3>3. \A q \in Request : Admission(q) = "limit" => q.endpoint \in Limited
      BY DEF Admission, Entry
    <3>4. /\ \A c \in new : request'[c] = asked[c] /\ pc'[c] = Admission(asked[c])
          /\ \A c \in Call \ new : request'[c] = request[c] /\ pc'[c] = pc[c]
          /\ DOMAIN request' = Call /\ DOMAIN pc' = Call
      BY <2>1 DEF Arrive
    <3>5. request' \in [Call -> Request \cup {NoRequest}]
      BY <2>1, <3>1 DEF Arrive
    <3>6. pc' \in [Call -> {"new", "limit", "expire", "handle"} \cup Ended]
      BY <2>1, <3>1, <3>2 DEF Arrive
    <3>7. \A c \in Call :
            /\ pc'[c] # "new" => request'[c] \in Request
            /\ pc'[c] \in {"limit", "expire", "refused"} => request'[c].endpoint \in Limited
      <4> TAKE c \in Call
      <4>1. CASE c \in new
        BY <4>1, <3>1, <3>2, <3>3, <3>4
      <4>2. CASE c \notin new
        BY <4>2, <3>4
      <4> QED
        BY <4>1, <4>2
    <3> QED
      BY <2>1, <3>5, <3>6, <3>7 DEF Arrive
  <2>2. ASSUME NEW c \in Call, Increment(c) PROVE GatewayTypeOK'
    <3>1. request[c] \in Request /\ KeyOf(c) \in Key /\ request[c].endpoint \in Limited
      BY <2>2 DEF Increment, KeyOf, Request
    <3>2. \A n \in Nat : Verdict(request[c], n) \in {"refused", "forbidden", "handle"}
      BY <3>1 DEF Verdict, Entry
    <3> QED
      BY <2>2, <3>1, <3>2 DEF Increment, Count
  <2>3. ASSUME NEW c \in Call, SetExpiry(c) PROVE GatewayTypeOK'
    <3>1. request[c] \in Request /\ KeyOf(c) \in Key /\ request[c].endpoint \in Limited
      BY <2>3 DEF SetExpiry, KeyOf, Request
    <3>2. Verdict(request[c], 1) \in {"refused", "forbidden", "handle"}
      BY <3>1 DEF Verdict, Entry
    <3> QED
      BY <2>3, <3>1, <3>2 DEF SetExpiry
  <2>4. ASSUME NEW c \in Call, LoseIncrement(c) PROVE GatewayTypeOK'
    <3>1. request[c] \in Request /\ KeyOf(c) \in Key
      BY <2>4 DEF LoseIncrement, KeyOf, Request
    <3> QED
      BY <2>4, <3>1 DEF LoseIncrement, Count
  <2>5. ASSUME NEW c \in Call, LoseExpiry(c) PROVE GatewayTypeOK'
    <3>1. request[c] \in Request /\ KeyOf(c) \in Key
      BY <2>5 DEF LoseExpiry, KeyOf, Request
    <3> QED
      BY <2>5, <3>1 DEF LoseExpiry
  <2>6. ASSUME NEW c \in Call, NEW outcome \in {"answered", "raised"}, Finish(c, outcome)
        PROVE  GatewayTypeOK'
    BY <2>6 DEF Finish
  <2>7. ASSUME NEW k \in Key, Lapse(k) PROVE GatewayTypeOK'
    BY <2>7 DEF Lapse
  <2>8. CASE UNCHANGED gatewayVars
    BY <2>8 DEF gatewayVars
  <2> QED
    BY <2>1, <2>2, <2>3, <2>4, <2>5, <2>6, <2>7, <2>8 DEF GatewayNext, LimiterStep
<1> QED
  BY <1>1, <1>2, PTL DEF GatewaySpec

-----------------------------------------------------------------------------
(***************************************************************************)
(* The inductive invariant.  `counted` is what the counter counts, and a   *)
(* call is in it from its INCR on.  The call that made the counter holds a *)
(* place of its own until its EXPIRE, so the calls that are through and    *)
(* that one together never exceed a limit: the counter has passed the      *)
(* limit before that many calls can be counted.                            *)
(***************************************************************************)
CountInv ==
    /\ \A k \in Key : Cardinality(counted[k]) = counter[k]
    /\ \A c \in Call, k \in Key : pc[c] \in {"new", "limit"} => c \notin counted[k]
    /\ \A c \in Call, k \in Key : c \in counted[k] => KeyOf(c) = k

\* Those that are through or about to be.
Places(k, e) == LetThrough(k, e) \cup {c \in counted[k] : pc[c] = "expire"}
PlaceInv == \A k \in Key, e \in Limited : Cardinality(Places(k, e)) <= Limit[e]

\* One call at most is between INCR and EXPIRE of a counter, which has no TTL
\* then; so the counter does not go away before that call has passed.
OpenerInv ==
    /\ \A k \in expiring : counter[k] > 0
    /\ \A c \in Call : pc[c] = "expire" => c \in counted[KeyOf(c)] /\ KeyOf(c) \notin expiring
    /\ \A c, d \in Call :
        pc[c] = "expire" /\ pc[d] = "expire" /\ KeyOf(c) = KeyOf(d) => c = d
GatewayInv == GatewayTypeOK /\ CountInv /\ OpenerInv /\ PlaceInv

\* Sets of calls are finite, and a smaller one has no more members.
LEMMA CallSets ==
    ASSUME NEW S \in SUBSET Call, NEW T \in SUBSET S
    PROVE  /\ IsFiniteSet(S) /\ Cardinality(S) \in Nat
           /\ Cardinality(T) \in Nat /\ Cardinality(T) <= Cardinality(S)
BY GatewayAssumption, FS_Subset, FS_CardinalityType

\* A call more is one more.
LEMMA CallAdded ==
    ASSUME NEW S \in SUBSET Call, NEW c \in Call \ S
    PROVE  Cardinality(S \cup {c}) = Cardinality(S) + 1
BY GatewayAssumption, FS_Subset, FS_AddElement

\* CountInv holds at first and is kept by every step.
LEMMA CountInit == GatewayInit => CountInv
BY FS_EmptySet DEF GatewayInit, CountInv

LEMMA CountNext ==
    ASSUME GatewayTypeOK, CountInv, [GatewayNext]_gatewayVars
    PROVE  CountInv'
<1> USE DEF CountInv, KeyOf
<1>1. ASSUME NEW new \in SUBSET Call, NEW asked \in [new -> Request], Arrive(asked)
      PROVE  CountInv'
  <2>1. \A c \in Call : pc'[c] \in {"new", "limit"} => pc[c] \in {"new", "limit"}
    BY <1>1 DEF Arrive
  <2>2. \A c \in Call, k \in Key : c \in counted[k] => request'[c] = request[c]
    BY <1>1 DEF Arrive
  <2> QED
    BY <1>1, <2>1, <2>2 DEF Arrive, history
<1>2. ASSUME NEW c \in Call, pc[c] = "limit", Count(c), UNCHANGED request,
             NEW where \in {"expire", "refused", "forbidden", "handle", "lost"},
             pc' = [pc EXCEPT ![c] = where]
      PROVE  CountInv'
  <2>1. request[c] \in Request /\ KeyOf(c) \in Key
    BY <1>2 DEF GatewayTypeOK, Request
  <2>2. counted[KeyOf(c)] \in SUBSET Call /\ c \in Call \ counted[KeyOf(c)]
    BY <1>2, <2>1 DEF GatewayTypeOK
  <2>3. Cardinality(counted[KeyOf(c)] \cup {c}) = counter[KeyOf(c)] + 1
    BY <2>1, <2>2, CallAdded
  <2>4. \A k \in Key : Cardinality(counted'[k]) = counter'[k]
    BY <1>2, <2>1, <2>3 DEF Count, GatewayTypeOK
  <2>5. \A d \in Call, k \in Key : d \in counted'[k] => d \in counted[k] \/ (d = c /\ k = KeyOf(c))
    BY <1>2, <2>1 DEF Count, GatewayTypeOK
  <2>6. \A d \in Call : pc'[d] \in {"new", "limit"} => pc[d] \in {"new", "limit"} /\ d # c
    BY <1>2 DEF GatewayTypeOK
  <2> QED
    BY <1>2, <2>4, <2>5, <2>6
<1>3. ASSUME NEW c \in Call, Increment(c) PROVE CountInv'
  <2>1. \A n \in Nat : Verdict(request[c], n) \in {"refused", "forbidden", "handle"}
    BY DEF Verdict, Entry
  <2>2. counter[KeyOf(c)] \in Nat
    BY <1>3 DEF Increment, GatewayTypeOK, Request
  <2> DEFINE where == IF counter[KeyOf(c)] + 1 = 1 THEN "expire"
                      ELSE Verdict(request[c], counter[KeyOf(c)] + 1)
  <2>3. where \in {"expire", "refused", "forbidden", "handle", "lost"}
    BY <2>1, <2>2
  <2>4. pc' = [pc EXCEPT ![c] = where]
    BY <1>3 DEF Increment
  <2> HIDE DEF where
  <2> QED
    BY <1>2, <1>3, <2>3, <2>4 DEF Increment
<1>4. ASSUME NEW c \in Call, SetExpiry(c) PROVE CountInv'
  <2>1. Verdict(request[c], 1) \in {"refused", "forbidden", "handle"}
    BY DEF Verdict, Entry
  <2> QED
    BY <1>4, <2>1 DEF SetExpiry, history, GatewayTypeOK
<1>5. ASSUME NEW c \in Call, LoseIncrement(c) PROVE CountInv'
  <2>1. CASE Count(c)
    BY <1>2, <1>5, <2>1 DEF LoseIncrement
  <2>2. CASE UNCHANGED <<counter, counted, lost>>
    BY <1>5, <2>2 DEF LoseIncrement, GatewayTypeOK
  <2> QED
    BY <1>5, <2>1, <2>2 DEF LoseIncrement
<1>6. ASSUME NEW c \in Call, LoseExpiry(c) PROVE CountInv'
  BY <1>6 DEF LoseExpiry, GatewayTypeOK
<1>7. ASSUME NEW c \in Call, NEW outcome \in {"answered", "raised"}, Finish(c, outcome)
      PROVE  CountInv'
  BY <1>7 DEF Finish, history, GatewayTypeOK
<1>8. ASSUME NEW k \in Key, Lapse(k) PROVE CountInv'
  <2>1. \A j \in Key : Cardinality(counted'[j]) = counter'[j]
    BY <1>8, FS_EmptySet DEF Lapse, GatewayTypeOK
  <2> QED
    BY <1>8, <2>1 DEF Lapse, GatewayTypeOK
<1>9. CASE UNCHANGED gatewayVars
  BY <1>9 DEF gatewayVars, history
<1> QED
  BY <1>1, <1>3, <1>4, <1>5, <1>6, <1>7, <1>8, <1>9 DEF GatewayNext, LimiterStep

\* A counter that does not exist has counted nothing, and any other something.
LEMMA CountedNone ==
    ASSUME GatewayTypeOK, CountInv, NEW k \in Key
    PROVE  /\ counter[k] \in Nat /\ counted[k] \in SUBSET Call
           /\ counter[k] = 0 <=> counted[k] = {}
BY CallSets, FS_EmptySet DEF GatewayTypeOK, CountInv

\* OpenerInv is kept by every step.
LEMMA OpenerNext ==
    ASSUME GatewayTypeOK, CountInv, OpenerInv, [GatewayNext]_gatewayVars
    PROVE  OpenerInv'
<1> USE DEF OpenerInv, KeyOf
<1>1. ASSUME NEW new \in SUBSET Call, NEW asked \in [new -> Request], Arrive(asked)
      PROVE  OpenerInv'
  <2>1. \A c \in Call : pc'[c] = "expire" => pc[c] = "expire" /\ request'[c] = request[c]
    BY <1>1 DEF Arrive, Admission, Entry
  <2> QED
    BY <1>1, <2>1 DEF Arrive, history
<1>2. ASSUME NEW c \in Call, pc[c] = "limit", Count(c), UNCHANGED <<request, expiring>>,
             NEW where \in {"expire", "refused", "forbidden", "handle", "lost"},
             where = "expire" => counter[KeyOf(c)] = 0, pc' = [pc EXCEPT ![c] = where]
      PROVE  OpenerInv'
  <2>1. KeyOf(c) \in Key
    BY <1>2 DEF GatewayTypeOK, Request
  <2>2. \A k \in Key : counter[k] \in Nat /\ counted[k] \in SUBSET Call /\ (counter[k] = 0 <=> counted[k] = {})
    BY CountedNone
  <2>3. \A k \in expiring : counter'[k] > 0
    BY <1>2, <2>1, <2>2 DEF Count, GatewayTypeOK
  <2>4. \A d \in Call : pc[d] = "expire" => KeyOf(d) \in Key /\ counter[KeyOf(d)] # 0
    BY <2>2 DEF GatewayTypeOK, Request
  <2>5. \A d \in Call : pc'[d] = "expire" => d = c \/ (d # c /\ pc[d] = "expire")
    BY <1>2 DEF GatewayTypeOK
  <2>6. \A k \in Key : counted[k] \subseteq counted'[k]
    BY <1>2, <2>1 DEF Count, GatewayTypeOK
  <2>7. c \in counted'[KeyOf(c)]
    BY <1>2, <2>1 DEF Count, GatewayTypeOK
  <2>8. where = "expire" => KeyOf(c) \notin expiring
    BY <1>2, <2>1
  <2>9. pc'[c] = where
    BY <1>2 DEF GatewayTypeOK
  <2>10. \A d \in Call : pc'[d] = "expire" => d \in counted'[KeyOf(d)] /\ KeyOf(d) \notin expiring
    BY <2>4, <2>5, <2>6, <2>7, <2>8, <2>9
  <2>11. \A d, x \in Call :
            pc'[d] = "expire" /\ pc'[x] = "expire" /\ KeyOf(d) = KeyOf(x) => d = x
    BY <1>2, <2>4, <2>5, <2>9
  <2> QED
    BY <1>2, <2>3, <2>10, <2>11
<1>3. ASSUME NEW c \in Call, Increment(c) PROVE OpenerInv'
  <2>1. \A n \in Nat : Verdict(request[c], n) \in {"refused", "forbidden", "handle"}
    BY DEF Verdict, Entry
  <2>2. counter[KeyOf(c)] \in Nat
    BY <1>3 DEF Increment, GatewayTypeOK, Request
  <2> DEFINE where == IF counter[KeyOf(c)] + 1 = 1 THEN "expire"
                      ELSE Verdict(request[c], counter[KeyOf(c)] + 1)
  <2>3. where \in {"expire", "refused", "forbidden", "handle", "lost"}
    BY <2>1, <2>2
  <2>4. where = "expire" => counter[KeyOf(c)] = 0
    BY <2>1, <2>2
  <2>5. pc' = [pc EXCEPT ![c] = where]
    BY <1>3 DEF Increment
  <2> HIDE DEF where
  <2> QED
    BY <1>2, <1>3, <2>3, <2>4, <2>5 DEF Increment
<1>4. ASSUME NEW c \in Call, SetExpiry(c) PROVE OpenerInv'
  <2>1. Verdict(request[c], 1) # "expire"
    BY DEF Verdict, Entry
  <2>2. KeyOf(c) \in Key /\ counter[KeyOf(c)] > 0
    BY <1>4, CountedNone DEF SetExpiry, GatewayTypeOK, Request
  <2> QED
    BY <1>4, <2>1, <2>2 DEF SetExpiry, history, GatewayTypeOK
<1>5. ASSUME NEW c \in Call, LoseIncrement(c) PROVE OpenerInv'
  <2>1. CASE Count(c)
    BY <1>2, <1>5, <2>1 DEF LoseIncrement
  <2>2. CASE UNCHANGED <<counter, counted, lost>>
    BY <1>5, <2>2 DEF LoseIncrement, GatewayTypeOK
  <2> QED
    BY <1>5, <2>1, <2>2 DEF LoseIncrement
<1>6. ASSUME NEW c \in Call, LoseExpiry(c) PROVE OpenerInv'
  <2>1. KeyOf(c) \in Key /\ counter[KeyOf(c)] > 0
    BY <1>6, CountedNone DEF LoseExpiry, GatewayTypeOK, Request
  <2> QED
    BY <1>6, <2>1 DEF LoseExpiry, GatewayTypeOK
<1>7. ASSUME NEW c \in Call, NEW outcome \in {"answered", "raised"}, Finish(c, outcome)
      PROVE  OpenerInv'
  BY <1>7 DEF Finish, history, GatewayTypeOK
<1>8. ASSUME NEW k \in Key, Lapse(k) PROVE OpenerInv'
  BY <1>8 DEF Lapse, GatewayTypeOK
<1>9. CASE UNCHANGED gatewayVars
  BY <1>9 DEF gatewayVars, history
<1> QED
  BY <1>1, <1>3, <1>4, <1>5, <1>6, <1>7, <1>8, <1>9 DEF GatewayNext, LimiterStep

\* A step after which no more calls hold places keeps PlaceInv.
LEMMA FewerPlaces ==
    ASSUME GatewayTypeOK, PlaceInv, NEW k \in Key, NEW e \in Limited,
           Places(k, e)' \subseteq Places(k, e)
    PROVE  Cardinality(Places(k, e)') <= Limit[e]
<1>1. Places(k, e) \in SUBSET Call
  BY DEF GatewayTypeOK, Places, LetThrough
<1>2. /\ Cardinality(Places(k, e)) \in Nat /\ Cardinality(Places(k, e)') \in Nat
      /\ Cardinality(Places(k, e)') <= Cardinality(Places(k, e))
  BY <1>1, CallSets
<1>3. Cardinality(Places(k, e)) <= Limit[e] /\ Limit[e] \in Nat
  BY GatewayAssumption DEF PlaceInv
<1> QED
  BY <1>2, <1>3

\* PlaceInv is kept by every step.
LEMMA PlaceNext ==
    ASSUME GatewayTypeOK, CountInv, OpenerInv, PlaceInv, CountInv', GatewayTypeOK',
           [GatewayNext]_gatewayVars
    PROVE  PlaceInv'
<1> SUFFICES ASSUME NEW k \in Key, NEW e \in Limited
             PROVE  Cardinality(Places(k, e)') <= Limit[e]
  BY DEF PlaceInv
<1> USE DEF Places, LetThrough, Passed
<1>1. ASSUME NEW new \in SUBSET Call, NEW asked \in [new -> Request], Arrive(asked)
      PROVE  Cardinality(Places(k, e)') <= Limit[e]
  <2>1. \A c \in counted[k] : c \notin new
    BY <1>1 DEF Arrive, CountInv
  <2>2. \A c \in counted[k] : pc'[c] = pc[c] /\ request'[c] = request[c]
    BY <1>1, <2>1 DEF Arrive, GatewayTypeOK
  <2>3. counted'[k] = counted[k]
    BY <1>1 DEF Arrive, history
  <2>4. Places(k, e)' \subseteq Places(k, e)
    BY <2>2, <2>3
  <2> QED
    BY <2>4, FewerPlaces
<1>2. ASSUME NEW c \in Call, Increment(c) PROVE Cardinality(Places(k, e)') <= Limit[e]
  <2> DEFINE count == counter[KeyOf(c)] + 1
  <2>1. KeyOf(c) \in Key /\ counter[KeyOf(c)] \in Nat /\ request[c].endpoint \in Limited
    BY <1>2 DEF Increment, GatewayTypeOK, Request, KeyOf
  <2>2. counted'[k] \in SUBSET Call /\ Places(k, e)' \in SUBSET counted'[k]
    BY DEF GatewayTypeOK
  <2>3. /\ Cardinality(Places(k, e)') \in Nat
        /\ Cardinality(Places(k, e)') <= counter'[k]
    BY <2>2, CallSets DEF CountInv
  <2>4. counter'[KeyOf(c)] = count
    BY <1>2, <2>1 DEF Increment, Count, GatewayTypeOK
  <2>5. Limit[e] \in Nat /\ Limit[e] >= 1
    BY GatewayAssumption
  <2>6. CASE k = KeyOf(c) /\ count = 1
    BY <2>3, <2>4, <2>5, <2>6
  <2>7. CASE k = KeyOf(c) /\ count # 1 /\ e = request[c].endpoint /\ count <= Limit[e]
    BY <2>1, <2>3, <2>4, <2>5, <2>7
  <2>8. CASE ~(k = KeyOf(c) /\ count = 1)
             /\ ~(k = KeyOf(c) /\ e = request[c].endpoint /\ count <= Limit[e])
    <3>1. \A d \in Call : d # c => pc'[d] = pc[d] /\ (d \in counted'[k] => d \in counted[k])
      BY <1>2, <2>1 DEF Increment, Count, GatewayTypeOK
    <3>2. UNCHANGED request
      BY <1>2 DEF Increment
    <3>3. c \notin Places(k, e)'
      <4>1. CASE k # KeyOf(c)
        <5>1. c \notin counted'[k]
          BY <1>2, <2>1, <4>1 DEF Increment, Count, CountInv, GatewayTypeOK
        <5> QED
          BY <5>1
      <4>2. CASE k = KeyOf(c)
        <5>1. pc'[c] = Verdict(request[c], count)
          BY <1>2, <2>8, <4>2 DEF Increment, GatewayTypeOK
        <5>2. pc'[c] # "expire"
          BY <5>1 DEF Verdict, Entry
        <5>3. e = request[c].endpoint => pc'[c] = "refused"
          BY <2>1, <2>5, <2>8, <4>2, <5>1 DEF Verdict
        <5> QED
          BY <3>2, <5>2, <5>3
      <4> QED
        BY <4>1, <4>2
    <3>4. Places(k, e)' \subseteq Places(k, e)
      BY <2>2, <3>1, <3>2, <3>3
    <3> QED
      BY <3>4, FewerPlaces
  <2> QED
    BY <2>6, <2>7, <2>8
<1>3. ASSUME NEW c \in Call, SetExpiry(c) PROVE Cardinality(Places(k, e)') <= Limit[e]
  BY <1>3, FewerPlaces DEF SetExpiry, history, GatewayTypeOK
<1>4. ASSUME NEW c \in Call, LoseIncrement(c) PROVE Cardinality(Places(k, e)') <= Limit[e]
  <2>1. \A d \in Call : d # c => pc'[d] = pc[d] /\ (d \in counted'[k] => d \in counted[k])
    BY <1>4 DEF LoseIncrement, Count, GatewayTypeOK
  <2>2. pc'[c] = "lost" /\ UNCHANGED request
    BY <1>4 DEF LoseIncrement, GatewayTypeOK
  <2>3. counted'[k] \in SUBSET Call
    BY DEF GatewayTypeOK
  <2>4. Places(k, e)' \subseteq Places(k, e)
    BY <2>1, <2>2, <2>3
  <2> QED
    BY <2>4, FewerPlaces
<1>5. ASSUME NEW c \in Call, LoseExpiry(c) PROVE Cardinality(Places(k, e)') <= Limit[e]
  BY <1>5, FewerPlaces DEF LoseExpiry, GatewayTypeOK
<1>6. ASSUME NEW c \in Call, NEW outcome \in {"answered", "raised"}, Finish(c, outcome)
      PROVE  Cardinality(Places(k, e)') <= Limit[e]
  BY <1>6, FewerPlaces DEF Finish, history, GatewayTypeOK
<1>7. ASSUME NEW j \in Key, Lapse(j) PROVE Cardinality(Places(k, e)') <= Limit[e]
  BY <1>7, FewerPlaces DEF Lapse, GatewayTypeOK
<1>8. CASE UNCHANGED gatewayVars
  BY <1>8, FewerPlaces DEF gatewayVars, history
<1> QED
  BY <1>1, <1>2, <1>3, <1>4, <1>5, <1>6, <1>7, <1>8 DEF GatewayNext, LimiterStep

\* GatewayInv is inductive: it holds in every state of any gateway.
LEMMA GatewayInvariance == GatewaySpec => []GatewayInv
<1>1. GatewayInit => GatewayInv
  <2> SUFFICES ASSUME GatewayInit PROVE GatewayInv
    OBVIOUS
  <2>1. GatewayTypeOK
    BY GatewayAssumption DEF GatewayInit, GatewayTypeOK
  <2>2. OpenerInv
    BY DEF GatewayInit, OpenerInv
  <2>3. \A k \in Key, e \in Limited : Places(k, e) = {} /\ Limit[e] \in Nat
    BY GatewayAssumption DEF GatewayInit, Places, LetThrough
  <2>4. PlaceInv
    BY <2>3, FS_EmptySet DEF PlaceInv
  <2> QED
    BY <2>1, <2>2, <2>4, CountInit DEF GatewayInv
<1>2. GatewayInv /\ GatewayTypeOK' /\ [GatewayNext]_gatewayVars => GatewayInv'
  <2> SUFFICES ASSUME GatewayInv, GatewayTypeOK', [GatewayNext]_gatewayVars
               PROVE  GatewayInv'
    OBVIOUS
  <2>1. CountInv'
    BY CountNext DEF GatewayInv
  <2>2. OpenerInv'
    BY OpenerNext DEF GatewayInv
  <2>3. PlaceInv'
    BY <2>1, PlaceNext DEF GatewayInv
  <2> QED
    BY <2>1, <2>2, <2>3 DEF GatewayInv
<1> QED
  BY <1>1, <1>2, GatewayTyping, PTL DEF GatewaySpec

-----------------------------------------------------------------------------
(***************************************************************************)
(* What follows for the gateway                                            *)
(***************************************************************************)
\* Those that are through hold places.
LEMMA InvWithinLimit == GatewayInv => WithinLimit
<1> SUFFICES ASSUME GatewayInv, NEW k \in Key, NEW e \in Limited
             PROVE  Cardinality(LetThrough(k, e)) <= Limit[e]
  BY DEF WithinLimit
<1>1. Places(k, e) \in SUBSET Call /\ LetThrough(k, e) \in SUBSET Places(k, e)
  BY DEF GatewayInv, GatewayTypeOK, Places, LetThrough
<1>2. Cardinality(Places(k, e)) <= Limit[e] /\ Limit[e] \in Nat
  BY GatewayAssumption DEF GatewayInv, PlaceInv
<1>3. /\ Cardinality(Places(k, e)) \in Nat /\ Cardinality(LetThrough(k, e)) \in Nat
      /\ Cardinality(LetThrough(k, e)) <= Cardinality(Places(k, e))
  BY <1>1, CallSets
<1> QED
  BY <1>2, <1>3

RefusedLate ==
    \A c \in Call : pc[c] # "refused" /\ pc'[c] = "refused" =>
        Cardinality(counted[KeyOf(c)] \ {c}) >= Limit[request[c].endpoint]

\* A call is refused by Increment alone, whose count includes the call itself.
LEMMA RefusalStep ==
    ASSUME GatewayInv, [GatewayNext]_gatewayVars
    PROVE  RefusedLate
<1> SUFFICES ASSUME NEW c \in Call, pc[c] # "refused", pc'[c] = "refused"
             PROVE  Cardinality(counted[KeyOf(c)] \ {c}) >= Limit[request[c].endpoint]
  BY DEF RefusedLate
<1> USE DEF GatewayInv, GatewayTypeOK
<1>1. CASE Increment(c)
  <2>1. /\ KeyOf(c) \in Key /\ counter[KeyOf(c)] \in Nat
        /\ request[c].endpoint \in Limited /\ c \notin counted[KeyOf(c)]
    BY <1>1 DEF Increment, KeyOf, Request, CountInv
  <2>2. counted[KeyOf(c)] \ {c} = counted[KeyOf(c)]
    BY <2>1
  <2>3. pc'[c] = Verdict(request[c], counter[KeyOf(c)] + 1)
    BY <1>1, <2>1 DEF Increment
  <2>4. counter[KeyOf(c)] + 1 > Limit[request[c].endpoint]
    BY <2>3 DEF Verdict, Entry
  <2>5. Limit[request[c].endpoint] \in Nat
    BY <2>1, GatewayAssumption
  <2>6. counter[KeyOf(c)] >= Limit[request[c].endpoint]
    BY <2>1, <2>4, <2>5
  <2>7. Cardinality(counted[KeyOf(c)]) = counter[KeyOf(c)]
    BY <2>1 DEF CountInv
  <2> QED
    BY <2>2, <2>6, <2>7
<1>2. ~SetExpiry(c)
  <2> SUFFICES ASSUME SetExpiry(c) PROVE FALSE
    OBVIOUS
  <2>1. Limit[request[c].endpoint] \in Nat \ {0}
    BY GatewayAssumption DEF SetExpiry
  <2> QED
    BY <2>1 DEF SetExpiry, Verdict, Entry
<1>3. ASSUME NEW new \in SUBSET Call, NEW asked \in [new -> Request], Arrive(asked)
      PROVE  FALSE
  BY <1>3 DEF Arrive, Admission, Entry
<1>4. ASSUME NEW d \in Call, d # c, LimiterStep(d) PROVE FALSE
  BY <1>4 DEF LimiterStep, Increment, SetExpiry, LoseIncrement, LoseExpiry
<1>5. ~LoseIncrement(c) /\ ~LoseExpiry(c)
  BY DEF LoseIncrement, LoseExpiry
<1>6. ASSUME NEW d \in Call, NEW outcome \in {"answered", "raised"}, Finish(d, outcome)
      PROVE  FALSE
  BY <1>6 DEF Finish
<1>7. ASSUME NEW k \in Key, Lapse(k) PROVE FALSE
  BY <1>7 DEF Lapse
<1>8. CASE UNCHANGED gatewayVars
  BY <1>8 DEF gatewayVars
<1> QED
  BY SMTT(60), <1>1, <1>2, <1>3, <1>4, <1>5, <1>6, <1>7, <1>8 DEF GatewayNext, LimiterStep

\* WithinLimit for every gateway: no more than the limit get through in a window,
\* for any calls, keys and limits, whatever is lost.
THEOREM GatewayWithinLimit == GatewaySpec => []WithinLimit
BY GatewayInvariance, InvWithinLimit, PTL

\* RefusedOverLimit for every gateway: a refusal has its limit's worth of others.
THEOREM GatewayRefusedOverLimit == GatewaySpec => RefusedOverLimit
<1>1. GatewayInv /\ [GatewayNext]_gatewayVars => [RefusedLate]_gatewayVars
  BY RefusalStep
<1> QED
  BY <1>1, GatewayInvariance, PTL DEF GatewaySpec, RefusedOverLimit, RefusedLate

-----------------------------------------------------------------------------
(***************************************************************************)
(* The console is a user of the gateway                                    *)
(***************************************************************************)
\* What the page asks, and what others ask, are requests.
LEMMA ConsoleRequests ==
    ASSUME NEW endpoint \in Endpoint, NEW held \in Token
    PROVE  Asking(endpoint, held) \in Request
BY ConsoleAssumption DEF Asking, Request

\* A page holds a token that may be entered, or none.
TokenInv == token \in Token
LEMMA TokenTyping == Spec => []TokenInv
<1>1. Init => TokenInv
  BY DEF Init, Token, TokenInv
<1>2. TokenInv /\ [Next]_vars => TokenInv'
  BY ConsoleAssumption DEF TokenInv, Token, Next, vars, page, data, Enter, Logout, Submit, Visited,
     Answer, Raise, Fill, Succeed, Fail
<1> QED
  BY <1>1, <1>2, PTL DEF Spec

\* A reload is the arrival of calls of its operation.
LEMMA ReloadArrives ==
    ASSUME NEW o \in Op, NEW tables \in SUBSET Table, NEW held \in Token,
           Reload(o, tables, held)
    PROVE  GatewayNext
<1> DEFINE new == {<<o, t>> : t \in tables}
           asked == [c \in new |-> Asking("manage", held)]
<1>1. new \in SUBSET Call
  BY ConsoleAssumption
<1>2. asked \in [new -> Request]
  BY ConsoleRequests DEF Endpoint
<1>3. Arrive(asked)
  BY DEF Reload
<1> HIDE DEF new, asked
<1> QED
  BY <1>1, <1>2, <1>3 DEF GatewayNext

\* Each step of the console is a step of the gateway or leaves it alone.
LEMMA ConsoleStep ==
    ASSUME TokenInv, [Next]_vars
    PROVE  [GatewayNext]_gatewayVars
<1> USE DEF TokenInv
<1>1. ASSUME NEW o \in Op, Enter(o) PROVE GatewayNext
  <2>1. PICK held \in PageToken : Reload(o, Table, held)
    BY <1>1 DEF Enter
  <2>2. held \in Token
    BY ConsoleAssumption
  <2> QED
    BY <2>1, <2>2, ReloadArrives
<1>2. ASSUME NEW o \in Op, Submit(o) PROVE GatewayNext
  <2>1. PICK what \in Change : Arrive([c \in {<<o, "change">>} |->
            Asking(IF what = "ingest" THEN "ingest" ELSE "manage", token)])
    BY <1>2 DEF Submit
  <2> DEFINE endpoint == IF what = "ingest" THEN "ingest" ELSE "manage"
             asked == [c \in {<<o, "change">>} |-> Asking(endpoint, token)]
  <2>2. {<<o, "change">>} \in SUBSET Call
    BY ConsoleAssumption
  <2>3. asked \in [{<<o, "change">>} -> Request]
    BY ConsoleRequests DEF Endpoint
  <2>4. Arrive(asked)
    BY <2>1
  <2> HIDE DEF asked
  <2> QED
    BY <2>2, <2>3, <2>4 DEF GatewayNext
<1>3. ASSUME NEW o \in Op, Succeed(o) PROVE GatewayNext
  <2>1. ReloadedBy(change[o]) \in SUBSET Table
    BY DEF ReloadedBy, Table
  <2>2. Reload(o, ReloadedBy(change[o]), token)
    BY <1>3 DEF Succeed
  <2> QED
    BY <2>1, <2>2, ReloadArrives
<1>4. ASSUME NEW v \in Visit, Visited(v) PROVE GatewayNext
  <2>1. PICK q \in Traffic : Arrive([c \in {<<v, "visit">>} |-> q])
    BY <1>4 DEF Visited
  <2> DEFINE asked == [c \in {<<v, "visit">>} |-> q]
  <2>2. {<<v, "visit">>} \in SUBSET Call
    BY ConsoleAssumption
  <2>3. asked \in [{<<v, "visit">>} -> Request]
    BY ConsoleAssumption
  <2>4. Arrive(asked)
    BY <2>1
  <2> HIDE DEF asked
  <2> QED
    BY <2>2, <2>3, <2>4 DEF GatewayNext
<1>5. ASSUME NEW c \in Call, Answer(c) \/ Raise(c) PROVE GatewayNext
  BY <1>5 DEF Answer, Raise, GatewayNext
<1>6. ASSUME NEW c \in Call, Fill(c) PROVE UNCHANGED gatewayVars
  BY <1>6 DEF Fill
<1>7. ASSUME NEW o \in Op, Fail(o) PROVE UNCHANGED gatewayVars
  BY <1>7 DEF Fail
<1>8. Logout => UNCHANGED gatewayVars
  BY DEF Logout
<1>9. CASE UNCHANGED vars
  BY <1>9 DEF vars
<1>10. ASSUME NEW c \in Call, LimiterStep(c) PROVE GatewayNext
  BY <1>10 DEF GatewayNext
<1>11. ASSUME NEW k \in Key, Lapse(k) PROVE GatewayNext
  BY <1>11 DEF GatewayNext
<1> QED
  BY <1>1, <1>2, <1>3, <1>4, <1>5, <1>6, <1>7, <1>8, <1>9, <1>10, <1>11 DEF Next

\* The console implements the gateway: whatever a page and others send it is a
\* behaviour of the gateway.
THEOREM ConsoleIsGateway == Spec => GatewaySpec
<1>1. Init => GatewayInit
  BY DEF Init
<1>2. TokenInv /\ [Next]_vars => [GatewayNext]_gatewayVars
  BY ConsoleStep
<1> QED
  BY <1>1, <1>2, TokenTyping, PTL DEF Spec, GatewaySpec

\* So WithinLimit and RefusedOverLimit hold of the console for any operations,
\* visits, keys and limits.
THEOREM ConsoleWithinLimit == Spec => []WithinLimit
BY ConsoleIsGateway, GatewayWithinLimit

THEOREM ConsoleRefusedOverLimit == Spec => RefusedOverLimit
BY ConsoleIsGateway, GatewayRefusedOverLimit

-----------------------------------------------------------------------------
(***************************************************************************)
(* What a table shows.  A change the page is told of reloads the table it  *)
(* affects, and the list is read after that; so as long as no older reload *)
(* can still answer, what comes in is no older than the change.            *)
(***************************************************************************)
ConsoleTypeOK ==
    /\ token \in Token
    /\ change \in [Op -> Change \cup {"unsent", "nothing"}]
    /\ waiting \subseteq Call
    /\ table \in [Table -> [shows : {"blank", "loading", "error", "list"}, revision : Nat]]
    /\ revision \in [Table -> Nat] /\ body \in [Call -> Nat] /\ own \in [Table -> Nat]
    /\ racing \subseteq Table

Awaited(t) == ListCalls(t) \cap waiting
Fresh(t) ==
    /\ table[t].shows = "loading" => Awaited(t) # {}
    /\ t \notin racing =>
        /\ \A c \in Awaited(t) : pc[c] = "answered" => body[c] >= own[t]
        /\ Awaited(t) = {} /\ table[t].shows = "list" => table[t].revision >= own[t]
Told(o) ==
    /\ change[o] \in {"unsent", "nothing"} => <<o, "change">> \notin waiting
    /\ <<o, "change">> \in waiting /\ pc[<<o, "change">>] = "answered" =>
        body[<<o, "change">>] <= revision[Affects(change[o])]
ShownInv ==
    /\ ConsoleTypeOK
    /\ \A o \in Op : Told(o)
    /\ \A t \in Table : own[t] <= revision[t] /\ Fresh(t)

\* The calls of the page, told apart.
LEMMA PageCalls ==
    /\ \A o \in Op, t \in Table : <<o, t>> \in Call /\ <<o, t>> \in ListCalls(t)
    /\ \A o \in Op : <<o, "change">> \in Call /\ \A t \in Table : <<o, "change">> \notin ListCalls(t)
    /\ \A t \in Table : \A c \in ListCalls(t) : c \in Call /\ c[2] = t
    /\ \A o \in Op, s, t \in Table : s # t => <<o, s>> \notin ListCalls(t)
<1>1. "change" \notin Table
  BY DEF Table
<1> QED BY <1>1, ConsoleAssumption DEF ListCalls

\* Only the endpoint answers a call: one that arrives is not answered yet, and
\* the limiter answers none.
LEMMA ArrivalUnanswered ==
    ASSUME GatewayTypeOK, NEW new \in SUBSET Call, NEW asked \in [new -> Request], Arrive(asked)
    PROVE  \A c \in Call : pc'[c] = "answered" => pc[c] = "answered" /\ c \notin new
<1>1. \A q \in Request : Admission(q) # "answered"
  BY DEF Admission, Entry
<1> QED BY <1>1 DEF Arrive
LEMMA LimiterUnanswered ==
    ASSUME GatewayTypeOK, NEW c \in Call, LimiterStep(c)
    PROVE  \A d \in Call : pc'[d] = "answered" => pc[d] = "answered"
<1>1. \A q \in Request, n \in Nat : Verdict(q, n) # "answered"
  BY DEF Verdict, Entry
<1>2. pc \in [Call -> {"new", "limit", "expire", "handle"} \cup Ended]
  BY DEF GatewayTypeOK
<1>3. pc[c] \in {"limit", "expire"} => request[c] \in Request /\ counter[KeyOf(c)] \in Nat
  BY DEF GatewayTypeOK, KeyOf, Request
<1>4. CASE Increment(c)
  BY <1>1, <1>2, <1>3, <1>4 DEF Increment
<1>5. CASE SetExpiry(c)
  BY <1>1, <1>2, <1>3, <1>5 DEF SetExpiry
<1>6. CASE LoseIncrement(c) \/ LoseExpiry(c)
  BY <1>2, <1>6 DEF LoseIncrement, LoseExpiry
<1> QED BY <1>4, <1>5, <1>6 DEF LimiterStep

\* A step that answers no call, and changes nothing of the page, keeps ShownInv.
LEMMA ShownElsewhere ==
    ASSUME ShownInv, UNCHANGED <<page, data>>,
           \A c \in Call : pc'[c] = "answered" => pc[c] = "answered"
    PROVE  ShownInv'
<1>1. UNCHANGED <<token, change, waiting, table, own, racing, revision, body>>
  BY DEF page, data
<1>2. \A o \in Op : Told(o)'
  BY <1>1, PageCalls DEF ShownInv, Told
<1>3. \A t \in Table : Fresh(t)'
  BY <1>1, PageCalls DEF ShownInv, Fresh, Awaited
<1>4. ConsoleTypeOK' /\ \A t \in Table : own'[t] <= revision'[t]
  BY <1>1 DEF ShownInv, ConsoleTypeOK
<1> QED BY <1>2, <1>3, <1>4 DEF ShownInv

\* A reload: a table without another under way has one call awaited, which is
\* not answered yet; the tables that are not reloaded are as they were.
LEMMA FreshReload ==
    ASSUME GatewayTypeOK, ShownInv, NEW o \in Op, NEW tables \in SUBSET Table, NEW held \in Token,
           Reload(o, tables, held),
           waiting' \subseteq waiting \cup {<<o, t>> : t \in tables},
           (waiting \ {<<o, "change">>}) \cup {<<o, t>> : t \in tables} \subseteq waiting',
           \A t \in Table : \A c \in ListCalls(t) : body'[c] = body[c],
           \A t \in Table \ tables : own'[t] = own[t]
    PROVE  /\ \A t \in Table : Fresh(t)'
           /\ \A c \in Call : pc'[c] = "answered" => pc[c] = "answered"
           /\ racing' \subseteq Table
           /\ table' \in [Table -> [shows : {"blank", "loading", "error", "list"}, revision : Nat]]
<1> DEFINE new == {<<o, t>> : t \in tables}
           asked == [c \in new |-> Asking("manage", held)]
<1>1. \A c \in Call : pc'[c] = "answered" => pc[c] = "answered" /\ c \notin new
  <2>1. new \in SUBSET Call /\ asked \in [new -> Request]
    BY ConsoleAssumption, ConsoleRequests DEF Endpoint
  <2>2. Arrive(asked)
    BY DEF Reload
  <2> HIDE DEF new, asked
  <2> QED BY <2>1, <2>2, ArrivalUnanswered
<1>2. /\ table' = [t \in Table |-> IF t \in tables THEN Notice("loading") ELSE table[t]]
      /\ racing' = (racing \ tables) \cup {t \in tables : Awaited(t) # {}}
  BY DEF Reload, Awaited
<1>3. ASSUME NEW t \in tables PROVE Fresh(t)'
  <2>1. <<o, t>> \in Awaited(t)'
    BY PageCalls DEF Awaited
  <2>2. table'[t].shows = "loading"
    BY <1>2 DEF Notice
  <2>3. ASSUME t \notin racing', NEW c \in Awaited(t)' PROVE pc'[c] # "answered"
    <3>1. Awaited(t) = {}
      BY <1>2, <2>3
    <3>2. c \in new /\ c \in Call
      BY <2>3, <3>1, PageCalls DEF Awaited
    <3> QED BY <1>1, <3>2
  <2> QED BY <2>1, <2>2, <2>3 DEF Fresh
<1>4. ASSUME NEW t \in Table \ tables PROVE Fresh(t)'
  <2>1. Awaited(t)' = Awaited(t)
    BY <1>4, PageCalls DEF Awaited
  <2>2. table'[t] = table[t] /\ own'[t] = own[t] /\ (t \notin racing' => t \notin racing)
    BY <1>2, <1>4
  <2>3. \A c \in Awaited(t) : c \in Call /\ body'[c] = body[c]
    BY PageCalls DEF Awaited
  <2>4. Fresh(t)
    BY DEF ShownInv
  <2> QED BY <1>1, <2>1, <2>2, <2>3, <2>4 DEF Fresh
<1>5. racing' \subseteq Table
  BY <1>2 DEF ShownInv, ConsoleTypeOK
<1>6. table' \in [Table -> [shows : {"blank", "loading", "error", "list"}, revision : Nat]]
  BY <1>2 DEF Notice, ShownInv, ConsoleTypeOK
<1> QED BY <1>1, <1>3, <1>4, <1>5, <1>6

\* An operation begins: no call of it is under way.
LEMMA ShownEnter ==
    ASSUME GatewayTypeOK, ShownInv, NEW o \in Op, Enter(o)
    PROVE  ShownInv'
<1>1. PICK held \in PageToken : token' = held /\ Reload(o, Table, held)
  BY DEF Enter
<1>2. /\ held \in Token /\ change[o] = "unsent" /\ change' = [change EXCEPT ![o] = "nothing"]
      /\ waiting' = waiting \cup {<<o, t>> : t \in Table} /\ UNCHANGED <<own, revision, body>>
      /\ <<o, "change">> \notin waiting /\ change \in [Op -> Change \cup {"unsent", "nothing"}]
  BY ConsoleAssumption DEF Enter, IsNext, data, ShownInv, Told, ConsoleTypeOK
<1>3. /\ racing' \subseteq Table /\ \A t \in Table : Fresh(t)'
      /\ \A c \in Call : pc'[c] = "answered" => pc[c] = "answered"
      /\ table' \in [Table -> [shows : {"blank", "loading", "error", "list"}, revision : Nat]]
  BY <1>1, <1>2, FreshReload
<1>4. ConsoleTypeOK'
  <2>1. waiting' \subseteq Call
    BY <1>2, PageCalls DEF ShownInv, ConsoleTypeOK
  <2>2. change' \in [Op -> Change \cup {"unsent", "nothing"}]
    BY <1>2
  <2>3. revision' \in [Table -> Nat] /\ body' \in [Call -> Nat] /\ own' \in [Table -> Nat]
    BY <1>2 DEF ShownInv, ConsoleTypeOK
  <2>4. token' \in Token /\ racing' \subseteq Table
    BY <1>1, <1>2, <1>3
  <2>5. table' \in [Table -> [shows : {"blank", "loading", "error", "list"}, revision : Nat]]
    BY <1>3
  <2> QED BY <2>1, <2>2, <2>3, <2>4, <2>5, Zenon DEF ConsoleTypeOK
<1>5. \A p \in Op : <<p, "change">> \in waiting' => <<p, "change">> \in waiting
  BY <1>2 DEF Table
<1>6. ASSUME NEW p \in Op PROVE Told(p)'
  <2>1. CASE p = o
    BY <1>2, <1>5, <2>1 DEF Told
  <2>2. CASE p # o
    BY <1>2, <1>3, <1>5, <2>2, PageCalls DEF ShownInv, Told
  <2> QED BY <2>1, <2>2
<1> QED BY <1>2, <1>3, <1>4, <1>6 DEF ShownInv

LEMMA ShownSubmit ==
    ASSUME GatewayTypeOK, ShownInv, NEW o \in Op, Submit(o)
    PROVE  ShownInv'
<1>1. PICK what \in Change :
        /\ change' = [change EXCEPT ![o] = what]
        /\ Arrive([c \in {<<o, "change">>} |->
                Asking(IF what = "ingest" THEN "ingest" ELSE "manage", token)])
  BY DEF Submit
<1>2. /\ change \in [Op -> Change \cup {"unsent", "nothing"}] /\ token \in Token
      /\ waiting' = waiting \cup {<<o, "change">>}
      /\ UNCHANGED <<token, table, own, racing, revision, body>>
  BY DEF Submit, data, ShownInv, ConsoleTypeOK
<1>3. \A c \in Call : pc'[c] = "answered" => pc[c] = "answered" /\ c # <<o, "change">>
  <2> DEFINE endpoint == IF what = "ingest" THEN "ingest" ELSE "manage"
             asked == [c \in {<<o, "change">>} |-> Asking(endpoint, token)]
  <2>1. {<<o, "change">>} \in SUBSET Call
    BY PageCalls
  <2>2. asked \in [{<<o, "change">>} -> Request]
    BY <1>2, ConsoleRequests DEF Endpoint
  <2>3. Arrive(asked)
    BY <1>1
  <2> HIDE DEF asked
  <2>4. \A c \in Call : pc'[c] = "answered" => pc[c] = "answered" /\ c \notin {<<o, "change">>}
    BY <2>1, <2>2, <2>3, ArrivalUnanswered
  <2> QED BY <2>4
<1>4. ConsoleTypeOK'
  BY <1>1, <1>2, PageCalls DEF ShownInv, ConsoleTypeOK
<1>5. ASSUME NEW p \in Op PROVE Told(p)'
  <2>1. CASE p = o
    <3>1. change'[o] = what /\ what \notin {"unsent", "nothing"}
      BY <1>1, <1>2 DEF Change
    <3>2. pc'[<<o, "change">>] # "answered"
      BY <1>3, PageCalls
    <3> QED BY <2>1, <3>1, <3>2 DEF Told
  <2>2. CASE p # o
    <3>1. change'[p] = change[p] /\ <<p, "change">> # <<o, "change">>
      BY <1>1, <1>2, <2>2
    <3> QED BY <1>2, <1>3, <3>1, PageCalls DEF ShownInv, Told
  <2> QED BY <2>1, <2>2
<1>6. ASSUME NEW t \in Table PROVE Fresh(t)'
  <2>1. Awaited(t)' = Awaited(t) /\ \A c \in Awaited(t) : c \in Call
    BY <1>2, PageCalls DEF Awaited, ListCalls
  <2> QED BY <1>2, <1>3, <2>1 DEF ShownInv, Fresh
<1> QED BY <1>2, <1>4, <1>5, <1>6 DEF ShownInv

\* The page learns of a change, and reloads the table it affects.
LEMMA ShownSucceed ==
    ASSUME GatewayTypeOK, ShownInv, NEW o \in Op, Succeed(o)
    PROVE  ShownInv'
<1> DEFINE mine == <<o, "change">>
           tables == ReloadedBy(change[o])
           affected == Affects(change[o])
<1>1. /\ mine \in waiting /\ pc[mine] = "answered" /\ Reload(o, tables, token)
      /\ own' = [own EXCEPT ![affected] = body[mine]]
      /\ waiting' = (waiting \ {mine}) \cup {<<o, t>> : t \in tables}
      /\ body' = [body EXCEPT ![mine] = 0] /\ UNCHANGED <<token, change, revision>>
  BY DEF Succeed
<1>2. /\ tables \in SUBSET Table /\ affected \in tables
  BY DEF ReloadedBy, Affects, Table
<1>3. /\ body[mine] <= revision[affected] /\ body[mine] \in Nat /\ mine \in Call
      /\ own \in [Table -> Nat] /\ body \in [Call -> Nat] /\ token \in Token
  BY <1>1, PageCalls DEF ShownInv, ConsoleTypeOK, Told
<1> HIDE DEF tables, affected
<1>4. \A t \in Table : \A c \in ListCalls(t) : body'[c] = body[c]
  BY <1>1, <1>3, PageCalls
<1>5. \A t \in Table \ tables : own'[t] = own[t]
  BY <1>1, <1>2, <1>3
<1>6. /\ waiting' \subseteq waiting \cup {<<o, t>> : t \in tables}
      /\ (waiting \ {<<o, "change">>}) \cup {<<o, t>> : t \in tables} \subseteq waiting'
  BY <1>1
<1>7. /\ racing' \subseteq Table /\ \A t \in Table : Fresh(t)'
      /\ \A c \in Call : pc'[c] = "answered" => pc[c] = "answered"
      /\ table' \in [Table -> [shows : {"blank", "loading", "error", "list"}, revision : Nat]]
  BY <1>1, <1>2, <1>3, <1>4, <1>5, <1>6, FreshReload
<1>8. ConsoleTypeOK'
  <2>1. own' \in [Table -> Nat] /\ body' \in [Call -> Nat]
    BY <1>1, <1>2, <1>3
  <2>2. waiting' \subseteq Call
    BY <1>1, <1>2, PageCalls DEF ShownInv, ConsoleTypeOK
  <2> QED BY <1>1, <1>7, <2>1, <2>2 DEF ShownInv, ConsoleTypeOK
<1>9. \A t \in Table : own'[t] <= revision'[t]
  BY <1>1, <1>2, <1>3 DEF ShownInv
<1>10. ASSUME NEW p \in Op PROVE Told(p)'
  <2>1. <<p, "change">> \in waiting' => <<p, "change">> \in waiting /\ <<p, "change">> # mine
    BY <1>1, <1>2 DEF Table
  <2>2. <<p, "change">> # mine => body'[<<p, "change">>] = body[<<p, "change">>]
    BY <1>1, <1>3, PageCalls
  <2> QED BY <1>1, <1>7, <2>1, <2>2, PageCalls DEF ShownInv, Told
<1> QED BY <1>7, <1>8, <1>9, <1>10 DEF ShownInv

\* A call is answered: a list is read, or a change made, at this moment.
LEMMA ShownAnswer ==
    ASSUME GatewayTypeOK, ShownInv, NEW c \in Call, Answer(c) \/ Raise(c)
    PROVE  ShownInv'
<1>0. /\ UNCHANGED <<token, change, waiting, table, own, racing>>
      /\ revision \in [Table -> Nat] /\ body \in [Call -> Nat]
      /\ pc \in [Call -> {"new", "limit", "expire", "handle"} \cup Ended]
  BY DEF Answer, Raise, page, ShownInv, ConsoleTypeOK, GatewayTypeOK
<1>1. ChangedBy(c) \in Table
  BY DEF ChangedBy, Affects, Table
<1>2. /\ revision' \in [Table -> Nat] /\ \A t \in Table : revision[t] <= revision'[t]
  <2>1. revision' = revision \/ revision' = [revision EXCEPT ![ChangedBy(c)] = @ + 1]
    BY DEF Answer, Raise
  <2> QED BY <1>0, <1>1, <2>1
<1>3. \A d \in Call : d # c => pc'[d] = pc[d] /\ body'[d] = body[d]
  BY <1>0 DEF Answer, Raise, Finish
<1>4. pc'[c] = "answered" /\ c \in waiting =>
        body'[c] = revision'[IF IsList(c) THEN c[2] ELSE ChangedBy(c)]
  <2>1. CASE Answer(c)
    <3>1. c \in waiting => body' = [body EXCEPT ![c] = revision'[IF IsList(c) THEN c[2] ELSE ChangedBy(c)]]
      BY <2>1 DEF Answer
    <3> QED BY <1>0, <3>1
  <2>2. CASE Raise(c)
    BY <1>0, <2>2 DEF Raise, Finish
  <2> QED BY <2>1, <2>2
<1>5. body' \in [Call -> Nat]
  <2>1. (IF IsList(c) THEN c[2] ELSE ChangedBy(c)) \in Table
    BY <1>1 DEF IsList
  <2>2. revision'[IF IsList(c) THEN c[2] ELSE ChangedBy(c)] \in Nat
    BY <1>2, <2>1
  <2> QED BY <1>0, <2>2 DEF Answer, Raise
<1>6. ASSUME NEW t \in Table PROVE own'[t] <= revision'[t] /\ Fresh(t)'
  <2>1. own[t] <= revision'[t] /\ own[t] \in Nat /\ revision'[t] \in Nat
    <3>1. own[t] <= revision[t] /\ own[t] \in Nat
      BY DEF ShownInv, ConsoleTypeOK
    <3> QED BY <1>0, <1>2, <3>1
  <2>2. Awaited(t)' = Awaited(t) /\ Fresh(t)
    BY <1>0 DEF Awaited, ShownInv
  <2>3. ASSUME t \notin racing, NEW d \in Awaited(t), pc'[d] = "answered"
        PROVE  body'[d] >= own[t]
    <3>1. d \in Call /\ d[2] = t /\ d \in waiting
      BY PageCalls DEF Awaited
    <3>2. CASE d = c
      <4>1. IsList(c) /\ body'[c] = revision'[t]
        BY <1>4, <2>3, <3>1, <3>2 DEF IsList
      <4> QED BY <2>1, <3>2, <4>1
    <3>3. CASE d # c
      BY <1>3, <2>2, <2>3, <3>1, <3>3 DEF Fresh
    <3> QED BY <3>2, <3>3
  <2> QED BY <1>0, <2>1, <2>2, <2>3 DEF Fresh
<1>7. ASSUME NEW o \in Op PROVE Told(o)'
  <2> DEFINE mine == <<o, "change">>
  <2>1. mine \in Call /\ mine[1] = o /\ mine[2] = "change" /\ "change" \notin Table
    BY PageCalls DEF Table
  <2>2. Affects(change[o]) \in Table
    BY DEF Affects, Table
  <2>3. ASSUME mine \in waiting, pc'[mine] = "answered"
        PROVE  body'[mine] <= revision'[Affects(change[o])]
    <3>1. CASE mine = c
      <4>1. ~IsList(c) /\ ChangedBy(c) = Affects(change[o])
        BY <2>1, <3>1 DEF IsList, ChangedBy
      <4>2. body'[mine] = revision'[Affects(change[o])]
        BY <1>4, <2>3, <3>1, <4>1
      <4> QED BY <1>2, <2>2, <4>2
    <3>2. CASE mine # c
      <4>1. body'[mine] = body[mine] /\ pc[mine] = "answered"
        BY <1>3, <2>1, <2>3, <3>2
      <4>2. body[mine] <= revision[Affects(change[o])]
        BY <2>3, <4>1 DEF ShownInv, Told
      <4> QED BY <1>0, <1>2, <2>1, <2>2, <4>1, <4>2
    <3> QED BY <3>1, <3>2
  <2> QED BY <1>0, <2>3 DEF ShownInv, Told
<1>8. ConsoleTypeOK'
  BY <1>0, <1>2, <1>5 DEF ShownInv, ConsoleTypeOK
<1> QED BY <1>6, <1>7, <1>8 DEF ShownInv

\* A response fills its table, or a change's error is shown.
LEMMA ShownFill ==
    ASSUME GatewayTypeOK, ShownInv, NEW c \in Call, Fill(c)
    PROVE  ShownInv'
<1>0. /\ c \in waiting /\ c[2] \in Table /\ waiting' = waiting \ {c}
      /\ body' = [body EXCEPT ![c] = 0] /\ UNCHANGED <<pc, token, change, own, racing, revision>>
      /\ body \in [Call -> Nat]
      /\ table \in [Table -> [shows : {"blank", "loading", "error", "list"}, revision : Nat]]
  BY DEF Fill, IsList, gatewayVars, ShownInv, ConsoleTypeOK
<1>1. PICK shown : /\ table' = [table EXCEPT ![c[2]] = shown]
                   /\ \/ shown = Notice("error")
                      \/ pc[c] = "answered" /\ shown = List(body[c])
  BY DEF Fill
<1>2. /\ shown \in [shows : {"blank", "loading", "error", "list"}, revision : Nat]
      /\ shown.shows # "loading"
      /\ shown.shows = "list" => pc[c] = "answered" /\ shown.revision = body[c]
  BY <1>0, <1>1 DEF Notice, List
<1>3. ConsoleTypeOK'
  BY <1>0, <1>1, <1>2 DEF ShownInv, ConsoleTypeOK
<1>4. ASSUME NEW t \in Table PROVE own'[t] <= revision'[t] /\ Fresh(t)'
  <2>1. /\ own[t] <= revision[t] /\ Fresh(t) /\ Awaited(t)' = Awaited(t) \ {c}
    BY <1>0 DEF ShownInv, Awaited
  <2>2. \A d \in Awaited(t) : d \in Call /\ (d # c => body'[d] = body[d])
    BY <1>0, PageCalls DEF Awaited
  <2>3. CASE t = c[2]
    <3>1. table'[t] = shown
      BY <1>0, <1>1, <2>3
    <3>2. c \in Awaited(t)
      <4>1. c \in Call /\ c[2] \in Table
        BY <1>0 DEF ShownInv, ConsoleTypeOK
      <4>2. "change" \notin Table /\ "visit" \notin Table
        BY DEF Table
      <4> QED BY <1>0, <2>3, <4>1, <4>2, ConsoleAssumption DEF Awaited, ListCalls
    <3> QED BY <1>0, <1>2, <2>1, <2>2, <3>1, <3>2 DEF Fresh
  <2>4. CASE t # c[2]
    <3>1. table'[t] = table[t] /\ c \notin Awaited(t)
      BY <1>0, <1>1, <2>4, PageCalls DEF Awaited
    <3> QED BY <1>0, <2>1, <2>2, <3>1 DEF Fresh
  <2> QED BY <2>3, <2>4
<1>5. ASSUME NEW o \in Op PROVE Told(o)'
  <2>1. <<o, "change">> # c /\ <<o, "change">> \in Call
    BY <1>0, PageCalls DEF Table
  <2> QED BY <1>0, <2>1 DEF ShownInv, Told
<1> QED BY <1>3, <1>4, <1>5 DEF ShownInv
LEMMA ShownFail ==
    ASSUME GatewayTypeOK, ShownInv, NEW o \in Op, Fail(o)
    PROVE  ShownInv'
<1>0. /\ waiting' = waiting \ {<<o, "change">>} /\ body' = [body EXCEPT ![<<o, "change">>] = 0]
      /\ UNCHANGED <<pc, token, change, table, own, racing, revision>>
      /\ body \in [Call -> Nat] /\ <<o, "change">> \in Call
  BY PageCalls DEF Fail, gatewayVars, ShownInv, ConsoleTypeOK
<1>1. ConsoleTypeOK'
  BY <1>0 DEF ShownInv, ConsoleTypeOK
<1>2. ASSUME NEW t \in Table PROVE own'[t] <= revision'[t] /\ Fresh(t)'
  <2>1. /\ Awaited(t)' = Awaited(t)
        /\ \A d \in Awaited(t) : body'[d] = body[d]
    BY <1>0, PageCalls DEF Awaited
  <2> QED BY <1>0, <2>1 DEF ShownInv, Fresh
<1>3. ASSUME NEW p \in Op PROVE Told(p)'
  <2>1. <<p, "change">> \in waiting' =>
            <<p, "change">> \in waiting /\ body'[<<p, "change">>] = body[<<p, "change">>]
    BY <1>0, PageCalls
  <2> QED BY <1>0, <2>1 DEF ShownInv, Told
<1> QED BY <1>1, <1>2, <1>3 DEF ShownInv

\* ShownInv is inductive.
LEMMA ShownInit == Init => ShownInv
<1> SUFFICES ASSUME Init PROVE ShownInv
  OBVIOUS
<1>1. ConsoleTypeOK
  BY DEF Init, ConsoleTypeOK, Notice, Token
<1>2. \A t \in Table : own[t] <= revision[t] /\ Fresh(t)
  BY DEF Init, Fresh, Awaited, Notice
<1> QED BY <1>1, <1>2 DEF Init, ShownInv, Told
LEMMA ShownNext ==
    ASSUME GatewayTypeOK, ShownInv, [Next]_vars
    PROVE  ShownInv'
<1>1. ASSUME NEW o \in Op, Enter(o) \/ Submit(o) \/ Succeed(o) \/ Fail(o) PROVE ShownInv'
  BY <1>1, ShownEnter, ShownSubmit, ShownSucceed, ShownFail
<1>2. CASE Logout
  <2>1. /\ token' = "none" /\ UNCHANGED <<pc, change, waiting, table, own, racing, revision, body>>
    BY <1>2 DEF Logout, gatewayVars, data
  <2>2. \A o \in Op : Told(o)'
    BY <2>1 DEF ShownInv, Told
  <2>3. \A t \in Table : Fresh(t)'
    BY <2>1 DEF ShownInv, Fresh, Awaited
  <2> QED BY <2>1, <2>2, <2>3 DEF ShownInv, ConsoleTypeOK, Token
<1>3. ASSUME NEW v \in Visit, Visited(v) PROVE ShownInv'
  <2>1. PICK q \in Traffic : Arrive([c \in {<<v, "visit">>} |-> q])
    BY <1>3 DEF Visited
  <2> DEFINE asked == [c \in {<<v, "visit">>} |-> q]
  <2>2. {<<v, "visit">>} \in SUBSET Call /\ asked \in [{<<v, "visit">>} -> Request]
    BY ConsoleAssumption
  <2>3. Arrive(asked)
    BY <2>1
  <2> HIDE DEF asked
  <2>4. \A c \in Call : pc'[c] = "answered" => pc[c] = "answered"
    BY <2>2, <2>3, ArrivalUnanswered
  <2> QED BY <1>3, <2>4, ShownElsewhere DEF Visited
<1>4. ASSUME NEW c \in Call, Answer(c) \/ Raise(c) \/ Fill(c) PROVE ShownInv'
  BY <1>4, ShownAnswer, ShownFill
<1>5. ASSUME NEW c \in Call, LimiterStep(c), UNCHANGED <<page, data>> PROVE ShownInv'
  BY <1>5, LimiterUnanswered, ShownElsewhere
<1>6. ASSUME NEW k \in Key, Lapse(k), UNCHANGED <<page, data>> PROVE ShownInv'
  BY <1>6, ShownElsewhere DEF Lapse
<1>7. CASE UNCHANGED vars
  <2>1. UNCHANGED <<page, data>> /\ UNCHANGED pc
    BY <1>7 DEF vars, gatewayVars
  <2> QED BY <2>1, ShownElsewhere
<1> QED BY <1>1, <1>2, <1>3, <1>4, <1>5, <1>6, <1>7 DEF Next

\* TableIsCurrent: for any operations and visits, and whatever calls the limiter
\* refuses, loses or delays, a table at rest is no older than the last change
\* the page was told of, unless its last reload began during another.
THEOREM ConsoleTableIsCurrent == Spec => []TableIsCurrent
<1>1. ShownInv => TableIsCurrent
  BY DEF ShownInv, Fresh, Awaited, TableIsCurrent
<1>2. Spec => []GatewayTypeOK
  BY ConsoleIsGateway, GatewayTyping
<1>3. GatewayTypeOK /\ ShownInv /\ [Next]_vars => ShownInv'
  BY ShownNext
<1> QED BY <1>1, <1>2, <1>3, ShownInit, PTL DEF Spec
=============================================================================
