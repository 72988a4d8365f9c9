------------------------------ MODULE Gateway ------------------------------
(***************************************************************************)
(* What stands in front of every endpoint: get_identity, the rate_limit    *)
(* dependency with RedisRateLimiter.is_allowed behind it, and the          *)
(* endpoints' is_employee check, in this order.  INCR and EXPIRE are two   *)
(* calls to Redis, and calls of all processes share its counters.          *)
(*                                                                         *)
(* Counters are kept per subject, or client host, and length of window -   *)
(* 60 seconds for every endpoint - so calls of one caller to different     *)
(* endpoints share a counter, each held against its own endpoint's limit.  *)
(*                                                                         *)
(* A definition commented as a slip is no part of the specification: it is *)
(* the definition below it with a plausible mistake in it.                 *)
(***************************************************************************)
EXTENDS Naturals, FiniteSets

CONSTANTS
    Call,        \* HTTP requests
    Key,         \* subjects of tokens and hosts of clients
    Limit,       \* requests per window of the limited endpoints
    NoRequest    \* the call has not arrived

\* chat: POST /chat, /chat/stream; ingest: POST /admin/documents, /admin/urls;
\* manage: the other admin endpoints.
Endpoint == {"chat", "ingest", "manage"}
Limited == {"chat", "ingest"}
Token == {"none", "invalid", "customer", "employee"}
\* The key is the token's subject, or the host if there is no token.
Request == [endpoint : Endpoint, token : Token, key : Key]

ASSUME GatewayAssumption ==
    /\ IsFiniteSet(Call)
    /\ Limit \in [Limited -> Nat \ {0}]
    /\ NoRequest \notin Request

VARIABLES
    pc,          \* where each call is
    request,     \* what each call asks for
    counter,     \* ratelimit:<key>:60 in Redis, 0 if the key does not exist
    expiring,    \* the keys with a TTL
    counted,     \* history: the calls INCR counted since the counter was created
    lost         \* history: keys whose first call never set the TTL

history == <<counted, lost>>
gatewayVars == <<pc, request, counter, expiring, history>>

GatewayInit ==
    /\ pc = [c \in Call |-> "new"]
    /\ request = [c \in Call |-> NoRequest]
    /\ counter = [k \in Key |-> 0]
    /\ expiring = {}
    /\ counted = [k \in Key |-> {}]
    /\ lost = {}

KeyOf(c) == request[c].key

\* The admin endpoints' first check; a chat endpoint has none.
Entry(q) == IF q.endpoint # "chat" /\ q.token # "employee" THEN "forbidden" ELSE "handle"

\* get_identity: an invalid token is a 401 and is not counted.
Admission(q) ==
    IF q.token = "invalid" THEN "unauthorized"
    ELSE IF q.endpoint \in Limited THEN "limit" ELSE Entry(q)
\* Calls reach their endpoints; a page can send several at once.
Arrive(asked) ==
    /\ \A c \in DOMAIN asked : pc[c] = "new"
    /\ request' = [c \in Call |-> IF c \in DOMAIN asked THEN asked[c] ELSE request[c]]
    /\ pc' = [c \in Call |-> IF c \in DOMAIN asked THEN Admission(asked[c]) ELSE pc[c]]
    /\ UNCHANGED <<counter, expiring, history>>

\* Slip: the call that reaches the limit is refused.
VerdictBelow(q, count) == IF count >= Limit[q.endpoint] THEN "refused" ELSE Entry(q)
\* is_allowed, and what follows; "refused" is the 429.
Verdict(q, count) == IF count > Limit[q.endpoint] THEN "refused" ELSE Entry(q)

Count(c) ==
    /\ counter' = [counter EXCEPT ![KeyOf(c)] = @ + 1]
    /\ counted' = [counted EXCEPT ![KeyOf(c)] = @ \cup {c}]

\* Slip: the verdict is about the count before this call.
IncrementLate(c) ==
    /\ pc[c] = "limit"
    /\ Count(c)
    /\ pc' = [pc EXCEPT ![c] = IF counter[KeyOf(c)] = 0 THEN "expire"
                               ELSE Verdict(request[c], counter[KeyOf(c)])]
    /\ UNCHANGED <<request, expiring, lost>>
\* Slip: the first call is not told apart.
IncrementOnly(c) ==
    /\ pc[c] = "limit"
    /\ Count(c)
    /\ pc' = [pc EXCEPT ![c] = Verdict(request[c], counter[KeyOf(c)] + 1)]
    /\ UNCHANGED <<request, expiring, lost>>
\* INCR; all but the call that made the counter have their verdict then.
Increment(c) ==
    /\ pc[c] = "limit"
    /\ Count(c)
    /\ LET count == counter[KeyOf(c)] + 1 IN
        pc' = [pc EXCEPT ![c] = IF count = 1 THEN "expire" ELSE Verdict(request[c], count)]
    /\ UNCHANGED <<request, expiring, lost>>

\* EXPIRE, by the call that made the counter.
SetExpiry(c) ==
    /\ pc[c] = "expire"
    /\ expiring' = expiring \cup {KeyOf(c)}
    /\ pc' = [pc EXCEPT ![c] = Verdict(request[c], 1)]
    /\ UNCHANGED <<request, counter, history>>

\* The call ends at INCR - Redis does not answer, say, or the process dies -
\* with the increment done or not.
LoseIncrement(c) ==
    /\ pc[c] = "limit"
    /\ \/ /\ Count(c)
          /\ lost' = IF counter[KeyOf(c)] = 0 THEN lost \cup {KeyOf(c)} ELSE lost
       \/ UNCHANGED <<counter, counted, lost>>
    /\ pc' = [pc EXCEPT ![c] = "lost"]
    /\ UNCHANGED <<request, expiring>>

\* The same at EXPIRE: without it the counter stays for ever.
LoseExpiry(c) ==
    /\ pc[c] = "expire"
    /\ \/ expiring' = expiring \cup {KeyOf(c)} /\ UNCHANGED lost
       \/ lost' = lost \cup {KeyOf(c)} /\ UNCHANGED expiring
    /\ pc' = [pc EXCEPT ![c] = "lost"]
    /\ UNCHANGED <<request, counter, counted>>

\* Redis drops the key when its TTL is over.
Lapse(k) ==
    /\ k \in expiring
    /\ counter' = [counter EXCEPT ![k] = 0]
    /\ expiring' = expiring \ {k}
    /\ counted' = [counted EXCEPT ![k] = {}]
    /\ UNCHANGED <<pc, request, lost>>

\* The endpoint's own work, from its use case to its answer or exception.
Finish(c, outcome) ==
    /\ pc[c] = "handle"
    /\ pc' = [pc EXCEPT ![c] = outcome]
    /\ UNCHANGED <<request, counter, expiring, history>>

LimiterStep(c) == Increment(c) \/ SetExpiry(c) \/ LoseIncrement(c) \/ LoseExpiry(c)

GatewayNext ==
    \/ \E new \in SUBSET Call : \E asked \in [new -> Request] : Arrive(asked)
    \/ \E c \in Call :
        \/ LimiterStep(c)
        \/ \E outcome \in {"answered", "raised"} : Finish(c, outcome)
    \/ \E k \in Key : Lapse(k)
GatewaySpec == GatewayInit /\ [][GatewayNext]_gatewayVars
-----------------------------------------------------------------------------
(***************************************************************************)
(* Properties                                                              *)
(***************************************************************************)
Ended == {"unauthorized", "lost", "refused", "forbidden", "answered", "raised"}

\* Every variable has its type, and a call that has arrived has a request.
GatewayTypeOK ==
    /\ pc \in [Call -> {"new", "limit", "expire", "handle"} \cup Ended]
    /\ request \in [Call -> Request \cup {NoRequest}]
    /\ \A c \in Call : pc[c] # "new" => request[c] \in Request
    /\ \A c \in Call : pc[c] \in {"limit", "expire", "refused"} => request[c].endpoint \in Limited
    /\ counter \in [Key -> Nat]
    /\ expiring \subseteq Key
    /\ counted \in [Key -> SUBSET Call]
    /\ lost \subseteq Key

Passed == {"forbidden", "handle", "answered", "raised"}
\* The calls to an endpoint that the limiter has let through in this window.
LetThrough(k, e) ==
    {c \in counted[k] : request[c].endpoint = e /\ pc[c] \in Passed}

\* However calls to INCR and EXPIRE interleave or get lost: from the creation
\* of a counter to its expiry, no more calls to an endpoint get past the
\* limiter than the endpoint's limit ("capping abuse and runaway cost",
\* redis_rate_limiter.py:3-5).
WithinLimit == \A k \in Key, e \in Limited : Cardinality(LetThrough(k, e)) <= Limit[e]

\* A call is refused only after as many others of the same caller, to any
\* limited endpoint, as its own endpoint's limit, all in the window that still
\* lasts; nobody pays for the window before, or for another caller.
RefusedOverLimit ==
    [][\A c \in Call : pc[c] # "refused" /\ pc'[c] = "refused" =>
        Cardinality(counted[KeyOf(c)] \ {c}) >= Limit[request[c].endpoint]]_gatewayVars

\* A window that has begun ends ("riprova tra qualche istante",
\* dependencies.py:52), unless the call that began it was lost before EXPIRE:
\* that key is refused for ever once it is over its limit.
WindowEnds == \A k \in Key : counter[k] > 0 ~> counter[k] = 0 \/ k \in lost
=============================================================================
