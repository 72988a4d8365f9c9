---------------------------- MODULE ChatSession ----------------------------
(***************************************************************************)
(* The handling of chat requests: the endpoints of routers/chat.py, the    *)
(* use case AnswerQuestion.execute_streaming, and the four stores it works *)
(* on (the Redis conversation store and answer cache, the SQL audit log,   *)
(* the core-banking API).  Requests interleave at their awaits.  What      *)
(* happens between two awaits that touch a store is one action.            *)
(*                                                                         *)
(* A request works on its own copy of the conversation, deserialized when  *)
(* it begins and written back whole when it ends.  The router's answer is  *)
(* any member of RouterOutcome, which RouterAgent is proved to keep to;    *)
(* the LLM classifiers may answer anything.                                *)
(*                                                                         *)
(* A definition commented as a slip is no part of the specification: it is *)
(* the definition below it with a plausible mistake in it.                 *)
(***************************************************************************)
EXTENDS Naturals, Sequences, FiniteSets, RouterContract

CONSTANTS
    Request,          \* chat requests, numbered in the order they arrive
    Conversation,     \* conversation ids
    Question,         \* resolved questions, stripped and in lower case
    Streaming,        \* those sent to POST /chat/stream, the others to POST /chat
    Absent,           \* a miss in the conversation store or the cache
    MaxInFlight       \* bound: requests open at once in a conversation

VARIABLES
    store,     \* conversation:<id> in Redis
    cache,     \* answer_cache:<key> in Redis
    audit,     \* rows of audit_log
    bank,      \* actions the core-banking system carried out, in order
    session    \* the local state of each request, and its history: what it
               \* streamed, whether it saved, and whether others were open then

vars == <<store, cache, audit, bank, session>>

\* A PendingAction.  `by`, the request whose answer proposed it, tells two
\* proposals of the same tool call apart.
Pending == [tool : ConfirmTools, by : Request]

Turn == [role : {"user", "assistant"}, by : Request]
ConversationState ==
    [is_authenticated : BOOLEAN, turns : Seq(Turn), pending_action : Pending \cup {NoAction}]

ASSUME ChatAssumption ==
    /\ Request \subseteq Nat /\ Streaming \subseteq Request
    /\ MaxInFlight \in Nat \ {0}
    /\ NoAction \notin Pending /\ Absent \notin ConversationState

\* OUT_OF_SCOPE_MESSAGE and ESCALATION_MESSAGE ("refused"), and the other
\* fixed answers.
FixedText == {"refused", "unavailable", "declined", "action_done",
              "action_completed", "action_failed", "numeric_unverified"}
Answer == [text : RouterText \cup FixedText, cited : BOOLEAN, grounded : BOOLEAN,
           pending_action : Pending \cup {NoAction}]
Key == Nat \X Question

NewSession ==
    [pc |-> "unsent", conv |-> Absent, identity |-> FALSE, copy |-> Absent,
     key |-> Absent, confirmed |-> NoAction, answer |-> Absent, replayed |-> FALSE,
     streamed |-> "none", saved |-> FALSE, overlapped |-> FALSE]

Init ==
    /\ store = [c \in Conversation |-> Absent]
    /\ cache = [k \in {} |-> Absent]
    /\ audit = {}
    /\ bank = <<>>
    /\ session = [r \in Request |-> NewSession]

Ended == {"done", "failed"}
At(r, pc) == session[r].pc = pc
InFlight(r) == session[r].pc \notin Ended \cup {"unsent"}
Within(c) == {r \in Request : session[r].conv = c}

\* A client knows the id of a conversation once one of its requests got a reply.
Knows(c) == \E q \in Within(c) : At(q, "done")
\* get finds the conversation, or uuid4 makes one with an id nobody has used.
LoadedFrom(c, auth) ==
    IF store[c] # Absent THEN store[c]
    ELSE [is_authenticated |-> auth, turns |-> <<>>, pending_action |-> NoAction]

Add(copy, role, r) == [copy EXCEPT !.turns = Append(@, [role |-> role, by |-> r])]

\* The endpoint: the conversation is loaded and the user turn added to the copy.
Receive(r) ==
    /\ At(r, "unsent") /\ \A q \in Request : q < r => ~At(q, "unsent")
    /\ \E c \in Conversation, auth \in BOOLEAN :
        /\ IF store[c] = Absent THEN Within(c) = {} ELSE Knows(c)
        /\ Cardinality({q \in Within(c) : InFlight(q)}) < MaxInFlight
        /\ session' = [session EXCEPT ![r] =
            [@ EXCEPT !.pc = "asked", !.conv = c, !.identity = auth,
                      !.copy = Add(LoadedFrom(c, auth), "user", r)]]
    /\ UNCHANGED <<store, cache, audit, bank>>

\* Slip: the proposal is not cleared.
Uncleared(r) == session[r].copy
\* The copy with no proposal left in it, at once when one is being resolved.
Cleared(r) == [session[r].copy EXCEPT !.pending_action = NoAction]

\* A turn that a guardrail or a resolved proposal ends: the assistant turn is
\* added and the answer is not cached.
Conclude(r, text) ==
    session' = [session EXCEPT ![r] =
        [@ EXCEPT !.pc = "audit", !.copy = Add(Cleared(r), "assistant", r),
                  !.answer = [text |-> text, cited |-> FALSE, grounded |-> TRUE,
                              pending_action |-> NoAction]]]

Proposed(r) == session[r].copy.pending_action
\* The request's registry holds the confirmable tools for an authenticated
\* identity, and for_conversation drops them in an anonymous conversation.
Available(r) == session[r].identity /\ session[r].copy.is_authenticated

\* _resolve_pending_action: with a proposal open, the message is its answer.
\* Unless the reply is a clear yes, nothing runs.
Decline(r) ==
    /\ At(r, "asked")
    /\ Proposed(r) # NoAction
    /\ Conclude(r, IF Available(r) THEN "declined" ELSE "unavailable")
    /\ UNCHANGED <<store, cache, audit, bank>>

Confirm(r) ==
    /\ At(r, "asked")
    /\ Proposed(r) # NoAction
    /\ Available(r)
    /\ session' = [session EXCEPT ![r] =
        [@ EXCEPT !.pc = "act", !.confirmed = Proposed(r), !.copy = Cleared(r)]]
    /\ UNCHANGED <<store, cache, audit, bank>>

\* What the bank did and what LockCardTool and _describe_tool_result make of its
\* answer: locked, not locked (no error either), or an exception - after which
\* the lock may be in place all the same (a timeout of 5 seconds).
ActionOutcome ==
    {[applied |-> TRUE,  text |-> "action_done"],
     [applied |-> FALSE, text |-> "action_completed"],
     [applied |-> TRUE,  text |-> "action_failed"],
     [applied |-> FALSE, text |-> "action_failed"]}
Act(r) ==
    /\ At(r, "act")
    /\ \E o \in ActionOutcome :
        /\ bank' = IF o.applied
                   THEN Append(bank, [request |-> r, pending |-> session[r].confirmed])
                   ELSE bank
        /\ Conclude(r, o.text)
    /\ UNCHANGED <<store, cache, audit>>

\* TopicGuardrail and SentimentEscalationGuardrail.
Refuse(r) ==
    /\ At(r, "asked")
    /\ Proposed(r) = NoAction
    /\ Conclude(r, "refused")
    /\ UNCHANGED <<store, cache, audit, bank>>

\* LLMQueryRewriter makes any question of it; the cache key is computed here,
\* with the user turn already counted.
Rewrite(r) ==
    /\ At(r, "asked")
    /\ Proposed(r) = NoAction
    /\ \E q \in Question :
        session' = [session EXCEPT ![r] =
            [@ EXCEPT !.key = <<Len(session[r].copy.turns), q>>,
                      !.pc = IF session[r].copy.is_authenticated
                               THEN "route" ELSE "lookup"]]
    /\ UNCHANGED <<store, cache, audit, bank>>

\* A hit is replayed as it is: no assistant turn, no audit record.
Replay(r) ==
    /\ At(r, "lookup")
    /\ session[r].key \in DOMAIN cache
    /\ session' = [session EXCEPT ![r] =
        [@ EXCEPT !.pc = "save", !.answer = cache[session[r].key], !.replayed = TRUE]]
    /\ UNCHANGED <<store, cache, audit, bank>>

Miss(r) ==
    /\ At(r, "lookup")
    /\ session[r].key \notin DOMAIN cache
    /\ session' = [session EXCEPT ![r].pc = "route"]
    /\ UNCHANGED <<store, cache, audit, bank>>

\* The router's answer, as this module keeps answers.
FromRouter(r, a) ==
    [text |-> a.text, cited |-> a.cited, grounded |-> a.grounded,
     pending_action |-> IF a.pending_action = NoAction THEN NoAction
                        ELSE [tool |-> a.pending_action, by |-> r]]
NeedsCheck(a) == a.grounded /\ a.pending_action = NoAction

\* The rest of the done branch: the assistant turn, pending_action, and whether
\* the answer goes to the cache before it is audited.
EndTurn(r, a) ==
    session' = [session EXCEPT ![r] =
        [@ EXCEPT !.pc = IF ~session[r].copy.is_authenticated /\ a.grounded /\ a.pending_action = NoAction
                         THEN "cache_set" ELSE "audit",
                  !.copy = [Add(session[r].copy, "assistant", r)
                            EXCEPT !.pending_action = a.pending_action],
                  !.answer = a]]

\* The router's delta events are passed on as they come, before the answer is
\* checked, cached, audited or saved; POST /chat drops them.
ForwardDelta(r) ==
    /\ At(r, "route")
    /\ r \in Streaming
    /\ session[r].streamed = "none"
    /\ \E s \in Forwarded \ {"none"} : session' = [session EXCEPT ![r].streamed = s]
    /\ UNCHANGED <<store, cache, audit, bank>>

\* RouterAgent.handle_streaming ends with an answer that fits what it forwarded;
\* then the numeric check of an answer that needs one.  A figure-free text (the
\* fallback is one) is always verified.
Answers(r, o) ==
    /\ o.pending_action # NoAction => session[r].identity
    /\ r \in Streaming => o.streamed = session[r].streamed
Unverified(a) == [a EXCEPT !.text = "numeric_unverified", !.grounded = FALSE]
\* Slip: the answer that replaces an unverified one stays grounded.
AnswerKeepingGrounded(r) ==
    /\ At(r, "route")
    /\ \E o \in RouterOutcome : LET a == FromRouter(r, o) IN
        /\ Answers(r, o)
        /\ \/ EndTurn(r, a)
           \/ NeedsCheck(a) /\ a.text = "model"
              /\ EndTurn(r, [a EXCEPT !.text = "numeric_unverified"])
    /\ UNCHANGED <<store, cache, audit, bank>>
\* Slip: a confirmable tool runs in the turn that asks for it.
AnswerActing(r) ==
    /\ At(r, "route")
    /\ \E o \in RouterOutcome : LET a == FromRouter(r, o) IN
        /\ Answers(r, o)
        /\ IF o.pending_action = NoAction THEN EndTurn(r, a)
           ELSE session' = [session EXCEPT ![r] =
                    [@ EXCEPT !.pc = "act", !.confirmed = a.pending_action]]
    /\ UNCHANGED <<store, cache, audit, bank>>
AnswerTurn(r) ==
    /\ At(r, "route")
    /\ \E o \in RouterOutcome : LET a == FromRouter(r, o) IN
        /\ Answers(r, o)
        /\ \/ EndTurn(r, a)
           \/ NeedsCheck(a) /\ a.text = "model" /\ EndTurn(r, Unverified(a))
    /\ UNCHANGED <<store, cache, audit, bank>>

\* cache.set, before the audit record is written.
StoreAnswer(r) ==
    /\ At(r, "cache_set")
    /\ cache' = [k \in DOMAIN cache \cup {session[r].key} |->
                    IF k = session[r].key THEN session[r].answer ELSE cache[k]]
    /\ session' = [session EXCEPT ![r].pc = "audit"]
    /\ UNCHANGED <<store, audit, bank>>

RecordAudit(r) ==
    /\ At(r, "audit")
    /\ audit' = audit \cup
        {[conv |-> session[r].conv, by |-> r, answer |-> session[r].answer]}
    /\ session' = [session EXCEPT ![r].pc = "save"]
    /\ UNCHANGED <<store, cache, bank>>

Saved(r) ==
    session' = [session EXCEPT ![r] =
        [@ EXCEPT !.pc = "reply", !.saved = TRUE,
                  !.overlapped = \E q \in Within(session[r].conv) \ {r} : InFlight(q)]]
\* Slip: the conversation is saved without waiting for the audit record.
SaveUnaudited(r) ==
    /\ At(r, "save") \/ At(r, "audit")
    /\ store' = [store EXCEPT ![session[r].conv] = session[r].copy]
    /\ Saved(r)
    /\ UNCHANGED <<cache, audit, bank>>
\* Slip: only a conversation the store does not hold yet is written.
SaveNew(r) ==
    /\ At(r, "save")
    /\ store' = IF store[session[r].conv] # Absent THEN store
                ELSE [store EXCEPT ![session[r].conv] = session[r].copy]
    /\ Saved(r)
    /\ UNCHANGED <<cache, audit, bank>>
\* The whole conversation is written back, whatever the store holds by now.
Save(r) ==
    /\ At(r, "save")
    /\ store' = [store EXCEPT ![session[r].conv] = session[r].copy]
    /\ Saved(r)
    /\ UNCHANGED <<cache, audit, bank>>

\* The request ends; its local variables go out of scope, and a failed one has
\* no answer.
Finish(r) ==
    session' = [session EXCEPT ![r] =
        [@ EXCEPT !.pc = "done", !.identity = FALSE, !.copy = Absent, !.key = Absent,
                  !.confirmed = NoAction, !.streamed = "none"]]
Abort(r) ==
    session' = [session EXCEPT ![r] =
        [@ EXCEPT !.pc = "failed", !.identity = FALSE, !.copy = Absent, !.key = Absent,
                  !.confirmed = NoAction, !.streamed = "none", !.answer = Absent]]

\* The payload is built.  A replayed answer went through json.dumps(default=str),
\* so its citations are strings and have no __dict__: AttributeError.
Reply(r) ==
    /\ At(r, "reply")
    /\ IF session[r].replayed /\ session[r].answer.cited THEN Abort(r) ELSE Finish(r)
    /\ UNCHANGED <<store, cache, audit, bank>>

\* An exception, a client that goes away or a crash ends the request at an await.
Fail(r) ==
    /\ InFlight(r)
    /\ Abort(r)
    /\ UNCHANGED <<store, cache, audit, bank>>

\* The time to live of a stored conversation, and that of a cached answer.
Expire(c) ==
    /\ store[c] # Absent
    /\ store' = [store EXCEPT ![c] = Absent]
    /\ UNCHANGED <<cache, audit, bank, session>>
ExpireCached(k) ==
    /\ cache' = [j \in DOMAIN cache \ {k} |-> cache[j]]
    /\ UNCHANGED <<store, audit, bank, session>>

Step(r) ==
    \/ Decline(r) \/ Confirm(r) \/ Act(r) \/ Refuse(r) \/ Rewrite(r)
    \/ Replay(r) \/ Miss(r) \/ ForwardDelta(r) \/ AnswerTurn(r) \/ StoreAnswer(r)
    \/ RecordAudit(r) \/ Save(r) \/ Reply(r)

Next ==
    \/ \E r \in Request : Receive(r) \/ Step(r) \/ Fail(r)
    \/ \E c \in Conversation : Expire(c)
    \/ \E k \in DOMAIN cache : ExpireCached(k)

\* The event loop resumes a request whose await is over, and every external
\* call ends in an answer, an error or a timeout, so a request in flight keeps
\* moving.  Nothing obliges clients to send, stores to expire or calls to fail.
Fairness == \A r \in Request : WF_vars(Step(r))
Spec == Init /\ [][Next]_vars /\ Fairness
-----------------------------------------------------------------------------
(***************************************************************************)
(* Properties                                                              *)
(***************************************************************************)
Session ==
    [pc : {"unsent", "asked", "act", "lookup", "route", "cache_set", "audit",
           "save", "reply", "done", "failed"},
     conv : Conversation \cup {Absent}, identity : BOOLEAN,
     copy : ConversationState \cup {Absent}, key : Key \cup {Absent},
     confirmed : Pending \cup {NoAction}, answer : Answer \cup {Absent},
     replayed : BOOLEAN, streamed : Forwarded, saved : BOOLEAN, overlapped : BOOLEAN]

\* Every variable has its type.
TypeOK ==
    /\ store \in [Conversation -> ConversationState \cup {Absent}]
    /\ DOMAIN cache \subseteq Key
    /\ \A k \in DOMAIN cache : cache[k] \in Answer
    /\ audit \subseteq [conv : Conversation, by : Request, answer : Answer]
    /\ bank \in Seq([request : Request, pending : Pending])
    /\ session \in [Request -> Session]

\* A done event with a computed answer is sent only after that answer, word for
\* word, is in the audit log (answer_question.py:87-152, chat.py:77-86).  A
\* reply replayed from the cache is the exception (see EveryReplyAudited).
\* Nothing of the kind holds of the words streamed before the done event.
AuditBeforeDone ==
    \A r \in Request : At(r, "done") /\ ~session[r].replayed =>
        [conv |-> session[r].conv, by |-> r, answer |-> session[r].answer] \in audit

\* Whatever request last wrote a conversation back, and wherever a request
\* died: each assistant turn the store holds is in the audit log.
StoredTurnsAudited ==
    \A c \in Conversation : store[c] # Absent =>
        \A i \in DOMAIN store[c].turns : store[c].turns[i].role = "assistant" =>
            \E a \in audit : a.conv = c /\ a.by = store[c].turns[i].by

\* The bank never acts but on a proposal that an earlier request of the same
\* conversation made and that is in the audit log.
ExecutedWasOffered ==
    \A i \in DOMAIN bank : \E a \in audit :
        /\ a.answer.pending_action = bank[i].pending
        /\ a.by = bank[i].pending.by /\ a.by # bank[i].request
        /\ a.conv = session[bank[i].request].conv

\* What the cache can replay to other visitors is the router's words, grounded
\* and past the numeric check: never a proposal, a guardrail's text, the result
\* of an action or a figure that could not be verified
\* (numeric_grounding_guardrail.py:22-27, README.md:138-144).
CacheHoldsVerified ==
    \A k \in DOMAIN cache :
        /\ cache[k].grounded
        /\ cache[k].pending_action = NoAction
        /\ cache[k].text \in {"model", "fallback"}

\* A stored conversation has an open proposal exactly when its last turn is the
\* confirmation prompt: the next message always answers what the customer was
\* asked last, even when concurrent requests overwrite each other's turns.
OpenProposalIsLastTurn ==
    \A c \in Conversation : store[c] # Absent =>
        LET last == store[c].turns[Len(store[c].turns)]
            pending == store[c].pending_action
        IN /\ pending # NoAction => last = [role |-> "assistant", by |-> pending.by]
           /\ \A a \in audit : last = [role |-> "assistant", by |-> a.by] =>
                                    pending = a.answer.pending_action

\* An exchange is only ever lost by overlap: a request during whose save no
\* other one of the conversation was open is in every later state of the
\* conversation, its question followed by its answer (a replayed answer leaves
\* no assistant turn), whatever overlaps, fails or expires afterwards.
NoTurnLost ==
    \A c \in Conversation : store[c] # Absent =>
        \A r \in Within(c) : session[r].saved /\ ~session[r].overlapped =>
            \E i \in DOMAIN store[c].turns :
                /\ store[c].turns[i] = [role |-> "user", by |-> r]
                /\ \/ session[r].replayed
                   \/ /\ i < Len(store[c].turns)
                      /\ store[c].turns[i + 1] = [role |-> "assistant", by |-> r]

\* Once a request the bank acted for has saved, its proposal is closed for
\* good: no copy that another request still holds can bring it back, so a
\* second performance takes a request that was received before that save.
PerformedIsClosed ==
    \A c \in Conversation, i \in DOMAIN bank :
        store[c] # Absent /\ store[c].pending_action = bank[i].pending =>
            ~session[bank[i].request].saved

\* The proposal a request in flight is answering, until it is declined or
\* performed.
Answering(r) ==
    CASE At(r, "asked") -> session[r].copy.pending_action
      [] At(r, "act") -> session[r].confirmed
      [] OTHER -> NoAction
\* The proposals that a save has put into the store.
OpenedSoFar == {a.answer.pending_action : a \in {b \in audit : session[b.by].saved}} \ {NoAction}
Contract == INSTANCE ConfirmedAction WITH
    Proposal <- Pending, NoProposal <- NoAction, Attempt <- Request,
    open <- [c \in Conversation |->
                IF store[c] = Absent THEN NoAction ELSE store[c].pending_action],
    opened <- OpenedSoFar,
    held <- [r \in Request |-> Answering(r)],
    performed <- [i \in DOMAIN bank |->
                    [attempt |-> bank[i].request, proposal |-> bank[i].pending]]

\* However requests overlap, fail or expire, proposals are opened, taken up,
\* performed and closed as ConfirmedAction says.
ImplementsConfirmedAction == Contract!Spec

\* chat.py:56-58: the deltas are followed by "exactly one" done event.  A
\* request that got as far as its reply sends it, unless the client is gone.
SavedReplyIsSent == [][\A r \in Request : Reply(r) => session'[r].pc = "done"]_vars

\* README.md:234-235: "every exchange is written to an append-only log
\* regardless of outcome".  Replay leaves no record.
EveryReplyAudited ==
    \A r \in Request : At(r, "done") => \E a \in audit : a.by = r
=============================================================================
