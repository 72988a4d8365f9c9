------------------------- MODULE ChatSessionProofs -------------------------
(***************************************************************************)
(* Proofs about ChatSession, for any requests, conversations and questions *)
(* and any number of concurrent, failing requests.                         *)
(***************************************************************************)
EXTENDS ChatSession, TLAPS

(***************************************************************************)
(* Type correctness.  TypeOK lets every local variable be absent; what a   *)
(* request has at each point of its life makes it inductive.               *)
(***************************************************************************)
WellFormed(s) ==
    /\ s \in Session
    /\ s.pc # "unsent" => s.conv \in Conversation
    /\ s.pc \notin Ended \cup {"unsent"} => s.copy \in ConversationState
    /\ s.pc \in {"lookup", "route", "cache_set"} => s.key \in Key
    /\ s.pc \in {"cache_set", "audit", "save", "reply", "done"} => s.answer \in Answer
    /\ s.pc = "act" => s.confirmed \in Pending
TypeInv ==
    /\ TypeOK
    /\ \A r \in Request : WellFormed(session[r])

\* A new session is well formed.
LEMMA NewSessionType == WellFormed(NewSession)
  BY DEF WellFormed, NewSession, Session, Ended, Forwarded

\* The initial state has its type.
LEMMA InitType == Init => TypeInv
  BY NewSessionType DEF Init, TypeInv, TypeOK, WellFormed, Key

\* Adding a turn to a conversation gives a conversation.
LEMMA AddType ==
    ASSUME NEW copy \in ConversationState, NEW r \in Request,
           NEW role \in {"user", "assistant"}
    PROVE /\ Add(copy, role, r) \in ConversationState
          /\ [Add(copy, role, r) EXCEPT !.pending_action = NoAction] \in ConversationState
          /\ \A p \in Pending \cup {NoAction} :
                [Add(copy, role, r) EXCEPT !.pending_action = p] \in ConversationState
  <1>1. [role |-> role, by |-> r] \in Turn
    BY DEF Turn
  <1>2. Append(copy.turns, [role |-> role, by |-> r]) \in Seq(Turn)
    BY <1>1 DEF ConversationState
  <1> QED BY <1>2 DEF Add, ConversationState

\* A step that gives one request a well-formed session keeps them all so.
LEMMA SessionUpdate ==
    ASSUME TypeInv, NEW r \in Request, NEW s, WellFormed(s),
           session' = [session EXCEPT ![r] = s]
    PROVE /\ session' \in [Request -> Session]
          /\ \A q \in Request : WellFormed(session'[q])
  BY DEF TypeInv, TypeOK, WellFormed

\* A step within one request that leaves the stores alone.
LEMMA LocalStep ==
    ASSUME TypeInv, NEW r \in Request, NEW s, WellFormed(s),
           session' = [session EXCEPT ![r] = s],
           UNCHANGED <<store, cache, audit, bank>>
    PROVE TypeInv'
  <1>1. /\ session' \in [Request -> Session]
        /\ \A q \in Request : WellFormed(session'[q])
    BY SessionUpdate
  <1> QED BY <1>1 DEF TypeInv, TypeOK

\* Ending a turn with a fixed text, and ending it with the router's answer.
LEMMA ConcludeType ==
    ASSUME TypeInv, NEW r \in Request, At(r, "asked") \/ At(r, "act"),
           NEW text \in FixedText, Conclude(r, text)
    PROVE \E s : WellFormed(s) /\ session' = [session EXCEPT ![r] = s]
  <1> DEFINE a == [text |-> text, cited |-> FALSE, grounded |-> TRUE, pending_action |-> NoAction]
             s == [session[r] EXCEPT !.pc = "audit", !.copy = Add(Cleared(r), "assistant", r),
                                     !.answer = a]
  <1>1. WellFormed(session[r]) /\ session[r].copy \in ConversationState /\ session[r].conv \in Conversation
    BY DEF TypeInv, WellFormed, At, Ended
  <1>2. Cleared(r) \in ConversationState
    BY <1>1 DEF Cleared, ConversationState
  <1>3. Add(Cleared(r), "assistant", r) \in ConversationState
    BY <1>2, AddType
  <1>4. a \in Answer
    BY DEF Answer
  <1>5. s \in Session /\ s.pc = "audit" /\ s.conv = session[r].conv
        /\ s.copy = Add(Cleared(r), "assistant", r) /\ s.answer = a
    BY <1>1, <1>3, <1>4 DEF WellFormed, Session
  <1>6. WellFormed(s)
    BY <1>1, <1>3, <1>4, <1>5 DEF WellFormed
  <1>7. session' = [session EXCEPT ![r] = s]
    BY DEF Conclude
  <1> HIDE DEF s
  <1> QED BY <1>6, <1>7

\* Ending a turn with the router's answer.
LEMMA EndTurnType ==
    ASSUME TypeInv, NEW r \in Request, At(r, "route"), NEW a \in Answer, EndTurn(r, a)
    PROVE \E s : WellFormed(s) /\ session' = [session EXCEPT ![r] = s]
  <1> DEFINE pc == IF ~session[r].copy.is_authenticated /\ a.grounded
                         /\ a.pending_action = NoAction
                   THEN "cache_set" ELSE "audit"
             copy == [Add(session[r].copy, "assistant", r) EXCEPT
                        !.pending_action = a.pending_action]
             s == [session[r] EXCEPT !.pc = pc, !.copy = copy, !.answer = a]
  <1>1. /\ WellFormed(session[r]) /\ session[r].copy \in ConversationState
        /\ session[r].conv \in Conversation /\ session[r].key \in Key
    BY DEF TypeInv, WellFormed, At, Ended
  <1>2. copy \in ConversationState
    BY <1>1, AddType DEF Answer
  <1>3. pc \in {"cache_set", "audit"}
    OBVIOUS
  <1>4. session' = [session EXCEPT ![r] = s]
    BY DEF EndTurn
  <1> HIDE DEF pc, copy
  <1>5. s \in Session /\ s.pc = pc /\ s.conv = session[r].conv /\ s.key = session[r].key
        /\ s.copy = copy /\ s.answer = a
    BY <1>1, <1>2, <1>3 DEF WellFormed, Session
  <1>6. WellFormed(s)
    BY <1>1, <1>2, <1>3, <1>5 DEF WellFormed
  <1> HIDE DEF s
  <1> QED BY <1>4, <1>6

\* The router's answers are answers, also after a failed numeric check.
LEMMA FromRouterType ==
    ASSUME NEW r \in Request, NEW o \in RouterOutcome
    PROVE /\ FromRouter(r, o) \in Answer
          /\ Unverified(FromRouter(r, o)) \in Answer
  <1>1. /\ o.text \in RouterText /\ o.cited \in BOOLEAN /\ o.grounded \in BOOLEAN
        /\ o.pending_action \in ConfirmTools \cup {NoAction}
    BY DEF RouterOutcome, RouterAnswer
  <1>2. FromRouter(r, o) \in Answer
    BY <1>1 DEF FromRouter, Answer, Pending
  <1>3. "numeric_unverified" \in FixedText
    BY DEF FixedText
  <1> QED BY <1>2, <1>3 DEF Unverified, Answer

\* A failed request is well formed.
LEMMA AbortType ==
    ASSUME TypeInv, NEW r \in Request, session[r].conv \in Conversation, Abort(r)
    PROVE \E s : WellFormed(s) /\ session' = [session EXCEPT ![r] = s]
  <1> DEFINE s == [session[r] EXCEPT !.pc = "failed", !.identity = FALSE, !.copy = Absent,
                        !.key = Absent, !.confirmed = NoAction, !.streamed = "none",
                        !.answer = Absent]
  <1>1. WellFormed(s)
    BY DEF TypeInv, WellFormed, Session, Ended, Forwarded
  <1>2. session' = [session EXCEPT ![r] = s]
    BY DEF Abort
  <1> HIDE DEF s
  <1> QED BY <1>1, <1>2

\* Appending an element keeps a sequence's type.
LEMMA AppendType ==
    ASSUME NEW S, NEW seq \in Seq(S), NEW x \in S
    PROVE Append(seq, x) \in Seq(S)
  OBVIOUS

\* Every step keeps the types.
LEMMA NextType == TypeInv /\ [Next]_vars => TypeInv'
  <1> SUFFICES ASSUME TypeInv, [Next]_vars PROVE TypeInv'
    OBVIOUS
  <1>1. ASSUME NEW r \in Request, Receive(r) PROVE TypeInv'
    <2>1. PICK c \in Conversation, auth \in BOOLEAN :
            session' = [session EXCEPT ![r] =
                [session[r] EXCEPT !.pc = "asked", !.conv = c, !.identity = auth,
                                   !.copy = Add(LoadedFrom(c, auth), "user", r)]]
      BY <1>1 DEF Receive
    <2> DEFINE s == [session[r] EXCEPT !.pc = "asked", !.conv = c, !.identity = auth,
                                       !.copy = Add(LoadedFrom(c, auth), "user", r)]
    <2>2. LoadedFrom(c, auth) \in ConversationState
      <3>1. <<>> \in Seq(Turn)
        OBVIOUS
      <3> QED BY <3>1 DEF LoadedFrom, TypeInv, TypeOK, ConversationState
    <2>3. Add(LoadedFrom(c, auth), "user", r) \in ConversationState
      BY <2>2, AddType
    <2>4. WellFormed(s)
      BY <2>3 DEF TypeInv, WellFormed, Session
    <2> HIDE DEF s
    <2> QED BY <1>1, <2>1, <2>4, LocalStep DEF Receive, s
  <1>2. ASSUME NEW r \in Request, Decline(r) PROVE TypeInv'
    <2>1. PICK s : WellFormed(s) /\ session' = [session EXCEPT ![r] = s]
      BY <1>2, ConcludeType DEF Decline, FixedText
    <2> QED BY <1>2, <2>1, LocalStep DEF Decline
  <1>3. ASSUME NEW r \in Request, Confirm(r) PROVE TypeInv'
    <2> DEFINE s == [session[r] EXCEPT !.pc = "act", !.confirmed = Proposed(r),
                                       !.copy = Cleared(r)]
    <2>1. /\ WellFormed(session[r]) /\ session[r].copy \in ConversationState
          /\ session[r].conv \in Conversation
      BY <1>3 DEF TypeInv, WellFormed, Confirm, At, Ended
    <2>2. Cleared(r) \in ConversationState /\ Proposed(r) \in Pending
      BY <1>3, <2>1 DEF Cleared, Proposed, Confirm, ConversationState
    <2>3. WellFormed(s)
      BY <2>1, <2>2 DEF WellFormed, Session
    <2>4. session' = [session EXCEPT ![r] = s]
      BY <1>3 DEF Confirm
    <2> HIDE DEF s
    <2> QED BY <1>3, <2>3, <2>4, LocalStep DEF Confirm
  <1>4. ASSUME NEW r \in Request, Act(r) PROVE TypeInv'
    <2>1. PICK o \in ActionOutcome :
            /\ bank' = IF o.applied
                       THEN Append(bank, [request |-> r, pending |-> session[r].confirmed])
                       ELSE bank
            /\ Conclude(r, o.text)
      BY <1>4 DEF Act
    <2>2. o.text \in FixedText
      BY DEF ActionOutcome, FixedText
    <2>3. PICK s : WellFormed(s) /\ session' = [session EXCEPT ![r] = s]
      BY <1>4, <2>1, <2>2, ConcludeType DEF Act
    <2>4. /\ session' \in [Request -> Session]
          /\ \A q \in Request : WellFormed(session'[q])
      BY <2>3, SessionUpdate
    <2>5. session[r].confirmed \in Pending
      BY <1>4 DEF TypeInv, WellFormed, Act, At
    <2>6. bank' \in Seq([request : Request, pending : Pending])
      <3>1. [request |-> r, pending |-> session[r].confirmed] \in
                [request : Request, pending : Pending]
        BY <2>5
      <3>2. bank \in Seq([request : Request, pending : Pending])
        BY DEF TypeInv, TypeOK
      <3>3. Append(bank, [request |-> r, pending |-> session[r].confirmed]) \in
                Seq([request : Request, pending : Pending])
        BY <3>1, <3>2, AppendType
      <3>4. bank' = bank \/ bank' = Append(bank, [request |-> r, pending |-> session[r].confirmed])
        BY <2>1
      <3> QED BY <3>2, <3>3, <3>4
    <2> QED BY <1>4, <2>4, <2>6 DEF Act, TypeInv, TypeOK
  <1>5. ASSUME NEW r \in Request, Refuse(r) PROVE TypeInv'
    <2>1. PICK s : WellFormed(s) /\ session' = [session EXCEPT ![r] = s]
      BY <1>5, ConcludeType DEF Refuse, FixedText
    <2> QED BY <1>5, <2>1, LocalStep DEF Refuse
  <1>6. ASSUME NEW r \in Request, Rewrite(r) PROVE TypeInv'
    <2>1. PICK q \in Question :
            session' = [session EXCEPT ![r] =
                [session[r] EXCEPT !.key = <<Len(session[r].copy.turns), q>>,
                    !.pc = IF session[r].copy.is_authenticated THEN "route" ELSE "lookup"]]
      BY <1>6 DEF Rewrite
    <2> DEFINE key == <<Len(session[r].copy.turns), q>>
               pc == IF session[r].copy.is_authenticated THEN "route" ELSE "lookup"
               s == [session[r] EXCEPT !.key = key, !.pc = pc]
    <2>2. /\ WellFormed(session[r]) /\ session[r].copy \in ConversationState
          /\ session[r].conv \in Conversation
      BY <1>6 DEF TypeInv, WellFormed, Rewrite, At, Ended
    <2>3. key \in Key
      BY <2>2 DEF Key, ConversationState
    <2>4. pc \in {"route", "lookup"}
      OBVIOUS
    <2>5. session' = [session EXCEPT ![r] = s]
      BY <2>1
    <2> HIDE DEF key, pc
    <2>6. WellFormed(s)
      BY <2>2, <2>3, <2>4 DEF WellFormed, Session
    <2> HIDE DEF s
    <2> QED BY <1>6, <2>5, <2>6, LocalStep DEF Rewrite
  <1>7. ASSUME NEW r \in Request, Replay(r) PROVE TypeInv'
    <2> DEFINE s == [session[r] EXCEPT !.pc = "save", !.answer = cache[session[r].key],
                                       !.replayed = TRUE]
    <2>1. /\ WellFormed(session[r]) /\ session[r].copy \in ConversationState
          /\ session[r].conv \in Conversation
      BY <1>7 DEF TypeInv, WellFormed, Replay, At, Ended
    <2>2. cache[session[r].key] \in Answer
      BY <1>7 DEF TypeInv, TypeOK, Replay
    <2>3. WellFormed(s)
      BY <2>1, <2>2 DEF WellFormed, Session
    <2>4. session' = [session EXCEPT ![r] = s]
      BY <1>7 DEF Replay
    <2> HIDE DEF s
    <2> QED BY <1>7, <2>3, <2>4, LocalStep DEF Replay
  <1>8. ASSUME NEW r \in Request, Miss(r) PROVE TypeInv'
    <2> DEFINE s == [session[r] EXCEPT !.pc = "route"]
    <2>1. WellFormed(s)
      BY <1>8 DEF TypeInv, WellFormed, Session, Miss, At, Ended
    <2>2. session' = [session EXCEPT ![r] = s]
      BY <1>8 DEF Miss
    <2> HIDE DEF s
    <2> QED BY <1>8, <2>1, <2>2, LocalStep DEF Miss
  <1>18. ASSUME NEW r \in Request, ForwardDelta(r) PROVE TypeInv'
    <2>1. PICK words \in Forwarded \ {"none"} :
            session' = [session EXCEPT ![r] = [session[r] EXCEPT !.streamed = words]]
      BY <1>18 DEF ForwardDelta
    <2> DEFINE s == [session[r] EXCEPT !.streamed = words]
    <2>2. WellFormed(s)
      BY <1>18 DEF TypeInv, WellFormed, Session, ForwardDelta, At, Ended
    <2>3. session' = [session EXCEPT ![r] = s]
      BY <2>1
    <2> HIDE DEF s
    <2> QED BY <1>18, <2>2, <2>3, LocalStep DEF ForwardDelta
  <1>9. ASSUME NEW r \in Request, AnswerTurn(r) PROVE TypeInv'
    <2>1. PICK o \in RouterOutcome :
            EndTurn(r, FromRouter(r, o)) \/ EndTurn(r, Unverified(FromRouter(r, o)))
      BY <1>9 DEF AnswerTurn
    <2>2. PICK s : WellFormed(s) /\ session' = [session EXCEPT ![r] = s]
      BY <1>9, <2>1, FromRouterType, EndTurnType DEF AnswerTurn
    <2> QED BY <1>9, <2>2, LocalStep DEF AnswerTurn
  <1>10. ASSUME NEW r \in Request, StoreAnswer(r) PROVE TypeInv'
    <2> DEFINE s == [session[r] EXCEPT !.pc = "audit"]
    <2>1. WellFormed(s) /\ session[r].key \in Key /\ session[r].answer \in Answer
      BY <1>10 DEF TypeInv, WellFormed, Session, StoreAnswer, At, Ended
    <2>2. session' = [session EXCEPT ![r] = s]
      BY <1>10 DEF StoreAnswer
    <2> HIDE DEF s
    <2>3. /\ session' \in [Request -> Session]
          /\ \A q \in Request : WellFormed(session'[q])
      BY <2>1, <2>2, SessionUpdate
    <2>4. DOMAIN cache' \subseteq Key /\ \A k \in DOMAIN cache' : cache'[k] \in Answer
      BY <1>10, <2>1 DEF StoreAnswer, TypeInv, TypeOK
    <2> QED BY <1>10, <2>3, <2>4 DEF StoreAnswer, TypeInv, TypeOK
  <1>11. ASSUME NEW r \in Request, RecordAudit(r) PROVE TypeInv'
    <2> DEFINE s == [session[r] EXCEPT !.pc = "save"]
    <2>1. WellFormed(s) /\ session[r].conv \in Conversation /\ session[r].answer \in Answer
      BY <1>11 DEF TypeInv, WellFormed, Session, RecordAudit, At, Ended
    <2>2. session' = [session EXCEPT ![r] = s]
      BY <1>11 DEF RecordAudit
    <2> HIDE DEF s
    <2>3. /\ session' \in [Request -> Session]
          /\ \A q \in Request : WellFormed(session'[q])
      BY <2>1, <2>2, SessionUpdate
    <2>4. [conv |-> session[r].conv, by |-> r, answer |-> session[r].answer] \in
            [conv : Conversation, by : Request, answer : Answer]
      BY <2>1
    <2>5. audit' \subseteq [conv : Conversation, by : Request, answer : Answer]
      BY <1>11, <2>4 DEF RecordAudit, TypeInv, TypeOK
    <2> QED BY <1>11, <2>3, <2>5 DEF RecordAudit, TypeInv, TypeOK
  <1>12. ASSUME NEW r \in Request, Save(r) PROVE TypeInv'
    <2> DEFINE others == \E q \in Within(session[r].conv) \ {r} : InFlight(q)
               s == [session[r] EXCEPT !.pc = "reply", !.saved = TRUE, !.overlapped = others]
    <2>2. session' = [session EXCEPT ![r] = s]
      BY <1>12 DEF Save, Saved
    <2>0. others \in BOOLEAN
      OBVIOUS
    <2> HIDE DEF others
    <2>1. WellFormed(s) /\ session[r].copy \in ConversationState
      BY <1>12, <2>0 DEF TypeInv, WellFormed, Session, Save, At, Ended
    <2> HIDE DEF s
    <2>3. /\ session' \in [Request -> Session]
          /\ \A q \in Request : WellFormed(session'[q])
      BY <2>1, <2>2, SessionUpdate
    <2> QED BY <1>12, <2>1, <2>3 DEF Save, TypeInv, TypeOK
  <1>13. ASSUME NEW r \in Request, Reply(r) PROVE TypeInv'
    <2>1. session[r].conv \in Conversation
      BY <1>13 DEF TypeInv, WellFormed, Reply, At
    <2>2. CASE Abort(r)
      <3>1. PICK s : WellFormed(s) /\ session' = [session EXCEPT ![r] = s]
        BY <2>1, <2>2, AbortType
      <3> QED BY <1>13, <3>1, LocalStep DEF Reply
    <2>3. CASE Finish(r)
      <3> DEFINE s == [session[r] EXCEPT !.pc = "done", !.identity = FALSE,
                                         !.copy = Absent, !.key = Absent, !.confirmed = NoAction,
                                         !.streamed = "none"]
      <3>1. WellFormed(s)
        BY <1>13 DEF TypeInv, WellFormed, Session, Reply, At, Ended, Forwarded
      <3>2. session' = [session EXCEPT ![r] = s]
        BY <2>3 DEF Finish
      <3> HIDE DEF s
      <3> QED BY <1>13, <3>1, <3>2, LocalStep DEF Reply
    <2> QED BY <1>13, <2>2, <2>3 DEF Reply
  <1>14. ASSUME NEW r \in Request, Fail(r) PROVE TypeInv'
    <2>1. session[r].conv \in Conversation
      BY <1>14 DEF TypeInv, WellFormed, Fail, InFlight
    <2>2. PICK s : WellFormed(s) /\ session' = [session EXCEPT ![r] = s]
      BY <1>14, <2>1, AbortType DEF Fail
    <2> QED BY <1>14, <2>2, LocalStep DEF Fail
  <1>15. ASSUME NEW c \in Conversation, Expire(c) PROVE TypeInv'
    BY <1>15 DEF Expire, TypeInv, TypeOK
  <1>16. ASSUME NEW k \in DOMAIN cache, ExpireCached(k) PROVE TypeInv'
    BY <1>16 DEF ExpireCached, TypeInv, TypeOK
  <1>17. CASE UNCHANGED vars
    BY <1>17 DEF vars, TypeInv, TypeOK
  <1> QED BY <1>1, <1>2, <1>3, <1>4, <1>5, <1>6, <1>7, <1>8, <1>9, <1>10, <1>11, <1>12,
             <1>13, <1>14, <1>15, <1>16, <1>17, <1>18 DEF Next, Step

\* The invariant on types, for the proofs below.
LEMMA TypesHold == Spec => []TypeInv
  BY InitType, NextType, PTL DEF Spec

\* Every variable keeps its type, whatever clients, classifiers, stores and
\* failures do.
THEOREM Typing == Spec => []TypeOK
  <1>1. TypeInv => TypeOK
    BY DEF TypeInv
  <1> QED BY TypesHold, <1>1, PTL
-----------------------------------------------------------------------------
(***************************************************************************)
(* What the actions do, in the terms of the invariants below: most of them *)
(* either end a turn or move a request on without adding to its copy.      *)
(***************************************************************************)
Others(r) == \A q \in Request \ {r} : session'[q] = session[q]
AssistantTurn(r) == [role |-> "assistant", by |-> r]
UserTurn(r) == [role |-> "user", by |-> r]

\* The history a step of a request before its save leaves alone.
SameHistory(r) ==
    /\ session'[r].conv = session[r].conv
    /\ session'[r].replayed = session[r].replayed
    /\ session'[r].saved = session[r].saved
    /\ session'[r].overlapped = session[r].overlapped

Shareable(a) ==
    /\ a.grounded
    /\ a.pending_action = NoAction
    /\ a.text \in {"model", "fallback"}

\* Decline, Act, Refuse and AnswerTurn: the answer is there, its turn is added
\* to the copy, and what it proposes is open in the copy.
EndsTurn(r) ==
    /\ Others(r)
    /\ session[r].pc \in {"asked", "act", "route"}
    /\ session'[r].pc \in {"cache_set", "audit"}
    /\ SameHistory(r)
    /\ session'[r].copy.turns = Append(session[r].copy.turns, AssistantTurn(r))
    /\ session'[r].copy.pending_action = session'[r].answer.pending_action
    /\ session[r].pc # "route" =>
            session'[r].pc = "audit" /\ session'[r].answer.pending_action = NoAction
    /\ session'[r].answer.pending_action # NoAction =>
            session'[r].answer.pending_action.by = r
    /\ session'[r].pc = "cache_set" => Shareable(session'[r].answer)
    /\ UNCHANGED <<store, cache, audit>>

\* Confirm, Rewrite, Miss, ForwardDelta and StoreAnswer.
MovesOn(r) ==
    /\ Others(r)
    /\ <<session[r].pc, session'[r].pc>> \in
            {<<"asked", "act">>, <<"asked", "lookup">>, <<"asked", "route">>,
             <<"lookup", "route">>, <<"route", "route">>, <<"cache_set", "audit">>}
    /\ SameHistory(r)
    /\ session'[r].answer = session[r].answer
    /\ session'[r].copy.turns = session[r].copy.turns
    /\ session[r].pc = "asked" => session'[r].copy.pending_action = NoAction
    /\ session[r].pc # "asked" =>
            session'[r].copy.pending_action = session[r].copy.pending_action
    /\ session'[r].pc = "act" =>
            /\ session'[r].confirmed = session[r].copy.pending_action
            /\ session[r].copy.pending_action # NoAction
    /\ session[r].pc = "asked" /\ session'[r].pc # "act" =>
            session[r].copy.pending_action = NoAction
    /\ UNCHANGED <<store, audit, bank>>

\* A request that ends, well or badly.
Ends(r) ==
    /\ Others(r)
    /\ session'[r].pc \in Ended
    /\ session[r].pc # "unsent"
    /\ session'[r].pc = "done" => session[r].pc = "reply"
    /\ SameHistory(r)
    /\ session'[r].pc = "done" => session'[r].answer = session[r].answer
    /\ UNCHANGED <<store, cache, audit, bank>>

\* Conclude adds the turn to a copy without a proposal.
LEMMA ConcludeEnds ==
    ASSUME TypeInv, NEW r \in Request, At(r, "asked") \/ At(r, "act"),
           NEW text, Conclude(r, text), UNCHANGED <<store, cache, audit>>
    PROVE EndsTurn(r)
  <1>1. session[r] \in Session /\ session[r].copy \in ConversationState
    BY DEF TypeInv, WellFormed, At, Ended
  <1>2. session \in [Request -> Session]
    BY DEF TypeInv, TypeOK
  <1>3. session'[r] = [session[r] EXCEPT
            !.pc = "audit", !.copy = Add(Cleared(r), "assistant", r),
            !.answer = [text |-> text, cited |-> FALSE, grounded |-> TRUE,
                        pending_action |-> NoAction]]
    BY <1>2 DEF Conclude
  <1>4. Others(r)
    BY <1>2 DEF Conclude, Others
  <1>5. /\ Add(Cleared(r), "assistant", r).turns =
              Append(session[r].copy.turns, AssistantTurn(r))
        /\ Add(Cleared(r), "assistant", r).pending_action = NoAction
    BY <1>1 DEF Add, Cleared, ConversationState, AssistantTurn
  <1>6. /\ session'[r].pc = "audit" /\ SameHistory(r)
        /\ session'[r].copy = Add(Cleared(r), "assistant", r)
        /\ session'[r].answer.pending_action = NoAction
    BY <1>1, <1>3 DEF Session, SameHistory
  <1> QED BY <1>4, <1>5, <1>6 DEF EndsTurn, At

\* EndTurn does, and what it sends to the cache may be shared.
LEMMA EndTurnEnds ==
    ASSUME TypeInv, NEW r \in Request, At(r, "route"), NEW a \in Answer, EndTurn(r, a),
           a.pending_action # NoAction => a.pending_action.by = r,
           a.grounded /\ a.pending_action = NoAction => a.text \in {"model", "fallback"},
           UNCHANGED <<store, cache, audit>>
    PROVE EndsTurn(r)
  <1>1. session[r] \in Session /\ session[r].copy \in ConversationState
    BY DEF TypeInv, WellFormed, At, Ended
  <1>2. session \in [Request -> Session]
    BY DEF TypeInv, TypeOK
  <1> DEFINE shared == ~session[r].copy.is_authenticated /\ a.grounded
                         /\ a.pending_action = NoAction
             copy == [Add(session[r].copy, "assistant", r)
                        EXCEPT !.pending_action = a.pending_action]
  <1>3. session'[r] = [session[r] EXCEPT
            !.pc = IF shared THEN "cache_set" ELSE "audit", !.copy = copy, !.answer = a]
    BY <1>2 DEF EndTurn
  <1>4. Others(r)
    BY <1>2 DEF EndTurn, Others
  <1>5. /\ copy.turns = Append(session[r].copy.turns, AssistantTurn(r))
        /\ copy.pending_action = a.pending_action
    BY <1>1 DEF Add, ConversationState, AssistantTurn
  <1>6. shared => Shareable(a)
    BY DEF Shareable
  <1> HIDE DEF shared, copy
  <1>7. /\ session'[r].pc = IF shared THEN "cache_set" ELSE "audit"
        /\ SameHistory(r)
        /\ session'[r].copy = copy
        /\ session'[r].answer = a
    BY <1>1, <1>3 DEF Session, SameHistory
  <1> QED BY <1>4, <1>5, <1>6, <1>7 DEF EndsTurn, At

\* The router's answers meet those conditions, checked or not.
LEMMA RouterAnswerFacts ==
    ASSUME NEW r \in Request, NEW o \in RouterOutcome,
           NEW a, a = FromRouter(r, o) \/ a = Unverified(FromRouter(r, o))
    PROVE /\ a.pending_action # NoAction => a.pending_action.by = r
          /\ a.grounded /\ a.pending_action = NoAction => a.text \in {"model", "fallback"}
  <1>1. /\ o.text \in RouterText /\ o.pending_action \in ConfirmTools \cup {NoAction}
        /\ o.text = "confirmation" <=> o.pending_action # NoAction
    BY DEF RouterOutcome, RouterAnswer, ProposesByPrompt
  <1>2. o.pending_action # NoAction => [tool |-> o.pending_action, by |-> r] # NoAction
    BY <1>1, ChatAssumption DEF Pending
  <1>3. CASE a = FromRouter(r, o)
    BY <1>1, <1>2, <1>3 DEF FromRouter, RouterText
  <1>4. CASE a = Unverified(FromRouter(r, o))
    BY <1>4 DEF FromRouter, Unverified
  <1> QED BY <1>3, <1>4

\* The four actions that end a turn.
LEMMA TurnEnds ==
    ASSUME TypeInv, NEW r \in Request,
           Decline(r) \/ Act(r) \/ Refuse(r) \/ AnswerTurn(r)
    PROVE EndsTurn(r)
  <1>1. CASE Decline(r) \/ Act(r) \/ Refuse(r)
    BY <1>1, ConcludeEnds DEF Decline, Act, Refuse
  <1>2. CASE AnswerTurn(r)
    <2>1. PICK o \in RouterOutcome :
            EndTurn(r, FromRouter(r, o)) \/ EndTurn(r, Unverified(FromRouter(r, o)))
      BY <1>2 DEF AnswerTurn
    <2> QED BY <1>2, <2>1, FromRouterType, RouterAnswerFacts, EndTurnEnds DEF AnswerTurn
  <1> QED BY <1>1, <1>2

\* The five that move a request on.
LEMMA RequestMovesOn ==
    ASSUME TypeInv, NEW r \in Request,
           Confirm(r) \/ Rewrite(r) \/ Miss(r) \/ ForwardDelta(r) \/ StoreAnswer(r)
    PROVE MovesOn(r)
  <1>1. session \in [Request -> Session] /\ session[r] \in Session
    BY DEF TypeInv, TypeOK
  <1>2. CASE Confirm(r)
    <2>1. session[r].copy \in ConversationState
      BY <1>2 DEF Confirm, TypeInv, WellFormed, At, Ended
    <2>2. session'[r] = [session[r] EXCEPT !.pc = "act", !.confirmed = Proposed(r),
                                           !.copy = Cleared(r)]
      BY <1>1, <1>2 DEF Confirm
    <2>3. /\ Cleared(r).turns = session[r].copy.turns
          /\ Cleared(r).pending_action = NoAction
      BY <2>1 DEF Cleared, ConversationState
    <2>4. /\ session'[r].pc = "act" /\ SameHistory(r)
          /\ session'[r].answer = session[r].answer
          /\ session'[r].copy = Cleared(r) /\ session'[r].confirmed = Proposed(r)
      BY <1>1, <2>2 DEF Session, SameHistory
    <2>5. Others(r)
      BY <1>1, <1>2 DEF Confirm, Others
    <2> QED BY <1>2, <2>3, <2>4, <2>5 DEF MovesOn, Confirm, Proposed, At
  <1>3. CASE Rewrite(r)
    <2> DEFINE pc == IF session[r].copy.is_authenticated THEN "route" ELSE "lookup"
    <2>0. PICK q \in Question :
            session' = [session EXCEPT ![r] =
                [session[r] EXCEPT !.key = <<Len(session[r].copy.turns), q>>, !.pc = pc]]
      BY <1>3 DEF Rewrite
    <2>2. pc \in {"route", "lookup"}
      OBVIOUS
    <2> HIDE DEF pc
    <2>1. /\ Others(r) /\ session[r].pc = "asked" /\ session'[r].pc \in {"route", "lookup"}
          /\ SameHistory(r)
          /\ session'[r].answer = session[r].answer
          /\ session'[r].copy = session[r].copy
      BY <1>1, <1>3, <2>0, <2>2 DEF Rewrite, At, Others, Session, SameHistory
    <2> QED BY <1>3, <2>1 DEF MovesOn, Rewrite, Proposed
  <1>4. CASE Miss(r)
    <2>1. /\ Others(r) /\ session[r].pc = "lookup" /\ session'[r].pc = "route"
          /\ SameHistory(r)
          /\ session'[r].answer = session[r].answer
          /\ session'[r].copy = session[r].copy
      BY <1>1, <1>4 DEF Miss, At, Others, Session, SameHistory
    <2> QED BY <1>4, <2>1 DEF MovesOn, Miss
  <1>5. CASE StoreAnswer(r)
    <2>1. /\ Others(r) /\ session[r].pc = "cache_set" /\ session'[r].pc = "audit"
          /\ SameHistory(r)
          /\ session'[r].answer = session[r].answer
          /\ session'[r].copy = session[r].copy
      BY <1>1, <1>5 DEF StoreAnswer, At, Others, Session, SameHistory
    <2> QED BY <1>5, <2>1 DEF MovesOn, StoreAnswer
  <1>6. CASE ForwardDelta(r)
    <2>0. PICK words : session' = [session EXCEPT ![r] = [session[r] EXCEPT !.streamed = words]]
      BY <1>6 DEF ForwardDelta
    <2>1. /\ Others(r) /\ session[r].pc = "route" /\ session'[r].pc = "route"
          /\ SameHistory(r)
          /\ session'[r].answer = session[r].answer
          /\ session'[r].copy = session[r].copy
      BY <1>1, <1>6, <2>0 DEF ForwardDelta, At, Others, Session, SameHistory
    <2> QED BY <1>6, <2>1 DEF MovesOn, ForwardDelta
  <1> QED BY <1>2, <1>3, <1>4, <1>5, <1>6

\* Reply and Fail.
LEMMA RequestEnds ==
    ASSUME TypeInv, NEW r \in Request, Reply(r) \/ Fail(r)
    PROVE Ends(r)
  <1>1. session \in [Request -> Session] /\ session[r] \in Session
    BY DEF TypeInv, TypeOK
  <1>2. CASE Abort(r)
    <2>1. session'[r].pc = "failed" /\ SameHistory(r) /\ Others(r)
      BY <1>1, <1>2 DEF Abort, Session, SameHistory, Others
    <2> QED BY <2>1 DEF Ends, Ended, Reply, Fail, InFlight, At
  <1>3. CASE Finish(r)
    <2>1. /\ session'[r].pc = "done" /\ SameHistory(r) /\ Others(r)
          /\ session'[r].answer = session[r].answer
      BY <1>1, <1>3 DEF Finish, Others, Session, SameHistory
    <2>2. CASE Reply(r)
      BY <2>1, <2>2 DEF Ends, Ended, Reply, At
    <2>3. CASE Fail(r)
      <3>1. session'[r].pc = "failed"
        BY <1>1, <2>3 DEF Fail, Abort
      <3> QED BY <2>1, <3>1
    <2> QED BY <2>2, <2>3
  <1> QED BY <1>2, <1>3 DEF Reply, Fail
-----------------------------------------------------------------------------
(***************************************************************************)
(* The inductive invariant.  A is the audit log; c is a conversation id, s *)
(* a conversation (a copy of one, or the stored one) or a session.         *)
(***************************************************************************)
TurnAudited(A, c, b) == \E a \in A : a.conv = c /\ a.by = b
Offered(A, c, p) == \E a \in A : a.answer.pending_action = p /\ a.by = p.by /\ a.conv = c
Last(s) == s.turns[Len(s.turns)]

\* The assistant turns and the open proposal of a conversation are in the log.
TurnsBacked(A, s, c) ==
    \A i \in DOMAIN s.turns :
        s.turns[i].role = "assistant" => TurnAudited(A, c, s.turns[i].by)
ProposalBacked(A, s, c) == s.pending_action # NoAction => Offered(A, c, s.pending_action)
\* Its open proposal is its last turn.
Aligned(A, s) ==
    /\ s.turns # <<>>
    /\ s.pending_action # NoAction => Last(s) = AssistantTurn(s.pending_action.by)
    /\ \A a \in A : Last(s) = AssistantTurn(a.by) => s.pending_action = a.answer.pending_action
Sound(A, s, c) == TurnsBacked(A, s, c) /\ ProposalBacked(A, s, c) /\ Aligned(A, s)

\* A copy from the user turn to the answer, from the answer to the audit
\* record, and from there to the save.
Asking(A, r, s) ==
    s.pc \in {"asked", "act", "lookup", "route"} =>
        /\ s.copy.turns # <<>> /\ Last(s.copy) = UserTurn(r)
        /\ TurnsBacked(A, s.copy, s.conv)
        /\ ProposalBacked(A, s.copy, s.conv)
        /\ s.pc # "asked" => s.copy.pending_action = NoAction
        /\ s.pc = "act" => Offered(A, s.conv, s.confirmed)
Answered(A, r, s) ==
    s.pc \in {"cache_set", "audit"} =>
        /\ s.copy.turns # <<>> /\ Last(s.copy) = AssistantTurn(r)
        /\ \A i \in DOMAIN s.copy.turns :
            s.copy.turns[i].role = "assistant" =>
                s.copy.turns[i].by = r \/ TurnAudited(A, s.conv, s.copy.turns[i].by)
        /\ s.copy.pending_action = s.answer.pending_action
        /\ s.copy.pending_action # NoAction => s.copy.pending_action.by = r
Saving(A, s) == s.pc = "save" => Sound(A, s.copy, s.conv)
\* A reply, and what may still reach the cache.
Replying(A, r, s) ==
    /\ s.replayed => s.pc \in {"save", "reply", "done", "failed"}
    /\ s.saved => s.pc \in {"reply", "done", "failed"}
    /\ s.pc \in {"reply", "done"} => s.saved
    /\ s.pc \in {"save", "reply", "done"} /\ ~s.replayed =>
            [conv |-> s.conv, by |-> r, answer |-> s.answer] \in A
    /\ s.pc = "cache_set" => Shareable(s.answer)
RequestOK(A, r, s) ==
    Asking(A, r, s) /\ Answered(A, r, s) /\ Saving(A, s) /\ Replying(A, r, s)

\* Each request has one record at most, and none before it is answered.
LogInv ==
    /\ \A a \in audit : /\ session[a.by].pc \in {"save", "reply", "done", "failed"}
                        /\ session[a.by].conv = a.conv
    /\ \A a, b \in audit : a.by = b.by => a = b
StoreInv == \A c \in Conversation : store[c] # Absent => Sound(audit, store[c], c)
CacheInv == \A k \in DOMAIN cache : Shareable(cache[k])
RequestInv == \A r \in Request : RequestOK(audit, r, session[r])
ExecutedOK(A, s, e) ==
    /\ Offered(A, s.conv, e.pending)
    /\ e.pending.by # e.request
    /\ s.pc # "unsent"
BankInv == \A i \in DOMAIN bank : ExecutedOK(audit, session[bank[i].request], bank[i])
Inv == LogInv /\ StoreInv /\ CacheInv /\ RequestInv /\ BankInv

\* A record of another request leaves a sound conversation sound: its last turn
\* is not that request's.
LEMMA SoundGrows ==
    ASSUME NEW A, NEW row, NEW s, NEW c, Sound(A, s, c),
           s.turns \in Seq(Turn), \A a \in A : a.by # row.by
    PROVE Sound(A \cup {row}, s, c)
  <1>1. TurnsBacked(A \cup {row}, s, c) /\ ProposalBacked(A \cup {row}, s, c)
    BY DEF Sound, TurnsBacked, ProposalBacked, TurnAudited, Offered
  <1>2. Last(s) # AssistantTurn(row.by)
    <2>1. Len(s.turns) \in DOMAIN s.turns
      BY DEF Sound, Aligned
    <2>2. ASSUME Last(s) = AssistantTurn(row.by) PROVE FALSE
      <3>1. TurnAudited(A, c, row.by)
        BY <2>1, <2>2 DEF Sound, TurnsBacked, Last, AssistantTurn
      <3> QED BY <3>1 DEF TurnAudited
    <2> QED BY <2>2
  <1>3. Aligned(A \cup {row}, s)
    BY <1>2 DEF Sound, Aligned
  <1> QED BY <1>1, <1>3 DEF Sound

\* The same for a request that is not the one that is recorded.
LEMMA RequestGrows ==
    ASSUME NEW A, NEW row, NEW q, NEW s, RequestOK(A, q, s), WellFormed(s),
           \A a \in A : a.by # row.by
    PROVE RequestOK(A \cup {row}, q, s)
  <1>1. Asking(A \cup {row}, q, s)
    BY DEF RequestOK, Asking, TurnsBacked, ProposalBacked, TurnAudited, Offered
  <1>2. Answered(A \cup {row}, q, s)
    BY DEF RequestOK, Answered, TurnAudited
  <1>3. Saving(A \cup {row}, s)
    <2>1. SUFFICES ASSUME s.pc = "save" PROVE Sound(A \cup {row}, s.copy, s.conv)
      BY DEF Saving
    <2>2. s.copy.turns \in Seq(Turn)
      BY <2>1 DEF WellFormed, ConversationState, Ended
    <2>3. Sound(A, s.copy, s.conv)
      BY <2>1 DEF RequestOK, Saving
    <2> QED BY <2>2, <2>3, SoundGrows
  <1>4. Replying(A \cup {row}, q, s)
    BY DEF RequestOK, Replying
  <1> QED BY <1>1, <1>2, <1>3, <1>4 DEF RequestOK

\* An element of a sequence has the sequence's type.
LEMMA ElementType ==
    ASSUME NEW S, NEW s \in Seq(S), NEW i \in DOMAIN s
    PROVE s[i] \in S
  OBVIOUS

\* A step that leaves the store and the log alone keeps the store sound.
LEMMA StoreKept ==
    ASSUME Inv, UNCHANGED <<store, audit>>
    PROVE StoreInv'
  BY DEF Inv, StoreInv

\* A step of one request that leaves the log alone has only that request, the
\* store, the cache and what that request made the bank do to show for.
LEMMA QuietStep ==
    ASSUME TypeInv, Inv, NEW r \in Request, Others(r),
           UNCHANGED audit, StoreInv',
           session[r].pc \in {"save", "reply", "done", "failed"} =>
                session'[r].pc \in {"save", "reply", "done", "failed"},
           session[r].pc # "unsent" => session'[r].conv = session[r].conv,
           session'[r].pc # "unsent",
           RequestOK(audit, r, session'[r]), CacheInv',
           \A i \in DOMAIN bank' :
                \/ i \in DOMAIN bank /\ bank'[i] = bank[i]
                \/ bank'[i].request = r /\ ExecutedOK(audit, session'[r], bank'[i])
    PROVE Inv'
  <1>1. LogInv'
    <2>1. \A a \in audit : a.by \in Request
      BY DEF TypeInv, TypeOK
    <2> QED BY <2>1 DEF Inv, LogInv, Others
  <1>2. RequestInv'
    BY DEF Inv, RequestInv, Others
  <1>3. BankInv'
    <2> SUFFICES ASSUME NEW i \in DOMAIN bank'
                 PROVE ExecutedOK(audit, session'[bank'[i].request], bank'[i])
      BY DEF BankInv
    <2>1. CASE i \in DOMAIN bank /\ bank'[i] = bank[i]
      <3>1. bank[i].request \in Request
        <4>1. bank \in Seq([request : Request, pending : Pending])
          BY DEF TypeInv, TypeOK
        <4>2. bank[i] \in [request : Request, pending : Pending]
          BY <2>1, <4>1, ElementType
        <4> QED BY <4>2
      <3>2. ExecutedOK(audit, session[bank[i].request], bank[i])
        BY <2>1 DEF Inv, BankInv
      <3> QED BY <2>1, <3>1, <3>2 DEF ExecutedOK, Others
    <2> QED BY <2>1
  <1> QED BY <1>1, <1>2, <1>3 DEF Inv

\* The turns of a copy, for the proofs below.
LEMMA CopyTurns ==
    ASSUME TypeInv, NEW r \in Request, session[r].pc \notin Ended \cup {"unsent"}
    PROVE session[r].copy.turns \in Seq(Turn)
  BY DEF TypeInv, WellFormed, ConversationState

\* What appending a turn does to the last turn and to the others.
LEMMA AppendedTurn ==
    ASSUME NEW turns \in Seq(Turn), NEW t \in Turn
    PROVE /\ Append(turns, t) # <<>>
          /\ Append(turns, t)[Len(Append(turns, t))] = t
          /\ \A i \in DOMAIN Append(turns, t) :
                \/ i \in DOMAIN turns /\ Append(turns, t)[i] = turns[i]
                \/ Append(turns, t)[i] = t
  OBVIOUS

\* Ending a turn leaves the request answered, whatever it was asked.
LEMMA EndsTurnOK ==
    ASSUME TypeInv, Inv, NEW r \in Request, EndsTurn(r)
    PROVE RequestOK(audit, r, session'[r])
  <1>1. session[r].copy.turns \in Seq(Turn) /\ AssistantTurn(r) \in Turn
    BY CopyTurns DEF EndsTurn, SameHistory, Ended, AssistantTurn, Turn
  <1>2. TurnsBacked(audit, session[r].copy, session[r].conv)
    BY DEF Inv, RequestInv, RequestOK, Asking, EndsTurn
  <1>3. Answered(audit, r, session'[r])
    <2>1. /\ session'[r].copy.turns # <<>> /\ Last(session'[r].copy) = AssistantTurn(r)
      <3> DEFINE new == Append(session[r].copy.turns, AssistantTurn(r))
      <3>1. session'[r].copy.turns = new
        BY DEF EndsTurn, SameHistory
      <3>2. new # <<>> /\ new[Len(new)] = AssistantTurn(r)
        BY <1>1, AppendedTurn
      <3> HIDE DEF new
      <3> QED BY <3>1, <3>2 DEF Last
    <2>2. ASSUME NEW i \in DOMAIN session'[r].copy.turns,
                 session'[r].copy.turns[i].role = "assistant"
          PROVE \/ session'[r].copy.turns[i].by = r
                \/ TurnAudited(audit, session'[r].conv, session'[r].copy.turns[i].by)
      <3>1. \/ /\ i \in DOMAIN session[r].copy.turns
               /\ session'[r].copy.turns[i] = session[r].copy.turns[i]
            \/ session'[r].copy.turns[i] = AssistantTurn(r)
        BY <1>1, AppendedTurn DEF EndsTurn, SameHistory
      <3>2. session'[r].conv = session[r].conv
        BY DEF EndsTurn, SameHistory
      <3> QED BY <1>2, <2>2, <3>1, <3>2 DEF TurnsBacked, AssistantTurn
    <2> QED BY <2>1, <2>2 DEF Answered, EndsTurn
  <1>4. Replying(audit, r, session'[r])
    <2>1. ~session[r].replayed /\ ~session[r].saved
      BY DEF Inv, RequestInv, RequestOK, Replying, EndsTurn
    <2> QED BY <2>1 DEF Replying, EndsTurn, SameHistory
  <1>5. session'[r].pc \in {"cache_set", "audit"}
    BY DEF EndsTurn, SameHistory
  <1> QED BY <1>3, <1>4, <1>5 DEF RequestOK, Asking, Saving

\* The actions that end a turn keep the invariant; Act's new entry in the bank
\* is the proposal it was confirmed with.
LEMMA TurnStep ==
    ASSUME TypeInv, Inv, NEW r \in Request,
           Decline(r) \/ Act(r) \/ Refuse(r) \/ AnswerTurn(r)
    PROVE Inv'
  <1>1. EndsTurn(r)
    BY TurnEnds
  <1>2. RequestOK(audit, r, session'[r])
    BY <1>1, EndsTurnOK
  <1>3. CacheInv'
    BY <1>1 DEF EndsTurn, SameHistory, Inv, CacheInv
  <1>4. \A i \in DOMAIN bank' :
            \/ i \in DOMAIN bank /\ bank'[i] = bank[i]
            \/ bank'[i].request = r /\ ExecutedOK(audit, session'[r], bank'[i])
    <2>1. CASE UNCHANGED bank
      BY <2>1
    <2>2. CASE Act(r) /\ bank' # bank
      <3> DEFINE e == [request |-> r, pending |-> session[r].confirmed]
      <3>1. bank' = Append(bank, e)
        BY <2>2 DEF Act
      <3>2. bank \in Seq([request : Request, pending : Pending])
        BY DEF TypeInv, TypeOK
      <3>3. session[r].pc = "act" /\ session'[r].conv = session[r].conv
            /\ session'[r].pc \in {"cache_set", "audit"}
        BY <1>1, <2>2 DEF Act, At, EndsTurn, SameHistory
      <3>4. Offered(audit, session'[r].conv, session[r].confirmed)
        BY <3>3 DEF Inv, RequestInv, RequestOK, Asking
      <3>5. session[r].confirmed.by # r
        BY <3>3, <3>4 DEF Offered, Inv, LogInv
      <3>6. ExecutedOK(audit, session'[r], e)
        BY <3>3, <3>4, <3>5 DEF ExecutedOK
      <3>7. \A i \in DOMAIN bank' : (i \in DOMAIN bank /\ bank'[i] = bank[i]) \/ bank'[i] = e
        <4> HIDE DEF e
        <4> QED BY <3>1, <3>2
      <3> QED BY <3>6, <3>7
    <2> QED BY <2>1, <2>2 DEF Decline, Refuse, AnswerTurn
  <1>5. /\ Others(r) /\ UNCHANGED <<store, audit>>
        /\ session[r].pc \in {"asked", "act", "route"}
        /\ session'[r].pc \in {"cache_set", "audit"}
        /\ session'[r].conv = session[r].conv
    BY <1>1 DEF EndsTurn, SameHistory
  <1> QED BY <1>2, <1>3, <1>4, <1>5, StoreKept, QuietStep

\* So do the actions that move a request on; what StoreAnswer puts in the cache
\* may be shared.
LEMMA MoveStep ==
    ASSUME TypeInv, Inv, NEW r \in Request,
           Confirm(r) \/ Rewrite(r) \/ Miss(r) \/ ForwardDelta(r) \/ StoreAnswer(r)
    PROVE Inv'
  <1>1. MovesOn(r)
    BY RequestMovesOn
  <1>2. RequestOK(audit, r, session[r])
    BY DEF Inv, RequestInv
  <1>3. RequestOK(audit, r, session'[r])
    <2>1. Asking(audit, r, session'[r])
      <3>1. SUFFICES ASSUME session'[r].pc \in {"asked", "act", "lookup", "route"}
                     PROVE Asking(audit, r, session'[r])
        BY DEF Asking
      <3>2. session[r].pc \in {"asked", "lookup", "route"} /\ session'[r].pc # "asked"
        BY <1>1, <3>1 DEF MovesOn, SameHistory
      <3>3. /\ session'[r].copy.turns = session[r].copy.turns
            /\ session'[r].conv = session[r].conv
            /\ session'[r].copy.pending_action = NoAction
        BY <1>1, <1>2, <3>2 DEF MovesOn, SameHistory, RequestOK, Asking
      <3>4. session'[r].pc = "act" => Offered(audit, session'[r].conv, session'[r].confirmed)
        BY <1>1, <1>2, <3>2, <3>3 DEF MovesOn, SameHistory, RequestOK, Asking, ProposalBacked
      <3> QED BY <1>2, <3>2, <3>3, <3>4 DEF RequestOK, Asking, Last, TurnsBacked, ProposalBacked
    <2>2. Answered(audit, r, session'[r])
      BY <1>1, <1>2 DEF MovesOn, SameHistory, RequestOK, Answered, Last
    <2>3. Saving(audit, session'[r]) /\ Replying(audit, r, session'[r])
      BY <1>1, <1>2 DEF MovesOn, SameHistory, RequestOK, Saving, Replying
    <2> QED BY <2>1, <2>2, <2>3 DEF RequestOK
  <1>4. CacheInv'
    <2>1. CASE StoreAnswer(r)
      <3>1. Shareable(session[r].answer)
        BY <1>2, <2>1 DEF RequestOK, Replying, StoreAnswer, At
      <3> QED BY <2>1, <3>1 DEF Inv, CacheInv, StoreAnswer
    <2> QED BY <2>1 DEF Confirm, Rewrite, Miss, ForwardDelta, Inv, CacheInv
  <1>5. /\ Others(r) /\ UNCHANGED <<store, audit, bank>>
        /\ session[r].pc \in {"asked", "lookup", "route", "cache_set"}
        /\ session'[r].pc \in {"act", "lookup", "route", "audit"}
        /\ session'[r].conv = session[r].conv
    BY <1>1 DEF MovesOn, SameHistory
  <1> QED BY <1>3, <1>4, <1>5, StoreKept, QuietStep

\* So does the end of a request.
LEMMA EndStep ==
    ASSUME TypeInv, Inv, NEW r \in Request, Reply(r) \/ Fail(r)
    PROVE Inv'
  <1>1. Ends(r)
    BY RequestEnds
  <1>2. RequestOK(audit, r, session[r])
    BY DEF Inv, RequestInv
  <1>3. RequestOK(audit, r, session'[r])
    BY <1>1, <1>2 DEF Ends, SameHistory, Ended, RequestOK, Asking, Answered, Saving, Replying
  <1>4. CacheInv'
    BY <1>1 DEF Ends, SameHistory, Inv, CacheInv
  <1>5. /\ Others(r) /\ UNCHANGED <<store, audit, bank>>
        /\ session'[r].pc \in {"done", "failed"} /\ session'[r].conv = session[r].conv
    BY <1>1 DEF Ends, SameHistory, Ended
  <1> QED BY <1>3, <1>4, <1>5, StoreKept, QuietStep

\* So does a new request, which takes the stored conversation as it is.
LEMMA ReceiveStep ==
    ASSUME TypeInv, Inv, NEW r \in Request, Receive(r)
    PROVE Inv'
  <1>1. session \in [Request -> Session] /\ session[r] \in Session
    BY DEF TypeInv, TypeOK
  <1>2. session[r].pc = "unsent" /\ ~session[r].replayed /\ ~session[r].saved
    BY DEF Receive, At, Inv, RequestInv, RequestOK, Replying
  <1>3. PICK c \in Conversation, auth \in BOOLEAN :
            session' = [session EXCEPT ![r] =
                [session[r] EXCEPT !.pc = "asked", !.conv = c, !.identity = auth,
                                   !.copy = Add(LoadedFrom(c, auth), "user", r)]]
    BY DEF Receive
  <1> DEFINE loaded == LoadedFrom(c, auth)
  <1>4. /\ loaded \in ConversationState
        /\ TurnsBacked(audit, loaded, c) /\ ProposalBacked(audit, loaded, c)
    <2>1. CASE store[c] # Absent
      BY <2>1 DEF LoadedFrom, TypeInv, TypeOK, Inv, StoreInv, Sound
    <2>2. CASE store[c] = Absent
      BY <2>2 DEF LoadedFrom, ConversationState, TurnsBacked, ProposalBacked
    <2> QED BY <2>1, <2>2
  <1> DEFINE copy == Add(loaded, "user", r)
             turns == Append(loaded.turns, UserTurn(r))
  <1>5. copy.turns = turns /\ copy.pending_action = loaded.pending_action
    BY <1>4 DEF Add, ConversationState, UserTurn
  <1>6. /\ turns # <<>> /\ turns[Len(turns)] = UserTurn(r)
        /\ \A i \in DOMAIN turns :
            (i \in DOMAIN loaded.turns /\ turns[i] = loaded.turns[i]) \/ turns[i] = UserTurn(r)
    <2>1. loaded.turns \in Seq(Turn) /\ UserTurn(r) \in Turn
      BY <1>4 DEF ConversationState, UserTurn, Turn
    <2> QED BY <2>1, AppendedTurn
  <1> HIDE DEF loaded, copy, turns
  <1>7. /\ session'[r].pc = "asked" /\ session'[r].conv = c
        /\ session'[r].copy = copy /\ ~session'[r].replayed /\ ~session'[r].saved /\ Others(r)
    BY <1>1, <1>2, <1>3 DEF Session, Others, copy, loaded
  <1>8. /\ TurnsBacked(audit, copy, c) /\ ProposalBacked(audit, copy, c)
        /\ copy.turns # <<>> /\ Last(copy) = UserTurn(r)
    BY <1>4, <1>5, <1>6 DEF TurnsBacked, ProposalBacked, Last, UserTurn
  <1>9. RequestOK(audit, r, session'[r])
    BY <1>7, <1>8 DEF RequestOK, Asking, Answered, Saving, Replying
  <1>10. CacheInv' /\ UNCHANGED <<store, audit, bank>>
    BY DEF Receive, Inv, CacheInv
  <1> QED BY <1>2, <1>7, <1>9, <1>10, StoreKept, QuietStep

\* So does a replay.  The copy that is saved ends in the user turn, with no
\* proposal open.
LEMMA ReplayStep ==
    ASSUME TypeInv, Inv, NEW r \in Request, Replay(r)
    PROVE Inv'
  <1>1. session \in [Request -> Session] /\ session[r] \in Session
    BY DEF TypeInv, TypeOK
  <1>2. session[r].pc = "lookup" /\ RequestOK(audit, r, session[r])
    BY DEF Replay, At, Inv, RequestInv
  <1>3. /\ session'[r].pc = "save" /\ session'[r].conv = session[r].conv
        /\ session'[r].copy = session[r].copy /\ session'[r].replayed /\ Others(r)
        /\ ~session'[r].saved
    BY <1>1, <1>2 DEF Replay, Session, Others, RequestOK, Replying
  <1>4. Sound(audit, session[r].copy, session[r].conv)
    <2>1. Last(session[r].copy) = UserTurn(r)
      BY <1>2 DEF RequestOK, Asking
    <2>2. \A q : UserTurn(r) # AssistantTurn(q)
      BY DEF UserTurn, AssistantTurn
    <2> QED BY <1>2, <2>1, <2>2 DEF RequestOK, Asking, Sound, Aligned
  <1>5. RequestOK(audit, r, session'[r])
    BY <1>3, <1>4 DEF RequestOK, Asking, Answered, Saving, Replying
  <1>6. CacheInv' /\ UNCHANGED <<store, audit, bank>>
    BY DEF Replay, Inv, CacheInv
  <1> QED BY <1>2, <1>3, <1>5, <1>6, StoreKept, QuietStep

\* What a save does to its request.
LEMMA SaveShape ==
    ASSUME NEW r \in Request, Save(r), session \in [Request -> Session]
    PROVE /\ Others(r) /\ session'[r].pc = "reply" /\ session'[r].saved
          /\ session'[r].conv = session[r].conv /\ session'[r].copy = session[r].copy
          /\ session'[r].answer = session[r].answer
          /\ session'[r].replayed = session[r].replayed
          /\ session'[r].overlapped = (\E q \in Within(session[r].conv) \ {r} : InFlight(q))
  <1> DEFINE others == \E q \in Within(session[r].conv) \ {r} : InFlight(q)
  <1>1. session' = [session EXCEPT ![r] =
            [session[r] EXCEPT !.pc = "reply", !.saved = TRUE, !.overlapped = others]]
    BY DEF Save, Saved
  <1> HIDE DEF others
  <1>2. session[r] \in Session
    OBVIOUS
  <1>3. session'[r] = [session[r] EXCEPT !.pc = "reply", !.saved = TRUE, !.overlapped = others]
        /\ Others(r)
    BY <1>1 DEF Others
  <1>4. /\ session'[r].pc = "reply" /\ session'[r].saved = TRUE
        /\ session'[r].conv = session[r].conv /\ session'[r].copy = session[r].copy
        /\ session'[r].answer = session[r].answer
        /\ session'[r].replayed = session[r].replayed
        /\ session'[r].overlapped = others
    BY <1>2, <1>3 DEF Session
  <1> QED BY <1>3, <1>4 DEF others

\* So does the save: the copy that overwrites the store is sound by itself.
LEMMA SaveStep ==
    ASSUME TypeInv, Inv, NEW r \in Request, Save(r)
    PROVE Inv'
  <1>1. /\ session \in [Request -> Session] /\ session[r] \in Session
        /\ store \in [Conversation -> ConversationState \cup {Absent}]
    BY DEF TypeInv, TypeOK
  <1>2. session[r].pc = "save" /\ RequestOK(audit, r, session[r])
    BY DEF Save, At, Inv, RequestInv
  <1>3. /\ session'[r].pc = "reply" /\ session'[r].conv = session[r].conv
        /\ session'[r].answer = session[r].answer
        /\ session'[r].replayed = session[r].replayed /\ session'[r].saved /\ Others(r)
    BY <1>1, SaveShape
  <1>4. Sound(audit, session[r].copy, session[r].conv)
    BY <1>2 DEF RequestOK, Saving
  <1>5. StoreInv'
    BY <1>1, <1>4 DEF Save, Inv, StoreInv
  <1>6. RequestOK(audit, r, session'[r])
    BY <1>2, <1>3 DEF RequestOK, Asking, Answered, Saving, Replying
  <1>7. CacheInv' /\ UNCHANGED <<audit, bank>>
    BY DEF Save, Inv, CacheInv
  <1> QED BY <1>2, <1>3, <1>5, <1>6, <1>7, QuietStep

\* And so does the audit record, the request's first: from here on the copy is
\* sound, and no other conversation ends in the turn that is recorded.
LEMMA AuditStep ==
    ASSUME TypeInv, Inv, NEW r \in Request, RecordAudit(r)
    PROVE Inv'
  <1> DEFINE row == [conv |-> session[r].conv, by |-> r, answer |-> session[r].answer]
  <1>1. session \in [Request -> Session] /\ session[r] \in Session
    BY DEF TypeInv, TypeOK
  <1>2. session[r].pc = "audit" /\ RequestOK(audit, r, session[r])
    BY DEF RecordAudit, At, Inv, RequestInv
  <1>3. audit' = audit \cup {row} /\ UNCHANGED <<store, cache, bank>>
    BY DEF RecordAudit
  <1>4. \A a \in audit : a.by # row.by
    BY <1>2 DEF Inv, LogInv
  <1>5. /\ session'[r].pc = "save" /\ session'[r].conv = session[r].conv
        /\ session'[r].copy = session[r].copy /\ session'[r].answer = session[r].answer
        /\ SameHistory(r) /\ Others(r)
    BY <1>1 DEF RecordAudit, Session, Others, SameHistory
  <1>6. row.by = r /\ row.conv = session[r].conv /\ row.answer = session[r].answer
    OBVIOUS
  <1> HIDE DEF row
  <1>7. LogInv'
    <2>1. \A a \in audit : a.by \in Request
      BY DEF TypeInv, TypeOK
    <2> QED BY <1>3, <1>4, <1>5, <1>6, <2>1 DEF Inv, LogInv, Others
  <1>8. StoreInv'
    <2> SUFFICES ASSUME NEW c \in Conversation, store[c] # Absent
                 PROVE Sound(audit \cup {row}, store[c], c)
      BY <1>3 DEF StoreInv
    <2>1. store[c].turns \in Seq(Turn) /\ Sound(audit, store[c], c)
      BY DEF TypeInv, TypeOK, ConversationState, Inv, StoreInv
    <2> QED BY <1>4, <2>1, SoundGrows
  <1>9. CacheInv'
    BY <1>3 DEF Inv, CacheInv
  <1>10. RequestOK(audit \cup {row}, r, session'[r])
    <2>1. /\ session[r].copy.turns # <<>> /\ Last(session[r].copy) = AssistantTurn(r)
          /\ session[r].copy.pending_action = session[r].answer.pending_action
          /\ session[r].copy.pending_action # NoAction => session[r].copy.pending_action.by = r
      BY <1>2 DEF RequestOK, Answered
    <2>2. TurnsBacked(audit \cup {row}, session[r].copy, session[r].conv)
      BY <1>2, <1>6 DEF RequestOK, Answered, TurnsBacked, TurnAudited
    <2>3. ProposalBacked(audit \cup {row}, session[r].copy, session[r].conv)
      BY <1>6, <2>1 DEF ProposalBacked, Offered
    <2>4. Aligned(audit \cup {row}, session[r].copy)
      BY <1>4, <1>6, <2>1 DEF Aligned, AssistantTurn
    <2>5. ~session'[r].replayed /\ ~session'[r].saved
      BY <1>2, <1>5 DEF RequestOK, Replying, SameHistory
    <2>6. [conv |-> session'[r].conv, by |-> r, answer |-> session'[r].answer] = row
      BY <1>5 DEF row
    <2> QED BY <1>5, <2>2, <2>3, <2>4, <2>5, <2>6
            DEF RequestOK, Asking, Answered, Saving, Replying, Sound
  <1>11. RequestInv'
    <2>1. ASSUME NEW q \in Request, q # r
          PROVE RequestOK(audit \cup {row}, q, session'[q])
      <3>1. RequestOK(audit, q, session[q]) /\ WellFormed(session[q])
        BY DEF Inv, RequestInv, TypeInv
      <3>2. RequestOK(audit \cup {row}, q, session[q])
        BY <1>4, <3>1, RequestGrows
      <3> QED BY <1>5, <2>1, <3>2 DEF Others
    <2> QED BY <1>3, <1>10, <2>1 DEF RequestInv
  <1>12. BankInv'
    <2> SUFFICES ASSUME NEW i \in DOMAIN bank
                 PROVE ExecutedOK(audit \cup {row}, session'[bank[i].request], bank[i])
      BY <1>3 DEF BankInv
    <2>1. bank \in Seq([request : Request, pending : Pending])
      BY DEF TypeInv, TypeOK
    <2>2. bank[i] \in [request : Request, pending : Pending]
      BY <2>1, ElementType
    <2>3. ExecutedOK(audit, session[bank[i].request], bank[i])
      BY DEF Inv, BankInv
    <2>4. /\ session'[bank[i].request].conv = session[bank[i].request].conv
          /\ session'[bank[i].request].pc # "unsent"
      BY <1>5, <2>2, <2>3 DEF Others, ExecutedOK
    <2> QED BY <2>3, <2>4 DEF ExecutedOK, Offered
  <1> QED BY <1>7, <1>8, <1>9, <1>11, <1>12 DEF Inv
-----------------------------------------------------------------------------
(***************************************************************************)
(* The invariant holds at first, every step keeps it, and the safety       *)
(* properties follow from it.                                              *)
(***************************************************************************)
\* Initially nothing is logged, stored, cached, done or under way.
LEMMA InitInv == Init => Inv
  <1> SUFFICES ASSUME Init PROVE Inv
    OBVIOUS
  <1>1. \A r \in Request : session[r].pc = "unsent" /\ ~session[r].replayed /\ ~session[r].saved
    BY DEF Init, NewSession
  <1>2. LogInv /\ StoreInv /\ CacheInv /\ BankInv
    BY DEF Init, LogInv, StoreInv, CacheInv, BankInv
  <1>3. RequestInv
    BY <1>1 DEF RequestInv, RequestOK, Asking, Answered, Saving, Replying
  <1> QED BY <1>2, <1>3 DEF Inv

\* The induction step, action by action.
LEMMA NextInv == TypeInv /\ Inv /\ [Next]_vars => Inv'
  <1> SUFFICES ASSUME TypeInv, Inv, [Next]_vars PROVE Inv'
    OBVIOUS
  <1>1. ASSUME NEW r \in Request, Receive(r) \/ Step(r) \/ Fail(r) PROVE Inv'
    <2>1. CASE Receive(r)
      BY <2>1, ReceiveStep
    <2>2. CASE Decline(r) \/ Act(r) \/ Refuse(r) \/ AnswerTurn(r)
      BY <2>2, TurnStep
    <2>3. CASE Confirm(r) \/ Rewrite(r) \/ Miss(r) \/ ForwardDelta(r) \/ StoreAnswer(r)
      BY <2>3, MoveStep
    <2>4. CASE Replay(r)
      BY <2>4, ReplayStep
    <2>5. CASE RecordAudit(r)
      BY <2>5, AuditStep
    <2>6. CASE Save(r)
      BY <2>6, SaveStep
    <2>7. CASE Reply(r) \/ Fail(r)
      BY <2>7, EndStep
    <2> QED BY <1>1, <2>1, <2>2, <2>3, <2>4, <2>5, <2>6, <2>7 DEF Step
  <1>2. ASSUME NEW c \in Conversation, Expire(c) PROVE Inv'
    <2>1. StoreInv'
      BY <1>2 DEF Expire, TypeInv, TypeOK, Inv, StoreInv
    <2> QED BY <1>2, <2>1 DEF Expire, Inv, LogInv, CacheInv, RequestInv, BankInv
  <1>3. ASSUME NEW k \in DOMAIN cache, ExpireCached(k) PROVE Inv'
    <2>1. CacheInv'
      BY <1>3 DEF ExpireCached, Inv, CacheInv
    <2> QED BY <1>3, <2>1 DEF ExpireCached, Inv, LogInv, StoreInv, RequestInv, BankInv
  <1>4. CASE UNCHANGED vars
    BY <1>4 DEF vars, Inv, LogInv, StoreInv, CacheInv, RequestInv, BankInv
  <1> QED BY <1>1, <1>2, <1>3, <1>4 DEF Next

\* Both invariants hold in every reachable state.
LEMMA InvHolds == Spec => [](TypeInv /\ Inv)
  BY InitType, InitInv, NextType, NextInv, PTL DEF Spec

\* A computed answer is in the audit log, word for word, before its done event
\* is sent (its streamed words may be earlier).
THEOREM AuditBeforeDoneTheorem == Spec => []AuditBeforeDone
  <1>1. Inv => AuditBeforeDone
    BY DEF Inv, RequestInv, RequestOK, Replying, AuditBeforeDone, At
  <1> QED BY InvHolds, <1>1, PTL

\* Each assistant turn of a stored conversation is in the audit log.
THEOREM StoredTurnsAuditedTheorem == Spec => []StoredTurnsAudited
  <1>1. Inv => StoredTurnsAudited
    BY DEF Inv, StoreInv, Sound, TurnsBacked, TurnAudited, StoredTurnsAudited
  <1> QED BY InvHolds, <1>1, PTL

\* The bank acts only on a proposal an earlier request of the conversation made.
THEOREM ExecutedWasOfferedTheorem == Spec => []ExecutedWasOffered
  <1>1. Inv => ExecutedWasOffered
    <2> SUFFICES ASSUME Inv, NEW i \in DOMAIN bank
                 PROVE \E a \in audit :
                        /\ a.answer.pending_action = bank[i].pending
                        /\ a.by = bank[i].pending.by /\ a.by # bank[i].request
                        /\ a.conv = session[bank[i].request].conv
      BY DEF ExecutedWasOffered
    <2>1. ExecutedOK(audit, session[bank[i].request], bank[i])
      BY DEF Inv, BankInv
    <2> QED BY <2>1 DEF ExecutedOK, Offered
  <1> QED BY InvHolds, <1>1, PTL

\* What other visitors may be replayed is grounded, verified and no proposal.
THEOREM CacheHoldsVerifiedTheorem == Spec => []CacheHoldsVerified
  <1>1. Inv => CacheHoldsVerified
    BY DEF Inv, CacheInv, Shareable, CacheHoldsVerified
  <1> QED BY InvHolds, <1>1, PTL

\* A stored conversation's open proposal is what its customer was asked last,
\* however concurrent requests overwrite each other's turns.
THEOREM OpenProposalIsLastTurnTheorem == Spec => []OpenProposalIsLastTurn
  <1>1. Inv => OpenProposalIsLastTurn
    BY DEF Inv, StoreInv, Sound, Aligned, Last, AssistantTurn, OpenProposalIsLastTurn
  <1> QED BY InvHolds, <1>1, PTL
-----------------------------------------------------------------------------
(***************************************************************************)
(* Exchanges are lost by overlap only.  Saved without overlap, an exchange *)
(* is in the store and in the copy of every request that is open from then *)
(* on: those that were received later loaded it.                           *)
(***************************************************************************)
Exchanged(turns, r, replayed) ==
    \E i \in DOMAIN turns :
        /\ turns[i] = UserTurn(r)
        /\ \/ replayed
           \/ i < Len(turns) /\ turns[i + 1] = AssistantTurn(r)

OwnInv == \A r \in Request : session[r].pc \in {"cache_set", "audit", "save"} =>
                Exchanged(session[r].copy.turns, r, session[r].replayed)
Kept(r) ==
    session[r].saved /\ ~session[r].overlapped =>
        /\ store[session[r].conv] # Absent =>
                Exchanged(store[session[r].conv].turns, r, session[r].replayed)
        /\ \A q \in Request : session[q].conv = session[r].conv /\ InFlight(q) =>
                Exchanged(session[q].copy.turns, r, session[r].replayed)
KeptInv == OwnInv /\ \A r \in Request : Kept(r)

\* A turn that is added leaves the exchanges before it alone, and an answer
\* completes the one it ends.
LEMMA ExchangedGrows ==
    ASSUME NEW turns \in Seq(Turn), NEW t, NEW r, NEW replayed,
           Exchanged(turns, r, replayed)
    PROVE Exchanged(Append(turns, t), r, replayed)
  <1>1. PICK i \in DOMAIN turns : /\ turns[i] = UserTurn(r)
                                  /\ replayed \/ (i < Len(turns) /\ turns[i + 1] = AssistantTurn(r))
    BY DEF Exchanged
  <1> DEFINE new == Append(turns, t)
  <1>2. /\ i \in 1..Len(turns) /\ Len(new) = Len(turns) + 1 /\ DOMAIN new = 1..(Len(turns) + 1)
        /\ Len(turns) \in Nat
        /\ \A j \in 1..Len(turns) : new[j] = turns[j]
    OBVIOUS
  <1> HIDE DEF new
  <1>3. i \in DOMAIN new /\ new[i] = turns[i]
    BY <1>2
  <1>4. i < Len(turns) => i < Len(new) /\ new[i + 1] = turns[i + 1]
    BY <1>2
  <1>5. Exchanged(new, r, replayed)
    BY <1>1, <1>3, <1>4 DEF Exchanged
  <1> QED BY <1>5 DEF new

\* The answer to the last turn makes an exchange of the two.
LEMMA ExchangedAnswered ==
    ASSUME NEW turns \in Seq(Turn), turns # <<>>, NEW r \in Request, NEW replayed,
           turns[Len(turns)] = UserTurn(r)
    PROVE /\ Exchanged(Append(turns, AssistantTurn(r)), r, replayed)
          /\ Exchanged(turns, r, TRUE)
  <1> DEFINE new == Append(turns, AssistantTurn(r))
             n == Len(turns)
  <1>1. /\ n \in 1..n /\ Len(new) = n + 1 /\ DOMAIN new = 1..(n + 1) /\ DOMAIN turns = 1..n
        /\ n \in Nat /\ new[n] = turns[n] /\ new[n + 1] = AssistantTurn(r)
    OBVIOUS
  <1>0. turns[n] = UserTurn(r)
    OBVIOUS
  <1> HIDE DEF new, n
  <1>2. Exchanged(new, r, replayed)
    <2>1. n \in DOMAIN new /\ n < Len(new)
      BY <1>1
    <2> QED BY <1>0, <1>1, <2>1 DEF Exchanged
  <1>3. Exchanged(turns, r, TRUE)
    BY <1>0, <1>1 DEF Exchanged
  <1> QED BY <1>2, <1>3 DEF new

\* A step of one request that leaves the store alone and takes no exchange out
\* of its copy.
LEMMA KeptFrame ==
    ASSUME KeptInv, NEW r \in Request, Others(r), UNCHANGED store,
           session'[r].conv = session[r].conv,
           session'[r].saved = session[r].saved,
           session'[r].overlapped = session[r].overlapped,
           session[r].saved => session'[r].replayed = session[r].replayed,
           InFlight(r)' =>
                /\ InFlight(r)
                /\ \A q \in Request : Exchanged(session[r].copy.turns, q, session[q].replayed) =>
                        Exchanged(session'[r].copy.turns, q, session[q].replayed)
    PROVE \A q \in Request : Kept(q)'
  <1> SUFFICES ASSUME NEW q \in Request, session'[q].saved, ~session'[q].overlapped
               PROVE Kept(q)'
    BY DEF Kept
  <1>1. /\ session'[q].conv = session[q].conv /\ session'[q].replayed = session[q].replayed
        /\ session[q].saved /\ ~session[q].overlapped
    BY DEF Others
  <1>2. Kept(q)
    BY DEF KeptInv
  <1>3. ASSUME NEW p \in Request, session'[p].conv = session'[q].conv, InFlight(p)'
        PROVE Exchanged(session'[p].copy.turns, q, session'[q].replayed)
    <2>1. CASE p = r
      BY <1>1, <1>2, <1>3, <2>1 DEF Kept
    <2>2. CASE p # r
      <3>1. session'[p] = session[p]
        BY <2>2 DEF Others
      <3>2. InFlight(p)
        BY <1>3, <3>1 DEF InFlight
      <3> QED BY <1>1, <1>2, <1>3, <3>1, <3>2 DEF Kept
    <2> QED BY <2>1, <2>2
  <1> QED BY <1>1, <1>2, <1>3 DEF Kept

\* Ending a turn completes the request's exchange.
LEMMA KeptTurn ==
    ASSUME TypeInv, Inv, KeptInv, NEW r \in Request, EndsTurn(r)
    PROVE KeptInv'
  <1>1. session[r].copy.turns \in Seq(Turn)
    BY CopyTurns DEF EndsTurn, Ended
  <1>2. session[r].copy.turns # <<>> /\ Last(session[r].copy) = UserTurn(r)
    BY DEF Inv, RequestInv, RequestOK, Asking, EndsTurn
  <1>3. session'[r].copy.turns = Append(session[r].copy.turns, AssistantTurn(r))
    BY DEF EndsTurn
  <1>4. Exchanged(session'[r].copy.turns, r, session'[r].replayed)
    BY <1>1, <1>2, <1>3, ExchangedAnswered DEF Last
  <1>5. OwnInv'
    BY <1>4 DEF KeptInv, OwnInv, EndsTurn, Others
  <1>6. \A q \in Request : Exchanged(session[r].copy.turns, q, session[q].replayed) =>
            Exchanged(session'[r].copy.turns, q, session[q].replayed)
    BY <1>1, <1>3, ExchangedGrows
  <1>7. InFlight(r) /\ Others(r) /\ SameHistory(r) /\ UNCHANGED store
    BY DEF EndsTurn, InFlight, Ended
  <1>8. \A q \in Request : Kept(q)'
    BY <1>6, <1>7, KeptFrame DEF SameHistory
  <1> QED BY <1>5, <1>8 DEF KeptInv

\* So do the steps that leave the turns of a copy alone.
LEMMA KeptMove ==
    ASSUME TypeInv, Inv, KeptInv, NEW r \in Request,
           MovesOn(r) \/ Replay(r) \/ RecordAudit(r) \/ Ends(r)
    PROVE KeptInv'
  <1>1. session \in [Request -> Session] /\ session[r] \in Session
    BY DEF TypeInv, TypeOK
  <1>2. CASE MovesOn(r)
    <2>1. /\ Others(r) /\ SameHistory(r) /\ UNCHANGED store /\ InFlight(r)
          /\ session'[r].copy.turns = session[r].copy.turns
          /\ session'[r].pc \in {"cache_set", "audit", "save"} => session[r].pc = "cache_set"
      BY <1>2 DEF MovesOn, InFlight, Ended
    <2>2. OwnInv'
      BY <2>1 DEF KeptInv, OwnInv, Others, SameHistory
    <2>3. \A q \in Request : Kept(q)'
      BY <2>1, KeptFrame DEF SameHistory
    <2> QED BY <2>2, <2>3 DEF KeptInv
  <1>3. CASE Replay(r)
    <2>1. /\ session[r].pc = "lookup" /\ session'[r].pc = "save"
          /\ session'[r].conv = session[r].conv /\ session'[r].copy = session[r].copy
          /\ session'[r].replayed = TRUE /\ session'[r].saved = session[r].saved
          /\ session'[r].overlapped = session[r].overlapped
          /\ Others(r) /\ UNCHANGED store
      BY <1>1, <1>3 DEF Replay, At, Session, Others
    <2>2. RequestOK(audit, r, session[r])
      BY DEF Inv, RequestInv
    <2>3. /\ session[r].copy.turns # <<>> /\ Last(session[r].copy) = UserTurn(r)
          /\ ~session[r].saved
      BY <2>1, <2>2 DEF RequestOK, Asking, Replying
    <2>4. session[r].copy.turns \in Seq(Turn) /\ InFlight(r)
      BY <2>1, CopyTurns DEF Ended, InFlight
    <2>5. Exchanged(session'[r].copy.turns, r, session'[r].replayed)
      BY <2>1, <2>3, <2>4, ExchangedAnswered DEF Last
    <2>6. OwnInv'
      BY <2>1, <2>5 DEF KeptInv, OwnInv, Others
    <2>7. \A q \in Request : Kept(q)'
      BY <2>1, <2>3, <2>4, KeptFrame
    <2> QED BY <2>6, <2>7 DEF KeptInv
  <1>4. CASE RecordAudit(r)
    <2>1. /\ session[r].pc = "audit" /\ session'[r].pc = "save"
          /\ SameHistory(r) /\ session'[r].copy = session[r].copy
          /\ Others(r) /\ UNCHANGED store /\ InFlight(r)
      BY <1>1, <1>4 DEF RecordAudit, At, Session, Others, SameHistory, InFlight, Ended
    <2>2. OwnInv'
      BY <2>1 DEF KeptInv, OwnInv, Others, SameHistory
    <2>3. \A q \in Request : Kept(q)'
      BY <2>1, KeptFrame DEF SameHistory
    <2> QED BY <2>2, <2>3 DEF KeptInv
  <1>5. CASE Ends(r)
    <2>1. /\ Others(r) /\ SameHistory(r) /\ UNCHANGED store /\ ~InFlight(r)'
          /\ session'[r].pc \notin {"cache_set", "audit", "save"}
      BY <1>5 DEF Ends, InFlight, Ended
    <2>2. OwnInv'
      BY <2>1 DEF KeptInv, OwnInv, Others
    <2>3. \A q \in Request : Kept(q)'
      BY <2>1, KeptFrame DEF SameHistory
    <2> QED BY <2>2, <2>3 DEF KeptInv
  <1> QED BY <1>2, <1>3, <1>4, <1>5

\* A new request takes over what the store holds, and a conversation that had
\* requests before is not started afresh.
LEMMA KeptReceive ==
    ASSUME TypeInv, Inv, KeptInv, NEW r \in Request, Receive(r)
    PROVE KeptInv'
  <1>1. session \in [Request -> Session] /\ session[r] \in Session
    BY DEF TypeInv, TypeOK
  <1>2. session[r].pc = "unsent" /\ ~session[r].saved
    BY DEF Receive, At, Inv, RequestInv, RequestOK, Replying
  <1>3. PICK c \in Conversation, auth \in BOOLEAN :
            /\ store[c] = Absent => Within(c) = {}
            /\ session' = [session EXCEPT ![r] =
                [session[r] EXCEPT !.pc = "asked", !.conv = c, !.identity = auth,
                                   !.copy = Add(LoadedFrom(c, auth), "user", r)]]
    BY DEF Receive
  <1> DEFINE copy == Add(LoadedFrom(c, auth), "user", r)
  <1>4. /\ session'[r].pc = "asked" /\ session'[r].conv = c /\ ~session'[r].saved
        /\ session'[r].copy = copy /\ Others(r) /\ UNCHANGED store
    BY <1>1, <1>2, <1>3 DEF Session, Others, Receive
  <1>5. store[c] # Absent =>
            /\ store[c].turns \in Seq(Turn)
            /\ copy.turns = Append(store[c].turns, UserTurn(r))
    BY DEF TypeInv, TypeOK, LoadedFrom, Add, ConversationState, UserTurn
  <1> HIDE DEF copy
  <1>6. OwnInv'
    BY <1>4 DEF KeptInv, OwnInv, Others
  <1>7. ASSUME NEW q \in Request PROVE Kept(q)'
    <2>1. CASE q = r
      BY <1>4, <2>1 DEF Kept
    <2>2. CASE q # r
      <3>1. session'[q] = session[q] /\ Kept(q)
        BY <1>4, <2>2 DEF Others, KeptInv
      <3> SUFFICES ASSUME session[q].saved, ~session[q].overlapped PROVE Kept(q)'
        BY <3>1 DEF Kept
      <3>2. ASSUME NEW p \in Request, session'[p].conv = session'[q].conv, InFlight(p)'
            PROVE Exchanged(session'[p].copy.turns, q, session'[q].replayed)
        <4>1. CASE p = r
          <5>1. session[q].conv = c /\ store[c] # Absent
            BY <1>3, <1>4, <3>1, <3>2, <4>1 DEF Within
          <5>2. Exchanged(store[c].turns, q, session[q].replayed)
            BY <3>1, <5>1 DEF Kept
          <5>3. Exchanged(Append(store[c].turns, UserTurn(r)), q, session[q].replayed)
            BY <1>5, <5>1, <5>2, ExchangedGrows
          <5> QED BY <1>4, <1>5, <3>1, <4>1, <5>1, <5>3
        <4>2. CASE p # r
          <5>1. session'[p] = session[p]
            BY <1>4, <4>2 DEF Others
          <5>2. InFlight(p)
            BY <3>2, <5>1 DEF InFlight
          <5> QED BY <3>1, <3>2, <5>1, <5>2 DEF Kept
        <4> QED BY <4>1, <4>2
      <3> QED BY <1>4, <3>1, <3>2 DEF Kept
    <2> QED BY <2>1, <2>2
  <1> QED BY <1>6, <1>7 DEF KeptInv

\* A save writes back a copy that has all that was saved before the request was
\* received and without overlap, and its own exchange.
LEMMA KeptSave ==
    ASSUME TypeInv, Inv, KeptInv, NEW r \in Request, Save(r)
    PROVE KeptInv'
  <1>1. /\ session \in [Request -> Session]
        /\ store \in [Conversation -> ConversationState \cup {Absent}]
    BY DEF TypeInv, TypeOK
  <1>2. session[r].pc = "save" /\ InFlight(r) /\ session[r].conv \in Conversation
    BY DEF Save, At, InFlight, Ended, TypeInv, WellFormed
  <1>3. /\ Others(r) /\ session'[r].pc = "reply"
        /\ session'[r].conv = session[r].conv /\ session'[r].copy = session[r].copy
        /\ session'[r].replayed = session[r].replayed
        /\ session'[r].overlapped = (\E q \in Within(session[r].conv) \ {r} : InFlight(q))
    BY <1>1, SaveShape
  <1>4. store' = [store EXCEPT ![session[r].conv] = session[r].copy]
    BY DEF Save
  <1>5. Exchanged(session[r].copy.turns, r, session[r].replayed)
    BY <1>2 DEF KeptInv, OwnInv
  <1>6. OwnInv'
    BY <1>3 DEF KeptInv, OwnInv, Others
  <1>7. ASSUME NEW q \in Request PROVE Kept(q)'
    <2>1. CASE q = r
      <3> SUFFICES ASSUME ~session'[r].overlapped PROVE Kept(r)'
        BY <2>1 DEF Kept
      <3>1. ASSUME NEW p \in Request, session'[p].conv = session'[r].conv, InFlight(p)'
            PROVE p = r
        <4>1. SUFFICES ASSUME p # r PROVE FALSE
          OBVIOUS
        <4>2. session'[p] = session[p]
          BY <1>3, <4>1 DEF Others
        <4>3. InFlight(p) /\ p \in Within(session[r].conv)
          BY <1>3, <3>1, <4>2 DEF InFlight, Within
        <4> QED BY <1>3, <4>1, <4>3
      <3>2. store'[session'[r].conv] = session[r].copy
        BY <1>1, <1>2, <1>3, <1>4
      <3> QED BY <1>3, <1>5, <2>1, <3>1, <3>2 DEF Kept
    <2>2. CASE q # r
      <3>1. session'[q] = session[q] /\ Kept(q)
        BY <1>3, <2>2 DEF Others, KeptInv
      <3> SUFFICES ASSUME session[q].saved, ~session[q].overlapped PROVE Kept(q)'
        BY <3>1 DEF Kept
      <3>2. session[q].conv = session[r].conv =>
                Exchanged(session[r].copy.turns, q, session[q].replayed)
        BY <1>2, <3>1 DEF Kept
      <3>3. ASSUME NEW p \in Request, session'[p].conv = session'[q].conv, InFlight(p)'
            PROVE Exchanged(session'[p].copy.turns, q, session'[q].replayed)
        <4>1. CASE p = r
          BY <1>3, <3>1, <3>2, <3>3, <4>1
        <4>2. CASE p # r
          <5>1. session'[p] = session[p]
            BY <1>3, <4>2 DEF Others
          <5>2. InFlight(p)
            BY <3>3, <5>1 DEF InFlight
          <5> QED BY <3>1, <3>3, <5>1, <5>2 DEF Kept
        <4> QED BY <4>1, <4>2
      <3>4. store'[session[q].conv] # Absent =>
                Exchanged(store'[session[q].conv].turns, q, session[q].replayed)
        <4>1. CASE session[q].conv = session[r].conv
          BY <1>1, <1>2, <1>4, <3>2, <4>1
        <4>2. CASE session[q].conv # session[r].conv
          <5>1. session[q].conv \in Conversation
            BY DEF TypeInv, WellFormed, Inv, RequestInv, RequestOK, Replying
          <5> QED BY <1>1, <1>4, <3>1, <4>2, <5>1 DEF Kept
        <4> QED BY <4>1, <4>2
      <3> QED BY <3>1, <3>3, <3>4 DEF Kept
    <2> QED BY <2>1, <2>2
  <1> QED BY <1>6, <1>7 DEF KeptInv

\* Every step keeps what was saved without overlap.
LEMMA KeptNext == TypeInv /\ Inv /\ KeptInv /\ [Next]_vars => KeptInv'
  <1> SUFFICES ASSUME TypeInv, Inv, KeptInv, [Next]_vars PROVE KeptInv'
    OBVIOUS
  <1>1. ASSUME NEW r \in Request, Receive(r) \/ Step(r) \/ Fail(r) PROVE KeptInv'
    <2>1. CASE Receive(r)
      BY <2>1, KeptReceive
    <2>2. CASE Decline(r) \/ Act(r) \/ Refuse(r) \/ AnswerTurn(r)
      BY <2>2, TurnEnds, KeptTurn
    <2>3. CASE Confirm(r) \/ Rewrite(r) \/ Miss(r) \/ ForwardDelta(r) \/ StoreAnswer(r)
      BY <2>3, RequestMovesOn, KeptMove
    <2>4. CASE Replay(r) \/ RecordAudit(r)
      BY <2>4, KeptMove
    <2>5. CASE Save(r)
      BY <2>5, KeptSave
    <2>6. CASE Reply(r) \/ Fail(r)
      BY <2>6, RequestEnds, KeptMove
    <2> QED BY <1>1, <2>1, <2>2, <2>3, <2>4, <2>5, <2>6 DEF Step
  <1>2. ASSUME NEW c \in Conversation, Expire(c) PROVE KeptInv'
    <2>1. /\ store' = [store EXCEPT ![c] = Absent] /\ UNCHANGED session
          /\ store \in [Conversation -> ConversationState \cup {Absent}]
      BY <1>2 DEF Expire, TypeInv, TypeOK
    <2>2. OwnInv'
      BY <2>1 DEF KeptInv, OwnInv
    <2>3. ASSUME NEW q \in Request PROVE Kept(q)'
      <3> SUFFICES ASSUME session[q].saved, ~session[q].overlapped PROVE Kept(q)'
        BY <2>1 DEF Kept
      <3>1. Kept(q) /\ session[q].conv \in Conversation
        BY DEF KeptInv, TypeInv, WellFormed, Inv, RequestInv, RequestOK, Replying
      <3> QED BY <2>1, <3>1 DEF Kept, InFlight
    <2> QED BY <2>2, <2>3 DEF KeptInv
  <1>3. ASSUME NEW k \in DOMAIN cache, ExpireCached(k) PROVE KeptInv'
    BY <1>3 DEF ExpireCached, KeptInv, OwnInv, Kept, InFlight
  <1>4. CASE UNCHANGED vars
    BY <1>4 DEF vars, KeptInv, OwnInv, Kept, InFlight
  <1> QED BY <1>1, <1>2, <1>3, <1>4 DEF Next

\* No exchange is lost but by overlap: however requests interleave, fail and
\* overwrite each other's copies, a request that saved with no other one open
\* in its conversation stays in it, question and answer.
THEOREM NoTurnLostTheorem == Spec => []NoTurnLost
  <1>1. Init => KeptInv
    BY DEF Init, NewSession, KeptInv, OwnInv, Kept
  <1>2. KeptInv => NoTurnLost
    <2> SUFFICES ASSUME KeptInv, NEW c \in Conversation, store[c] # Absent,
                        NEW r \in Within(c), session[r].saved, ~session[r].overlapped
                 PROVE Exchanged(store[c].turns, r, session[r].replayed)
      BY DEF NoTurnLost, Exchanged, UserTurn, AssistantTurn
    <2>1. r \in Request /\ session[r].conv = c
      BY DEF Within
    <2> QED BY <2>1 DEF KeptInv, Kept
  <1> QED BY InvHolds, KeptNext, <1>1, <1>2, PTL DEF Spec
-----------------------------------------------------------------------------
(***************************************************************************)
(* Proposals.  A proposal that is stored, about to be answered or          *)
(* performed was put into the store by the save of the request that made   *)
(* it, and that request does not save again: what a save opens is new, and *)
(* what it closes stays closed.                                            *)
(***************************************************************************)
Savers == {q \in Request : session[q].saved}

\* What a save writes is the request's own proposal or none.
Writes(r, s) ==
    s.pc = "save" =>
        /\ s.copy.pending_action # NoAction => s.copy.pending_action.by = r
        /\ ~s.replayed => s.copy.pending_action = s.answer.pending_action
        /\ s.replayed => s.copy.pending_action = NoAction
\* What a request takes up was saved.
TakesUp(savers, s) ==
    /\ s.pc = "asked" /\ s.copy.pending_action # NoAction => s.copy.pending_action.by \in savers
    /\ s.pc = "act" => s.confirmed.by \in savers

WritesInv == \A r \in Request : Writes(r, session[r])
TakesUpInv == \A r \in Request : TakesUp(Savers, session[r])
RecordedInv ==
    \A a \in audit : /\ ~session[a.by].replayed
                     /\ a.answer.pending_action # NoAction => a.answer.pending_action.by = a.by
OpenInv ==
    \A c \in Conversation : store[c] # Absent /\ store[c].pending_action # NoAction =>
        store[c].pending_action.by \in Savers
PerformedInv == \A i \in DOMAIN bank : bank[i].pending.by \in Savers
ProposalInv ==
    WritesInv /\ TakesUpInv /\ RecordedInv /\ OpenInv /\ PerformedInv /\ PerformedIsClosed

\* An entry of the bank is a request and a proposal, the latter another one's.
LEMMA BankEntry ==
    ASSUME TypeInv, Inv, NEW i \in DOMAIN bank
    PROVE /\ bank[i].request \in Request /\ bank[i].pending \in Pending
          /\ bank[i].pending # NoAction
          /\ ExecutedOK(audit, session[bank[i].request], bank[i])
  <1>1. bank \in Seq([request : Request, pending : Pending])
    BY DEF TypeInv, TypeOK
  <1>2. bank[i] \in [request : Request, pending : Pending]
    BY <1>1, ElementType
  <1>3. ExecutedOK(audit, session[bank[i].request], bank[i])
    BY DEF Inv, BankInv
  <1> QED BY <1>2, <1>3, ChatAssumption

\* A step of one request that leaves the store alone and does not save; what it
\* adds to the bank was saved by its proposer.
LEMMA ProposalFrame ==
    ASSUME TypeInv, Inv, ProposalInv, NEW r \in Request, Others(r), UNCHANGED store,
           session'[r].saved = session[r].saved,
           Writes(r, session'[r]), TakesUp(Savers, session'[r]), RecordedInv',
           \A i \in DOMAIN bank' :
                \/ i \in DOMAIN bank /\ bank'[i] = bank[i]
                \/ /\ bank'[i].request = r /\ ~session[r].saved
                   /\ bank'[i].pending.by \in Savers
    PROVE ProposalInv'
  <1>1. \A q \in Request : session'[q].saved = session[q].saved
    BY DEF Others
  <1>2. Savers' = Savers
    BY <1>1 DEF Savers
  <1>3. WritesInv' /\ TakesUpInv'
    BY <1>2 DEF ProposalInv, WritesInv, TakesUpInv, Others
  <1>4. OpenInv' /\ PerformedInv'
    BY <1>2 DEF ProposalInv, OpenInv, PerformedInv
  <1>5. PerformedIsClosed'
    BY <1>1, BankEntry DEF ProposalInv, PerformedIsClosed
  <1> QED BY <1>3, <1>4, <1>5 DEF ProposalInv

\* The records stay as they are unless one is added.
LEMMA RecordsKept ==
    ASSUME TypeInv, ProposalInv, NEW r \in Request, Others(r), UNCHANGED audit,
           session'[r].replayed = session[r].replayed
    PROVE RecordedInv'
  <1>1. \A a \in audit : a.by \in Request
    BY DEF TypeInv, TypeOK
  <1> QED BY <1>1 DEF ProposalInv, RecordedInv, Others

\* The steps of a request up to its save, and its end.
LEMMA ProposalStep ==
    ASSUME TypeInv, Inv, ProposalInv, NEW r \in Request, Step(r) \/ Fail(r), ~Save(r)
    PROVE ProposalInv'
  <1>1. session \in [Request -> Session] /\ session[r] \in Session
    BY DEF TypeInv, TypeOK
  <1>2. RequestOK(audit, r, session[r]) /\ TakesUp(Savers, session[r])
    BY DEF Inv, RequestInv, ProposalInv, TakesUpInv
  <1>3. CASE Decline(r) \/ Act(r) \/ Refuse(r) \/ AnswerTurn(r)
    <2>1. EndsTurn(r)
      BY <1>3, TurnEnds
    <2>2. /\ Others(r) /\ SameHistory(r) /\ UNCHANGED <<store, audit>>
          /\ session'[r].pc \in {"cache_set", "audit"}
      BY <2>1 DEF EndsTurn
    <2>3. \A i \in DOMAIN bank' :
            \/ i \in DOMAIN bank /\ bank'[i] = bank[i]
            \/ /\ bank'[i].request = r /\ ~session[r].saved
               /\ bank'[i].pending.by \in Savers
      <3>1. CASE UNCHANGED bank
        BY <3>1
      <3>2. CASE Act(r) /\ bank' # bank
        <4> DEFINE e == [request |-> r, pending |-> session[r].confirmed]
        <4>1. bank' = Append(bank, e)
          BY <3>2 DEF Act
        <4>2. bank \in Seq([request : Request, pending : Pending])
          BY DEF TypeInv, TypeOK
        <4>3. e.request = r /\ ~session[r].saved /\ e.pending.by \in Savers
          BY <1>2, <3>2 DEF Act, At, TakesUp, RequestOK, Replying
        <4> HIDE DEF e
        <4>4. \A i \in DOMAIN bank' : (i \in DOMAIN bank /\ bank'[i] = bank[i]) \/ bank'[i] = e
          BY <4>1, <4>2
        <4> QED BY <4>3, <4>4
      <3> QED BY <1>3, <3>1, <3>2 DEF Decline, Refuse, AnswerTurn
    <2>4. RecordedInv'
      BY <2>2, RecordsKept DEF SameHistory
    <2> QED BY <2>2, <2>3, <2>4, ProposalFrame DEF SameHistory, Writes, TakesUp
  <1>4. CASE Confirm(r) \/ Rewrite(r) \/ Miss(r) \/ ForwardDelta(r) \/ StoreAnswer(r)
    <2>1. MovesOn(r)
      BY <1>4, RequestMovesOn
    <2>2. /\ Others(r) /\ SameHistory(r) /\ UNCHANGED <<store, audit, bank>>
          /\ session'[r].pc \notin {"asked", "save"}
          /\ session'[r].pc = "act" => /\ session[r].pc = "asked"
                                       /\ session'[r].confirmed = session[r].copy.pending_action
                                       /\ session[r].copy.pending_action # NoAction
      BY <2>1 DEF MovesOn
    <2>3. TakesUp(Savers, session'[r]) /\ Writes(r, session'[r])
      BY <1>2, <2>2 DEF TakesUp, Writes
    <2>4. RecordedInv'
      BY <2>2, RecordsKept DEF SameHistory
    <2> QED BY <2>2, <2>3, <2>4, ProposalFrame DEF SameHistory
  <1>5. CASE Replay(r)
    <2>1. /\ session[r].pc = "lookup" /\ session'[r].pc = "save"
          /\ session'[r].copy = session[r].copy /\ session'[r].replayed = TRUE
          /\ session'[r].saved = session[r].saved
          /\ Others(r) /\ UNCHANGED <<store, audit, bank>>
      BY <1>1, <1>5 DEF Replay, At, Session, Others
    <2>2. Writes(r, session'[r]) /\ TakesUp(Savers, session'[r])
      BY <1>2, <2>1 DEF Writes, TakesUp, RequestOK, Asking
    <2>3. RecordedInv'
      <3>1. \A a \in audit : a.by \in Request /\ a.by # r
        BY <2>1 DEF TypeInv, TypeOK, Inv, LogInv
      <3> QED BY <2>1, <3>1 DEF ProposalInv, RecordedInv, Others
    <2> QED BY <2>1, <2>2, <2>3, ProposalFrame
  <1>6. CASE RecordAudit(r)
    <2> DEFINE row == [conv |-> session[r].conv, by |-> r, answer |-> session[r].answer]
    <2>1. /\ session[r].pc = "audit" /\ session'[r].pc = "save"
          /\ session'[r].copy = session[r].copy /\ session'[r].answer = session[r].answer
          /\ session'[r].replayed = session[r].replayed
          /\ session'[r].saved = session[r].saved
          /\ Others(r) /\ UNCHANGED <<store, bank>> /\ audit' = audit \cup {row}
      BY <1>1, <1>6 DEF RecordAudit, At, Session, Others
    <2>2. /\ session[r].copy.pending_action = session[r].answer.pending_action
          /\ session[r].copy.pending_action # NoAction => session[r].copy.pending_action.by = r
          /\ ~session[r].replayed
      BY <1>2, <2>1 DEF RequestOK, Answered, Replying
    <2>3. Writes(r, session'[r]) /\ TakesUp(Savers, session'[r])
      BY <2>1, <2>2 DEF Writes, TakesUp
    <2>4. row.by = r /\ row.answer = session[r].answer
      OBVIOUS
    <2> HIDE DEF row
    <2>5. RecordedInv'
      <3>1. \A a \in audit : a.by \in Request
        BY DEF TypeInv, TypeOK
      <3> QED BY <2>1, <2>2, <2>4, <3>1 DEF ProposalInv, RecordedInv, Others
    <2> QED BY <2>1, <2>3, <2>5, ProposalFrame
  <1>7. CASE Reply(r) \/ Fail(r)
    <2>1. Ends(r)
      BY <1>7, RequestEnds
    <2>2. /\ Others(r) /\ SameHistory(r) /\ UNCHANGED <<store, audit, bank>>
          /\ session'[r].pc \notin {"asked", "act", "save"}
      BY <2>1 DEF Ends, Ended
    <2>3. RecordedInv'
      BY <2>2, RecordsKept DEF SameHistory
    <2> QED BY <2>2, <2>3, ProposalFrame DEF SameHistory, Writes, TakesUp
  <1> QED BY <1>3, <1>4, <1>5, <1>6, <1>7 DEF Step

\* A new request takes up what is stored.
LEMMA ProposalReceive ==
    ASSUME TypeInv, Inv, ProposalInv, NEW r \in Request, Receive(r)
    PROVE ProposalInv'
  <1>1. session \in [Request -> Session] /\ session[r] \in Session
    BY DEF TypeInv, TypeOK
  <1>2. PICK c \in Conversation, auth \in BOOLEAN :
            session' = [session EXCEPT ![r] =
                [session[r] EXCEPT !.pc = "asked", !.conv = c, !.identity = auth,
                                   !.copy = Add(LoadedFrom(c, auth), "user", r)]]
    BY DEF Receive
  <1> DEFINE copy == Add(LoadedFrom(c, auth), "user", r)
  <1>3. /\ session'[r].pc = "asked" /\ session'[r].copy = copy
        /\ session'[r].saved = session[r].saved /\ session'[r].replayed = session[r].replayed
        /\ Others(r) /\ UNCHANGED <<store, audit, bank>>
    BY <1>1, <1>2 DEF Session, Others, Receive
  <1>4. LoadedFrom(c, auth) \in ConversationState
    <2>1. <<>> \in Seq(Turn)
      OBVIOUS
    <2> QED BY <2>1 DEF LoadedFrom, TypeInv, TypeOK, ConversationState
  <1>5. copy.pending_action = LoadedFrom(c, auth).pending_action
    BY <1>4 DEF Add, ConversationState
  <1>6. copy.pending_action # NoAction => copy.pending_action.by \in Savers
    BY <1>5 DEF LoadedFrom, ProposalInv, OpenInv
  <1> HIDE DEF copy
  <1>7. Writes(r, session'[r]) /\ TakesUp(Savers, session'[r])
    BY <1>3, <1>6 DEF Writes, TakesUp
  <1>8. RecordedInv'
    BY <1>3, RecordsKept
  <1> QED BY <1>3, <1>7, <1>8, ProposalFrame

\* A save opens the request's own proposal or none.  Neither is one the bank
\* performed, whose proposer saved before; and what the bank performed for the
\* request itself was stored in this conversation, and no longer is.
LEMMA ProposalSave ==
    ASSUME TypeInv, Inv, ProposalInv, NEW r \in Request, Save(r)
    PROVE ProposalInv'
  <1>1. /\ session \in [Request -> Session]
        /\ store \in [Conversation -> ConversationState \cup {Absent}]
    BY DEF TypeInv, TypeOK
  <1>2. /\ session[r].pc = "save" /\ session[r].conv \in Conversation /\ ~session[r].saved
        /\ session[r].copy \in ConversationState
    BY DEF Save, At, Ended, TypeInv, WellFormed, Inv, RequestInv, RequestOK, Replying
  <1>3. /\ Others(r) /\ session'[r].pc = "reply" /\ session'[r].saved
        /\ session'[r].replayed = session[r].replayed
    BY <1>1, SaveShape
  <1>4. /\ store' = [store EXCEPT ![session[r].conv] = session[r].copy]
        /\ UNCHANGED <<audit, bank>>
    BY DEF Save
  <1>5. Savers' = Savers \cup {r} /\ r \notin Savers
    BY <1>2, <1>3 DEF Savers, Others
  <1>6. session[r].copy.pending_action # NoAction => session[r].copy.pending_action.by = r
    BY <1>2 DEF ProposalInv, WritesInv, Writes
  <1>7. WritesInv' /\ TakesUpInv'
    BY <1>3, <1>5 DEF ProposalInv, WritesInv, TakesUpInv, Writes, TakesUp, Others
  <1>8. RecordedInv'
    BY <1>3, <1>4, RecordsKept
  <1>9. OpenInv' /\ PerformedInv'
    BY <1>1, <1>2, <1>4, <1>5, <1>6 DEF ProposalInv, OpenInv, PerformedInv
  <1>10. PerformedIsClosed'
    <2> SUFFICES ASSUME NEW c \in Conversation, NEW i \in DOMAIN bank, store'[c] # Absent,
                        store'[c].pending_action = bank[i].pending,
                        session'[bank[i].request].saved
                 PROVE FALSE
      BY <1>4 DEF PerformedIsClosed
    <2>1. /\ bank[i].request \in Request /\ bank[i].pending # NoAction
          /\ Offered(audit, session[bank[i].request].conv, bank[i].pending)
          /\ bank[i].pending.by \in Savers
      BY BankEntry DEF ExecutedOK, ProposalInv, PerformedInv
    <2>2. CASE c = session[r].conv
      BY <1>1, <1>2, <1>4, <1>5, <1>6, <2>1, <2>2
    <2>3. CASE c # session[r].conv
      <3>1. store[c] = store'[c]
        BY <1>1, <1>2, <1>4, <2>3
      <3>2. ~session[bank[i].request].saved
        BY <3>1 DEF ProposalInv, PerformedIsClosed
      <3>3. bank[i].request = r
        BY <1>3, <2>1, <3>2 DEF Others
      <3>4. Offered(audit, c, bank[i].pending)
        BY <2>1, <3>1 DEF Inv, StoreInv, Sound, ProposalBacked
      <3> QED BY <2>1, <2>3, <3>3, <3>4 DEF Offered, Inv, LogInv
    <2> QED BY <2>2, <2>3
  <1> QED BY <1>7, <1>8, <1>9, <1>10 DEF ProposalInv

\* Every step keeps the invariant.
LEMMA ProposalNext == TypeInv /\ Inv /\ ProposalInv /\ [Next]_vars => ProposalInv'
  <1> SUFFICES ASSUME TypeInv, Inv, ProposalInv, [Next]_vars PROVE ProposalInv'
    OBVIOUS
  <1>1. ASSUME NEW r \in Request, Receive(r) \/ Step(r) \/ Fail(r) PROVE ProposalInv'
    BY <1>1, ProposalReceive, ProposalSave, ProposalStep
  <1>2. ASSUME NEW c \in Conversation, Expire(c) PROVE ProposalInv'
    <2>1. /\ UNCHANGED <<session, audit, bank>> /\ store'[c] = Absent
          /\ \A d \in Conversation \ {c} : store'[d] = store[d]
      BY <1>2 DEF Expire, TypeInv, TypeOK
    <2> QED BY <2>1 DEF ProposalInv, WritesInv, TakesUpInv, RecordedInv, OpenInv, PerformedInv,
                        PerformedIsClosed, Savers
  <1>3. CASE UNCHANGED <<store, audit, bank, session>>
    BY <1>3 DEF ProposalInv, WritesInv, TakesUpInv, RecordedInv, OpenInv, PerformedInv,
                PerformedIsClosed, Savers
  <1> QED BY <1>1, <1>2, <1>3 DEF Next, ExpireCached, vars

\* Nothing is proposed, recorded or performed at the start.
LEMMA ProposalInit == Init => ProposalInv
  <1> SUFFICES ASSUME Init PROVE ProposalInv
    OBVIOUS
  <1>1. \A r \in Request : session[r].pc = "unsent"
    BY DEF Init, NewSession
  <1>2. WritesInv /\ TakesUpInv
    BY <1>1 DEF WritesInv, TakesUpInv, Writes, TakesUp
  <1>3. RecordedInv /\ OpenInv /\ PerformedInv /\ PerformedIsClosed
    BY DEF Init, RecordedInv, OpenInv, PerformedInv, PerformedIsClosed
  <1> QED BY <1>2, <1>3 DEF ProposalInv

\* All three invariants hold in every reachable state.
LEMMA ProposalHolds == Spec => [](TypeInv /\ Inv /\ ProposalInv)
  BY InvHolds, ProposalInit, ProposalNext, PTL DEF Spec

\* Once the request the bank acted for has saved, its proposal is closed for
\* good, in whatever order requests that overlap it save theirs.
THEOREM PerformedIsClosedTheorem == Spec => []PerformedIsClosed
  <1>1. ProposalInv => PerformedIsClosed
    BY DEF ProposalInv
  <1> QED BY ProposalHolds, <1>1, PTL
-----------------------------------------------------------------------------
(***************************************************************************)
(* The contract of ConfirmedAction, seen through the mapping of            *)
(* ImplementsConfirmedAction.                                              *)
(***************************************************************************)
OpenMap == [c \in Conversation |->
                IF store[c] = Absent THEN NoAction ELSE store[c].pending_action]
HeldMap == [r \in Request |-> Answering(r)]
PerformedMap == [i \in DOMAIN bank |->
                    [attempt |-> bank[i].request, proposal |-> bank[i].pending]]
ContractStep == [Contract!Next]_<<OpenMap, OpenedSoFar, HeldMap, PerformedMap>>

\* What a request is answering is its own business.
LEMMA HeldUpdate ==
    ASSUME NEW r \in Request, Others(r)
    PROVE HeldMap' = [HeldMap EXCEPT ![r] = Answering(r)']
  <1>1. \A q \in Request \ {r} : Answering(q)' = Answering(q)
    BY DEF Others, Answering, At
  <1> QED BY <1>1 DEF HeldMap

\* A record of a request that has not saved opens nothing.
LEMMA OpenedSame ==
    ASSUME TypeInv, NEW r \in Request, Others(r), session'[r].saved = session[r].saved,
           \A a \in audit' : a \in audit \/ (a.by = r /\ ~session[r].saved),
           audit \subseteq audit'
    PROVE OpenedSoFar' = OpenedSoFar
  <1>1. \A a \in audit : a.by \in Request
    BY DEF TypeInv, TypeOK
  <1>2. {b \in audit : session[b.by].saved}' = {b \in audit : session[b.by].saved}
    BY <1>1 DEF Others
  <1> QED BY <1>2 DEF OpenedSoFar

\* A step that leaves the store, what was opened and the bank alone, and has
\* the request answer what it did before or nothing.
LEMMA DropImplements ==
    ASSUME NEW r \in Request, Others(r), UNCHANGED <<OpenMap, OpenedSoFar, PerformedMap>>,
           Answering(r)' = Answering(r) \/ Answering(r)' = NoAction
    PROVE ContractStep
  <1>1. HeldMap' = [HeldMap EXCEPT ![r] = Answering(r)']
    BY HeldUpdate
  <1>2. CASE Answering(r)' = Answering(r)
    <2>1. HeldMap' = HeldMap
      BY <1>1, <1>2 DEF HeldMap
    <2> QED BY <2>1 DEF ContractStep
  <1>3. CASE Answering(r)' = NoAction
    <2>1. Contract!Drop(r)
      BY <1>1, <1>3 DEF Contract!Drop, OpenMap, HeldMap, PerformedMap
    <2> QED BY <2>1 DEF ContractStep, Contract!Next
  <1> QED BY <1>2, <1>3

\* A proposal is taken up by the request that is received next.
LEMMA ReceiveImplements ==
    ASSUME TypeInv, Inv, ProposalInv, NEW r \in Request, Receive(r)
    PROVE ContractStep
  <1>1. session \in [Request -> Session] /\ session[r] \in Session
    BY DEF TypeInv, TypeOK
  <1>2. PICK c \in Conversation, auth \in BOOLEAN :
            session' = [session EXCEPT ![r] =
                [session[r] EXCEPT !.pc = "asked", !.conv = c, !.identity = auth,
                                   !.copy = Add(LoadedFrom(c, auth), "user", r)]]
    BY DEF Receive
  <1> DEFINE copy == Add(LoadedFrom(c, auth), "user", r)
  <1>3. /\ session'[r].pc = "asked" /\ session'[r].copy = copy /\ session[r].pc = "unsent"
        /\ session'[r].saved = session[r].saved
        /\ Others(r) /\ UNCHANGED <<store, audit, bank>>
    BY <1>1, <1>2 DEF Session, Others, Receive, At
  <1>4. LoadedFrom(c, auth) \in ConversationState
    <2>1. <<>> \in Seq(Turn)
      OBVIOUS
    <2> QED BY <2>1 DEF LoadedFrom, TypeInv, TypeOK, ConversationState
  <1>5. copy.pending_action = LoadedFrom(c, auth).pending_action
    BY <1>4 DEF Add, ConversationState
  <1>6. LoadedFrom(c, auth).pending_action = OpenMap[c]
    BY DEF LoadedFrom, OpenMap
  <1> HIDE DEF copy
  <1>7. Answering(r)' = OpenMap[c]
    BY <1>3, <1>5, <1>6 DEF Answering, At
  <1>8. UNCHANGED <<OpenMap, PerformedMap>>
    BY <1>3 DEF OpenMap, PerformedMap
  <1>9. OpenedSoFar' = OpenedSoFar
    BY <1>3, OpenedSame
  <1>10. CASE OpenMap[c] = NoAction
    BY <1>3, <1>7, <1>8, <1>9, <1>10, DropImplements
  <1>11. CASE OpenMap[c] # NoAction
    <2>1. ASSUME NEW i \in DOMAIN bank, bank[i].request = r PROVE FALSE
      <3>1. session[bank[i].request].pc # "unsent"
        BY BankEntry DEF ExecutedOK
      <3> QED BY <1>3, <2>1, <3>1
    <2>2. \A i \in DOMAIN PerformedMap : PerformedMap[i].attempt # r
      BY <2>1 DEF PerformedMap
    <2>3. HeldMap' = [HeldMap EXCEPT ![r] = OpenMap[c]]
      BY <1>3, <1>7, HeldUpdate
    <2>4. Contract!Take(r, c)
      BY <1>8, <1>9, <1>11, <2>2, <2>3
         DEF Contract!Take, Contract!Spent, OpenMap, HeldMap, PerformedMap
    <2> QED BY <2>4 DEF ContractStep, Contract!Next
  <1> QED BY <1>10, <1>11

\* A new entry of the bank is a new entry of the mapped sequence.
LEMMA PerformedAppend ==
    ASSUME NEW old \in Seq([request : Request, pending : Pending]), NEW e, NEW new,
           new = Append(old, e)
    PROVE [i \in DOMAIN new |-> [attempt |-> new[i].request, proposal |-> new[i].pending]] =
            Append([i \in DOMAIN old |->
                        [attempt |-> old[i].request, proposal |-> old[i].pending]],
                   [attempt |-> e.request, proposal |-> e.pending])
  OBVIOUS

\* The bank's call performs what the request was answering, or drops it.
LEMMA ActImplements ==
    ASSUME TypeInv, Inv, ProposalInv, NEW r \in Request, Act(r)
    PROVE ContractStep
  <1>1. EndsTurn(r) /\ session[r].pc = "act"
    BY TurnEnds DEF Act, At
  <1>2. /\ Others(r) /\ SameHistory(r) /\ UNCHANGED <<store, audit>>
        /\ session'[r].pc = "audit"
    BY <1>1 DEF EndsTurn
  <1>3. Answering(r) = session[r].confirmed /\ Answering(r)' = NoAction
    BY <1>1, <1>2 DEF Answering, At
  <1>4. UNCHANGED OpenMap
    BY <1>2 DEF OpenMap
  <1>5. OpenedSoFar' = OpenedSoFar
    BY <1>2, OpenedSame DEF SameHistory
  <1>6. CASE UNCHANGED bank
    <2>1. UNCHANGED PerformedMap
      BY <1>6 DEF PerformedMap
    <2> QED BY <1>2, <1>3, <1>4, <1>5, <2>1, DropImplements
  <1>7. CASE bank' # bank
    <2> DEFINE e == [request |-> r, pending |-> session[r].confirmed]
               p == [attempt |-> r, proposal |-> session[r].confirmed]
    <2>1. bank' = Append(bank, e)
      BY <1>7 DEF Act
    <2>2. bank \in Seq([request : Request, pending : Pending])
      BY DEF TypeInv, TypeOK
    <2>3. session[r].confirmed # NoAction
      BY <1>1, ChatAssumption DEF TypeInv, WellFormed
    <2>4. PerformedMap' = Append(PerformedMap, p)
      <3>1. e.request = r /\ e.pending = session[r].confirmed
        OBVIOUS
      <3> HIDE DEF e
      <3> QED BY <2>1, <2>2, <3>1, PerformedAppend DEF PerformedMap
    <2>5. HeldMap' = [HeldMap EXCEPT ![r] = NoAction] /\ HeldMap[r] = session[r].confirmed
      BY <1>2, <1>3, HeldUpdate DEF HeldMap
    <2>6. Contract!Perform(r)
      BY <1>4, <1>5, <2>3, <2>4, <2>5 DEF Contract!Perform, OpenMap, HeldMap, PerformedMap
    <2> QED BY <2>6 DEF ContractStep, Contract!Next
  <1> QED BY <1>6, <1>7

\* A save opens the proposal of its answer, or closes what was open.
LEMMA SaveImplements ==
    ASSUME TypeInv, Inv, ProposalInv, NEW r \in Request, Save(r)
    PROVE ContractStep
  <1>1. /\ session \in [Request -> Session]
        /\ store \in [Conversation -> ConversationState \cup {Absent}]
        /\ \A a \in audit : a.by \in Request
    BY DEF TypeInv, TypeOK
  <1>2. /\ session[r].pc = "save" /\ session[r].conv \in Conversation /\ ~session[r].saved
        /\ session[r].copy \in ConversationState /\ session[r].answer \in Answer
        /\ Writes(r, session[r])
    BY DEF Save, At, Ended, TypeInv, WellFormed, Inv, RequestInv, RequestOK, Replying,
           ProposalInv, WritesInv
  <1>3. /\ Others(r) /\ session'[r].pc = "reply" /\ session'[r].saved
    BY <1>1, SaveShape
  <1>4. /\ store' = [store EXCEPT ![session[r].conv] = session[r].copy]
        /\ UNCHANGED <<audit, bank>>
    BY DEF Save
  <1>10. PICK c \in Conversation : c = session[r].conv
    BY <1>2
  <1>11. PICK p : p = session[r].copy.pending_action
    OBVIOUS
  <1>5. OpenMap' = [OpenMap EXCEPT ![c] = p]
    <2>1. session[r].copy # Absent
      BY <1>2, ChatAssumption
    <2> QED BY <1>1, <1>2, <1>4, <1>10, <1>11, <2>1 DEF OpenMap
  <1>6. UNCHANGED <<HeldMap, PerformedMap>>
    <2>1. Answering(r)' = Answering(r)
      BY <1>2, <1>3 DEF Answering, At
    <2>2. HeldMap' = HeldMap
      BY <1>3, <2>1, HeldUpdate DEF HeldMap
    <2> QED BY <1>4, <2>2 DEF PerformedMap
  <1>7. {b \in audit : session[b.by].saved}' =
            {b \in audit : session[b.by].saved} \cup {b \in audit : b.by = r}
    BY <1>1, <1>3, <1>4 DEF Others
  <1>8. CASE session[r].replayed
    <2>1. {b \in audit : b.by = r} = {}
      BY <1>8 DEF ProposalInv, RecordedInv
    <2>2. OpenedSoFar' = OpenedSoFar
      BY <1>7, <2>1 DEF OpenedSoFar
    <2>3. p = NoAction
      BY <1>2, <1>8, <1>11 DEF Writes
    <2>4. Contract!Close(c)
      BY <1>5, <1>6, <2>2, <2>3 DEF Contract!Close, OpenMap, HeldMap, PerformedMap
    <2> QED BY <2>4 DEF ContractStep, Contract!Next
  <1>9. CASE ~session[r].replayed
    <2> DEFINE row == [conv |-> session[r].conv, by |-> r, answer |-> session[r].answer]
    <2>1. row \in audit /\ row.by = r /\ row.answer.pending_action = p
      BY <1>2, <1>9, <1>11 DEF Inv, RequestInv, RequestOK, Replying, Writes
    <2>2. {b \in audit : b.by = r} = {row}
      BY <2>1 DEF Inv, LogInv
    <2> HIDE DEF row
    <2>3. OpenedSoFar' = OpenedSoFar \cup ({p} \ {NoAction})
      BY <1>7, <2>1, <2>2 DEF OpenedSoFar
    <2>4. CASE p = NoAction
      <3>1. Contract!Close(c)
        BY <1>5, <1>6, <2>3, <2>4 DEF Contract!Close, OpenMap, HeldMap, PerformedMap
      <3> QED BY <3>1 DEF ContractStep, Contract!Next
    <2>5. CASE p # NoAction
      <3>1. p \in Pending /\ p.by = r
        BY <1>2, <1>11, <2>5 DEF Writes, ConversationState
      <3>2. p \notin OpenedSoFar
        BY <1>2, <2>5, <3>1 DEF OpenedSoFar, ProposalInv, RecordedInv
      <3>3. Contract!Open(c, p)
        BY <1>5, <1>6, <2>3, <2>5, <3>2 DEF Contract!Open, OpenMap, HeldMap, PerformedMap
      <3> QED BY <3>1, <3>3 DEF ContractStep, Contract!Next
    <2> QED BY <2>4, <2>5
  <1> QED BY <1>8, <1>9

\* Every other step passes on what the request was answering, or drops it.
LEMMA MoveImplements ==
    ASSUME TypeInv, Inv, ProposalInv, NEW r \in Request,
           Step(r) \/ Fail(r), ~Save(r), ~Act(r)
    PROVE ContractStep
  <1>1. session \in [Request -> Session] /\ session[r] \in Session
    BY DEF TypeInv, TypeOK
  <1>2. UNCHANGED <<store, bank>>
    BY DEF Step, Fail, Decline, Confirm, Refuse, Rewrite, Replay, Miss, ForwardDelta,
           AnswerTurn, StoreAnswer, RecordAudit, Reply
  <1>3. UNCHANGED <<OpenMap, PerformedMap>>
    BY <1>2 DEF OpenMap, PerformedMap
  <1>4. CASE Decline(r) \/ Refuse(r) \/ AnswerTurn(r)
    <2>1. EndsTurn(r)
      BY <1>4, TurnEnds
    <2>2. Others(r) /\ SameHistory(r) /\ UNCHANGED audit /\ Answering(r)' = NoAction
      BY <2>1 DEF EndsTurn, Answering, At
    <2>3. OpenedSoFar' = OpenedSoFar
      BY <2>2, OpenedSame DEF SameHistory
    <2> QED BY <1>3, <2>2, <2>3, DropImplements
  <1>5. CASE Confirm(r) \/ Rewrite(r) \/ Miss(r) \/ ForwardDelta(r) \/ StoreAnswer(r)
    <2>1. MovesOn(r)
      BY <1>5, RequestMovesOn
    <2>2. Others(r) /\ SameHistory(r) /\ UNCHANGED audit
      BY <2>1 DEF MovesOn
    <2>3. Answering(r)' = Answering(r) \/ Answering(r)' = NoAction
      BY <2>1 DEF MovesOn, Answering, At
    <2>4. OpenedSoFar' = OpenedSoFar
      BY <2>2, OpenedSame DEF SameHistory
    <2> QED BY <1>3, <2>2, <2>3, <2>4, DropImplements
  <1>6. CASE Replay(r) \/ RecordAudit(r)
    <2>1. /\ session[r].pc \in {"lookup", "audit"} /\ session'[r].pc = "save"
          /\ session'[r].saved = session[r].saved /\ Others(r)
          /\ audit \subseteq audit' /\ \A a \in audit' : a \in audit \/ a.by = r
      <3>1. CASE Replay(r)
        BY <1>1, <3>1 DEF Replay, At, Session, Others
      <3>2. CASE RecordAudit(r)
        BY <1>1, <3>2 DEF RecordAudit, At, Session, Others
      <3> QED BY <1>6, <3>1, <3>2
    <2>2. Answering(r)' = NoAction
      BY <2>1 DEF Answering, At
    <2>3. ~session[r].saved
      BY <2>1 DEF Inv, RequestInv, RequestOK, Replying
    <2>4. OpenedSoFar' = OpenedSoFar
      BY <2>1, <2>3, OpenedSame
    <2> QED BY <1>3, <2>1, <2>2, <2>4, DropImplements
  <1>7. CASE Reply(r) \/ Fail(r)
    <2>1. Ends(r)
      BY <1>7, RequestEnds
    <2>2. Others(r) /\ SameHistory(r) /\ UNCHANGED audit /\ Answering(r)' = NoAction
      BY <2>1 DEF Ends, Ended, Answering, At
    <2>3. OpenedSoFar' = OpenedSoFar
      BY <2>2, OpenedSame DEF SameHistory
    <2> QED BY <1>3, <2>2, <2>3, DropImplements
  <1> QED BY <1>4, <1>5, <1>6, <1>7 DEF Step

\* Every step of the chat is a step of the contract, or leaves it alone.
LEMMA NextImplements ==
    ASSUME TypeInv, Inv, ProposalInv, [Next]_vars
    PROVE ContractStep
  <1>1. ASSUME NEW r \in Request, Receive(r) \/ Step(r) \/ Fail(r) PROVE ContractStep
    BY <1>1, ReceiveImplements, ActImplements, SaveImplements, MoveImplements
  <1>2. ASSUME NEW c \in Conversation, Expire(c) PROVE ContractStep
    <2>1. UNCHANGED <<audit, bank, session>> /\ store' = [store EXCEPT ![c] = Absent]
      BY <1>2 DEF Expire
    <2>2. OpenMap' = [OpenMap EXCEPT ![c] = NoAction]
      BY <2>1 DEF OpenMap, TypeInv, TypeOK
    <2>3. UNCHANGED <<OpenedSoFar, HeldMap, PerformedMap>>
      BY <2>1 DEF OpenedSoFar, HeldMap, PerformedMap, Answering, At
    <2>4. Contract!Close(c)
      BY <2>2, <2>3 DEF Contract!Close, OpenMap, HeldMap, PerformedMap
    <2> QED BY <2>4 DEF ContractStep, Contract!Next
  <1>3. CASE UNCHANGED <<store, audit, bank, session>>
    <2>1. UNCHANGED <<OpenMap, OpenedSoFar, HeldMap, PerformedMap>>
      BY <1>3 DEF OpenMap, OpenedSoFar, HeldMap, PerformedMap, Answering, At
    <2> QED BY <2>1 DEF ContractStep
  <1> QED BY <1>1, <1>2, <1>3 DEF Next, ExpireCached, vars

\* Initially nothing is open, held or performed.
LEMMA InitImplements == Init => Contract!Init
  <1> SUFFICES ASSUME Init PROVE Contract!Init
    OBVIOUS
  <1>1. OpenMap = [c \in Conversation |-> NoAction]
    BY DEF Init, OpenMap
  <1>2. \A r \in Request : Answering(r) = NoAction
    BY DEF Init, NewSession, Answering, At
  <1>3. HeldMap = [r \in Request |-> NoAction] /\ OpenedSoFar = {} /\ PerformedMap = <<>>
    BY <1>2 DEF HeldMap, OpenedSoFar, PerformedMap, Init
  <1> QED BY <1>1, <1>3 DEF Contract!Init, OpenMap, HeldMap, PerformedMap

\* However requests overlap, fail and expire, the chat opens, takes up,
\* performs and closes proposals as ConfirmedAction says.
THEOREM ContractTheorem == Spec => ImplementsConfirmedAction
  <1>1. TypeInv /\ Inv /\ ProposalInv /\ [Next]_vars => ContractStep
    BY NextImplements
  <1> QED BY ProposalHolds, InitImplements, <1>1, PTL
          DEF Spec, ImplementsConfirmedAction, Contract!Spec, ContractStep,
              OpenMap, HeldMap, PerformedMap

\* So a customer's message has at most one action performed, however often the
\* proposal itself is taken up by messages that overlap.
OncePerRequest == \A i, j \in DOMAIN bank : bank[i].request = bank[j].request => i = j
Executions == INSTANCE ConfirmedActionProofs WITH
    Proposal <- Pending, NoProposal <- NoAction, Attempt <- Request,
    open <- OpenMap, opened <- OpenedSoFar, held <- HeldMap, performed <- PerformedMap
THEOREM OncePerRequestTheorem == Spec => []OncePerRequest
  <1>1. Executions!OncePerAttempt => OncePerRequest
    BY DEF Executions!OncePerAttempt, OncePerRequest, PerformedMap
  <1>2. Contract!Init => Executions!Init
    BY DEF Contract!Init, Executions!Init, OpenMap, HeldMap, PerformedMap
  <1>3. Contract!Next => Executions!Next
    BY DEF Contract!Next, Contract!Open, Contract!Close, Contract!Take, Contract!Perform,
           Contract!Drop, Contract!Spent, Executions!Next, Executions!Open, Executions!Close,
           Executions!Take, Executions!Perform, Executions!Drop, Executions!Spent,
           OpenMap, HeldMap, PerformedMap
  <1>4. Spec => Executions!Spec
    BY ContractTheorem, <1>2, <1>3, PTL
       DEF ImplementsConfirmedAction, Contract!Spec, Executions!Spec,
           OpenMap, HeldMap, PerformedMap
  <1> QED BY <1>1, <1>4, Executions!OncePerAttemptTheorem, PTL
=============================================================================
