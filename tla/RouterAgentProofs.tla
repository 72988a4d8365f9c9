-------------------------- MODULE RouterAgentProofs --------------------------
(***************************************************************************)
(* Proofs about RouterAgent, for every set of tools, words and documents   *)
(* and every bound.                                                        *)
(***************************************************************************)
EXTENDS RouterAgent, SequenceTheorems, TLAPS

\* A completion's words are a text, and so is each fixed text.
LEMMA TextFacts ==
    /\ \A s \in Seq(Word) : s \in Text
    /\ <<Fallback>> \in Text /\ <<Prompt>> \in Text
    /\ \A w \in Word : <<w>> \in Text
  <1>1. ASSUME NEW s \in Seq(Word) PROVE s \in Text
    BY <1>1, ElementOfSeq, SeqDef DEF Text
  <1>2. QED
    BY <1>1 DEF Text

\* The done event of each way a turn can end is well-formed.
LEMMA DoneType ==
    ASSUME TypeOK, NEW text \in Text, NEW intent \in Intent,
           NEW grounded \in BOOLEAN, NEW action \in ConfirmTools \cup {NoAction}
    PROVE  Done(text, intent, grounded, action) \in DoneEvent
  BY DEF Done, DoneEvent, Answer, TypeOK

\* Yielding one more event keeps `events` well-typed.
LEMMA AppendEvent ==
    ASSUME TypeOK, NEW e \in DeltaEvent \cup DoneEvent
    PROVE  Append(events, e) \in Seq(DeltaEvent \cup DoneEvent)
  BY DEF TypeOK

\* The text the loop answers with is always a text.
LEMMA AnswerTextType == TypeOK => AnswerText \in Text /\ AnswerIntent \in Intent /\ Grounded \in BOOLEAN
  BY TextFacts DEF TypeOK, AnswerText, AnswerIntent, Grounded, Intent, IsSmalltalk

\* TypeOK alone is not inductive: that `iteration` stays within its bound
\* needs that a completion is only begun below it.
TypeInv ==
    /\ TypeOK
    /\ pc \in {"streaming", "calling"} => iteration < MaxIterations

\* The initial state is well-typed.
LEMMA InitType == Init => TypeInv
  <1> SUFFICES ASSUME Init PROVE TypeInv
    OBVIOUS
  <1>1. iteration \in 0..MaxIterations
    BY RouterAssumption DEF Init
  <1>2. used_tool \in BOOLEAN /\ can_reveal_live \in BOOLEAN
    BY DEF Init
  <1>3. content \in Seq(Word) /\ calls \in Seq(CallName) /\ messages \in Seq(Message)
        /\ events \in Seq(DeltaEvent \cup DoneEvent)
    BY DEF Init
  <1>4. QED
    BY <1>1, <1>2, <1>3 DEF Init, TypeOK, TypeInv

\* Every step keeps the types.
LEMMA NextType == TypeInv /\ [Next]_vars => TypeInv'
  <1> SUFFICES ASSUME TypeOK, pc \in {"streaming", "calling"} => iteration < MaxIterations,
                      [Next]_vars
               PROVE  TypeInv'
    BY DEF TypeInv
  <1> USE DEF TypeInv
  <1>1. CASE BeginCompletion
    BY <1>1 DEF TypeOK, BeginCompletion
  <1>2. CASE ReceiveDelta
    <2>1. PICK w \in Word :
            /\ content' = Append(content, w)
            /\ events' = IF can_reveal_live THEN Append(events, Delta(<<w>>)) ELSE events
      BY <1>2 DEF ReceiveDelta
    <2>2. Delta(<<w>>) \in DeltaEvent
      BY TextFacts DEF Delta, DeltaEvent
    <2>3. QED
      BY <1>2, <2>1, <2>2 DEF TypeOK, ReceiveDelta, turnVars
  <1>3. CASE AnswerDirectly
    <2>1. Delta(AnswerText) \in DeltaEvent
      BY AnswerTextType DEF Delta, DeltaEvent
    <2>2. Done(AnswerText, AnswerIntent, Grounded, NoAction) \in DoneEvent
      BY AnswerTextType, DoneType
    <2>3. QED
      BY <1>3, <2>1, <2>2 DEF TypeOK, AnswerDirectly, turnVars
  <1>4. CASE RequestTools
    <2>1. calls' \in Seq(CallName)
      BY <1>4, SeqDef DEF RequestTools
    <2>2. [role |-> "assistant"] \in Message
      BY DEF Message, AssistantMessage
    <2>3. QED
      BY <1>4, <2>1, <2>2 DEF TypeOK, RequestTools, turnVars
  <1>5. CASE CallUnknown
    <2>1. ToolResult("unknown_tool", {}) \in Message
      BY <1>5 DEF CallUnknown, ToolResult, Message, ToolMessage, TypeOK
    <2>2. QED
      BY <1>5, <2>1 DEF TypeOK, CallUnknown, turnVars
  <1>6. CASE ProposeAction
    <2>1. Done(<<Prompt>>, "PRODUCT_INFO", TRUE, Head(calls)) \in DoneEvent
      BY <1>6, TextFacts, DoneType DEF ProposeAction, Intent
    <2>2. events' \in Seq(DeltaEvent \cup DoneEvent)
      BY <1>6, <2>1, AppendEvent DEF ProposeAction
    <2>3. UNCHANGED <<iteration, used_tool, can_reveal_live, last_citations, content, calls, messages>>
          /\ pc' = "finished"
      BY <1>6 DEF ProposeAction, turnVars
    <2>4. QED
      BY <2>2, <2>3 DEF TypeOK
  <1>7. CASE RunTool
    <2>1. PICK result \in {"ok", "error"}, docs \in SUBSET Document :
            /\ last_citations' = IF Head(calls) = SearchTool THEN docs ELSE last_citations
            /\ messages' = Append(messages, ToolResult(result, docs))
      BY <1>7 DEF RunTool
    <2>2. ToolResult(result, docs) \in Message
      BY <1>7 DEF RunTool, ToolResult, Message, ToolMessage, TypeOK
    <2>3. used_tool' \in BOOLEAN /\ last_citations' \in SUBSET Document
      BY <1>7, <2>1 DEF TypeOK, RunTool
    <2>4. QED
      BY <1>7, <2>1, <2>2, <2>3 DEF TypeOK, RunTool
  <1>8. CASE EndBatch
    BY <1>8, RouterAssumption DEF TypeOK, EndBatch
  <1>9. CASE GiveUp
    <2>1. Done(<<Fallback>>, "HUMAN_HANDOFF", FALSE, NoAction) \in DoneEvent
      BY TextFacts, DoneType DEF Intent
    <2>2. events' \in Seq(DeltaEvent \cup DoneEvent)
      BY <1>9, <2>1, AppendEvent DEF GiveUp
    <2>3. UNCHANGED <<iteration, used_tool, can_reveal_live, last_citations, content, calls, messages>>
          /\ pc' = "finished"
      BY <1>9 DEF GiveUp, turnVars
    <2>4. QED
      BY <2>2, <2>3 DEF TypeOK
  <1>10. CASE Raise
    BY <1>10 DEF TypeOK, Raise, turnVars
  <1>11. CASE UNCHANGED vars
    BY <1>11 DEF TypeOK, vars
  <1>12. QED
    BY <1>1, <1>2, <1>3, <1>4, <1>5, <1>6, <1>7, <1>8, <1>9, <1>10, <1>11 DEF Next

\* Type correctness of the loop.
THEOREM Typing == Spec => []TypeOK
  <1>1. TypeInv => TypeOK
    BY DEF TypeInv
  <1>2. QED
    BY <1>1, InitType, NextType, PTL DEF Spec

-----------------------------------------------------------------------------
(***************************************************************************)
(* Safety.  The properties speak of `events`, which only grows: a turn     *)
(* first appends deltas, and one step, of one of three actions, appends    *)
(* the done event and ends the turn.  Finish is what the three share.      *)
(***************************************************************************)
Event == DeltaEvent \cup DoneEvent
Undone(s) == \A i \in DOMAIN s : ~s[i].done

Finish(text, intent, grounded, action) ==
    /\ pc \in {"loop", "streaming", "calling"} /\ pc' = "finished"
    /\ UNCHANGED <<used_tool, can_reveal_live, last_citations, messages>>
    /\ \/ /\ events' = Append(events, Done(text, intent, grounded, action))
          /\ pc = "streaming" => can_reveal_live
       \/ /\ events' = Append(Append(events, Delta(text)),
                              Done(text, intent, grounded, action))
          /\ pc = "streaming" /\ ~can_reveal_live
          /\ text = <<Fallback>> \/ grounded

\* A further delta leaves a sequence without done events.
LEMMA AppendDelta ==
    ASSUME NEW s \in Seq(Event), Undone(s), NEW text \in Text
    PROVE  /\ Append(s, Delta(text)) \in Seq(Event)
           /\ Undone(Append(s, Delta(text)))
           /\ DOMAIN Append(s, Delta(text)) = DOMAIN s \cup {Len(s) + 1}
           /\ \A i \in DOMAIN s : Append(s, Delta(text))[i] = s[i]
           /\ Append(s, Delta(text))[Len(s) + 1] = Delta(text)
  <1>1. Delta(text) \in Event /\ ~Delta(text).done
    BY DEF Delta, Event, DeltaEvent
  <1>2. QED
    BY <1>1 DEF Undone

\* The done event is then the only one, and the last.
LEMMA AppendDone ==
    ASSUME NEW s \in Seq(Event), Undone(s), NEW e \in DoneEvent
    PROVE  LET t == Append(s, e)
           IN  /\ \A i \in DOMAIN t : t[i].done => i = Len(t) /\ t[i] = e
               /\ t # <<>> /\ t[Len(t)] = e
               /\ \A i \in DOMAIN t : ~t[i].done => i \in DOMAIN s /\ t[i] = s[i]
  <1>1. e.done
    BY DEF DoneEvent
  <1>2. Append(s, e) \in Seq(Event) /\ Len(Append(s, e)) = Len(s) + 1
    BY DEF Event
  <1>3. \A i \in DOMAIN Append(s, e) :
            \/ i \in DOMAIN s /\ Append(s, e)[i] = s[i]
            \/ i = Len(s) + 1 /\ Append(s, e)[i] = e
    BY DEF Event
  <1>4. Append(s, e)[Len(s) + 1] = e
    BY DEF Event
  <1>5. QED
    BY <1>1, <1>2, <1>3, <1>4 DEF Undone

\* What the turn has established before it finishes.
TurnInv ==
    /\ TypeInv
    /\ pc # "finished" => Undone(events)
    /\ can_reveal_live => used_tool
    /\ pc # "finished" =>
         \A i \in DOMAIN events : events[i].delta # <<Fallback>> /\ used_tool
    /\ pc = "streaming" => can_reveal_live = used_tool
    /\ pc = "streaming" /\ can_reveal_live /\ content # <<>> => 1 \in DOMAIN events
    /\ used_tool => \E i \in DOMAIN messages : RanInTurn(messages[i])
    /\ ~used_tool => last_citations = {}
    /\ FromLastSearch(last_citations)
    /\ ConfirmToolsNeverRun

\* The three ways a turn ends, and what its answer then is.
Ends(text, intent, grounded, action) ==
    \/ /\ pc = "streaming"
       /\ text = AnswerText /\ intent = AnswerIntent
       /\ grounded = Grounded /\ action = NoAction
    \/ /\ pc # "streaming"
       /\ text = <<Prompt>> /\ intent = "PRODUCT_INFO" /\ grounded = TRUE
       /\ action \in ConfirmTools
    \/ /\ pc # "streaming"
       /\ text = <<Fallback>> /\ intent = "HUMAN_HANDOFF" /\ grounded = FALSE
       /\ action = NoAction

LEMMA FinishingStep ==
    ASSUME TurnInv, AnswerDirectly \/ ProposeAction \/ GiveUp
    PROVE  \E text \in Text, intent \in Intent, grounded \in BOOLEAN,
              action \in ConfirmTools \cup {NoAction} :
              Finish(text, intent, grounded, action) /\ Ends(text, intent, grounded, action)
  <1>0. TypeOK
    BY DEF TurnInv, TypeInv
  <1>1. CASE AnswerDirectly
    <2>1. Finish(AnswerText, AnswerIntent, Grounded, NoAction)
      BY <1>1 DEF AnswerDirectly, Finish, turnVars, AnswerText
    <2>2. Ends(AnswerText, AnswerIntent, Grounded, NoAction)
      BY <1>1 DEF AnswerDirectly, Ends
    <2>3. QED
      BY <1>0, <2>1, <2>2, AnswerTextType
  <1>2. CASE ProposeAction
    <2>1. Finish(<<Prompt>>, "PRODUCT_INFO", TRUE, Head(calls))
      BY <1>2 DEF ProposeAction, Finish, turnVars
    <2>2. Ends(<<Prompt>>, "PRODUCT_INFO", TRUE, Head(calls))
      BY <1>2 DEF ProposeAction, Ends
    <2>3. Head(calls) \in ConfirmTools \cup {NoAction} /\ "PRODUCT_INFO" \in Intent
      BY <1>2 DEF ProposeAction, Intent
    <2>4. QED
      BY <2>1, <2>2, <2>3, TextFacts
  <1>3. CASE GiveUp
    <2>1. Finish(<<Fallback>>, "HUMAN_HANDOFF", FALSE, NoAction)
      BY <1>3 DEF GiveUp, Finish, turnVars
    <2>2. Ends(<<Fallback>>, "HUMAN_HANDOFF", FALSE, NoAction)
      BY <1>3 DEF GiveUp, Ends
    <2>3. "HUMAN_HANDOFF" \in Intent
      BY DEF Intent
    <2>4. QED
      BY <2>1, <2>2, <2>3, TextFacts
  <1>4. QED
    BY <1>1, <1>2, <1>3

\* The shape of `events` after a finishing step: one done event, the last, with
\* the answer of that step; every other event is an old one or a delta of the
\* same text, which is only forwarded when it is the fallback or grounded.
LEMMA FinishedEvents ==
    ASSUME TurnInv, NEW text \in Text, NEW intent \in Intent, NEW grounded \in BOOLEAN,
           NEW action \in ConfirmTools \cup {NoAction},
           Finish(text, intent, grounded, action)
    PROVE  /\ \A i \in DOMAIN events' : events'[i].done =>
                  i = Len(events') /\ events'[i] = Done(text, intent, grounded, action)
           /\ events' # <<>> /\ Len(events') \in DOMAIN events'
           /\ events'[Len(events')] = Done(text, intent, grounded, action)
           /\ \A i \in DOMAIN events' : ~events'[i].done =>
                  \/ i \in DOMAIN events /\ events'[i] = events[i]
                  \/ events'[i].delta = <<Fallback>> \/ grounded
  <1> DEFINE e == Done(text, intent, grounded, action)
  <1>1. e \in DoneEvent
    BY DoneType DEF TurnInv, TypeInv
  <1>2. events \in Seq(Event) /\ Undone(events)
    BY DEF TurnInv, TypeInv, TypeOK, Event, Finish
  <1>3. CASE events' = Append(events, e)
    <2>1. Len(events') \in DOMAIN events'
      BY <1>1, <1>2, <1>3 DEF Event
    <2>2. QED
      BY <1>1, <1>2, <1>3, <2>1, AppendDone
  <1>4. CASE /\ events' = Append(Append(events, Delta(text)), e)
             /\ pc = "streaming" /\ ~can_reveal_live
             /\ text = <<Fallback>> \/ grounded
    <2> DEFINE s == Append(events, Delta(text))
    <2>1. /\ s \in Seq(Event) /\ Undone(s) /\ DOMAIN s = DOMAIN events \cup {Len(events) + 1}
          /\ \A i \in DOMAIN events : s[i] = events[i]
          /\ s[Len(events) + 1] = Delta(text)
      BY <1>2, AppendDelta
    <2> HIDE DEF s
    <2>2. Append(s, e) \in Seq(Event) /\ Len(Append(s, e)) \in DOMAIN Append(s, e)
      BY <1>1, <2>1 DEF Event
    <2>3. /\ \A i \in DOMAIN Append(s, e) : Append(s, e)[i].done =>
                i = Len(Append(s, e)) /\ Append(s, e)[i] = e
          /\ Append(s, e) # <<>> /\ Append(s, e)[Len(Append(s, e))] = e
          /\ \A i \in DOMAIN Append(s, e) : ~Append(s, e)[i].done =>
                i \in DOMAIN s /\ Append(s, e)[i] = s[i]
      BY <1>1, <2>1, AppendDone
    <2>4. events' = Append(s, e)
      BY <1>4 DEF s
    <2>5. Delta(text).delta = text
      BY DEF Delta
    <2>6. QED
      BY <1>4, <2>1, <2>2, <2>3, <2>4, <2>5
  <1>5. QED
    BY <1>3, <1>4 DEF Finish

\* Appending a message that is not a search keeps the last search, and a tool
\* message that ran keeps the record of what ran.
LEMMA AppendMessage ==
    ASSUME TypeOK, NEW m \in Message, messages' = Append(messages, m)
    PROVE  /\ messages' \in Seq(Message)
           /\ DOMAIN messages' = DOMAIN messages \cup {Len(messages) + 1}
           /\ \A i \in DOMAIN messages : messages'[i] = messages[i] /\ i < Len(messages) + 1
           /\ messages'[Len(messages) + 1] = m
  BY DEF TypeOK

LEMMA TurnInit == Init => TurnInv
  BY InitType, RouterAssumption
     DEF Init, TurnInv, Undone, FromLastSearch, ConfirmToolsNeverRun

\* A non-search message leaves FromLastSearch as it was.
LEMMA KeepLastSearch ==
    ASSUME TypeOK, FromLastSearch(last_citations), NEW m \in Message, ~IsSearch(m),
           messages' = Append(messages, m), UNCHANGED last_citations
    PROVE  FromLastSearch(last_citations)'
  <1>1. /\ DOMAIN messages' = DOMAIN messages \cup {Len(messages) + 1}
        /\ \A i \in DOMAIN messages : messages'[i] = messages[i] /\ i < Len(messages) + 1
        /\ messages'[Len(messages) + 1] = m
    BY AppendMessage
  <1>2. CASE last_citations = {} /\ \A i \in DOMAIN messages : ~IsSearch(messages[i])
    BY <1>1, <1>2 DEF FromLastSearch
  <1>3. CASE \E i \in DOMAIN messages :
                /\ IsSearch(messages[i]) /\ last_citations = messages[i].docs
                /\ \A k \in DOMAIN messages : k > i => ~IsSearch(messages[k])
    BY <1>1, <1>3 DEF FromLastSearch
  <1>4. QED
    BY <1>2, <1>3 DEF FromLastSearch

LEMMA TurnStep == TurnInv /\ [Next]_vars => TurnInv'
  <1> SUFFICES ASSUME TurnInv, [Next]_vars PROVE TurnInv'
    OBVIOUS
  <1>a. TypeInv' /\ TypeOK /\ TypeOK'
    BY NextType DEF TurnInv, TypeInv
  <1>1. CASE BeginCompletion
    BY <1>a, <1>1 DEF BeginCompletion, TurnInv, Undone, FromLastSearch, ConfirmToolsNeverRun
  <1>2. CASE ReceiveDelta
    <2>1. PICK w \in Word :
            /\ content' = Append(content, w)
            /\ events' = IF can_reveal_live THEN Append(events, Delta(<<w>>)) ELSE events
      BY <1>2 DEF ReceiveDelta
    <2>2. UNCHANGED <<pc, used_tool, can_reveal_live, last_citations, messages>> /\ pc = "streaming"
      BY <1>2 DEF ReceiveDelta, turnVars
    <2>3. CASE can_reveal_live
      <3>1. events \in Seq(Event) /\ Undone(events) /\ <<w>> \in Text /\ used_tool
        BY <1>a, <2>2, <2>3, TextFacts DEF TurnInv, TypeOK, Event
      <3>2. /\ Undone(events)' /\ DOMAIN events' = DOMAIN events \cup {Len(events) + 1}
            /\ \A i \in DOMAIN events : events'[i] = events[i]
            /\ events'[Len(events) + 1] = Delta(<<w>>)
        BY <2>1, <2>3, <3>1, AppendDelta DEF Undone
      <3>3. Delta(<<w>>).delta # <<Fallback>>
        BY RouterAssumption DEF Delta
      <3>4. \A i \in DOMAIN events' : events'[i].delta # <<Fallback>> /\ used_tool
        BY <2>2, <3>1, <3>2, <3>3 DEF TurnInv
      <3>5. 1 \in DOMAIN events'
        <4>1. Len(events') \in Nat /\ DOMAIN events' = 1..Len(events')
          BY <1>a DEF TypeOK
        <4>2. Len(events) + 1 \in DOMAIN events'
          BY <3>2
        <4>3. QED
          BY <4>1, <4>2, <1>a DEF TypeOK
      <3>6. QED
        BY <1>a, <2>2, <3>1, <3>2, <3>4, <3>5 DEF TurnInv, FromLastSearch, ConfirmToolsNeverRun
    <2>4. CASE ~can_reveal_live
      <3>1. UNCHANGED events
        BY <2>1, <2>4
      <3>2. QED
        BY <1>a, <2>2, <2>4, <3>1 DEF TurnInv, Undone, FromLastSearch, ConfirmToolsNeverRun
    <2>5. QED
      BY <2>3, <2>4
  <1>3. CASE AnswerDirectly \/ ProposeAction \/ GiveUp
    <2>1. UNCHANGED <<used_tool, can_reveal_live, last_citations, messages>> /\ pc' = "finished"
      BY <1>3, FinishingStep DEF Finish
    <2>2. QED
      BY <1>a, <2>1 DEF TurnInv, FromLastSearch, ConfirmToolsNeverRun
  <1>4. CASE RequestTools
    <2> DEFINE m == [role |-> "assistant"]
    <2>1. m \in Message /\ ~IsSearch(m) /\ ~RanInTurn(m)
      BY DEF Message, AssistantMessage, IsSearch, RanInTurn
    <2>2. /\ messages' = Append(messages, m) /\ pc' = "calling" /\ pc = "streaming"
          /\ UNCHANGED <<used_tool, can_reveal_live, last_citations, events>>
      BY <1>4 DEF RequestTools, turnVars
    <2> HIDE DEF m
    <2>3. FromLastSearch(last_citations)'
      BY <1>a, <2>1, <2>2, KeepLastSearch DEF TurnInv
    <2>4. /\ used_tool' => \E i \in DOMAIN messages' : RanInTurn(messages'[i])
          /\ ConfirmToolsNeverRun'
      BY <1>a, <2>1, <2>2, AppendMessage DEF TurnInv, ConfirmToolsNeverRun
    <2>5. QED
      BY <1>a, <2>2, <2>3, <2>4 DEF TurnInv, Undone
  <1>5. CASE CallUnknown
    <2> DEFINE m == ToolResult("unknown_tool", {})
    <2>1. m \in Message /\ ~IsSearch(m) /\ ~RanInTurn(m)
      BY <1>a, <1>5, RouterAssumption
         DEF CallUnknown, ToolResult, Message, ToolMessage, TypeOK, IsSearch, RanInTurn
    <2>2. /\ messages' = Append(messages, m) /\ UNCHANGED pc /\ pc = "calling"
          /\ UNCHANGED <<used_tool, can_reveal_live, last_citations, events>>
      BY <1>5 DEF CallUnknown, turnVars
    <2> HIDE DEF m
    <2>3. FromLastSearch(last_citations)'
      BY <1>a, <2>1, <2>2, KeepLastSearch DEF TurnInv
    <2>4. /\ used_tool' => \E i \in DOMAIN messages' : RanInTurn(messages'[i])
          /\ ConfirmToolsNeverRun'
      BY <1>a, <2>1, <2>2, AppendMessage DEF TurnInv, ConfirmToolsNeverRun
    <2>5. QED
      BY <1>a, <2>2, <2>3, <2>4 DEF TurnInv, Undone
  <1>6. CASE RunTool
    <2>1. PICK result \in {"ok", "error"}, docs \in SUBSET Document :
            /\ last_citations' = IF Head(calls) = SearchTool THEN docs ELSE last_citations
            /\ messages' = Append(messages, ToolResult(result, docs))
      BY <1>6 DEF RunTool
    <2> DEFINE m == ToolResult(result, docs)
    <2>2. /\ Head(calls) \in Tools \ ConfirmTools /\ used_tool' /\ UNCHANGED pc /\ pc = "calling"
          /\ UNCHANGED <<can_reveal_live, events>>
      BY <1>6 DEF RunTool
    <2>3. /\ m \in Message /\ RanInTurn(m) /\ m.tool \notin ConfirmTools /\ m.docs = docs
          /\ IsSearch(m) <=> Head(calls) = SearchTool
      BY <2>2 DEF ToolResult, Message, ToolMessage, CallName, RanInTurn, IsSearch
    <2> HIDE DEF m
    <2>4. messages' = Append(messages, m)
      BY <2>1 DEF m
    <2>5. /\ DOMAIN messages' = DOMAIN messages \cup {Len(messages) + 1}
          /\ \A i \in DOMAIN messages : messages'[i] = messages[i] /\ i < Len(messages) + 1
          /\ messages'[Len(messages) + 1] = m
      BY <1>a, <2>3, <2>4, AppendMessage
    <2>6. FromLastSearch(last_citations)'
      <3>1. CASE Head(calls) = SearchTool
        <4>1. last_citations' = m.docs /\ IsSearch(m)
          BY <2>1, <2>3, <3>1
        <4>2. \A k \in DOMAIN messages' : ~(k > Len(messages) + 1)
          BY <1>a, <2>5 DEF TypeOK
        <4>3. QED
          BY <2>5, <4>1, <4>2 DEF FromLastSearch
      <3>2. CASE Head(calls) # SearchTool
        BY <1>a, <2>1, <2>3, <2>4, <3>2, KeepLastSearch DEF TurnInv
      <3>3. QED
        BY <3>1, <3>2
    <2>7. (\E i \in DOMAIN messages' : RanInTurn(messages'[i])) /\ ConfirmToolsNeverRun'
      BY <2>3, <2>5 DEF TurnInv, ConfirmToolsNeverRun
    <2>8. QED
      BY <1>a, <2>2, <2>6, <2>7 DEF TurnInv, Undone
  <1>7. CASE EndBatch
    BY <1>a, <1>7 DEF EndBatch, TurnInv, Undone, FromLastSearch, ConfirmToolsNeverRun
  <1>8. CASE Raise
    BY <1>a, <1>8 DEF Raise, turnVars, TurnInv, Undone, FromLastSearch, ConfirmToolsNeverRun
  <1>9. CASE UNCHANGED vars
    BY <1>a, <1>9 DEF vars, TurnInv, Undone, FromLastSearch, ConfirmToolsNeverRun
  <1>10. QED
    BY <1>1, <1>2, <1>3, <1>4, <1>5, <1>6, <1>7, <1>8, <1>9 DEF Next

-----------------------------------------------------------------------------
\* What the callers of the router rely on.
AnswerInv ==
    OneDoneLast /\ RevealedIsGrounded /\ GroundedIsBacked /\ CitesLastSearch /\ KeepsContract

\* Until the turn finishes there is no answer to speak of.
LEMMA UnfinishedTurn == TurnInv /\ pc # "finished" => AnswerInv
  BY DEF TurnInv, Undone, AnswerInv, OneDoneLast, RevealedIsGrounded, GroundedIsBacked,
         CitesLastSearch, KeepsContract

\* What has been forwarded when the turn ends: the words of an answer in the
\* model's words; the fallback exactly when the turn ends with it and used no
\* tool.
LEMMA FinishedForwarding ==
    ASSUME TurnInv, NEW text \in Text, NEW intent \in Intent, NEW grounded \in BOOLEAN,
           NEW action \in ConfirmTools \cup {NoAction},
           Finish(text, intent, grounded, action), Ends(text, intent, grounded, action)
    PROVE  /\ Streamed' \in Forwarded
           /\ text # <<Fallback>> /\ text # <<Prompt>> => Streamed' = "model"
           /\ Streamed' = "fallback" <=> intent = "SMALLTALK" /\ text = <<Fallback>>
  <1> DEFINE e == Done(text, intent, grounded, action)
  <1>1. e \in DoneEvent /\ e.done
    BY DoneType DEF TurnInv, TypeInv, Done
  <1>2. events \in Seq(Event) /\ Undone(events)
    BY DEF TurnInv, TypeInv, TypeOK, Event, Finish
  <1>3. \A i \in DOMAIN events : events[i].delta # <<Fallback>> /\ used_tool
    BY DEF TurnInv, Finish
  <1> HIDE DEF e
  <1>4. CASE events' = Append(events, e) /\ (pc = "streaming" => can_reveal_live)
    <2>1. /\ Len(events) \in Nat /\ DOMAIN events = 1..Len(events)
          /\ DOMAIN events' = 1..(Len(events) + 1)
          /\ \A i \in DOMAIN events : events'[i] = events[i]
          /\ events'[Len(events) + 1] = e
      BY <1>1, <1>2, <1>4 DEF Event
    <2>2. \A i : IsDelta(i)' <=> i \in DOMAIN events
      BY <1>1, <1>2, <2>1 DEF IsDelta, Undone
    <2>3. Streamed' = IF DOMAIN events # {} THEN "model" ELSE "none"
      BY <1>3, <2>1, <2>2 DEF Streamed
    <2>4. text # <<Fallback>> /\ text # <<Prompt>> => DOMAIN events # {}
      BY <1>4 DEF Ends, AnswerText, TurnInv
    <2>5. ~(intent = "SMALLTALK" /\ text = <<Fallback>>)
      BY <1>4 DEF Ends, AnswerIntent, TurnInv
    <2>6. QED
      BY <2>3, <2>4, <2>5 DEF Forwarded
  <1>5. CASE /\ events' = Append(Append(events, Delta(text)), e)
             /\ pc = "streaming" /\ ~can_reveal_live
    <2> DEFINE s == Append(events, Delta(text))
    <2>1. ~used_tool /\ intent = "SMALLTALK"
      BY <1>5 DEF Ends, AnswerIntent, TurnInv
    <2>2. Len(events) = 0
      BY <1>2, <1>3, <2>1
    <2>3. s \in Seq(Event) /\ Undone(s) /\ DOMAIN s = {1} /\ s[1] = Delta(text)
      <3>1. /\ s \in Seq(Event) /\ Undone(s) /\ DOMAIN s = DOMAIN events \cup {Len(events) + 1}
            /\ s[Len(events) + 1] = Delta(text)
        BY <1>2, AppendDelta
      <3>2. DOMAIN events = {} /\ Len(events) + 1 = 1
        BY <1>2, <2>2
      <3>3. QED
        BY <3>1, <3>2
    <2> HIDE DEF s
    <2>4. events' = Append(s, e)
      BY <1>5 DEF s
    <2>5. /\ Len(s) = 1 /\ DOMAIN events' = {1, 2} /\ events'[1] = s[1] /\ events'[2] = e
      <3>1. Len(s) = 1
        <4>1. Len(s) \in Nat /\ DOMAIN s = 1..Len(s)
          <5>1. s \in Seq(Event)
            BY <2>3
          <5>2. QED
            BY <5>1, LenProperties
        <4>2. 1 \in 1..Len(s) /\ (Len(s) >= 2 => 2 \in 1..Len(s))
          BY <2>3, <4>1
        <4>3. ~(Len(s) >= 2)
          BY <2>3, <4>1, <4>2
        <4>4. QED
          BY <4>1, <4>2, <4>3
      <3>2. /\ DOMAIN Append(s, e) = 1..2 /\ Append(s, e)[1] = s[1]
            /\ Append(s, e)[2] = e
        <4>1. s \in Seq(Event) /\ e \in Event
          BY <1>1, <2>3 DEF Event
        <4>2. /\ DOMAIN Append(s, e) = 1..(Len(s) + 1)
              /\ \A i \in 1..Len(s) : Append(s, e)[i] = s[i]
              /\ Append(s, e)[Len(s) + 1] = e
          BY <4>1, AppendProperties
        <4>3. QED
          BY <3>1, <4>2
      <3>3. QED
        BY <2>4, <3>1, <3>2
    <2>6. ~Delta(text).done /\ Delta(text).delta = text
      BY DEF Delta
    <2>7. \A i : IsDelta(i)' <=> i = 1
      BY <1>1, <2>3, <2>5, <2>6 DEF IsDelta
    <2>8. Streamed' = IF text # <<Fallback>> THEN "model" ELSE "fallback"
      BY <2>3, <2>5, <2>6, <2>7 DEF Streamed
    <2>9. QED
      BY <2>1, <2>8 DEF Forwarded
  <1>6. QED
    BY <1>4, <1>5 DEF Finish, e

\* The three kinds of answer of the contract.
LEMMA OutcomeKinds ==
    ASSUME NEW a \in RouterAnswer, ForwardsWhatItSays(a),
           \/ /\ a.text = "model" /\ a.grounded /\ a.pending_action = NoAction
              /\ a.intent = "SMALLTALK" => ~a.cited
              /\ a.intent # "HUMAN_HANDOFF"
           \/ /\ a.text = "fallback" /\ a.pending_action = NoAction
              /\ a.intent = "PRODUCT_INFO" => a.grounded
              /\ a.intent = "SMALLTALK" => ~a.cited /\ ~a.grounded
              /\ a.intent = "HUMAN_HANDOFF" => ~a.grounded
           \/ /\ a.text = "confirmation" /\ a.pending_action # NoAction /\ a.grounded
              /\ a.intent = "PRODUCT_INFO"
    PROVE  a \in RouterOutcome
  <1>1. ProposesByPrompt(a)
    BY DEF ProposesByPrompt
  <1>2. WordsAreGrounded(a)
    BY DEF WordsAreGrounded
  <1>3. QED
    BY <1>1, <1>2 DEF RouterOutcome

\* The answer that ends a turn meets the contract.
LEMMA EndsInContract ==
    ASSUME TurnInv, NEW text \in Text, NEW intent \in Intent, NEW grounded \in BOOLEAN,
           NEW action \in ConfirmTools \cup {NoAction}, Ends(text, intent, grounded, action),
           NEW streamed \in Forwarded,
           text # <<Fallback>> /\ text # <<Prompt>> => streamed = "model",
           streamed = "fallback" <=> intent = "SMALLTALK" /\ text = <<Fallback>>
    PROVE  Abstract(Done(text, intent, grounded, action).answer, streamed) \in RouterOutcome
  <1> DEFINE a == Abstract(Done(text, intent, grounded, action).answer, streamed)
  <1> USE RouterAssumption, NoActionAssumption
  <1>1. /\ a.text = IF text = <<Fallback>> THEN "fallback"
                    ELSE IF text = <<Prompt>> THEN "confirmation" ELSE "model"
        /\ a.cited = (last_citations # {}) /\ a.intent = intent /\ a.grounded = grounded
        /\ a.pending_action = action /\ a.streamed = streamed
        /\ a = [text |-> a.text, cited |-> a.cited, intent |-> a.intent,
                grounded |-> a.grounded, pending_action |-> a.pending_action,
                streamed |-> a.streamed]
    <2>1. <<Fallback>> # <<Prompt>>
      OBVIOUS
    <2>2. QED
      BY <2>1 DEF Abstract, Done
  <1> HIDE DEF a
  <1>2. a \in RouterAnswer
    <2>1. a.text \in RouterText /\ a.cited \in BOOLEAN
      BY <1>1 DEF RouterText
    <2>2. QED
      BY <1>1, <2>1 DEF RouterAnswer
  <1>f. ForwardsWhatItSays(a)
    <2>1. <<Fallback>> # <<Prompt>>
      OBVIOUS
    <2>2. a.text = "model" <=> text # <<Fallback>> /\ text # <<Prompt>>
      BY <1>1, <2>1
    <2>3. a.text = "fallback" <=> text = <<Fallback>>
      BY <1>1, <2>1
    <2>4. QED
      BY <1>1, <2>2, <2>3 DEF ForwardsWhatItSays
  <1>3. CASE /\ pc = "streaming" /\ text = AnswerText /\ intent = AnswerIntent
             /\ grounded = Grounded /\ action = NoAction
    <2>1. content \in Seq(Word)
      BY DEF TurnInv, TypeInv, TypeOK
    <2>2. content # <<Prompt>> /\ content # <<Fallback>>
      BY <2>1
    <2>3. \/ a.text = "model" /\ a.grounded
          \/ a.text = "fallback" /\ (a.intent = "SMALLTALK" => ~a.grounded)
      <3>1. CASE Grounded /\ content # <<>>
        BY <1>1, <1>3, <2>2, <3>1 DEF AnswerText
      <3>2. CASE ~(Grounded /\ content # <<>>)
        <4>1. a.text = "fallback"
          BY <1>1, <1>3, <3>2 DEF AnswerText
        <4>2. ~used_tool => ~Grounded
          BY <3>2 DEF Grounded, IsSmalltalk
        <4>3. QED
          BY <1>1, <1>3, <4>1, <4>2 DEF AnswerIntent
      <3>3. QED
        BY <3>1, <3>2
    <2>4. /\ a.intent = "SMALLTALK" => ~a.cited
          /\ a.intent = "PRODUCT_INFO" => a.grounded
      BY <1>1, <1>3 DEF AnswerIntent, Grounded, TurnInv
    <2>5. a.intent # "HUMAN_HANDOFF" /\ a.pending_action = NoAction
      BY <1>1, <1>3 DEF AnswerIntent
    <2>6. QED
      BY <1>2, <1>f, <2>3, <2>4, <2>5, OutcomeKinds DEF a
  <1>4. CASE /\ text = <<Prompt>> /\ intent = "PRODUCT_INFO" /\ grounded = TRUE
             /\ action \in ConfirmTools
    <2>1. <<Fallback>> # <<Prompt>>
      OBVIOUS
    <2>2. a.text = "confirmation" /\ a.grounded /\ a.intent = "PRODUCT_INFO"
          /\ a.pending_action # NoAction
      BY <1>1, <1>4, <2>1
    <2>3. QED
      BY <1>2, <1>f, <2>2, OutcomeKinds DEF a
  <1>5. CASE /\ text = <<Fallback>> /\ intent = "HUMAN_HANDOFF" /\ grounded = FALSE
             /\ action = NoAction
    <2>1. a.text = "fallback" /\ a.pending_action = NoAction /\ ~a.grounded
          /\ a.intent = "HUMAN_HANDOFF"
      BY <1>1, <1>5
    <2>2. QED
      BY <1>2, <1>f, <2>1, OutcomeKinds DEF a
  <1>6. QED
    BY <1>3, <1>4, <1>5 DEF Ends

\* The step that ends a turn yields an answer with all the properties.
LEMMA FinishingAnswer ==
    ASSUME TurnInv, AnswerDirectly \/ ProposeAction \/ GiveUp
    PROVE  AnswerInv'
  <1>1. PICK text \in Text, intent \in Intent, grounded \in BOOLEAN,
             action \in ConfirmTools \cup {NoAction} :
             Finish(text, intent, grounded, action) /\ Ends(text, intent, grounded, action)
    BY FinishingStep
  <1> DEFINE e == Done(text, intent, grounded, action)
  <1>2. /\ \A i \in DOMAIN events' : events'[i].done => i = Len(events') /\ events'[i] = e
        /\ events' # <<>> /\ Len(events') \in DOMAIN events' /\ events'[Len(events')] = e
        /\ \A i \in DOMAIN events' : ~events'[i].done =>
              \/ i \in DOMAIN events /\ events'[i] = events[i]
              \/ events'[i].delta = <<Fallback>> \/ grounded
    BY <1>1, FinishedEvents
  <1>3. /\ e.done /\ e.answer.text = text /\ e.answer.citations = last_citations
        /\ e.answer.grounded = grounded /\ e.answer.pending_action = action
    BY DEF Done
  <1>4. UNCHANGED <<used_tool, last_citations, messages>> /\ pc # "finished" /\ pc' = "finished"
    BY <1>1 DEF Finish
  <1>5. Abstract(e.answer, Streamed') \in RouterOutcome
    BY <1>1, FinishedForwarding, EndsInContract
  <1> HIDE DEF e
  <1>6. OneDoneLast'
    BY <1>2, <1>3, <1>4 DEF OneDoneLast
  <1>7. RevealedIsGrounded'
    BY <1>2, <1>3, <1>4 DEF RevealedIsGrounded, TurnInv
  <1>8. GroundedIsBacked'
    <2>1. grounded /\ action = NoAction =>
            (\E i \in DOMAIN messages : RanInTurn(messages[i])) \/ IsSmalltalk(text)
      BY <1>1, NoActionAssumption
         DEF Ends, Grounded, AnswerText, IsSmalltalk, TurnInv
    <2>2. QED
      BY <1>2, <1>3, <1>4, <2>1 DEF GroundedIsBacked
  <1>9. CitesLastSearch'
    BY <1>2, <1>3, <1>4 DEF CitesLastSearch, TurnInv, FromLastSearch
  <1>10. KeepsContract'
    BY <1>2, <1>3, <1>5 DEF KeepsContract, Abstract
  <1>11. QED
    BY <1>6, <1>7, <1>8, <1>9, <1>10 DEF AnswerInv

LEMMA AnswerStep == TurnInv /\ AnswerInv /\ [Next]_vars => AnswerInv'
  <1> SUFFICES ASSUME TurnInv, AnswerInv, [Next]_vars PROVE AnswerInv'
    OBVIOUS
  <1>1. CASE UNCHANGED vars
    BY <1>1 DEF vars, AnswerInv, OneDoneLast, RevealedIsGrounded, GroundedIsBacked,
                CitesLastSearch, FromLastSearch, KeepsContract, Abstract, Streamed, IsDelta
  <1>2. CASE AnswerDirectly \/ ProposeAction \/ GiveUp
    BY <1>2, FinishingAnswer
  <1>3. CASE pc' # "finished"
    <2>1. TurnInv'
      BY TurnStep
    <2>2. QED
      BY <1>3, <2>1
         DEF TurnInv, Undone, AnswerInv, OneDoneLast, RevealedIsGrounded, GroundedIsBacked,
             CitesLastSearch, KeepsContract
  <1>4. QED
    BY <1>1, <1>2, <1>3
       DEF Next, BeginCompletion, ReceiveDelta, RequestTools, CallUnknown, RunTool, EndBatch, Raise

\* The inductive invariant of the loop.
LEMMA Inductive == Spec => [](TurnInv /\ AnswerInv)
  <1>1. Init => TurnInv /\ AnswerInv
    <2>1. Init => pc # "finished"
      BY DEF Init
    <2>2. QED
      BY <2>1, TurnInit, UnfinishedTurn
  <1>2. QED
    BY <1>1, TurnStep, AnswerStep, PTL DEF Spec

\* No tool that asks for confirmation is ever run inside a turn.
THEOREM ConfirmToolsNeverRunTheorem == Spec => []ConfirmToolsNeverRun
  <1>1. TurnInv => ConfirmToolsNeverRun
    BY DEF TurnInv
  <1>2. QED
    BY <1>1, Inductive, PTL

\* The model's words are only revealed in grounded turns.
THEOREM RevealedIsGroundedTheorem == Spec => []RevealedIsGrounded
  <1>1. AnswerInv => RevealedIsGrounded
    BY DEF AnswerInv
  <1>2. QED
    BY <1>1, Inductive, PTL

\* A grounded answer has a tool run, or small talk, behind it.
THEOREM GroundedIsBackedTheorem == Spec => []GroundedIsBacked
  <1>1. AnswerInv => GroundedIsBacked
    BY DEF AnswerInv
  <1>2. QED
    BY <1>1, Inductive, PTL

\* An answer cites what the last search of its turn returned.
THEOREM CitesLastSearchTheorem == Spec => []CitesLastSearch
  <1>1. AnswerInv => CitesLastSearch
    BY DEF AnswerInv
  <1>2. QED
    BY <1>1, Inductive, PTL

\* One done event, at the end of a finished turn and nowhere else.
THEOREM OneDoneLastTheorem == Spec => []OneDoneLast
  <1>1. AnswerInv => OneDoneLast
    BY DEF AnswerInv
  <1>2. QED
    BY <1>1, Inductive, PTL

\* The interface to AnswerQuestion: every answer is one ChatSession allows for.
THEOREM KeepsContractTheorem == Spec => []KeepsContract
  <1>1. AnswerInv => KeepsContract
    BY DEF AnswerInv
  <1>2. QED
    BY <1>1, Inductive, PTL
=============================================================================
