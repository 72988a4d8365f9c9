----------------------------- MODULE RouterAgent -----------------------------
(***************************************************************************)
(* One turn of RouterAgent.handle_streaming (agents/orchestrator.py): the  *)
(* bounded loop that streams a completion, runs the tools it asks for and  *)
(* asks again.  The LLM and the tools are the environment: they may return *)
(* anything their types allow, or raise.                                   *)
(*                                                                         *)
(* The names are the source's.  `messages` holds what the loop appended to *)
(* the prompt during the turn, and `events` the StreamEvents it yielded.   *)
(* A definition commented as a slip is no part of the specification: it is *)
(* the definition below it with a plausible mistake in it, and the checks  *)
(* put it in that one's place to see that a property notices.              *)
(***************************************************************************)
EXTENDS Naturals, Sequences, RouterContract

CONSTANTS
    Tools,           \* names the request's ToolRegistry holds
    SearchTool,      \* "search_knowledge_base"
    UnknownTool,     \* a name the model invents
    Word,            \* the content deltas a completion is made of
    Greeting,        \* those that _SMALLTALK_PATTERN matches
    Fallback,        \* FALLBACK_TEXT
    Prompt,          \* the text made by _build_confirmation_text
    Document,        \* document ids a search can cite
    MaxIterations,   \* max_iterations
    MaxWords,        \* bound: deltas in one completion
    MaxCalls         \* bound: tool calls in one completion

ASSUME RouterAssumption ==
    /\ ConfirmTools \subseteq Tools
    /\ SearchTool \in Tools \ ConfirmTools
    /\ UnknownTool \notin Tools
    /\ Greeting \subseteq Word
    /\ Fallback \notin Word /\ Prompt \notin Word /\ Fallback # Prompt
    /\ MaxIterations \in Nat /\ MaxWords \in Nat /\ MaxCalls \in Nat \ {0}

VARIABLES
    pc,              \* where the generator is
    iteration,       \* completions finished so far
    used_tool,
    can_reveal_live,
    content,         \* the deltas of the current completion
    calls,           \* its tool calls that are still to be processed
    last_citations,
    messages,
    events

vars == <<pc, iteration, used_tool, can_reveal_live, content, calls,
          last_citations, messages, events>>
turnVars == <<iteration, used_tool, can_reveal_live, last_citations>>

CallName == Tools \cup {UnknownTool}
\* An answer's text is the words of a completion or one of the fixed texts.
Text == Seq(Word \cup {Fallback, Prompt})

\* A tool result the model reads back; "docs" is what a search returned.
ToolMessage == [role : {"tool"}, tool : CallName,
                result : {"ok", "error", "unknown_tool"}, docs : SUBSET Document]
AssistantMessage == [role : {"assistant"}]

Answer == [text : Text, citations : SUBSET Document, intent : Intent,
           grounded : BOOLEAN, pending_action : ConfirmTools \cup {NoAction}]
DeltaEvent == [done : {FALSE}, delta : Text]
DoneEvent  == [done : {TRUE}, answer : Answer]

Delta(text) == [done |-> FALSE, delta |-> text]
Done(text, intent, grounded, action) ==
    [done |-> TRUE,
     answer |-> [text |-> text, citations |-> last_citations, intent |-> intent,
                 grounded |-> grounded, pending_action |-> action]]

\* _SMALLTALK_PATTERN is anchored at the start of the content.
IsSmalltalk(text) == text # <<>> /\ text[1] \in Greeting

Init ==
    /\ pc = "loop"
    /\ iteration = 0
    /\ used_tool = FALSE
    /\ can_reveal_live = FALSE
    /\ content = <<>>
    /\ calls = <<>>
    /\ last_citations = {}
    /\ messages = <<>>
    /\ events = <<>>

\* Slip: no bound on the loop.
BeginUnbounded ==
    /\ pc = "loop"
    /\ can_reveal_live' = used_tool /\ content' = <<>> /\ pc' = "streaming"
    /\ UNCHANGED <<iteration, used_tool, calls, last_citations, messages, events>>
\* Slip: deltas forwarded from the first completion on.
BeginRevealing ==
    /\ pc = "loop" /\ iteration < MaxIterations
    /\ can_reveal_live' = TRUE /\ content' = <<>> /\ pc' = "streaming"
    /\ UNCHANGED <<iteration, used_tool, calls, last_citations, messages, events>>
\* The head of the for loop: the decision to forward deltas is taken once per
\* completion, from what earlier completions did.
BeginCompletion ==
    /\ pc = "loop"
    /\ iteration < MaxIterations
    /\ can_reveal_live' = used_tool
    /\ content' = <<>>
    /\ pc' = "streaming"
    /\ UNCHANGED <<iteration, used_tool, calls, last_citations, messages, events>>

\* A content delta arrives from stream_complete.
ReceiveDelta ==
    /\ pc = "streaming"
    /\ Len(content) < MaxWords
    /\ \E w \in Word :
        /\ content' = Append(content, w)
        /\ events' = IF can_reveal_live THEN Append(events, Delta(<<w>>)) ELSE events
    /\ UNCHANGED <<pc, turnVars, calls, messages>>

Grounded == used_tool \/ IsSmalltalk(content)
\* Slip: an ungrounded answer keeps its words.
UnswappedText == IF content # <<>> THEN content ELSE <<Fallback>>
AnswerText == IF Grounded /\ content # <<>> THEN content ELSE <<Fallback>>
AnswerIntent == IF used_tool THEN "PRODUCT_INFO" ELSE "SMALLTALK"

\* The final chunk has no tool calls: the turn ends.  The answer's text is
\* yielded as a delta first unless its words were already forwarded.
AnswerDirectly ==
    /\ pc = "streaming"
    /\ events' = Append(IF can_reveal_live THEN events
                        ELSE Append(events, Delta(AnswerText)),
                        Done(AnswerText, AnswerIntent, Grounded, NoAction))
    /\ pc' = "finished"
    /\ UNCHANGED <<turnVars, content, calls, messages>>

\* The final chunk carries tool calls.
RequestTools ==
    /\ pc = "streaming"
    /\ \E n \in 1..MaxCalls : calls' \in [1..n -> CallName]
    /\ messages' = Append(messages, [role |-> "assistant"])
    /\ pc' = "calling"
    /\ UNCHANGED <<turnVars, content, events>>

ToolResult(result, docs) ==
    [role |-> "tool", tool |-> Head(calls), result |-> result, docs |-> docs]

\* Slip: an unknown tool counts as a used one.
CallUnknownUsed ==
    /\ pc = "calling" /\ calls # <<>> /\ Head(calls) \notin Tools
    /\ used_tool' = TRUE
    /\ messages' = Append(messages, ToolResult("unknown_tool", {}))
    /\ calls' = Tail(calls)
    /\ UNCHANGED <<pc, iteration, can_reveal_live, last_citations, content, events>>
\* tools.get(call.name) is None.
CallUnknown ==
    /\ pc = "calling" /\ calls # <<>>
    /\ Head(calls) \notin Tools
    /\ messages' = Append(messages, ToolResult("unknown_tool", {}))
    /\ calls' = Tail(calls)
    /\ UNCHANGED <<pc, turnVars, content, events>>

\* Slip: no return after the proposal.
ProposeAndGoOn ==
    /\ pc = "calling" /\ calls # <<>> /\ Head(calls) \in ConfirmTools
    /\ events' = Append(events, Done(<<Prompt>>, "PRODUCT_INFO", TRUE, Head(calls)))
    /\ calls' = Tail(calls)
    /\ UNCHANGED <<pc, turnVars, content, messages>>
\* requires_confirmation: the turn ends with a proposal, the rest of the
\* batch is dropped and nothing runs.
ProposeAction ==
    /\ pc = "calling" /\ calls # <<>>
    /\ Head(calls) \in ConfirmTools
    /\ events' = Append(events, Done(<<Prompt>>, "PRODUCT_INFO", TRUE, Head(calls)))
    /\ pc' = "finished"
    /\ UNCHANGED <<turnVars, content, calls, messages>>

\* Slip: the requires_confirmation branch is missing.
RunAnyTool ==
    /\ pc = "calling" /\ calls # <<>> /\ Head(calls) \in Tools
    /\ used_tool' = TRUE
    /\ messages' = Append(messages, ToolResult("ok", {})) /\ calls' = Tail(calls)
    /\ UNCHANGED <<pc, iteration, can_reveal_live, last_citations, content, events>>
\* Slip: a search that fails keeps the sources of the one before.
RunToolKeepingSources ==
    /\ pc = "calling" /\ calls # <<>> /\ Head(calls) \in Tools \ ConfirmTools
    /\ used_tool' = TRUE
    /\ \E docs \in SUBSET Document :
        /\ Head(calls) # SearchTool => docs = {}
        /\ last_citations' = IF docs # {} THEN docs ELSE last_citations
        /\ messages' = Append(messages, ToolResult("ok", docs))
    /\ calls' = Tail(calls)
    /\ UNCHANGED <<pc, iteration, can_reveal_live, content, events>>
\* Any other tool runs.  A search replaces last_citations by what
\* _extract_citations finds in its result: nothing when it reports an error.
RunTool ==
    /\ pc = "calling" /\ calls # <<>>
    /\ Head(calls) \in Tools \ ConfirmTools
    /\ used_tool' = TRUE
    /\ \E result \in {"ok", "error"}, docs \in SUBSET Document :
        /\ (result = "error" \/ Head(calls) # SearchTool) => docs = {}
        /\ last_citations' = IF Head(calls) = SearchTool THEN docs ELSE last_citations
        /\ messages' = Append(messages, ToolResult(result, docs))
    /\ calls' = Tail(calls)
    /\ UNCHANGED <<pc, iteration, can_reveal_live, content, events>>

\* The batch is done; back to the head of the loop.
EndBatch ==
    /\ pc = "calling" /\ calls = <<>>
    /\ iteration' = iteration + 1
    /\ pc' = "loop"
    /\ UNCHANGED <<used_tool, can_reveal_live, content, calls, last_citations,
                   messages, events>>

\* Slip: the bound is off by one.
GiveUpLate ==
    /\ pc = "loop" /\ iteration > MaxIterations
    /\ events' = Append(events, Done(<<Fallback>>, "HUMAN_HANDOFF", FALSE, NoAction))
    /\ pc' = "finished"
    /\ UNCHANGED <<turnVars, content, calls, messages>>
\* max_iterations completions all asked for tools.
GiveUp ==
    /\ pc = "loop"
    /\ iteration = MaxIterations
    /\ events' = Append(events, Done(<<Fallback>>, "HUMAN_HANDOFF", FALSE, NoAction))
    /\ pc' = "finished"
    /\ UNCHANGED <<turnVars, content, calls, messages>>

\* stream_complete raises (transport error, arguments that are not JSON), or
\* the tool call at the head does: tool.run when its arguments do not fit the
\* signature, _build_confirmation_text when they are not an object.  The
\* exception leaves the generator.
Raise ==
    /\ \/ pc = "streaming"
       \/ pc = "calling" /\ calls # <<>> /\ Head(calls) \in Tools
    /\ pc' = "raised"
    /\ UNCHANGED <<turnVars, content, calls, messages, events>>

Next ==
    \/ BeginCompletion \/ ReceiveDelta \/ AnswerDirectly \/ RequestTools
    \/ CallUnknown \/ ProposeAction \/ RunTool \/ EndBatch \/ GiveUp \/ Raise

\* The event loop resumes the generator as long as its consumer drains it, and
\* a completion is finite (MaxWords), so every enabled step is taken in the end.
Spec == Init /\ [][Next]_vars /\ WF_vars(Next)
-----------------------------------------------------------------------------
(***************************************************************************)
(* Properties                                                              *)
(***************************************************************************)
Message == AssistantMessage \cup ToolMessage

\* Every variable has its type.
TypeOK ==
    /\ pc \in {"loop", "streaming", "calling", "finished", "raised"}
    /\ iteration \in 0..MaxIterations
    /\ used_tool \in BOOLEAN
    /\ can_reveal_live \in BOOLEAN
    /\ content \in Seq(Word)
    /\ calls \in Seq(CallName)
    /\ last_citations \in SUBSET Document
    /\ messages \in Seq(Message)
    /\ events \in Seq(DeltaEvent \cup DoneEvent)

\* StreamEvent's contract (orchestrator.py:67-71): a turn that finishes has
\* yielded exactly one done event, as its last; one that has not finished, or
\* that raised, has yielded none.
OneDoneLast ==
    /\ \A i \in DOMAIN events : events[i].done => i = Len(events) /\ pc = "finished"
    /\ pc = "finished" => events # <<>> /\ events[Len(events)].done

\* The model's words reach the caller as deltas only in a turn that a tool has
\* grounded by then, or in one whose single answer turns out to be grounded;
\* whatever else the model said is withheld (orchestrator.py:124-131).
RevealedIsGrounded ==
    \A i \in DOMAIN events :
        ~events[i].done /\ events[i].delta # <<Fallback>> =>
            \/ used_tool
            \/ \E j \in DOMAIN events : events[j].done /\ events[j].answer.grounded

RanInTurn(m) == m.role = "tool" /\ m.result # "unknown_tool"

\* An answer that calls itself grounded, other than a proposal, comes from a
\* turn in which a registered tool really ran, or is small talk.
GroundedIsBacked ==
    \A j \in DOMAIN events :
        events[j].done /\ events[j].answer.grounded
                      /\ events[j].answer.pending_action = NoAction =>
            \/ \E i \in DOMAIN messages : RanInTurn(messages[i])
            \/ IsSmalltalk(events[j].answer.text)

\* A tool that asks for confirmation is never run by the loop, not even when it
\* comes in the middle of a batch or in a later completion of the turn.
ConfirmToolsNeverRun ==
    \A i \in DOMAIN messages : RanInTurn(messages[i]) => messages[i].tool \notin ConfirmTools

IsSearch(m) == m.role = "tool" /\ m.tool = SearchTool
\* `docs` is what the last search of the turn returned, {} if there was none.
FromLastSearch(docs) ==
    \/ docs = {} /\ \A i \in DOMAIN messages : ~IsSearch(messages[i])
    \/ \E i \in DOMAIN messages :
        /\ IsSearch(messages[i]) /\ docs = messages[i].docs
        /\ \A k \in DOMAIN messages : k > i => ~IsSearch(messages[k])

\* The sources of an answer are those of the last search of the turn: no
\* earlier search's documents survive, in particular not when the last search
\* failed or found nothing.
CitesLastSearch ==
    \A j \in DOMAIN events : events[j].done => FromLastSearch(events[j].answer.citations)

\* What the deltas carried, as RouterContract tells it apart.
IsDelta(i) == i \in DOMAIN events /\ ~events[i].done
Streamed ==
    IF \E i \in DOMAIN events : IsDelta(i) /\ events[i].delta # <<Fallback>> THEN "model"
    ELSE IF \E i \in DOMAIN events : IsDelta(i) THEN "fallback" ELSE "none"

\* An answer as AnswerQuestion and its callers tell answers apart.
Abstract(a, streamed) ==
    [text |-> CASE a.text = <<Fallback>> -> "fallback"
                [] a.text = <<Prompt>> -> "confirmation"
                [] OTHER -> "model",
     cited |-> a.citations # {}, intent |-> a.intent, grounded |-> a.grounded,
     pending_action |-> a.pending_action, streamed |-> streamed]

\* Every answer of the router, with what was forwarded before it, is one that
\* ChatSession's router step allows.
KeepsContract ==
    \A j \in DOMAIN events :
        events[j].done => Abstract(events[j].answer, Streamed) \in RouterOutcome

\* The loop is bounded: whatever the model asks for, the turn ends.
Terminates == <>(pc \in {"finished", "raised"})
=============================================================================
