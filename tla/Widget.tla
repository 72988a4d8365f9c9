------------------------------- MODULE Widget -------------------------------
(***************************************************************************)
(* The chat widget: ChatUI._send (web/widget/chat-ui.js) and               *)
(* ChatClient.sendMessageStreaming (web/widget/chat-client.js).  Nothing   *)
(* disables the input while a reply streams, so exchanges overlap; what    *)
(* runs between two awaits of the page is one action.                      *)
(*                                                                         *)
(* The server is the environment, as chat.py:52-88 makes it: frames of     *)
(* deltas, then one frame `done`.  A frame's text and the blank line that  *)
(* ends it can reach the page in different reads.  An answer's text is     *)
(* what was streamed, or another: a proposal's prompt, FALLBACK_TEXT, or   *)
(* the text that replaces unverified figures (answer_question.py:132-141). *)
(*                                                                         *)
(* A definition commented as a slip is no part of the specification: it is *)
(* the definition below it with a plausible mistake in it.                 *)
(***************************************************************************)
EXTENDS Naturals, Sequences, FiniteSets, FiniteSetsExt

CONSTANTS
    Message,          \* messages the customer sends
    Conversation,     \* conversation ids the server hands out
    Null,             \* conversationId = null
    FixedText,        \* an answer's text that is not what was streamed
    Boundary,         \* the blank line between two frames
    MaxOpen,          \* bound: exchanges open at once
    MaxDeltas         \* bound: deltas of a reply

\* What a delta carries: one of the words of a message's reply, by position.
Word == Message \X (1..MaxDeltas)
Text == Seq(Word \cup {FixedText})
Frame == [type : {"delta", "done"}, text : Text, conversation : Conversation \cup {Null}]

ASSUME WidgetAssumption ==
    /\ FixedText \notin Word /\ Boundary \notin Frame
    /\ Null \notin Conversation
    /\ MaxOpen \in Nat \ {0} /\ MaxDeltas \in Nat

VARIABLES
    conversationId,   \* ChatClient.conversationId
    exchange,         \* the local variables of each _send
    messagesEl,       \* the elements of the transcript, in order
    server            \* the server's side of each exchange

vars == <<conversationId, exchange, messagesEl, server>>

Delta(w) == [type |-> "delta", text |-> <<w>>, conversation |-> Null]
Done(c, text) == [type |-> "done", text |-> text, conversation |-> c]
IsFrame(x) == x # Boundary
IsDone(x) == IsFrame(x) /\ x.type = "done"
IsDelta(x) == IsFrame(x) /\ x.type = "delta"

Init ==
    /\ conversationId = Null
    /\ exchange = [m \in Message |->
            [pc |-> "unsent", conversation_id |-> Null, buffer |-> <<>>,
             accumulated |-> <<>>, shown |-> FALSE]]
    /\ messagesEl = <<>>
    /\ server = [m \in Message |->
            [pc |-> "idle", conversation |-> Null, streamed |-> <<>>, answer |-> <<>>,
             wire |-> <<>>]]

Open(m) == exchange[m].pc \in {"fetching", "reading"}
Element(kind, m, text) == [kind |-> kind, of |-> m, text |-> text]

\* The user's bubble and the typing indicator appear, and the request goes out
\* with the conversation id of that moment.
Send(m) ==
    /\ exchange[m].pc = "unsent"
    /\ Cardinality({n \in Message : Open(n)}) < MaxOpen
    /\ messagesEl' = messagesEl \o <<Element("user", m, <<>>), Element("typing", m, <<>>)>>
    /\ exchange' = [exchange EXCEPT ![m] =
            [@ EXCEPT !.pc = "fetching", !.conversation_id = conversationId]]
    /\ UNCHANGED <<conversationId, server>>

\* The endpoint loads the conversation, or makes one when the request names none
\* or one that has expired.
Accept(m) ==
    /\ exchange[m].pc = "fetching"
    /\ \E c \in Conversation :
        /\ \/ c = exchange[m].conversation_id
           \/ \A n \in Message : server[n].conversation # c
        /\ server' = [server EXCEPT ![m] = [@ EXCEPT !.pc = "answering", !.conversation = c]]
    /\ exchange' = [exchange EXCEPT ![m].pc = "reading"]
    /\ UNCHANGED <<conversationId, messagesEl>>

SendDelta(m) ==
    /\ server[m].pc = "answering" /\ Len(server[m].streamed) < MaxDeltas
    /\ LET w == <<m, Len(server[m].streamed) + 1>> IN
        server' = [server EXCEPT ![m] =
            [@ EXCEPT !.streamed = Append(server[m].streamed, w),
                      !.wire = server[m].wire \o <<Delta(w), Boundary>>]]
    /\ UNCHANGED <<conversationId, exchange, messagesEl>>

SendDone(m) ==
    /\ server[m].pc = "answering"
    /\ \E text \in {server[m].streamed, <<FixedText>>} :
        /\ text # <<>>
        /\ server' = [server EXCEPT ![m] =
            [@ EXCEPT !.pc = "answered", !.answer = text,
                      !.wire = server[m].wire
                                \o <<Done(server[m].conversation, text), Boundary>>]]
    /\ UNCHANGED <<conversationId, exchange, messagesEl>>

\* What a sequence holds at some of its positions, in order.
EntriesAt(s, P) ==
    [k \in 1 .. Cardinality(P) |-> s[CHOOSE p \in P : Cardinality({q \in P : q <= p}) = k]]

\* The part of a buffer up to its last boundary, and the rest.
Complete(buffer) ==
    LET ends == {i \in DOMAIN buffer : buffer[i] = Boundary}
    IN IF ends = {} THEN 0 ELSE Max(ends)
FramesIn(buffer) == EntriesAt(buffer, {i \in 1 .. Complete(buffer) : IsFrame(buffer[i])})
\* Slip: what is left of the buffer is forgotten.
Nothing(buffer) == <<>>
Rest(buffer) == SubSeq(buffer, Complete(buffer) + 1, Len(buffer))

DeltasOf(frames) == EntriesAt(frames, {i \in DOMAIN frames : IsDelta(frames[i])})
\* Slip: a delta's text is added as one more word.
TextsAsWords(frames) ==
    [k \in DOMAIN DeltasOf(frames) |-> DeltasOf(frames)[k].text]
WordsOf(frames) ==
    [k \in DOMAIN DeltasOf(frames) |-> DeltasOf(frames)[k].text[1]]
Without(m, kinds) ==
    EntriesAt(messagesEl, {i \in DOMAIN messagesEl :
                               ~(messagesEl[i].of = m /\ messagesEl[i].kind \in kinds)})

\* revealAssistantBubble, then the bubble's text is set.
Reveal(m, text) ==
    IF exchange[m].shown
    THEN [i \in DOMAIN messagesEl |->
            IF messagesEl[i].of = m /\ messagesEl[i].kind = "assistant"
            THEN Element("assistant", m, text) ELSE messagesEl[i]]
    ELSE Append(Without(m, {"typing"}), Element("assistant", m, text))

\* Slip: the id is kept from the first reply on only if the request had one.
NextConversation(m, done) ==
    IF done # {} /\ exchange[m].conversation_id # Null
    THEN (CHOOSE d \in done : TRUE).conversation ELSE conversationId
\* onDone's frame sets the id for the messages to come.
ConversationAfter(m, done) ==
    IF done # {} THEN (CHOOSE d \in done : TRUE).conversation ELSE conversationId

\* reader.read gives some of what the server sent; every frame that is complete
\* is handled at once.  onDone shows the answer's text only if no delta came.
Read(m) ==
    /\ exchange[m].pc = "reading" /\ server[m].wire # <<>>
    /\ \E n \in DOMAIN server[m].wire :
        LET buffer == exchange[m].buffer \o SubSeq(server[m].wire, 1, n)
            frames == FramesIn(buffer)
            accumulated == exchange[m].accumulated \o WordsOf(frames)
            done == {frames[i] : i \in {j \in DOMAIN frames : IsDone(frames[j])}}
            finalText == IF accumulated = <<>> /\ done # {}
                         THEN (CHOOSE d \in done : TRUE).text ELSE accumulated
        IN /\ exchange' = [exchange EXCEPT ![m] =
                [@ EXCEPT !.buffer = Rest(buffer), !.accumulated = accumulated,
                          !.shown = exchange[m].shown \/ frames # <<>>]]
           /\ messagesEl' = IF frames = <<>> THEN messagesEl ELSE Reveal(m, finalText)
           /\ conversationId' = ConversationAfter(m, done)
           /\ server' = [server EXCEPT ![m].wire = SubSeq(server[m].wire, n + 1, Len(server[m].wire))]

\* The stream is closed, and reader.read says so.
ReadEnd(m) ==
    /\ exchange[m].pc = "reading"
    /\ server[m].pc = "answered" /\ server[m].wire = <<>>
    /\ exchange' = [exchange EXCEPT ![m].pc = "settled"]
    /\ UNCHANGED <<conversationId, messagesEl, server>>

\* Slip: the bubble that was being filled stays.
CatchKeeping(m) ==
    messagesEl' = Append(Without(m, {"typing"}), Element("error", m, <<>>))
\* Slip: the typing indicator stays.
CatchTyping(m) ==
    messagesEl' = Append(Without(m, {"assistant"}), Element("error", m, <<>>))
\* The catch branch of _send.
Catch(m) ==
    messagesEl' = Append(Without(m, {"typing", "assistant"}), Element("error", m, <<>>))

\* fetch fails, the status is an error (401, 429, 500), or the connection
\* breaks - the endpoint raised, say; what was on its way is lost.
Throw(m) ==
    /\ Open(m)
    /\ Catch(m)
    /\ exchange' = [exchange EXCEPT ![m].pc = "failed"]
    /\ server' = [server EXCEPT ![m] = [@ EXCEPT !.pc = "cut", !.wire = <<>>]]
    /\ UNCHANGED conversationId

Next == \E m \in Message :
    \/ Send(m) \/ Accept(m) \/ SendDelta(m) \/ SendDone(m)
    \/ Read(m) \/ ReadEnd(m) \/ Throw(m)

\* The endpoint answers every request or fails (its steps are weakly fair, see
\* ChatSession) and the page's event loop resumes a read whose data is there.
Fairness == \A m \in Message :
    WF_vars(Accept(m)) /\ WF_vars(SendDone(m)) /\ WF_vars(Read(m)) /\ WF_vars(ReadEnd(m))
Spec == Init /\ [][Next]_vars /\ Fairness
-----------------------------------------------------------------------------
(***************************************************************************)
(* Properties                                                              *)
(***************************************************************************)
\* Every variable has its type.
TypeOK ==
    /\ conversationId \in Conversation \cup {Null}
    /\ exchange \in [Message ->
            [pc : {"unsent", "fetching", "reading", "settled", "failed"},
             conversation_id : Conversation \cup {Null}, buffer : Seq(Frame \cup {Boundary}),
             accumulated : Seq(Word), shown : BOOLEAN]]
    /\ messagesEl \in Seq([kind : {"user", "typing", "assistant", "error"},
                           of : Message, text : Text])
    /\ server \in [Message ->
            [pc : {"idle", "answering", "answered", "cut"},
             conversation : Conversation \cup {Null}, streamed : Seq(Word), answer : Text,
             wire : Seq(Frame \cup {Boundary})]]

Shown(m, kinds) == {i \in DOMAIN messagesEl : messagesEl[i].of = m /\ messagesEl[i].kind \in kinds}

\* From the moment it is sent, a message has exactly one of a typing indicator,
\* a reply and an error in the transcript, after the message itself, however
\* the exchanges overlap and break.
OneReplyEach ==
    \A m \in Message : exchange[m].pc # "unsent" =>
        /\ Cardinality(Shown(m, {"typing", "assistant", "error"})) = 1
        /\ \A i \in Shown(m, {"user"}), j \in Shown(m, {"typing", "assistant", "error"}) : i < j

\* However reads split and join the frames: a reply that ended well shows every
\* word that was streamed for it, in order, and none of another exchange.
NoWordLost ==
    \A m \in Message : exchange[m].pc = "settled" /\ server[m].streamed # <<>> =>
        \A i \in Shown(m, {"assistant"}) : messagesEl[i].text = server[m].streamed

Replied(m) == exchange[m].pc = "settled"
\* A message sent when a reply is on screen joins a conversation the server has
\* answered in, and the first ones open theirs (chat.py:65-67).
FollowUpsJoin ==
    [][\A m \in Message : Send(m) /\ (\E n \in Message : Replied(n)) =>
            \E n \in Message : exchange'[m].conversation_id = server[n].conversation
                               /\ server[n].conversation # Null]_vars

\* Each message sent gets its reply or its error, and no typing indicator stays.
EverySendSettles ==
    \A m \in Message : exchange[m].pc = "fetching" ~>
        exchange[m].pc \in {"settled", "failed"} /\ Shown(m, {"typing"}) = {}

\* numeric_grounding_guardrail.py:23-26 (and answer_question.py:137-139): "the
\* client overwrites the live-streamed text with the final `done` event's
\* answer".  onDone sets the text only when nothing was streamed.
FinalAnswerOnScreen ==
    \A m \in Message : Replied(m) =>
        \A i \in Shown(m, {"assistant"}) : messagesEl[i].text = server[m].answer
=============================================================================
