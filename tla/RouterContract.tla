--------------------------- MODULE RouterContract ---------------------------
(***************************************************************************)
(* The Answer that RouterAgent.handle_streaming hands to AnswerQuestion    *)
(* (agents/orchestrator.py, domain/entities.py), and what it forwarded as  *)
(* deltas before.  RouterAgent is checked and proved to produce only       *)
(* answers of this set, and ChatSession takes any member of it as the      *)
(* outcome of its router step, so that the two modules compose through     *)
(* this interface.                                                         *)
(***************************************************************************)
CONSTANTS
    ConfirmTools,   \* names of the tools with requires_confirmation = True
    NoAction        \* Answer.pending_action = None

ASSUME NoActionAssumption == NoAction \notin ConfirmTools

\* The members of the Intent enumeration the router gives an answer.
Intent == {"PRODUCT_INFO", "SMALLTALK", "HUMAN_HANDOFF"}

\* What an answer's text is: the model's own words, FALLBACK_TEXT, or the
\* prompt that _build_confirmation_text makes.
RouterText == {"model", "fallback", "confirmation"}

\* What the deltas before the done event carried: nothing, words of the model,
\* or FALLBACK_TEXT and no more than that.
Forwarded == {"none", "model", "fallback"}

\* `cited` abstracts Answer.citations to whether the list is non-empty.
RouterAnswer ==
    [text : RouterText, cited : BOOLEAN, intent : Intent, grounded : BOOLEAN,
     pending_action : ConfirmTools \cup {NoAction}, streamed : Forwarded]

\* An answer proposes an action exactly when its text is the confirmation
\* prompt, and it then counts as grounded.
ProposesByPrompt(a) ==
    /\ a.text = "confirmation" <=> a.pending_action # NoAction
    /\ a.pending_action # NoAction => a.grounded

\* The model's own words leave the router only in a grounded answer.  A turn
\* that used a tool is grounded even when the text is the fallback (the model
\* said nothing); small talk has no sources; giving up is never grounded.
WordsAreGrounded(a) ==
    /\ a.text = "model" => a.grounded
    /\ a.intent = "PRODUCT_INFO" => a.grounded
    /\ a.intent = "SMALLTALK" => ~a.cited /\ (a.text = "fallback" => ~a.grounded)
    /\ a.intent = "HUMAN_HANDOFF" => a.text = "fallback" /\ ~a.grounded

\* An answer in the model's words was forwarded before its done event, and a
\* fallback is forwarded only when no tool was used.  Any other answer's text
\* comes with the done event alone, but an earlier completion of the turn may
\* have been forwarded already.
ForwardsWhatItSays(a) ==
    /\ a.text = "model" => a.streamed = "model"
    /\ a.streamed = "fallback" <=> a.intent = "SMALLTALK" /\ a.text = "fallback"

RouterOutcome ==
    {a \in RouterAnswer : ProposesByPrompt(a) /\ WordsAreGrounded(a) /\ ForwardsWhatItSays(a)}
=============================================================================
