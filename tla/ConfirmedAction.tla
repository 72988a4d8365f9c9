-------------------------- MODULE ConfirmedAction --------------------------
(***************************************************************************)
(* What the propose-then-confirm mechanism promises, with no requests,     *)
(* stores or messages in sight (ARCHITECTURE.md:205-209, entities.py:97-   *)
(* 103).  A proposal is opened once.  An attempt (a customer's message)    *)
(* may take up a proposal that is open and perform it, once.  Closing the  *)
(* proposal is a step of its own, which may come late or never; until then *)
(* another attempt may take it up too, and from then on none can.          *)
(* ChatSession implements this: it is checked on an instance and proved in *)
(* ChatSessionProofs.                                                      *)
(***************************************************************************)
EXTENDS Naturals, Sequences

CONSTANTS Conversation, Attempt, Proposal, NoProposal

VARIABLES
    open,        \* the proposal awaiting an answer in each conversation
    opened,      \* every proposal that has been open
    held,        \* the proposal each attempt is about to answer
    performed    \* what the bank carried out, in order, and in which attempt

Init ==
    /\ open = [c \in Conversation |-> NoProposal]
    /\ opened = {}
    /\ held = [a \in Attempt |-> NoProposal]
    /\ performed = <<>>

Spent(a) == \E i \in DOMAIN performed : performed[i].attempt = a

\* A new proposal takes the place of whatever is open.
Open(c, p) ==
    /\ p \notin opened
    /\ opened' = opened \cup {p}
    /\ open' = [open EXCEPT ![c] = p]
    /\ UNCHANGED <<held, performed>>

\* Answered, or expired with its conversation.
Close(c) ==
    /\ open' = [open EXCEPT ![c] = NoProposal]
    /\ UNCHANGED <<opened, held, performed>>

Take(a, c) ==
    /\ open[c] # NoProposal
    /\ ~Spent(a)
    /\ held' = [held EXCEPT ![a] = open[c]]
    /\ UNCHANGED <<open, opened, performed>>

Perform(a) ==
    /\ held[a] # NoProposal
    /\ performed' = Append(performed, [attempt |-> a, proposal |-> held[a]])
    /\ held' = [held EXCEPT ![a] = NoProposal]
    /\ UNCHANGED <<open, opened>>

\* Declined, no longer available, refused by the bank, or the attempt died.
Drop(a) ==
    /\ held' = [held EXCEPT ![a] = NoProposal]
    /\ UNCHANGED <<open, opened, performed>>

Next ==
    \/ \E c \in Conversation : Close(c) \/ \E p \in Proposal : Open(c, p)
    \/ \E a \in Attempt : Perform(a) \/ Drop(a) \/ \E c \in Conversation : Take(a, c)

Spec == Init /\ [][Next]_<<open, opened, held, performed>>
-----------------------------------------------------------------------------
\* No attempt performs twice, and nothing is performed that was never opened:
\* one "yes" locks a card once, and only after it was proposed.
OncePerAttempt ==
    /\ \A i, j \in DOMAIN performed : performed[i].attempt = performed[j].attempt => i = j
    /\ \A i \in DOMAIN performed : performed[i].proposal \in opened
=============================================================================
