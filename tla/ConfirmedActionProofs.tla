----------------------- MODULE ConfirmedActionProofs -----------------------
(***************************************************************************)
(* What the contract of the propose-then-confirm mechanism guarantees,     *)
(* proved for any number of conversations, attempts and proposals.         *)
(***************************************************************************)
EXTENDS ConfirmedAction, TLAPS

svars == <<open, opened, held, performed>>

TypeInv ==
    /\ open \in [Conversation -> Proposal \cup {NoProposal}]
    /\ held \in [Attempt -> Proposal \cup {NoProposal}]
    /\ performed \in Seq([attempt : Attempt, proposal : Proposal \cup {NoProposal}])

\* The inductive invariant: what is open, held or performed was opened, and an
\* attempt that holds a proposal has performed none.
OpenIsOpened == \A c \in Conversation : open[c] # NoProposal => open[c] \in opened
HeldIsUnspent == \A a \in Attempt : held[a] # NoProposal => ~Spent(a) /\ held[a] \in opened
Inv == TypeInv /\ OpenIsOpened /\ HeldIsUnspent /\ OncePerAttempt

\* Nothing is open, held or performed at the start.
LEMMA InitInv == Init => Inv
  BY DEF Init, Inv, TypeInv, OpenIsOpened, HeldIsUnspent, OncePerAttempt

\* Every step of the contract keeps the invariant.
LEMMA StepInv == Inv /\ [Next]_svars => Inv'
  <1> SUFFICES ASSUME Inv, [Next]_svars PROVE Inv'
    OBVIOUS
  <1> USE DEF Inv, TypeInv, OpenIsOpened, HeldIsUnspent, OncePerAttempt, Spent
  <1>1. ASSUME NEW c \in Conversation, NEW p \in Proposal, Open(c, p) PROVE Inv'
    BY <1>1 DEF Open
  <1>2. ASSUME NEW c \in Conversation, Close(c) PROVE Inv'
    BY <1>2 DEF Close
  <1>3. ASSUME NEW a \in Attempt, NEW c \in Conversation, Take(a, c) PROVE Inv'
    BY <1>3 DEF Take
  <1>4. ASSUME NEW a \in Attempt, Drop(a) PROVE Inv'
    BY <1>4 DEF Drop
  <1>5. ASSUME NEW a \in Attempt, Perform(a) PROVE Inv'
    <2> DEFINE e == [attempt |-> a, proposal |-> held[a]]
    <2>1. e \in [attempt : Attempt, proposal : Proposal \cup {NoProposal}]
          /\ e.attempt = a /\ e.proposal = held[a]
      OBVIOUS
    <2>2. performed' = Append(performed, e) /\ UNCHANGED <<open, opened>>
          /\ held' = [held EXCEPT ![a] = NoProposal] /\ held[a] # NoProposal
      BY <1>5 DEF Perform
    <2> HIDE DEF e
    <2>3. /\ performed' \in Seq([attempt : Attempt, proposal : Proposal \cup {NoProposal}])
          /\ DOMAIN performed' = 1..(Len(performed) + 1)
          /\ DOMAIN performed = 1..Len(performed) /\ Len(performed) \in Nat
          /\ performed'[Len(performed) + 1] = e
          /\ \A i \in 1..Len(performed) : performed'[i] = performed[i]
      BY <2>1, <2>2
    <2>4. OncePerAttempt'
      BY <2>1, <2>2, <2>3
    <2>5. HeldIsUnspent'
      <3> SUFFICES ASSUME NEW b \in Attempt, held'[b] # NoProposal
                   PROVE Spent(b)' = FALSE /\ held'[b] \in opened'
        OBVIOUS
      <3>1. b # a /\ held'[b] = held[b]
        BY <2>2
      <3> QED BY <2>1, <2>2, <2>3, <3>1
    <2> QED BY <2>2, <2>3, <2>4, <2>5
  <1>6. CASE UNCHANGED svars
    BY <1>6 DEF svars
  <1> QED BY <1>1, <1>2, <1>3, <1>4, <1>5, <1>6 DEF Next

\* The contract ChatSession implements excludes what its name promises to
\* exclude: however proposals are opened, taken up and closed, an attempt
\* performs at most one, once, and only one that was opened.
THEOREM OncePerAttemptTheorem == Spec => []OncePerAttempt
  <1>1. Inv => OncePerAttempt
    BY DEF Inv
  <1> QED BY InitInv, StepInv, <1>1, PTL DEF Spec, svars
=============================================================================
