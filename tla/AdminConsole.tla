---------------------------- MODULE AdminConsole ----------------------------
(***************************************************************************)
(* The admin page (web/admin/*.js) over the admin endpoints, behind the    *)
(* gateway it extends.  A form or a button sends its call and the page     *)
(* goes on; a call that succeeds reloads tables, by calls of their own,    *)
(* and a table shows the responses in the order in which they come in.     *)
(*                                                                         *)
(* What a table lists is a revision: how often it was changed.  Status     *)
(* lines, which show the last response of a form, and the panel, which is  *)
(* shown while there is a token, are left out.                             *)
(***************************************************************************)
EXTENDS Gateway

CONSTANTS
    Op,              \* what the employee does on the page, numbered in order
    Visit,           \* calls from elsewhere, numbered likewise
    Traffic,         \* what calls from elsewhere may ask
    PageToken,       \* what may be entered as a token
    Subject, Host    \* the keys of the page's calls with and without a token

Table == {"documents", "rules"}
Change == {"ingest", "rule", "remove"}

\* An operation has a call of its own and one for each table it reloads.
ASSUME ConsoleAssumption ==
    /\ Op \subseteq Nat /\ Visit \subseteq Nat
    /\ Call = (Op \X (Table \cup {"change"})) \cup (Visit \X {"visit"})
    /\ Traffic \subseteq Request /\ PageToken \subseteq Token \ {"none"}
    /\ Subject \in Key /\ Host \in Key

VARIABLES
    token,       \* sessionStorage; "none" if it holds no token
    change,      \* what each operation changes
    waiting,     \* the calls whose response the page awaits
    table,       \* what each table shows
    revision,    \* how often what a table lists was changed
    body,        \* the revision that each call made or read
    own,         \* history: the last change the page was told of
    racing       \* history: tables whose last reload began during another

page == <<token, change, waiting, table, own, racing>>
data == <<revision, body>>
vars == <<gatewayVars, page, data>>

Notice(words) == [shows |-> words, revision |-> 0]
List(n) == [shows |-> "list", revision |-> n]

Init ==
    /\ GatewayInit
    /\ token = "none"
    /\ change = [o \in Op |-> "unsent"]
    /\ waiting = {}
    /\ table = [t \in Table |-> Notice("blank")]
    /\ revision = [t \in Table |-> 0]
    /\ body = [c \in Call |-> 0]
    /\ own = [t \in Table |-> 0]
    /\ racing = {}

\* The upload form and the URL form change the documents, adding and removing
\* a rule the rules.
Affects(what) == IF what = "ingest" THEN "documents" ELSE "rules"

\* request() of api-client.js takes the token of the moment.
Asking(endpoint, held) ==
    [endpoint |-> endpoint, token |-> held, key |-> IF held = "none" THEN Host ELSE Subject]

\* refreshDocumentsList, refreshRulesList.
ListCalls(t) == {<<o, t>> : o \in Op}
Reload(o, tables, held) ==
    /\ Arrive([c \in {<<o, t>> : t \in tables} |-> Asking("manage", held)])
    /\ table' = [t \in Table |-> IF t \in tables THEN Notice("loading") ELSE table[t]]
    /\ racing' = (racing \ tables) \cup {t \in tables : ListCalls(t) \cap waiting # {}}

IsNext(o) == change[o] = "unsent" /\ \A p \in Op : p < o => change[p] # "unsent"

\* The token form, or a page that opens with a token: refreshAll.
Enter(o) ==
    /\ IsNext(o) /\ token = "none"
    /\ \E held \in PageToken :
        /\ token' = held
        /\ Reload(o, Table, held)
    /\ change' = [change EXCEPT ![o] = "nothing"]
    /\ waiting' = waiting \cup {<<o, t>> : t \in Table}
    /\ UNCHANGED <<own, data>>

\* Calls under way are not cancelled.
Logout ==
    /\ token # "none"
    /\ token' = "none"
    /\ UNCHANGED <<gatewayVars, change, waiting, table, own, racing, data>>

\* A form is submitted, or the button of a listed rule pressed.
Submit(o) ==
    /\ IsNext(o) /\ token # "none"
    /\ \E what \in Change :
        /\ what = "remove" => table["rules"].revision > 0
        /\ change' = [change EXCEPT ![o] = what]
        /\ Arrive([c \in {<<o, "change">>} |->
                Asking(IF what = "ingest" THEN "ingest" ELSE "manage", token)])
    /\ waiting' = waiting \cup {<<o, "change">>}
    /\ UNCHANGED <<token, table, own, racing, data>>

\* Someone else's chat message or upload.
Visited(v) ==
    /\ pc[<<v, "visit">>] = "new" /\ \A w \in Visit : w < v => pc[<<w, "visit">>] # "new"
    /\ \E q \in Traffic : Arrive([c \in {<<v, "visit">>} |-> q])
    /\ UNCHANGED <<page, data>>
-----------------------------------------------------------------------------
(***************************************************************************)
(* The endpoints                                                           *)
(***************************************************************************)
IsList(c) == c[2] \in Table
ChangedBy(c) == IF c[2] = "change" THEN Affects(change[c[1]]) ELSE "documents"
Changes(c) == ~IsList(c) /\ request[c].endpoint # "chat"

\* A list is read, or a change made.
Answer(c) ==
    /\ Finish(c, "answered")
    /\ revision' = IF Changes(c) THEN [revision EXCEPT ![ChangedBy(c)] = @ + 1] ELSE revision
    /\ body' = IF c \in waiting
               THEN [body EXCEPT ![c] = revision'[IF IsList(c) THEN c[2] ELSE ChangedBy(c)]]
               ELSE body
    /\ UNCHANGED page

\* 409, 422 or an exception, the change not made or made all the same.
Raise(c) ==
    /\ Finish(c, "raised")
    /\ \/ Changes(c) /\ revision' = [revision EXCEPT ![ChangedBy(c)] = @ + 1]
       \/ UNCHANGED revision
    /\ UNCHANGED <<body, page>>
-----------------------------------------------------------------------------
(***************************************************************************)
(* The responses                                                           *)
(***************************************************************************)
\* A list fills its table; an error, of the server or of the network, takes its
\* place.  (A list call changes nothing, so a connection may as well break when
\* the call is over.)
Fill(c) ==
    /\ c \in waiting /\ IsList(c) /\ pc[c] \in Ended
    /\ \E shown \in {Notice("error")} \cup IF pc[c] = "answered" THEN {List(body[c])} ELSE {} :
        table' = [table EXCEPT ![c[2]] = shown]
    /\ waiting' = waiting \ {c}
    /\ body' = [body EXCEPT ![c] = 0]
    /\ UNCHANGED <<gatewayVars, token, change, own, racing, revision>>

\* Slip: only the documents are reloaded.
ReloadDocuments(what) == {"documents"}
\* onDone reloads both tables, the button of a rule the rules.
ReloadedBy(what) == IF what = "remove" THEN {"rules"} ELSE Table

Succeed(o) ==
    /\ <<o, "change">> \in waiting /\ pc[<<o, "change">>] = "answered"
    /\ own' = [own EXCEPT ![Affects(change[o])] = body[<<o, "change">>]]
    /\ Reload(o, ReloadedBy(change[o]), token)
    /\ waiting' = (waiting \ {<<o, "change">>}) \cup {<<o, t>> : t \in ReloadedBy(change[o])}
    /\ body' = [body EXCEPT ![<<o, "change">>] = 0]
    /\ UNCHANGED <<token, change, revision>>

\* An error, of the server or of the network, is all the page learns of a change.
Fail(o) ==
    /\ <<o, "change">> \in waiting
    /\ waiting' = waiting \ {<<o, "change">>}
    /\ body' = [body EXCEPT ![<<o, "change">>] = 0]
    /\ UNCHANGED <<gatewayVars, token, change, table, own, racing, revision>>

Next ==
    \/ \E o \in Op : Enter(o) \/ Submit(o) \/ Succeed(o) \/ Fail(o)
    \/ Logout
    \/ \E v \in Visit : Visited(v)
    \/ \E c \in Call : Answer(c) \/ Raise(c) \/ Fill(c)
    \/ \E c \in Call : LimiterStep(c) /\ UNCHANGED <<page, data>>
    \/ \E k \in Key : Lapse(k) /\ UNCHANGED <<page, data>>

\* A call that has arrived goes on, Redis drops a key whose time is over.
Fairness ==
    /\ \A c \in Call : WF_vars(LimiterStep(c) /\ UNCHANGED <<page, data>>)
    /\ \A k \in Key : WF_vars(Lapse(k) /\ UNCHANGED <<page, data>>)
Spec == Init /\ [][Next]_vars /\ Fairness
-----------------------------------------------------------------------------
(***************************************************************************)
(* Properties                                                              *)
(***************************************************************************)
\* A table with no list call under way shows a list or an error, and a list is
\* at least as new as the last change the page was told of, unless its last
\* reload began while another was under way: responses are shown in the order
\* they come in, and the older one may come last (documents.js:4-36).
TableIsCurrent ==
    \A t \in Table : ListCalls(t) \cap waiting = {} =>
        /\ table[t].shows # "loading"
        /\ table[t].shows = "list" /\ t \notin racing => table[t].revision >= own[t]
=============================================================================
