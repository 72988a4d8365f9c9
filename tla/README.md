# A verification project for bank-rag-bot

bank-rag-bot is a retrieval-augmented chat assistant for a bank's web site: a
FastAPI service that answers customers from indexed documents, can look at
accounts and propose to lock a card, and an admin side that uploads documents
and excludes content. The modules here model its core logic in TLA+; TLC checks
them on small instances, and TLAPS proves what matters most for every instance.
Paths below are relative to `src/src/bank_rag/` unless they start with `src/`.

## 1. The system

### Components, their state and how they meet

| component | code | state | operations | meets |
|---|---|---|---|---|
| chat endpoints | `interface/api/routers/chat.py` | none of their own; a copy of the conversation per request | `POST /chat`, `POST /chat/stream` | load the conversation, drain the use case, forward its deltas (`/stream`), save, reply |
| AnswerQuestion | `application/use_cases/answer_question.py` | the copy of the conversation | `execute_streaming`, `_resolve_pending_action` | guardrails, rewriter, cache, router, audit log, lock_card |
| RouterAgent | `agents/orchestrator.py`, `agents/tool_registry.py` | the local variables of a turn | `handle_streaming` | LLM, tools; hands events to AnswerQuestion |
| conversation store | `infrastructure/persistence/redis_conversation_repository.py` | `conversation:<id>` in Redis, with a TTL | `get`, `save` | shared by all requests and processes |
| answer cache | `infrastructure/cache/redis_cache.py` | `answer_cache:<key>` in Redis, TTL 1 h | `get`, `set` | shared by all anonymous visitors |
| audit log | `infrastructure/persistence/sql_audit_log.py` | rows of `audit_log` | `record` | append-only |
| core banking | `infrastructure/bank_api/core_banking_client.py`, `agents/tools/lock_card_tool.py` | the bank's | `lock_card`, balances | 5 s timeout |
| ingestion | `application/use_cases/ingest_document.py`, `ingestion/pipeline.py`, `interface/api/routers/admin_ingestion.py`, `admin_urls.py` | local to a call | `execute` | rules, metadata, both indexes |
| no-index rules | `application/use_cases/manage_noindex_rules.py`, `infrastructure/persistence/sql_noindex_registry.py` | `noindex_rules` | `exclude`, `include`, `is_excluded` | metadata, both indexes |
| indexes | `infrastructure/vector_stores/qdrant_store.py`, `infrastructure/keyword_index/opensearch_index.py` | chunks | upsert/index, delete by document, delete by locator, search | ingestion, rules, retrieval |
| metadata | `infrastructure/persistence/document_repository_sql.py` | `document_metadata` (version) | `save_metadata`, `get_latest_version`, `list_all` | ingestion, rules |
| retrieval | `agents/tools/rag_search_tool.py` | none | `search`, rank fusion | both indexes, reranker |
| authentication | `interface/api/dependencies.py`, `infrastructure/security/jwt_auth.py` | none | `get_identity`, `decode_token` | first thing of every endpoint |
| rate limiter | `infrastructure/security/redis_rate_limiter.py`, `interface/api/dependencies.py` | `ratelimit:<key>:<window>` in Redis, with a TTL | `is_allowed` | in front of chat, upload and URL endpoints |
| segmenters | `ingestion/segmentation/*.py`, `ingestion/loaders/file_loader.py` | local to a call (heading stack, buffer) | one function per format | ingestion; their locators are what rules go by |
| chunker | `ingestion/chunking/semantic_chunker.py` | local to a call | `split`, `split_segments` | ingestion |
| widget | `interface/web/widget/*.js` | `conversationId`, the transcript | `_send`, `sendMessageStreaming` | chat endpoints |
| admin console | `interface/web/admin/*.js` | the token, two tables | token form, logout, three forms, a button | admin endpoints |

### What is hard about it

* **Interleaving.** Everything is asynchronous, and there is no lock anywhere. A
  request works on a copy of the conversation and writes it back whole; uploads
  and exclusions make one call at a time to four stores that share no transaction.
* **Failure.** A request can end at every await (an exception, a client that
  leaves, a crash). What it has done by then stays: the bank has acted, a chunk is
  stored, an answer is cached.
* **Ordering.** Streamed words before everything else, then cache, audit, save, done
  event; purge before insert, metadata last; the rule before the listing before the purge.
* **Visibility.** The keyword index is searched, and deleted from by query, as of its
  last refresh, which no call asks for.
* **Limits.** A purge by locator looks at one page of 10,000 chunks. Counting and
  setting the expiry are two calls to Redis, made by every process for one shared key.
* **Streaming.** Words are shown before the answer is known; frames reach the
  page in arbitrary pieces; replies of overlapping messages share one page.
* **An environment that may say anything.** The LLM may answer, call any tool in
  any order, invent names and never stop; four LLM classifiers give verdicts.

### What makes each component correct

* Router: a bounded loop with one done event; only grounded words are revealed
  live; a tool that needs a confirmation never runs in the loop; the cited
  sources are those of the last search.
* Chat: a computed done event and a stored turn are on record first (streamed words
  are not); the bank acts only on what was offered and confirmed, once per request;
  a proposal whose request saved is closed for good; the cache replays nothing
  unchecked; the open proposal is what the customer was asked last; an exchange
  is lost by overlap only.
* Ingestion and rules: a re-upload replaces what was settled before it; what a rule
  in force blocks is not indexed by what begins later; a purge that succeeds reaches all
  that was settled before it.
* Retrieval: what a caller may not see is not found on either index; what was
  removed before a search began is not found once the index has refreshed; fusing and
  cutting never drop what both indexes agree on.
* Segmenters and chunker: a range names just the content of its segment, a section's
  locator the titles of the headings that enclose it; every
  item is in one segment, every sentence whole in a chunk; chunks stay bounded.
* Gateway: no more calls get through in a window than the limit; a refused call
  was over its limit; a window that began ends.
* Admin console: a table ends up with what the page knows to be true.
* Widget: each message gets its own reply or error; no word is lost; follow-ups
  stay in the conversation.

PROJECT.json lists every component with its status, and under "hazards" each
thing that is hard to test, at its line, with the properties that watch it.

## 2. The modules

| module | models | role |
|---|---|---|
| `RouterContract` | the answers the router may give and what it forwarded before (`RouterOutcome`) | interface between the next two |
| `RouterAgent` | one turn of `handle_streaming` | component |
| `ConfirmedAction` | proposals are opened, taken up, performed or dropped, and closed | abstract specification |
| `ChatSession` | endpoints, AnswerQuestion, conversation store, cache, audit log, bank | component, composed with the router through `RouterContract` |
| `Ingestion` | `IngestDocument`, `ManageNoIndexRules`, four stores | component |
| `Retrieval` | `RagSearchTool.search`, `_reciprocal_rank_fusion`, both indexes' `search`, the reranker | component, composed with `Ingestion`, which it extends |
| `Chunker` | `SemanticChunker.split` | component |
| `Segmentation` | the segmenters and `split_segments` | component, composed with `Chunker`, which it extends |
| `Widget` | `ChatUI._send`, `ChatClient.sendMessageStreaming`, the wire | component |
| `Gateway` | `get_identity`, `rate_limit`, `RedisRateLimiter.is_allowed`, the `is_employee` check | component |
| `AdminConsole` | the admin page, the admin endpoints as changes and reads of a list | component, composed with `Gateway`, which it extends |
| `RouterAgentProofs`, `ChatSessionProofs`, `ConfirmedActionProofs`, `SegmentationProofs`, `RetrievalProofs`, `IngestionProofs`, `GatewayProofs`, `WidgetProofs` | theorems | proofs |
| `MC*` | the instances TLC checks | model checking |

Two conventions. The names are the source's where TLA+ allows. A definition whose
comment begins with "Slip" is not part of a specification: it is the definition
after it with a plausible mistake in it, and is put in that one's place to see
that a property of the runs notices.

### RouterAgent

State: the local variables of the generator (`used_tool`, `can_reveal_live`,
`last_citations`, the content and tool calls of the current completion), the
`messages` the loop appended and the `events` it yielded. Actions:
`BeginCompletion` (head of the `for`), `ReceiveDelta`, then `AnswerDirectly` or
`RequestTools`; per call `CallUnknown`, `ProposeAction` or `RunTool`; `EndBatch`,
`GiveUp` (the `for` is exhausted), `Raise` (the stream, a tool call or the making of a
confirmation prompt raises; arguments are whatever JSON the model wrote). The LLM is
`\E` over deltas and over batches of calls. Note the code looks a call up in the whole
registry (`tools.get`), not in the schemas it offered.

`KeepsContract` says of each done event, together with the deltas before it, that it is
a member of `RouterOutcome`: not only what an answer may be, but also whether it follows
forwarded words of the model, a forwarded fallback or nothing.

### ChatSession

A request is `unsent`, then `asked` (copy loaded, user turn added), and moves
through `act` (bank call), `lookup`, `route`, `cache_set`, `audit`, `save`, `reply` to
`done` or `failed`. One action is what happens between two awaits that touch a
store. Awaits of the LLM alone touch nothing shared and are merged with the step
that uses their verdict. `store`, `cache`, `audit` and `bank` are global; a copy
is a record. `Fail` ends a request at any point; `Expire` and `ExpireCached` are
the two TTLs. Any number of requests of a conversation may be open at once: neither
the server nor the widget prevents it, and no property assumes that they do not.

A request to `POST /chat/stream` (`Streaming`) passes the router's deltas on as they come:
`ForwardDelta` is a step of `route`, before the numeric check, the cache, the audit and the
save, and `Fail` may follow it. What was forwarded is abstracted to words of the model or
the fallback. The router step is "any member of `RouterOutcome`" that fits what was
forwarded, which `RouterAgent` is checked and proved to keep to (`KeepsContract`): that is
how the two modules compose. A pending action carries the request that proposed it
(`by`), so that two proposals to lock the same card are told apart; the code has no such
field and takes no decision on it. The fields `streamed`, `saved` and `overlapped` of a session
are histories, read by properties only (`streamed` also ties the answer to its deltas).

Details that matter: the cache key holds the number of turns; a cached answer
comes back with its citations turned into strings, so building the reply raises
(`Reply`); the registry of a request depends on its own token while the
conversation keeps the flag of the request that created it (`Available`); the
router can propose an action in an anonymous conversation if the request has a token.

`ConfirmedAction` is what the mechanism promises, and no more than the code keeps under
overlap and failure: a proposal is opened once, and an attempt takes up one that is open
and performs it at most once. Closing is a step of its own, because the code clears the
proposal in the request's copy and writes the store after the bank has acted; until that
save a second request can take the same proposal up, and after it none can
(`PerformedIsClosed`). `ImplementsConfirmedAction` maps `open` to the stored proposals,
`held` to what a request is answering and `performed` to the bank's log.

### Ingestion

An upload goes `read_version`, `purge_vector`, `purge_keyword`, `filter`, `index` to
`done`; an exclusion `list`, `purge`, `search`, `delete` to `done`. Each call to a store is
an action, except the vector store's scroll-then-delete of a locator purge, which
is one step: chunk ids are fresh, so a chunk that comes in between is as good as one that
comes after both. The keyword index's search-then-delete has its steps, since its
deletes are one call each. A chunk is (document, segment, upload). Rules carry the
segments they block, those of their locator kind, and whether they purge whole
documents, because the code decides these differently (a rule with a kind and no
pattern).

*The page of a locator purge.* Both `delete_by_locator` ask for the chunks of the document
and the kind, with a limit of 10,000 (`ScanLimit`), and match the pattern on the page they
get. `Pages` is every page an index may answer with: all the candidates if they fit, any
`ScanLimit` of them otherwise. The history `overlooked` has the documents of which an exclusion
saw a part only; the properties about purges except them, because what is beyond the page
stays, although the exclusion succeeds.

*What each store shows.* Qdrant's client waits for an upsert or delete to be applied, its
default, so `vector` is what is searched. OpenSearch applies a write at once, but searches,
and deletes by query, see the index as of its last refresh, and no call of the code asks for
one (`opensearch_index.py:43, 59, 68, 87, 92`). `shown` is that view and `Refresh` may come at
any time or never. A delete by query removes what it sees; if one of these chunks is gone
by then it stops with a conflict, some of the others deleted, and the call fails
(`DeleteByQuery`, `Conflict`). A delete of a hit that is gone raises (`DeleteHit`).

What is *settled* (`Settled`) is an upload that has ended, of a document with a version, whose
chunks in the keyword index have been refreshed. Those are the ones later operations
are sure to find: `list_all` and `get_latest_version` go by the version, and the deletes
by what is shown. The histories `superseded` and `published` are the settled uploads when
an upload began and when a rule was written; `blocked`, `before` and `inforce` remember
what a rule applied to. All of them are read by properties only. The properties say
exactly what holds with any number of overlapping and failing operations:
`NeverMixed`, `BlockedNeverIndexed`, `PurgeReachesPublished`, `ExcludedIsGone`. That whatever can be
found of a document comes from one upload (`DocumentNeverMixed`) does not hold, and a run
shows it.

Requests, uploads and exclusions are numbers, taken in order: which of them comes
first is settled by the numbering, and no interleaving is lost by it, since they
are alike until they begin.

### Retrieval

A search is `new`, `query_vector`, `query_keyword`, `rerank`, then `done` or `failed`: one
action per call to an index. `Next` of `Ingestion` goes on in between
(`KnowledgeStep`), and `Lapse` is the midnight that begins the day of a `valid_until`,
from which on both queries filter the chunk out. Which chunks a query
matches is the environment's choice: any ranking, of at most `CandidatePool` hits, of
the chunks that pass the filters. Fusion is computed, not chosen: a score is a
fraction, sums of `1 / (k + rank)` are compared by cross-multiplication, and ties
keep the order of first insertion, as the stable sort does. (The code's scores are
floats; two different sums of this form differ by far more than rounding does
at these ranks.) The reranker may put the candidates in any order. Audience and
expiry are attributes of the upload (`InternalUpload`, `ExpiringUpload`): the code copies
both into every chunk. The keyword side searches `shown`. Histories `gone` and `barred`
remember what had been removed for every search to see, and what this caller may not
see, when the search began: a chunk that was deleted and not yet refreshed away can
still be found, and `RemovedIsNotFound` does not say otherwise.

A search that overlaps a re-upload may cite both versions, or nothing: the calls
are not atomic, and no property says otherwise.

### Segmentation and Chunker

A file is a sequence of items - paragraphs, lines, rows, siblings of a page,
children of an element - with a size (0 if blank) and a mark (heading level, space
above a PDF line or being in a table, tag). What the parsers make of bytes is thus
the choice of the items. A heading has a title, a list of its parts between any " > " it is
written with, and the locator of a section joins those of its open headings
(`Breadcrumb`, with "documento" where a DOCX has none yet), so sections under headings
of the same words have one locator, as in the code. `BreadcrumbIsEnclosing` is about these
locators: a rule for a section spares none of its text, but takes along any other section
of the same titles (section 5). One action is one turn of a format's loop: `DocxHeading`
and `DocxParagraph`; `TakeSection` (Markdown, HTML) or `TakeLines`, `TakePage` without headings;
`TakeRows`; `TakeTables`, then `TakeLine` per line of a PDF page; `TakeChild`; `TakeEntry`;
`EndFile` is the flush at the end. `BeginSplit` hands each segment to the chunker.
Lists of positions are written as the ascending listing of a set (`Listing`): the
headings that stay open, the tables of a page, the sentences of a segment. Tables of
a page have a line between them here; the code takes their boxes from the parser.
Left out: a Markdown heading whose pattern runs over a line end (`\s+` after a
lone `#`), and headings nested in other elements of a page, which the docstring of
`html_segmenter.py` names as a limitation.

The chunker's text is a row of positions; sentences, `current` and the chunks are
intervals of it. A chunk is an interval since an overlap is a suffix of the chunk
before, and the sentence behind it follows after one blank. The first blank of
an overlap may be stripped, hence the two `TailStarts`. An overlap may cut a
sentence a second time; `EverySentenceWhole` says that each one is whole somewhere.
`ChunkerAssumption` excludes an overlap of 0: `text[-0:]` is the whole text.

### Widget

An exchange is `unsent`, `fetching`, `reading`, `settled` or `failed`. The server is the
environment, as `chat.py` makes it: deltas, then one `done`. The wire is a sequence of
frame texts and boundaries; `Read` takes any part of it that has arrived, so a
frame can come without its boundary and several frames at once. `Throw` is every
way into the `catch`. What a loop of the page collects - the frames in a buffer, the
words of the deltas, the elements that stay in the transcript - is written as the
entries at a set of positions (`EntriesAt`).

### Gateway and AdminConsole

A call is `new`; when it arrives its token is looked at, and it goes to `limit`
(INCR), perhaps `expire` (EXPIRE, by the call that made the counter), `handle`,
and one of the ends: `unauthorized` (401), `refused` (429), `forbidden` (403),
`answered`, `raised`, or `lost` (Redis did not answer, or the process died). Every
endpoint's window is 60 seconds and the Redis key holds the caller and the
window, not the endpoint: so there is one counter per caller, and each endpoint
compares it with its own limit. `LoseIncrement` and `LoseExpiry` end a call at one
of the two Redis calls, with that call carried out or not. `Lapse` is the TTL; it
is the only action that is not code of the repository. The histories `counted` and
`lost` are read by properties only.

The page's actions are its event handlers: `Enter` (the token form, or a page that
opens with a token), `Logout`, `Submit` (the three forms and the button of a
rule), and the continuations of their awaits: `Fill` for a list, `Succeed` and `Fail`
for a change. `Answer` and `Raise` are the endpoints. What a table lists is
abstracted to a revision, the number of changes made to it, which is all that
`TableIsCurrent` tells apart; what a change does to the stores is in `Ingestion`. A
failed change may have been made all the same (`Raise`), and an answered call can
still fail on its way to the page. Left out: status lines (each form's shows its
last response), the tabs, and the panel that is shown while there is a token.
Every call of the page goes through `Arrive`, so the console is one user of the
gateway among others (`Visit`): `ConsoleIsGateway` proves it.

## 3. The runs

| run | instance | shows |
|---|---|---|
| router | 3 tools (a search, a read-only one, one to confirm) and an invented name, 2 iterations, 2 words in a completion, 2 calls in a batch, 2 documents | all router properties, and `Terminates` |
| chat_concurrent | 3 requests, the first of them streaming, 2 in flight, 2 conversations, one cache, failures anywhere | the chat properties, and that proposals behave as `ConfirmedAction` says |
| ingestion | 2 uploads and 1 exclusion, 2 at once, 2 documents of 2 segments, 2 patterns, rules of 3 kinds, a page of 2, failures anywhere | `NeverMixed`, `BlockedNeverIndexed`, `PurgeReachesPublished` |
| exclusions | 1 upload and 2 exclusions, 2 at once, 1 document of 2 segments under 2 patterns, rules of 3 kinds, a page of 2, failures anywhere | `ExcludedIsGone`, `EveryCallEnds` |
| retrieval | 1 search, and meanwhile 2 uploads (one internal, one expiring) and 1 exclusion in any order, 1 document of 2 segments, a page of 1, pool 2, k 60, failures anywhere | `FoundWasVisible`, `RemovedIsNotFound`, `AgreedReachesReranker` |
| segmentation | every file of up to 4 items with 3 marks, 3 sizes and 2 titles, in 8 formats; batches of 2, chunks of 6 with an overlap of 2 | `BreadcrumbIsEnclosing`, `LocatorNamesItsContent`, `ContentSegmentedOnce`, `EverySentenceWhole`, `OversizeIsOneSentence` |
| widget | 2 messages at once, 2 conversations, up to 2 deltas | `OneReplyEach`, `NoWordLost`, `FollowUpsJoin`, `EverySendSettles` |
| admin_console | 2 operations of the page and 1 visit, limits 2 (chat) and 1 (upload), an employee's or an invalid token, one subject and one host | `WithinLimit`, `TableIsCurrent`, `RefusedOverLimit`, `WindowEnds` |
| replay_unaudited, reply_not_sent, ingestion_mixed, widget_correction | as the component's, each with one property | where the code does not do what a comment or document says (section 5) |

`TypeOK` is checked along in router, ingestion and widget; the other types are proved.

**Bounds.** Two completions of the router let one completion ground the next and
the limit be reached; two calls let a confirmable one come first or second and a
second search replace the first. Three requests are a proposal, its answer and
one that overlaps with either, or a second answer; one streaming request meets the
others as the first, and every request passes through the same steps. Two uploads are a
first version and its replacement, two that overlap, or two documents; two exclusions
are a rule and one that replaces or overlaps it. Two segments let a document be
as long as the page or, in retrieval, longer than it. One search against a version, its
replacement and a rule meets every pair of them; there the operations take
turns, since those that overlap are the subject of ingestion, and the failure of an upload
or a refresh that does not come leaves chunks of two versions. Two versions of two
segments are more chunks than the pool of two. Four items are two headings
with content under each, of the same title or not, two batches, or a table between
paragraphs; a sentence of 4 does not fit behind another one of 4 in a chunk of 6, nor
behind an overlap of 2, so every branch of the chunker is taken. Two operations of the
page are five to six calls, so that two reloads of a table overlap, and two uploads by an
employee whose limit is 1, with a visit on the same key, meet a refusal, a counter that
others have raised, and one without an expiry. Two messages are enough for one exchange
to settle while another is open. A bound on the number of deltas, requests or calls is a
constant of the module (`MaxWords`, `MaxCalls`, `MaxInFlight`, `MaxRunning`, `MaxOpen`,
`MaxDeltas`), and the proofs need no value for it.

**Symmetry** is used for the conversations of chat_concurrent and the segments of
retrieval, whose rules treat them alike. Neither run has a liveness property.

**Deadlock.** All systems here stop once their finite supply of requests, calls or
messages is used up, so the runs do not check deadlock; that nothing stops half
way is what `Terminates`, `EveryCallEnds` and `EverySendSettles` say.

**Fairness.** Weak fairness of the router's next step, of each request's steps, of
each upload's and exclusion's, of the page's and server's steps of an
exchange, and of the limiter's steps and a TTL that Redis has been given (`WindowEnds`
needs no more). The event loop resumes a coroutine whose await is over, and every
external call ends in an answer, an error or a timeout. Nothing is assumed of
clients (they may never send), of failures (they may never happen), of the refresh of the
keyword index (it may never come) or of the TTLs of conversations and answers. A
completion ends because it is finite: `MaxWords` stands for that.

## 4. The proofs

All theorems are for any sets of requests, conversations, tools, documents,
messages and any limits, with any number of operations at once and failures anywhere,
from the named assumptions of the modules. Most of these only say what kinds of values
the constants are, and that special values differ from ordinary ones:
`RouterAssumption`, `NoActionAssumption`, `ChatAssumption`, `IngestionAssumption`,
`GatewayAssumption`, `ConsoleAssumption`, `WidgetAssumption`. Two say more:
`ChunkerAssumption` (an overlap is not 0) and `RetrievalAssumption` (the pool is smaller
than k + 2, as the defaults are). No theorem assumes that clients wait, that operations
take turns or that something does not fail.

* **RouterAgentProofs**: `Spec => []P` for `TypeOK`, `ConfirmToolsNeverRun`,
  `RevealedIsGrounded`, `GroundedIsBacked`, `CitesLastSearch`, `OneDoneLast` and
  `KeepsContract`. Each safety property is made inductive by saying what the local
  variables know: `used_tool` implies that some message of the turn is a run
  tool's result, `last_citations` are those of the last search, `can_reveal_live`
  implies `used_tool`, no done event has been yielded unless `pc` is "finished".
* **ConfirmedActionProofs**: `Spec => []OncePerAttempt`. An open proposal has been opened
  (`OpenIsOpened`), and an attempt that holds one has not performed (`HeldIsUnspent`).
* **ChatSessionProofs**: `Spec => []P` for `TypeOK`, `AuditBeforeDone`,
  `StoredTurnsAudited`, `ExecutedWasOffered`, `CacheHoldsVerified` and
  `OpenProposalIsLastTurn`. The invariant is `TypeInv /\ Inv`, where `Inv` has five
  parts. `LogInv`: a request has at most one audit row, of its own conversation, and
  a proposal in a row is by its request. `StoreInv`: every assistant turn in the store
  is audited, and the stored proposal matches the last turn. `CacheInv`: cached answers
  are checked. `RequestInv`: what each request's copy, answer and confirmed proposal
  satisfy at each `pc`. `BankInv`: each bank action was offered. None of the properties is
  inductive alone: that a save keeps `StoredTurnsAudited` needs to know that the copy
  being saved - loaded before other requests wrote - holds audited turns only, and
  that its own new turn was audited one step before.

  On top of that:
  - `NoTurnLost`. `KeptInv`: an exchange that was saved while its conversation had no other
    request open is in the store and in the copy of every request in flight
    (`Kept`), and a copy past the answer holds its own exchange (`OwnInv`). A copy only
    grows, so what it holds when it is loaded it holds when it is saved.
  - `PerformedIsClosed`, from `ProposalInv`: a save writes the request's own proposal or
    none (`Writes`), what a request takes up, what is stored and what was performed was
    put there by a save that is over (`TakesUp`, `OpenInv`, `PerformedInv`), and a
    proposal on record is by the request of its row (`RecordedInv`). So what a save opens
    is new, and nothing brings back what one has closed.
  - The refinement, `Spec => ImplementsConfirmedAction`, from the same invariant: each step
    of `ChatSession` is an `Open`, `Close`, `Take`, `Perform` or `Drop` of the contract or a
    stutter. That an opened proposal is new to the contract is `Writes` together with the
    fact that a request saves once. `OncePerAttempt` carried over to the bank's log is
    `OncePerRequest`.
* **SegmentationProofs**, for any file in any of the eight formats, any batch size, limit
  and overlap:
  - `BreadcrumbIsEnclosing`, `LocatorNamesItsContent` and `ContentSegmentedOnce`. None is
    inductive: they speak of segments that are made, and what makes the next one is in
    the loop's position, stack and buffer. `ReadInv` relates these to the items the loop
    is past (`Passed`), and has four parts. `Typed`: the types, and which formats use the
    buffer when. `Kept`: what is passed and not blank is in the buffer or in a segment,
    in one place only, a preamble in none. `Enclosed`: the stack is the chain of the
    headings that enclose the next item and each item in the buffer, and the locator
    joins their titles. `Located`: how each
    kind of locator comes from the segment's items - ranges lie behind one another and
    before the loop, a table's number counts the tables up to it, a paragraph's number is
    at most the number of paragraphs. There is one lemma per action. They rest on the lemma
    that a heading turns the chain before it into the chain behind it (`OpenedEncloses`),
    and on four about PDF tables: a line of a table is in one of the tables, and in no
    second one (`TableGiven`, `TablesApart`, `TableOfLine`, `TableNumbersApart`).
  - `EverySentenceWhole` and `OversizeIsOneSentence`, of `split` by itself for any text
    (`SplitSpec`) and of the segments of any file (`Spec`). What makes them inductive is
    `Collected`: within the loop, `current` is not empty and ends with the sentence
    before the next. Then what a step appends to `chunks` or keeps in `current` covers
    all that was covered before, and an overlap is cut from a chunk whose end is known.
    For `Spec` it takes in addition that a segment's `TextOf` is a text (`TextOfSegment`):
    its positions are a running sum, defined by recursion.
  - The library's induction theorems cannot be used (they take an operator), but WFMin, that
    a well-founded relation has minimal elements, can: `LeastMember`, that a set of numbers has a
    least member, follows from it, and from that `MinIsLeast` and induction over a set
    instead of a predicate (`InductionUpTo`), by which `RunningSum` shows that the
    recursive function is what its definition says.
* **IngestionProofs**, for any documents, patterns, rules, uploads, exclusions and page
  limits, whenever the keyword index is refreshed, if ever:
  - `TypeOK` and `BlockedNeverIndexed`. `BlockedInv` adds to the type invariant that what an
    upload has included so far is disjoint from what has been blocked since it began.
  - `OwnerInv` says whose a chunk can be: of an upload of its document that has come to
    storing. `Quiet(u)`: an upload that has ended, of a document with a version, and all
    of whose chunks are shown. A quiet upload stays quiet (`QuietStays`): its chunks only
    become fewer, and a purge that sees them all leaves none. What is settled is quiet.
  - `PurgeReachesPublished`. `PurgeInv`: for each `pc` of an exclusion, which documents it is
    through with (`Through`), that nothing of what was settled when the rule was written is
    left in these (`LeftIn`), and that of the document it is at the vector store holds
    nothing and the keyword index no more than the hits still to be deleted. Documents it
    overlooked a part of are excepted throughout.
  - `NeverMixed`. `ReplacedInv`: what was settled when an upload began (`Stale`) is gone
    from the vector store once it has purged that, and from both indexes once it has
    purged both, or if it has stored a chunk.
  - `ExcludedIsGone`, from `PurgeInv`, `BlockedInv` and `EnforcedInv`: while a rule is in
    force, an upload that began later has what the rule blocks blocked from its beginning.
* **RetrievalProofs**, for any chunks, searches, uploads and exclusions:
  - The fusion. `SortedSorts`: the sequence sorted by score has every chunk once and in
    order (by counting the chunks before each, so that no induction is needed).
    `AgreedPrecedes`: a chunk of both lists precedes every chunk of one if the pool is smaller
    than k + 2. Together, and since at most as many chunks as the pool holds are in both
    lists, the cut (`Pool`) keeps them: `AgreedReachesReranker`.
  - `FoundWasVisible` and `RemovedIsNotFound`. `SearchInv`: hits, candidates and what is cited
    are neither barred to the search nor among what was gone when it began (`Honest`), and
    what was gone is still in no index and of quiet uploads (`Past`). That it stays gone is
    `OwnerInv` and `QuietStays` of IngestionProofs; that a finished exclusion or
    re-upload had removed it is `PurgeInv` and `ReplacedInv`.
* **GatewayProofs**, for any calls, keys and limits: `WithinLimit` and `RefusedOverLimit` of
  `GatewaySpec`, and `ConsoleIsGateway`: every behaviour of the admin console is one of the
  gateway, hence both hold of it too. `GatewayInv` has four parts: the types;
  `CountInv`, a counter is the number of calls counted since it was created; `OpenerInv`,
  at most one call is to set a counter's expiry, and the counter has none until then;
  and `PlaceInv`, which counts that call among those let through already.
  `TableIsCurrent` of the console is proved as well. `ShownInv`: with no reload begun
  during another, every list that is still awaited, once answered, and the list that is
  shown at the end are at least as new as the last change the page was told of (`Fresh`);
  and an answered change is in the list it affects (`Told`). It holds whatever calls the
  limiter refuses or loses.
* **WidgetProofs**, for any number of messages, words and conversations, any overlap
  of exchanges, any cut of the stream and any failure: `TypeOK`, `OneReplyEach`,
  `NoWordLost` and `FollowUpsJoin`. `WidgetInv` has four parts. `TypeInv`. `StreamInv`: for some
  number c, the page has handled the first c frames of the reply, what it accumulated are
  their words, and its buffer and the wire hold the others, each with its boundary, in
  order; the buffer holds at most a frame without its boundary. `TranscriptInv`: the
  transcript has for each message sent its bubble and, later, one more element, whose
  kind follows from the exchange's stage and whose text is what was accumulated.
  `JoinInv`: the id to send is that of a conversation the server has answered in. None
  of the properties is inductive alone: that no word is lost needs that what a read
  leaves in the buffer goes on in the wire (`ReadSplits`). The lemmas on `EntriesAt` are
  proved by counting positions.

Only model-checked: liveness (`Terminates`, `EveryCallEnds`, `EverySendSettles`,
`WindowEnds`), which is out of the proof system's reach, as it needs fairness and ENABLED.
Every other property of the passing runs is a theorem.

## 5. Where the code and its documents differ

Each of these is the counterexample of a run:

1. `replay_unaudited` - `src/README.md:234-235`: "every exchange is written to an
   append-only log regardless of outcome". A cache hit returns before the audit
   (`answer_question.py:108-113`).
2. `reply_not_sent` - `chat.py:56-58`: "then exactly one done". A replayed answer with
   sources raises while the payload is built (`chat.py:43`, `83`), after the save.
3. `ingestion_mixed` - `ingest_document.py:4-6`: "search results never mix stale and
   current content". A failed first upload has chunks and no version; the next one
   does not purge them (`ingest_document.py:69-72`).
4. `widget_correction` - `numeric_grounding_guardrail.py:23-26`: "the client overwrites the
   live-streamed text with the final done event's answer". `chat-ui.js:168-171` does so
   only if nothing was streamed.

These are in the models as the code has them, and the properties are stated so that they
do not deny them; no run is devoted to them:

* Streamed words are with the client before the numeric check, the cache write and the
  audit (`answer_question.py:116-118`, `151`). A request that dies in between leaves no
  record of them. `AuditBeforeDone` is about the done event only.
* An answer is cached (`answer_question.py:147`) before it is audited (151). If its request
  dies in between, an hour of visitors may be shown an answer that no row holds.
* An anonymous conversation continued with a token stays anonymous: what its
  authenticated caller was answered goes to the shared cache (`answer_question.py:146`),
  although `src/README.md:141-144` says "never". `CacheHoldsVerified` does not cover it.
* A request that dies between the bank call and its save leaves the performed proposal
  open, and a yes performs it again, although `entities.py:100-103` has a proposal live
  "until the next customer message". So does a second request that loaded it before
  the save. `PerformedIsClosed` and `OncePerRequest` say what is left.
* A purge by locator looks at 10,000 chunks (`qdrant_store.py:107`, `opensearch_index.py:71`),
  while `manage_noindex_rules.py:43-44` says it purges "matching already-indexed content".
* Sections under equal headings have one locator (`docx_segmenter.py:27`), while
  `docx_segmenter.py:3-5` says a rule can exclude one section "without touching the rest".

## 6. The plan

Done: router, chat sessions with the proposal contract, ingestion and rules, retrieval,
segmenters and chunker, widget, gateway, admin console; proofs of every safety property the
passing runs check, and of both refinements.

Open, in this order:

1. The arguments of a proposal that do not fit the tool: a conversation in which
   every message fails until its TTL.
2. That every request ends. It needs a run of its own, without symmetry.
3. Overtaken reloads of a table: `TableIsCurrent` excepts a reload that overlaps another
   one of its table, as nothing in the page orders them.

### Not modelled, and why

The PII filter and the sanitizer, the web loader, balance and branch
tools, voice control, settings and wiring, tracing and evaluation, migrations:
they keep no state the properties speak of, or are calls of a library. Of the
admin page the status lines and tabs, of the widget the panel, the suggestions
and the read-aloud button are left out for the same reason. PROJECT.json gives the
reason for each.
