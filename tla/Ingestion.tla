----------------------------- MODULE Ingestion -----------------------------
(***************************************************************************)
(* The knowledge base: IngestDocument.execute (an upload, an on-demand URL *)
(* or the scheduled sync), ManageNoIndexRules.exclude and include, and the *)
(* four stores they work on one call at a time - the Qdrant collection,    *)
(* the OpenSearch index, the document_metadata and noindex_rules tables.   *)
(* There is no lock and no transaction across the stores: uploads and      *)
(* exclusions interleave at every call and may stop after any of them.     *)
(*                                                                         *)
(* Qdrant applies a call before it answers.  OpenSearch too, but none of   *)
(* the calls asks for a refresh: what its searches and deletes by query    *)
(* see is the index as of the last one (`shown`), which comes at any time. *)
(*                                                                         *)
(* One chunk stands for all the chunks of a segment.  Patterns are matched *)
(* by fnmatch: `Matches` gives the documents of a pattern and a rule       *)
(* carries the segments its locator matches.                               *)
(*                                                                         *)
(* A definition commented as a slip is no part of the specification: it is *)
(* the definition below it with a plausible mistake in it.                 *)
(***************************************************************************)
EXTENDS Naturals, FiniteSets, FiniteSetsExt

CONSTANTS
    Document,      \* source ids
    Segment,       \* segments a document is made of
    Upload,        \* calls of IngestDocument.execute, numbered as they begin
    Exclusion,     \* calls of ManageNoIndexRules.exclude, numbered likewise
    Pattern,       \* primary keys of noindex_rules
    Matches,       \* the documents each pattern matches
    Rule,          \* what a rule says, see RuleType
    NoRule,        \* the pattern has no row
    Unset,         \* a local variable without a value
    ScanLimit,     \* hits a delete_by_locator looks at, 10_000
    MaxRunning     \* bound: uploads and exclusions in progress at once

\* `blocks` are the segments is_excluded matches, `scans` those of the rule's
\* kind.  locator_kind = None is a whole-document rule.  exclude purges by
\* locator only if both locator_kind and locator_pattern are given, so a rule
\* with a kind alone blocks the segments of that kind but purges whole documents.
RuleType ==
    {rule \in [whole : BOOLEAN, scans : SUBSET Segment, blocks : SUBSET Segment,
               purges_document : BOOLEAN] :
        /\ rule.blocks \subseteq rule.scans
        /\ rule.whole => rule.blocks = Segment /\ rule.purges_document}

ASSUME IngestionAssumption ==
    /\ Upload \subseteq Nat /\ Exclusion \subseteq Nat
    /\ IsFiniteSet(Upload) /\ IsFiniteSet(Exclusion)
    /\ Matches \in [Pattern -> SUBSET Document]
    /\ Rule \subseteq RuleType /\ NoRule \notin Rule
    /\ ScanLimit \in Nat \ {0} /\ MaxRunning \in Nat \ {0}

VARIABLES
    rules,        \* noindex_rules
    versions,     \* document_metadata: the version of each document, 0 if none
    vector,       \* chunks in Qdrant
    keyword,      \* chunks in OpenSearch
    shown,        \* chunks its searches see: those of the last refresh
    upload,       \* the local state of each upload
    exclusion,    \* the local state of each exclusion
    \* Histories, of each upload:
    blocked,      \* segments blocked all the time it was running
    superseded,   \* uploads that were settled when it began
    \* and of each exclusion:
    published,    \* uploads that were settled when its rule was written
    before,       \* uploads that had begun by then
    overlooked,   \* documents with more hits than its purge looked at
    inforce       \* whether its rule is still the one of its pattern

stores == <<rules, versions, vector, keyword, shown>>
ruleHistory == <<published, before, overlooked, inforce>>
history == <<blocked, superseded, ruleHistory>>
vars == <<stores, upload, exclusion, history>>

Chunk == [document : Document, segment : Segment, by : Upload]
Of(d, chunks) == {x \in chunks : x.document = d}

NewUpload == [pc |-> "new", document |-> Unset, segments |-> {}, unchecked |-> {},
              included |-> {}, indexed |-> {}, previous |-> Unset]
NewExclusion == [pc |-> "new", pattern |-> Unset, rule |-> Unset, pending |-> {},
                 document |-> Unset, hits |-> {}]

\* A call that ends loses its local variables; what the histories need stays.
EndedUpload(u, pc) == [upload[u] EXCEPT
    !.pc = pc, !.segments = {}, !.unchecked = {}, !.included = {}, !.indexed = {}]
EndedExclusion(e, pc) == [exclusion[e] EXCEPT
    !.pc = pc, !.pending = {}, !.document = Unset, !.hits = {}]

Init ==
    /\ rules = [p \in Pattern |-> NoRule]
    /\ versions = [d \in Document |-> 0]
    /\ vector = {}
    /\ keyword = {}
    /\ shown = {}
    /\ upload = [u \in Upload |-> NewUpload]
    /\ exclusion = [e \in Exclusion |-> NewExclusion]
    /\ blocked = [u \in Upload |-> {}]
    /\ superseded = [u \in Upload |-> {}]
    /\ published = [e \in Exclusion |-> {}]
    /\ before = [e \in Exclusion |-> {}]
    /\ overlooked = [e \in Exclusion |-> {}]
    /\ inforce = [e \in Exclusion |-> FALSE]

Idle == {"new", "done", "refused", "failed"}
RunningUploads == {u \in Upload : upload[u].pc \notin Idle}
RunningExclusions == {e \in Exclusion : exclusion[e].pc \notin Idle}
CanBegin == Cardinality(RunningUploads) + Cardinality(RunningExclusions) < MaxRunning

\* is_excluded(source_id), and the segments is_excluded(source_id, locator)
\* excludes, under the rules rs.
RulesFor(rs, d) == {rs[p] : p \in {q \in Pattern : d \in Matches[q]}} \ {NoRule}
IsExcluded(d) == \E rule \in RulesFor(rules, d) : rule.whole
BlockedIn(rs, d) == UNION {rule.blocks : rule \in RulesFor(rs, d)}

\* The uploads that have ended, of documents that are known to have a version,
\* and whose chunks every search sees.
Settled ==
    {u \in Upload :
        /\ \/ upload[u].pc = "done"
           \/ upload[u].pc = "failed" /\ versions[upload[u].document] > 0
        /\ \A x \in keyword : x.by = u => x \in shown}

\* delete_by_query deletes the chunks it sees; at one that is gone already it
\* stops and raises ConflictError.
Conflict(d) == ~(Of(d, shown) \subseteq keyword)
DeleteByQuery(d) ==
    \E deleted \in SUBSET Of(d, shown) :
        /\ Conflict(d) \/ deleted = Of(d, shown)
        /\ keyword' = keyword \ deleted
-----------------------------------------------------------------------------
(***************************************************************************)
(* IngestDocument.execute                                                  *)
(***************************************************************************)
\* The whole document is checked first; an excluded one is refused.
Begin(u) ==
    /\ upload[u].pc = "new" /\ \A v \in Upload : v < u => upload[v].pc # "new"
    /\ CanBegin
    /\ \E d \in Document, s \in SUBSET Segment :
        /\ upload' = [upload EXCEPT ![u] =
            IF IsExcluded(d) THEN [@ EXCEPT !.pc = "refused"]
            ELSE [@ EXCEPT !.pc = "read_version", !.document = d,
                           !.segments = s, !.unchecked = s]]
        /\ blocked' = [blocked EXCEPT ![u] = IF IsExcluded(d) THEN {} ELSE BlockedIn(rules, d)]
    /\ superseded' = [superseded EXCEPT ![u] = Settled]
    /\ UNCHANGED <<stores, exclusion, ruleHistory>>

\* Slip: off by one, the second version does not purge the first.
ReadVersionLate(u) ==
    /\ upload[u].pc = "read_version"
    /\ LET v == versions[upload[u].document] IN
        upload' = [upload EXCEPT ![u] =
            [@ EXCEPT !.previous = v, !.pc = IF v > 1 THEN "purge_vector" ELSE "filter"]]
    /\ UNCHANGED <<stores, exclusion, history>>
ReadVersion(u) ==
    /\ upload[u].pc = "read_version"
    /\ LET v == versions[upload[u].document] IN
        upload' = [upload EXCEPT ![u] =
            [@ EXCEPT !.previous = v, !.pc = IF v > 0 THEN "purge_vector" ELSE "filter"]]
    /\ UNCHANGED <<stores, exclusion, history>>

PurgeVector(u) ==
    /\ upload[u].pc = "purge_vector"
    /\ vector' = vector \ Of(upload[u].document, vector)
    /\ upload' = [upload EXCEPT ![u].pc = "purge_keyword"]
    /\ UNCHANGED <<rules, versions, keyword, shown, exclusion, history>>

PurgeKeyword(u) ==
    /\ upload[u].pc = "purge_keyword"
    /\ DeleteByQuery(upload[u].document)
    /\ upload' = [upload EXCEPT ![u] =
        IF Conflict(upload[u].document) THEN EndedUpload(u, "failed")
        ELSE [@ EXCEPT !.pc = "filter"]]
    /\ UNCHANGED <<rules, versions, vector, shown, exclusion, history>>

\* Slip: a segment is only checked against whole-document rules.
CheckSegmentWhole(u) ==
    /\ upload[u].pc = "filter"
    /\ \E s \in upload[u].unchecked :
        upload' = [upload EXCEPT
            ![u].unchecked = @ \ {s},
            ![u].included = IF IsExcluded(upload[u].document) THEN @ ELSE @ \cup {s}]
    /\ UNCHANGED <<stores, exclusion, history>>
\* Each segment is checked against the rules of that moment.
CheckSegment(u) ==
    /\ upload[u].pc = "filter"
    /\ \E s \in upload[u].unchecked :
        upload' = [upload EXCEPT
            ![u].unchecked = @ \ {s},
            ![u].included = IF s \in BlockedIn(rules, upload[u].document)
                            THEN @ ELSE @ \cup {s}]
    /\ UNCHANGED <<stores, exclusion, history>>

ChunksOf(u, segments) ==
    {[document |-> upload[u].document, segment |-> s, by |-> u] : s \in segments}

\* Slip: the segments as they came go to the vector store.
UpsertAll(u) ==
    /\ upload[u].pc = "filter" /\ upload[u].unchecked = {}
    /\ vector' = vector \cup ChunksOf(u, upload[u].segments)
    /\ upload' = [upload EXCEPT ![u].pc = "index"]
    /\ UNCHANGED <<rules, versions, keyword, shown, exclusion, history>>
\* Slip: nothing is done, and nothing follows, when there is no chunk.
UpsertSome(u) ==
    /\ upload[u].pc = "filter" /\ upload[u].unchecked = {} /\ upload[u].included # {}
    /\ vector' = vector \cup ChunksOf(u, upload[u].included)
    /\ upload' = [upload EXCEPT ![u].pc = "index"]
    /\ UNCHANGED <<rules, versions, keyword, shown, exclusion, history>>
\* The chunks are embedded and upserted in one call; none, if nothing is left.
Upsert(u) ==
    /\ upload[u].pc = "filter" /\ upload[u].unchecked = {}
    /\ vector' = vector \cup ChunksOf(u, upload[u].included)
    /\ upload' = [upload EXCEPT ![u].pc = "index"]
    /\ UNCHANGED <<rules, versions, keyword, shown, exclusion, history>>

\* Slip: the segments as they came go to the keyword index.
IndexAny(u) ==
    /\ upload[u].pc = "index"
    /\ \E s \in upload[u].segments \ upload[u].indexed :
        /\ keyword' = keyword \cup ChunksOf(u, {s})
        /\ upload' = [upload EXCEPT ![u].indexed = @ \cup {s}]
    /\ UNCHANGED <<rules, versions, vector, shown, exclusion, history>>
\* The keyword index takes one chunk per call.
Index(u) ==
    /\ upload[u].pc = "index"
    /\ \E s \in upload[u].included \ upload[u].indexed :
        /\ keyword' = keyword \cup ChunksOf(u, {s})
        /\ upload' = [upload EXCEPT ![u].indexed = @ \cup {s}]
    /\ UNCHANGED <<rules, versions, vector, shown, exclusion, history>>

SaveMetadata(u) ==
    /\ upload[u].pc = "index" /\ upload[u].indexed = upload[u].included
    /\ versions' = [versions EXCEPT ![upload[u].document] = upload[u].previous + 1]
    /\ upload' = [upload EXCEPT ![u] = EndedUpload(u, "done")]
    /\ UNCHANGED <<rules, vector, keyword, shown, exclusion, history>>
-----------------------------------------------------------------------------
(***************************************************************************)
(* ManageNoIndexRules                                                      *)
(***************************************************************************)
\* History: what stays blocked for the uploads in progress when the rules
\* become rs.
StillBlocked(rs) ==
    [u \in Upload |-> IF u \in RunningUploads
                      THEN blocked[u] \cap BlockedIn(rs, upload[u].document)
                      ELSE blocked[u]]

\* exclude: the rule is written first; it replaces one with the same pattern.
AddRule(e) ==
    /\ exclusion[e].pc = "new" /\ \A f \in Exclusion : f < e => exclusion[f].pc # "new"
    /\ CanBegin
    /\ \E p \in Pattern, rule \in Rule :
        /\ rules' = [rules EXCEPT ![p] = rule]
        /\ exclusion' = [exclusion EXCEPT ![e] =
            [@ EXCEPT !.pc = "list", !.pattern = p, !.rule = rule]]
        /\ inforce' = [f \in Exclusion |-> f = e \/ (inforce[f] /\ exclusion[f].pattern # p)]
    /\ blocked' = StillBlocked(rules')
    /\ published' = [published EXCEPT ![e] = Settled]
    /\ before' = [before EXCEPT ![e] = {u \in Upload : upload[u].pc # "new"}]
    /\ UNCHANGED <<versions, vector, keyword, shown, upload, superseded, overlooked>>

\* Slip: off by one, a document in its first version is not listed.
ListDocumentsLate(e) ==
    /\ exclusion[e].pc = "list"
    /\ exclusion' = [exclusion EXCEPT ![e] =
        [@ EXCEPT !.pc = "purge",
                  !.pending = {d \in Matches[exclusion[e].pattern] : versions[d] > 1}]]
    /\ UNCHANGED <<stores, upload, history>>
\* list_all knows the documents with saved metadata, and no other.
ListDocuments(e) ==
    /\ exclusion[e].pc = "list"
    /\ exclusion' = [exclusion EXCEPT ![e] =
        [@ EXCEPT !.pc = "purge",
                  !.pending = {d \in Matches[exclusion[e].pattern] : versions[d] > 0}]]
    /\ UNCHANGED <<stores, upload, history>>

\* What delete_by_document or delete_by_locator is to remove of d.
Condemned(rule, d, chunks) ==
    {x \in Of(d, chunks) : rule.purges_document \/ x.segment \in rule.blocks}

\* What it looks at: delete_by_locator asks an index for the chunks of the
\* document and the kind and gets a page of at most ScanLimit of them.
Candidates(rule, d, chunks) == {x \in Of(d, chunks) : x.segment \in rule.scans}
Exceeds(rule, d, chunks) ==
    ~rule.purges_document /\ Cardinality(Candidates(rule, d, chunks)) > ScanLimit
Pages(rule, d, chunks) ==
    IF Exceeds(rule, d, chunks) THEN kSubset(ScanLimit, Candidates(rule, d, chunks))
    ELSE {Condemned(rule, d, chunks)}
Overlook(e, d, chunks) ==
    overlooked' = [overlooked EXCEPT ![e] =
        IF Exceeds(exclusion[e].rule, d, chunks) THEN @ \cup {d} ELSE @]

\* Slip: only the vector store is purged.
PurgeVectorOnly(e) ==
    /\ exclusion[e].pc = "purge"
    /\ \E d \in exclusion[e].pending :
        /\ vector' = vector \ Condemned(exclusion[e].rule, d, vector)
        /\ exclusion' = [exclusion EXCEPT ![e].pending = @ \ {d}]
    /\ UNCHANGED <<rules, versions, keyword, shown, upload, history>>
\* The next document, in the vector store.  Its delete_by_locator scrolls and
\* then deletes by id; a chunk that comes in between is as good as one that
\* comes after both, so they are one step.
PurgeNext(e) ==
    /\ exclusion[e].pc = "purge"
    /\ \E d \in exclusion[e].pending :
        /\ \E page \in Pages(exclusion[e].rule, d, vector) :
            vector' = vector \ Condemned(exclusion[e].rule, d, page)
        /\ Overlook(e, d, vector)
        /\ exclusion' = [exclusion EXCEPT
            ![e].pc = "search", ![e].document = d, ![e].pending = @ \ {d}]
    /\ UNCHANGED <<rules, versions, keyword, shown, upload,
                   blocked, superseded, published, before, inforce>>

\* delete_by_document is one call to the keyword index.
DeleteDocument(e) ==
    /\ exclusion[e].pc = "search" /\ exclusion[e].rule.purges_document
    /\ DeleteByQuery(exclusion[e].document)
    /\ exclusion' = [exclusion EXCEPT ![e] =
        IF Conflict(exclusion[e].document) THEN EndedExclusion(e, "failed")
        ELSE [@ EXCEPT !.pc = "purge"]]
    /\ UNCHANGED <<rules, versions, vector, shown, upload, history>>

\* delete_by_locator searches once, then deletes the hits one by one; a hit that
\* is gone by then raises NotFoundError.
SearchHits(e) ==
    /\ exclusion[e].pc = "search" /\ ~exclusion[e].rule.purges_document
    /\ LET d == exclusion[e].document IN
        /\ \E page \in Pages(exclusion[e].rule, d, shown) :
            exclusion' = [exclusion EXCEPT ![e] =
                [@ EXCEPT !.pc = "delete", !.hits = Condemned(exclusion[e].rule, d, page)]]
        /\ Overlook(e, d, shown)
    /\ UNCHANGED <<stores, upload, blocked, superseded, published, before, inforce>>
DeleteHit(e) ==
    /\ exclusion[e].pc = "delete"
    /\ \E x \in exclusion[e].hits :
        /\ keyword' = keyword \ {x}
        /\ exclusion' = [exclusion EXCEPT ![e] =
            IF x \notin keyword THEN EndedExclusion(e, "failed")
            ELSE [exclusion[e] EXCEPT !.hits = @ \ {x}]]
    /\ UNCHANGED <<rules, versions, vector, shown, upload, history>>
HitsDeleted(e) ==
    /\ exclusion[e].pc = "delete" /\ exclusion[e].hits = {}
    /\ exclusion' = [exclusion EXCEPT ![e].pc = "purge"]
    /\ UNCHANGED <<stores, upload, history>>

EndExclusion(e) ==
    /\ exclusion[e].pc = "purge" /\ exclusion[e].pending = {}
    /\ exclusion' = [exclusion EXCEPT ![e] = EndedExclusion(e, "done")]
    /\ UNCHANGED <<stores, upload, history>>

\* include: the rule is removed and nothing is indexed again.
Include(p) ==
    /\ rules[p] # NoRule
    /\ rules' = [rules EXCEPT ![p] = NoRule]
    /\ blocked' = StillBlocked(rules')
    /\ inforce' = [e \in Exclusion |-> inforce[e] /\ exclusion[e].pattern # p]
    /\ UNCHANGED <<versions, vector, keyword, shown, upload, exclusion,
                   superseded, published, before, overlooked>>

\* OpenSearch refreshes on its own, every second by default.
Refresh ==
    /\ shown # keyword
    /\ shown' = keyword
    /\ UNCHANGED <<rules, versions, vector, keyword, upload, exclusion, history>>

\* A store or the embedder raises, or the process dies: what was done stays.
FailUpload(u) ==
    /\ u \in RunningUploads
    /\ upload' = [upload EXCEPT ![u] = EndedUpload(u, "failed")]
    /\ UNCHANGED <<stores, exclusion, history>>
FailExclusion(e) ==
    /\ e \in RunningExclusions
    /\ exclusion' = [exclusion EXCEPT ![e] = EndedExclusion(e, "failed")]
    /\ UNCHANGED <<stores, upload, history>>

UploadStep(u) ==
    \/ ReadVersion(u) \/ PurgeVector(u) \/ PurgeKeyword(u) \/ CheckSegment(u)
    \/ Upsert(u) \/ Index(u) \/ SaveMetadata(u)
ExclusionStep(e) ==
    \/ ListDocuments(e) \/ PurgeNext(e) \/ DeleteDocument(e) \/ SearchHits(e)
    \/ DeleteHit(e) \/ HitsDeleted(e) \/ EndExclusion(e)

Next ==
    \/ \E u \in Upload : Begin(u) \/ UploadStep(u) \/ FailUpload(u)
    \/ \E e \in Exclusion : AddRule(e) \/ ExclusionStep(e) \/ FailExclusion(e)
    \/ \E p \in Pattern : Include(p)
    \/ Refresh

\* A call that has begun goes on when its await is over; nobody has to begin one,
\* and nothing waits for a refresh.
Fairness ==
    /\ \A u \in Upload : WF_vars(UploadStep(u))
    /\ \A e \in Exclusion : WF_vars(ExclusionStep(e))
Spec == Init /\ [][Next]_vars /\ Fairness
-----------------------------------------------------------------------------
(***************************************************************************)
(* Properties                                                              *)
(***************************************************************************)
UploadState ==
    [pc : Idle \cup {"read_version", "purge_vector", "purge_keyword", "filter", "index"},
     document : Document \cup {Unset}, segments : SUBSET Segment,
     unchecked : SUBSET Segment, included : SUBSET Segment, indexed : SUBSET Segment,
     previous : Nat \cup {Unset}]
ExclusionState ==
    [pc : Idle \cup {"list", "purge", "search", "delete"}, pattern : Pattern \cup {Unset},
     rule : Rule \cup {Unset}, pending : SUBSET Document,
     document : Document \cup {Unset}, hits : SUBSET Chunk]

\* Every variable has its type, and the local sets are nested as the loops
\* that fill them say.
TypeOK ==
    /\ rules \in [Pattern -> Rule \cup {NoRule}]
    /\ versions \in [Document -> Nat]
    /\ vector \subseteq Chunk /\ keyword \subseteq Chunk /\ shown \subseteq Chunk
    /\ upload \in [Upload -> UploadState]
    /\ exclusion \in [Exclusion -> ExclusionState]
    /\ blocked \in [Upload -> SUBSET Segment]
    /\ superseded \in [Upload -> SUBSET Upload]
    /\ published \in [Exclusion -> SUBSET Upload]
    /\ before \in [Exclusion -> SUBSET Upload]
    /\ overlooked \in [Exclusion -> SUBSET Document]
    /\ inforce \in [Exclusion -> BOOLEAN]
    /\ \A u \in Upload : upload[u].indexed \subseteq upload[u].included

\* Hybrid retrieval fuses both indexes, so a search can return any of these, as
\* soon as the keyword index has refreshed.
Searchable == vector \cup keyword

\* Whatever else runs or fails: once a re-upload has stored a chunk, and at the
\* latest when it has succeeded, nothing is left of the uploads of the document
\* that were settled when it began.  (Of those that were not, something may be:
\* see DocumentNeverMixed.)
NeverMixed ==
    \A u \in Upload :
        upload[u].pc = "done" \/ (\E x \in Searchable : x.by = u) =>
            \A y \in Of(upload[u].document, Searchable) : y.by \notin superseded[u]

\* ingest_document.py:4-6: "search results never mix stale and current content
\* for the same document".  Uploads that overlap do, and so does the one after a
\* first upload that failed once it had stored a chunk: the document has no
\* version yet, so nothing is purged.
DocumentNeverMixed ==
    \A x, y \in Searchable : x.document = y.document => x.by = y.by

\* Whatever else runs or fails: as long as a rule is in force, what it blocks is
\* only found of uploads that began before the rule was written, and once its
\* exclusion has succeeded, not of those that were settled then
\* (manage_noindex_rules.py:43-46, ARCHITECTURE.md:279).  The filter on the way
\* in and the purge complement each other, but for an upload that overlaps the
\* exclusion and a document of more than ScanLimit chunks.
ExcludedIsGone ==
    \A e \in Exclusion : inforce[e] =>
        \A x \in Searchable :
            x.document \in Matches[exclusion[e].pattern] /\ x.segment \in exclusion[e].rule.blocks =>
                /\ x.by \in before[e]
                /\ exclusion[e].pc = "done" /\ x.document \notin overlooked[e] =>
                        x.by \notin published[e]

\* Whatever else runs or fails: a segment that was blocked from the beginning
\* of an upload to its end is not indexed by it.
BlockedNeverIndexed == \A x \in Searchable : x.segment \notin blocked[x.by]

\* Whatever else runs or fails: once an exclusion has succeeded, nothing it
\* condemns is left of the uploads that were settled when its rule was written,
\* whatever became of the rule - but of a document that has more chunks than a
\* purge looks at, which the comment of qdrant_store.py:96-98 does not except.
PurgeReachesPublished ==
    \A e \in Exclusion : exclusion[e].pc = "done" =>
        \A d \in Matches[exclusion[e].pattern] \ overlooked[e] :
            \A x \in Condemned(exclusion[e].rule, d, Searchable) : x.by \notin published[e]

\* An upload or an exclusion that has begun ends.
EveryCallEnds ==
    /\ \A u \in Upload : u \in RunningUploads ~> u \notin RunningUploads
    /\ \A e \in Exclusion : e \in RunningExclusions ~> e \notin RunningExclusions
=============================================================================
