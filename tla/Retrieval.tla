----------------------------- MODULE Retrieval -----------------------------
(***************************************************************************)
(* RagSearchTool.search against the knowledge base of Ingestion: the two   *)
(* indexes are queried one after the other, each with the filters on       *)
(* audience and expiry, while uploads and exclusions go on; the two lists  *)
(* are fused by reciprocal rank, cut, and reranked.                        *)
(*                                                                         *)
(* How similar a chunk is to a query is the environment's choice, so a     *)
(* query answers with any ranking of chunks that pass its filters.         *)
(*                                                                         *)
(* A definition commented as a slip is no part of the specification: it is *)
(* the definition below it with a plausible mistake in it.                 *)
(***************************************************************************)
EXTENDS Ingestion, Sequences, SequencesExt

CONSTANTS
    Search,           \* calls of RagSearchTool.search
    InternalUpload,   \* uploads whose audience is INTERNAL
    ExpiringUpload,   \* uploads with a valid_until
    RankConstant,     \* k of _reciprocal_rank_fusion
    CandidatePool,    \* hits asked of each index, and candidates kept
    TopK              \* chunks the reranker returns at most

\* The defaults are 60, 15 and 5.
ASSUME RetrievalAssumption ==
    /\ InternalUpload \subseteq Upload /\ ExpiringUpload \subseteq Upload
    /\ RankConstant \in Nat /\ CandidatePool \in Nat \ {0} /\ TopK \in Nat \ {0}
    /\ CandidatePool < RankConstant + 2

VARIABLES
    search,      \* the local state of each search
    lapsed       \* uploads whose valid_until is over

retrievalVars == <<search, lapsed>>
allVars == <<vars, retrievalVars>>

\* `gone` and `barred` are histories: what had been removed for every search to
\* see, and what this caller must not see, when the search began.
NewSearch == [pc |-> "new", authenticated |-> FALSE, vector_hits |-> <<>>,
              keyword_hits |-> <<>>, candidates |-> <<>>, found |-> {},
              gone |-> {}, barred |-> {}]

RetrievalInit ==
    /\ Init
    /\ search = [q \in Search |-> NewSearch]
    /\ lapsed = {}
-----------------------------------------------------------------------------
(***************************************************************************)
(* Reciprocal rank fusion.  Scores are fractions; a chunk of one list has  *)
(* 1 / (k + rank), one of both the sum of two of these, ranks from 1.      *)
(***************************************************************************)
RankIn(list, x) == CHOOSE i \in DOMAIN list : list[i] = x
Weight(list, x) == RankConstant + RankIn(list, x)
Score(v, w, x) ==
    IF x \in Range(v) /\ x \in Range(w)
    THEN [num |-> Weight(v, x) + Weight(w, x), den |-> Weight(v, x) * Weight(w, x)]
    ELSE [num |-> 1, den |-> IF x \in Range(v) THEN Weight(v, x) ELSE Weight(w, x)]

\* What is sorted: the score of every hit, and when it was first inserted.
Entries(v, w) ==
    [x \in Range(v) \cup Range(w) |->
        [score |-> Score(v, w, x),
         inserted |-> IF x \in Range(v) THEN RankIn(v, x) ELSE Len(v) + RankIn(w, x)]]

Above(s, t) == s.num * t.den > t.num * s.den
\* sorted is stable: equal scores stay in the order of first insertion.
Precedes(a, b) ==
    \/ Above(a.score, b.score)
    \/ ~Above(b.score, a.score) /\ a.inserted < b.inserted
\* A hit's place is after all that precede it.
Before(entries, x) == {y \in DOMAIN entries : Precedes(entries[y], entries[x])}
Sorted(entries) ==
    LET place == [x \in DOMAIN entries |-> Cardinality(Before(entries, x)) + 1]
    IN [k \in 1 .. Cardinality(DOMAIN entries) |->
            CHOOSE x \in DOMAIN entries : place[x] = k]

\* Slip: the second list overwrites the scores of the first.
FusedOverwriting(v, w) ==
    LET entries == Entries(v, w)
        Latest(x) == [num |-> 1, den |-> IF x \in Range(w) THEN Weight(w, x) ELSE Weight(v, x)]
    IN Sorted([x \in DOMAIN entries |-> [entries[x] EXCEPT !.score = Latest(x)]])
Fused(v, w) == Sorted(Entries(v, w))
-----------------------------------------------------------------------------
(***************************************************************************)
(* The search                                                              *)
(***************************************************************************)
\* What must not leave a store: the expired, and the internal for an anonymous
\* caller.
Barred(q) == lapsed \cup (IF search[q].authenticated THEN {} ELSE InternalUpload)
Visible(q, chunks) == {x \in chunks : x.by \notin Barred(q)}

\* Any ranking of some of the chunks; score_threshold and the query text decide
\* which, and the limit is top_k.
Rankings(chunks) ==
    {s \in UNION {[1 .. n -> chunks] : n \in 0 .. CandidatePool} : IsInjective(s)}

\* What the operations that are done removed from the stores: chunks of uploads
\* an upload replaced, and of those an exclusion condemned and looked at.
Removed ==
    {x \in Chunk :
        \/ \E u \in Upload : /\ upload[u].pc = "done" /\ upload[u].document = x.document
                             /\ x.by \in superseded[u]
        \/ \E e \in Exclusion : /\ exclusion[e].pc = "done" /\ x.by \in published[e]
                                /\ x.document \in Matches[exclusion[e].pattern]
                                /\ x.document \notin overlooked[e]
                                /\ x \in Condemned(exclusion[e].rule, x.document, {x})}

\* The registry, and with it the audiences, is built per request.  Embedding
\* the query comes first and touches nothing shared.
BeginSearch(q) ==
    /\ search[q].pc = "new"
    /\ \E authenticated \in BOOLEAN :
        search' = [search EXCEPT ![q] =
            [@ EXCEPT !.pc = "query_vector", !.authenticated = authenticated,
                      !.gone = Removed \ shown,
                      !.barred = lapsed \cup (IF authenticated THEN {} ELSE InternalUpload)]]
    /\ UNCHANGED <<vars, lapsed>>

QueryVector(q) ==
    /\ search[q].pc = "query_vector"
    /\ \E hits \in Rankings(Visible(q, vector)) :
        search' = [search EXCEPT ![q] =
            [@ EXCEPT !.pc = "query_keyword", !.vector_hits = hits]]
    /\ UNCHANGED <<vars, lapsed>>

\* Slip: the expiry filter is on the vector side only.
QueryKeywordLapsed(q) ==
    /\ search[q].pc = "query_keyword"
    /\ \E hits \in Rankings({x \in shown : search[q].authenticated \/ x.by \notin InternalUpload}) :
        LET fused == Fused(search[q].vector_hits, hits) IN
        search' = [search EXCEPT ![q] =
            [@ EXCEPT !.pc = "rerank", !.keyword_hits = hits,
                      !.candidates = SubSeq(fused, 1, Min({CandidatePool, Len(fused)}))]]
    /\ UNCHANGED <<vars, lapsed>>
QueryKeyword(q) ==
    /\ search[q].pc = "query_keyword"
    /\ \E hits \in Rankings(Visible(q, shown)) :
        LET fused == Fused(search[q].vector_hits, hits) IN
        search' = [search EXCEPT ![q] =
            [@ EXCEPT !.pc = "rerank", !.keyword_hits = hits,
                      !.candidates = SubSeq(fused, 1, Min({CandidatePool, Len(fused)}))]]
    /\ UNCHANGED <<vars, lapsed>>

\* The cross-encoder may rank the candidates in any way; the first TopK are
\* cited.
Rerank(q) ==
    /\ search[q].pc = "rerank"
    /\ \E best \in kSubset(Min({TopK, Len(search[q].candidates)}), Range(search[q].candidates)) :
        search' = [search EXCEPT ![q] =
            [@ EXCEPT !.pc = "done", !.found = best, !.vector_hits = <<>>,
                      !.keyword_hits = <<>>, !.candidates = <<>>]]
    /\ UNCHANGED <<vars, lapsed>>

\* An index, the embedder or the reranker raises: run answers with an error.
FailSearch(q) ==
    /\ search[q].pc \notin Idle
    /\ search' = [search EXCEPT ![q] = [NewSearch EXCEPT !.pc = "failed"]]
    /\ UNCHANGED <<vars, lapsed>>

\* Midnight of valid_until goes by.
Lapse(u) ==
    /\ u \notin lapsed
    /\ lapsed' = lapsed \cup {u}
    /\ UNCHANGED <<vars, search>>

\* An upload, an exclusion, a rule's removal or a refresh takes a step.
KnowledgeStep ==
    /\ Next
    /\ UNCHANGED retrievalVars

RetrievalNext ==
    \/ KnowledgeStep
    \/ \E q \in Search :
        \/ BeginSearch(q) \/ QueryVector(q) \/ QueryKeyword(q) \/ Rerank(q) \/ FailSearch(q)
    \/ \E u \in ExpiringUpload : Lapse(u)

RetrievalSpec == RetrievalInit /\ [][RetrievalNext]_allVars
-----------------------------------------------------------------------------
(***************************************************************************)
(* Properties                                                              *)
(***************************************************************************)
\* Whatever runs while a search is under way: what it cites was, when it began,
\* neither expired nor closed to its caller - on whichever index it was found
\* (opensearch_index.py:7-10, vector_store.py:36-41).
FoundWasVisible ==
    \A q \in Search : \A x \in search[q].found : x.by \notin search[q].barred

\* Whatever runs or fails besides: a search that begins after a re-upload or an
\* exclusion has succeeded cites nothing that they removed, once the keyword
\* index has been refreshed.
RemovedIsNotFound ==
    \A q \in Search : search[q].found \cap search[q].gone = {}

\* What both indexes return is never cut away: it is handed to the reranker,
\* however far down either list it is and whatever leads them.  That is the
\* reason for fusing by rank; it needs a pool smaller than k + 2.
AgreedReachesReranker ==
    \A q \in Search : search[q].pc = "rerank" =>
        Range(search[q].vector_hits) \cap Range(search[q].keyword_hits)
            \subseteq Range(search[q].candidates)
=============================================================================
