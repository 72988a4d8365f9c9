-------------------------- MODULE IngestionProofs --------------------------
(***************************************************************************)
(* Theorems about Ingestion, for any documents, rules, numbers of uploads  *)
(* and exclusions, any number of them at once, failing anywhere.           *)
(***************************************************************************)
EXTENDS Ingestion, FiniteSetTheorems, TLAPS

(***************************************************************************)
(* Type correctness: TypeOK lets every local variable be unset; what a     *)
(* call has at each point makes it inductive.                              *)
(***************************************************************************)
Steps == {"read_version", "purge_vector", "purge_keyword", "filter", "index"}
UploadFormed(x) ==
    /\ x.pc \in Steps \cup {"done", "failed"} => x.document \in Document
    /\ x.pc \in Steps \ {"read_version"} => x.previous \in Nat
ExclusionFormed(x) ==
    /\ x.pc # "new" => x.pattern \in Pattern /\ x.rule \in Rule
    /\ x.pc \in {"search", "delete"} => x.document \in Document
TypeInv ==
    /\ TypeOK
    /\ \A u \in Upload : UploadFormed(upload[u])
    /\ \A e \in Exclusion : ExclusionFormed(exclusion[e])

\* Chunks of an upload are chunks.
LEMMA ChunksOfType ==
    ASSUME NEW u \in Upload, upload[u].document \in Document, NEW s \in SUBSET Segment
    PROVE  ChunksOf(u, s) \subseteq Chunk
BY DEF ChunksOf, Chunk

\* What is blocked are segments.
LEMMA BlockedType ==
    ASSUME NEW rs \in [Pattern -> Rule \cup {NoRule}], NEW d
    PROVE  BlockedIn(rs, d) \subseteq Segment
<1>1. RulesFor(rs, d) \subseteq Rule
  BY DEF RulesFor
<1>2. \A rule \in Rule : rule.blocks \subseteq Segment
  BY IngestionAssumption DEF RuleType
<1> QED
  BY <1>1, <1>2 DEF BlockedIn

LEMMA StillBlockedType ==
    ASSUME blocked \in [Upload -> SUBSET Segment], NEW rs
    PROVE  StillBlocked(rs) \in [Upload -> SUBSET Segment]
BY DEF StillBlocked

\* A page holds chunks of the index, and what is overlooked are documents.
LEMMA PagesWithin ==
    ASSUME NEW rule, NEW d, NEW chunks, NEW page \in Pages(rule, d, chunks)
    PROVE  page \subseteq chunks
BY DEF Pages, Condemned, Candidates, Of, kSubset
LEMMA OverlookType ==
    ASSUME overlooked \in [Exclusion -> SUBSET Document], NEW e \in Exclusion,
           NEW d \in Document, NEW chunks, Overlook(e, d, chunks)
    PROVE  overlooked' \in [Exclusion -> SUBSET Document]
BY DEF Overlook

\* A step that leaves an upload in its type, and every other as it was.
LEMMA UploadTyping ==
    ASSUME TypeInv, NEW u \in Upload, NEW x \in UploadState, UploadFormed(x),
           x.indexed \subseteq x.included, upload' = [upload EXCEPT ![u] = x]
    PROVE  /\ upload' \in [Upload -> UploadState]
           /\ \A v \in Upload : UploadFormed(upload'[v]) /\ upload'[v].indexed \subseteq upload'[v].included
BY DEF TypeInv, TypeOK

LEMMA ExclusionTyping ==
    ASSUME TypeInv, NEW e \in Exclusion, NEW x \in ExclusionState, ExclusionFormed(x),
           exclusion' = [exclusion EXCEPT ![e] = x]
    PROVE  /\ exclusion' \in [Exclusion -> ExclusionState]
           /\ \A f \in Exclusion : ExclusionFormed(exclusion'[f])
BY DEF TypeInv, TypeOK

\* An upload that ends keeps its document and previous version.
LEMMA EndedUploadType ==
    ASSUME TypeInv, NEW u \in Upload, upload[u].pc \in Steps, NEW pc \in {"done", "failed"}
    PROVE  /\ EndedUpload(u, pc) \in UploadState /\ UploadFormed(EndedUpload(u, pc))
           /\ EndedUpload(u, pc).indexed \subseteq EndedUpload(u, pc).included
<1> DEFINE x == upload[u]
<1>1. x \in UploadState /\ UploadFormed(x)
  BY DEF TypeInv, TypeOK
<1>2. EndedUpload(u, pc) = [x EXCEPT
        !.pc = pc, !.segments = {}, !.unchecked = {}, !.included = {}, !.indexed = {}]
  BY DEF EndedUpload
<1> HIDE DEF x
<1>3. EndedUpload(u, pc) \in UploadState
  BY <1>1, <1>2 DEF UploadState, Idle
<1>4. /\ EndedUpload(u, pc).pc = pc /\ EndedUpload(u, pc).document = x.document
      /\ EndedUpload(u, pc).indexed = {}
  BY <1>1, <1>2 DEF UploadState
<1>5. x.pc \in Steps
  BY DEF x
<1> QED
  BY <1>1, <1>3, <1>4, <1>5 DEF UploadFormed, Steps

LEMMA EndedExclusionType ==
    ASSUME TypeInv, NEW e \in Exclusion, exclusion[e].pc # "new", NEW pc \in {"done", "failed"}
    PROVE  EndedExclusion(e, pc) \in ExclusionState /\ ExclusionFormed(EndedExclusion(e, pc))
BY ZenonT(60) DEF TypeInv, TypeOK, ExclusionState, ExclusionFormed, EndedExclusion, Idle

\* The steps of an upload keep the types.
LEMMA UploadStepType ==
    ASSUME TypeInv, NEW u \in Upload, Begin(u) \/ UploadStep(u) \/ FailUpload(u)
    PROVE  TypeInv'
<1>0. /\ upload[u] \in UploadState /\ UploadFormed(upload[u])
      /\ upload[u].indexed \subseteq upload[u].included
  BY DEF TypeInv, TypeOK
<1>1. CASE Begin(u)
  <2>1. PICK d \in Document, s \in SUBSET Segment :
            /\ upload' = [upload EXCEPT ![u] =
                IF IsExcluded(d) THEN [@ EXCEPT !.pc = "refused"]
                ELSE [@ EXCEPT !.pc = "read_version", !.document = d,
                               !.segments = s, !.unchecked = s]]
            /\ blocked' = [blocked EXCEPT ![u] = IF IsExcluded(d) THEN {} ELSE BlockedIn(rules, d)]
    BY <1>1 DEF Begin
  <2> DEFINE x == IF IsExcluded(d) THEN [upload[u] EXCEPT !.pc = "refused"]
                  ELSE [upload[u] EXCEPT !.pc = "read_version", !.document = d,
                               !.segments = s, !.unchecked = s]
  <2>2. x \in UploadState /\ UploadFormed(x) /\ x.indexed \subseteq x.included
    BY <1>0, <1>1 DEF Begin, UploadState, UploadFormed, Steps, Idle
  <2>3. upload' = [upload EXCEPT ![u] = x]
    BY <2>1
  <2>4. BlockedIn(rules, d) \subseteq Segment
    BY BlockedType DEF TypeInv, TypeOK
  <2>5. blocked' \in [Upload -> SUBSET Segment]
    BY <2>1, <2>4 DEF TypeInv, TypeOK
  <2>6. superseded' \in [Upload -> SUBSET Upload]
    BY <1>1 DEF Begin, Settled, TypeInv, TypeOK
  <2> HIDE DEF x
  <2> QED
    BY <1>1, <2>2, <2>3, <2>5, <2>6, UploadTyping DEF Begin, TypeInv, TypeOK, stores, ruleHistory
<1>2. CASE ReadVersion(u)
  <2> DEFINE v == versions[upload[u].document]
             x == [upload[u] EXCEPT !.previous = v,
                                    !.pc = IF v > 0 THEN "purge_vector" ELSE "filter"]
  <2>1. v \in Nat
    BY <1>0, <1>2 DEF ReadVersion, TypeInv, TypeOK, UploadFormed, Steps
  <2>2. x \in UploadState /\ UploadFormed(x) /\ x.indexed \subseteq x.included
    BY <1>0, <1>2, <2>1 DEF ReadVersion, UploadState, UploadFormed, Steps, Idle
  <2>3. upload' = [upload EXCEPT ![u] = x]
    BY <1>2 DEF ReadVersion
  <2> HIDE DEF x
  <2> QED
    BY <1>2, <2>2, <2>3, UploadTyping DEF ReadVersion, TypeInv, TypeOK, stores, history, ruleHistory
<1>3. CASE PurgeVector(u)
  <2> DEFINE x == [upload[u] EXCEPT !.pc = "purge_keyword"]
  <2>1. x \in UploadState /\ UploadFormed(x) /\ x.indexed \subseteq x.included
    BY <1>0, <1>3 DEF PurgeVector, UploadState, UploadFormed, Steps, Idle
  <2>2. upload' = [upload EXCEPT ![u] = x]
    BY <1>3 DEF PurgeVector
  <2> HIDE DEF x
  <2> QED
    BY <1>3, <2>1, <2>2, UploadTyping DEF PurgeVector, TypeInv, TypeOK, history, ruleHistory
<1>4. CASE PurgeKeyword(u)
  <2> DEFINE next == [upload[u] EXCEPT !.pc = "filter"]
             x == IF Conflict(upload[u].document) THEN EndedUpload(u, "failed") ELSE next
  <2>1. next \in UploadState /\ UploadFormed(next) /\ next.indexed \subseteq next.included
    BY <1>0, <1>4 DEF PurgeKeyword, UploadState, UploadFormed, Steps, Idle
  <2>2. /\ EndedUpload(u, "failed") \in UploadState /\ UploadFormed(EndedUpload(u, "failed"))
        /\ EndedUpload(u, "failed").indexed \subseteq EndedUpload(u, "failed").included
    BY <1>4, EndedUploadType DEF PurgeKeyword, Steps
  <2>3. upload' = [upload EXCEPT ![u] = x]
    BY <1>4 DEF PurgeKeyword
  <2> HIDE DEF next
  <2>4. x \in UploadState /\ UploadFormed(x) /\ x.indexed \subseteq x.included
    BY <2>1, <2>2
  <2>5. keyword' \subseteq keyword
    BY <1>4 DEF PurgeKeyword, DeleteByQuery
  <2> HIDE DEF x
  <2> QED
    BY <1>4, <2>3, <2>4, <2>5, UploadTyping DEF PurgeKeyword, TypeInv, TypeOK, history, ruleHistory
<1>5. CASE CheckSegment(u)
  <2> DEFINE x(s) == [upload[u] EXCEPT !.unchecked = @ \ {s},
                          !.included = IF s \in BlockedIn(rules, upload[u].document)
                                       THEN @ ELSE @ \cup {s}]
  <2>1. PICK s \in upload[u].unchecked : upload' = [upload EXCEPT ![u] = x(s)]
    BY <1>5 DEF CheckSegment
  <2>2. x(s) \in UploadState /\ UploadFormed(x(s)) /\ x(s).indexed \subseteq x(s).included
    BY <1>0, <1>5 DEF CheckSegment, UploadState, UploadFormed, Steps, Idle
  <2> HIDE DEF x
  <2> QED
    BY <1>5, <2>1, <2>2, UploadTyping DEF CheckSegment, TypeInv, TypeOK, stores, history, ruleHistory
<1>6. CASE Upsert(u)
  <2> DEFINE x == [upload[u] EXCEPT !.pc = "index"]
  <2>1. x \in UploadState /\ UploadFormed(x) /\ x.indexed \subseteq x.included
    BY <1>0, <1>6 DEF Upsert, UploadState, UploadFormed, Steps, Idle
  <2>2. upload' = [upload EXCEPT ![u] = x]
    BY <1>6 DEF Upsert
  <2>3. ChunksOf(u, upload[u].included) \subseteq Chunk
    BY <1>0, <1>6, ChunksOfType DEF Upsert, UploadState, UploadFormed, Steps
  <2> HIDE DEF x
  <2> QED
    BY <1>6, <2>1, <2>2, <2>3, UploadTyping DEF Upsert, TypeInv, TypeOK, history, ruleHistory
<1>7. CASE Index(u)
  <2>1. PICK s \in upload[u].included \ upload[u].indexed :
            /\ keyword' = keyword \cup ChunksOf(u, {s})
            /\ upload' = [upload EXCEPT ![u].indexed = @ \cup {s}]
    BY <1>7 DEF Index
  <2> DEFINE x == [upload[u] EXCEPT !.indexed = @ \cup {s}]
  <2>2. x \in UploadState /\ UploadFormed(x) /\ x.indexed \subseteq x.included
    BY <1>0, <1>7 DEF Index, UploadState, UploadFormed, Steps, Idle
  <2>3. upload' = [upload EXCEPT ![u] = x]
    BY <2>1
  <2>4. ChunksOf(u, {s}) \subseteq Chunk
    BY <1>0, <1>7, ChunksOfType DEF Index, UploadState, UploadFormed, Steps
  <2> HIDE DEF x
  <2> QED
    BY <1>7, <2>1, <2>2, <2>3, <2>4, UploadTyping DEF Index, TypeInv, TypeOK, history, ruleHistory
<1>8. CASE SaveMetadata(u)
  <2>1. upload[u].pc \in Steps /\ upload[u].previous \in Nat
    BY <1>0, <1>8 DEF SaveMetadata, UploadFormed, Steps
  <2>2. /\ EndedUpload(u, "done") \in UploadState /\ UploadFormed(EndedUpload(u, "done"))
        /\ EndedUpload(u, "done").indexed \subseteq EndedUpload(u, "done").included
    BY <2>1, EndedUploadType
  <2>3. versions' = [versions EXCEPT ![upload[u].document] = upload[u].previous + 1]
    BY <1>8 DEF SaveMetadata
  <2>4. versions' \in [Document -> Nat]
    <3>1. upload[u].previous + 1 \in Nat /\ versions \in [Document -> Nat]
      BY <2>1 DEF TypeInv, TypeOK
    <3> QED
      BY <2>3, <3>1
  <2> QED
    BY <1>8, <2>2, <2>4, UploadTyping DEF SaveMetadata, TypeInv, TypeOK, history, ruleHistory
<1>9. CASE FailUpload(u)
  <2>1. upload[u].pc \in Steps
    BY <1>0, <1>9 DEF FailUpload, RunningUploads, UploadState, Steps
  <2>2. /\ EndedUpload(u, "failed") \in UploadState /\ UploadFormed(EndedUpload(u, "failed"))
        /\ EndedUpload(u, "failed").indexed \subseteq EndedUpload(u, "failed").included
    BY <2>1, EndedUploadType
  <2> QED
    BY <1>9, <2>2, UploadTyping DEF FailUpload, TypeInv, TypeOK, stores, history, ruleHistory
<1> QED
  BY <1>1, <1>2, <1>3, <1>4, <1>5, <1>6, <1>7, <1>8, <1>9 DEF UploadStep

\* The steps of an exclusion keep the types.
LEMMA ExclusionStepType ==
    ASSUME TypeInv, NEW e \in Exclusion, AddRule(e) \/ ExclusionStep(e) \/ FailExclusion(e)
    PROVE  TypeInv'
<1>0. exclusion[e] \in ExclusionState /\ ExclusionFormed(exclusion[e])
  BY DEF TypeInv, TypeOK
<1>1. CASE AddRule(e)
  <2>1. PICK p \in Pattern, rule \in Rule :
            /\ rules' = [rules EXCEPT ![p] = rule]
            /\ exclusion' = [exclusion EXCEPT ![e] =
                [@ EXCEPT !.pc = "list", !.pattern = p, !.rule = rule]]
    BY <1>1 DEF AddRule
  <2> DEFINE x == [exclusion[e] EXCEPT !.pc = "list", !.pattern = p, !.rule = rule]
  <2>2. x \in ExclusionState /\ ExclusionFormed(x)
    BY <1>0 DEF ExclusionState, ExclusionFormed, Idle
  <2>3. exclusion' = [exclusion EXCEPT ![e] = x]
    BY <2>1
  <2>4. blocked' \in [Upload -> SUBSET Segment]
    BY <1>1, StillBlockedType DEF AddRule, TypeInv, TypeOK
  <2>5. /\ published' \in [Exclusion -> SUBSET Upload] /\ before' \in [Exclusion -> SUBSET Upload]
        /\ rules' \in [Pattern -> Rule \cup {NoRule}]
    BY <1>1, <2>1 DEF AddRule, Settled, TypeInv, TypeOK
  <2>6. inforce' \in [Exclusion -> BOOLEAN]
    <3>1. PICK q : inforce' = [f \in Exclusion |->
                f = e \/ (inforce[f] /\ exclusion[f].pattern # q)]
      BY <1>1 DEF AddRule
    <3> QED
      BY Zenon, <3>1 DEF TypeInv, TypeOK
  <2> HIDE DEF x
  <2> QED
    BY <1>1, <2>2, <2>3, <2>4, <2>5, <2>6, ExclusionTyping DEF AddRule, TypeInv, TypeOK
<1>2. CASE ListDocuments(e)
  <2> DEFINE x == [exclusion[e] EXCEPT !.pc = "purge",
                      !.pending = {d \in Matches[exclusion[e].pattern] : versions[d] > 0}]
  <2>1. Matches[exclusion[e].pattern] \subseteq Document
    BY <1>0, <1>2, IngestionAssumption DEF ListDocuments, ExclusionFormed
  <2>2. x \in ExclusionState /\ ExclusionFormed(x)
    BY <1>0, <1>2, <2>1 DEF ListDocuments, ExclusionState, ExclusionFormed, Idle
  <2>3. exclusion' = [exclusion EXCEPT ![e] = x]
    BY <1>2 DEF ListDocuments
  <2> HIDE DEF x
  <2> QED
    BY <1>2, <2>2, <2>3, ExclusionTyping DEF ListDocuments, TypeInv, TypeOK, stores, history, ruleHistory
<1>3. CASE PurgeNext(e)
  <2> DEFINE x(d) == [exclusion[e] EXCEPT !.pc = "search", !.document = d, !.pending = @ \ {d}]
  <2>1. PICK d \in exclusion[e].pending :
            /\ \E page : vector' = vector \ Condemned(exclusion[e].rule, d, page)
            /\ exclusion' = [exclusion EXCEPT ![e] = x(d)]
            /\ Overlook(e, d, vector)
    BY <1>3 DEF PurgeNext
  <2>2. d \in Document
    BY <1>0 DEF ExclusionState
  <2>3. x(d) \in ExclusionState /\ ExclusionFormed(x(d))
    BY <1>0, <1>3, <2>2 DEF PurgeNext, ExclusionState, ExclusionFormed, Idle
  <2>4. vector' \subseteq Chunk
    BY <2>1 DEF TypeInv, TypeOK
  <2>5. overlooked' \in [Exclusion -> SUBSET Document]
    BY <2>1, <2>2, OverlookType DEF TypeInv, TypeOK
  <2> HIDE DEF x
  <2> QED
    BY <1>3, <2>1, <2>3, <2>4, <2>5, ExclusionTyping DEF PurgeNext, TypeInv, TypeOK
<1>4. CASE DeleteDocument(e)
  <2> DEFINE next == [exclusion[e] EXCEPT !.pc = "purge"]
             x == IF Conflict(exclusion[e].document) THEN EndedExclusion(e, "failed") ELSE next
  <2>1. next \in ExclusionState /\ ExclusionFormed(next)
    BY <1>0, <1>4 DEF DeleteDocument, ExclusionState, ExclusionFormed, Idle
  <2>2. /\ EndedExclusion(e, "failed") \in ExclusionState
        /\ ExclusionFormed(EndedExclusion(e, "failed"))
    BY <1>4, EndedExclusionType DEF DeleteDocument
  <2>3. exclusion' = [exclusion EXCEPT ![e] = x]
    BY <1>4 DEF DeleteDocument
  <2>4. keyword' \subseteq keyword
    BY <1>4 DEF DeleteDocument, DeleteByQuery
  <2> HIDE DEF next
  <2>5. x \in ExclusionState /\ ExclusionFormed(x)
    BY <2>1, <2>2
  <2> HIDE DEF x
  <2> QED
    BY <1>4, <2>3, <2>4, <2>5, ExclusionTyping
       DEF DeleteDocument, TypeInv, TypeOK, history, ruleHistory
<1>5. CASE SearchHits(e)
  <2>1. PICK hits : /\ hits \subseteq shown
                    /\ exclusion' = [exclusion EXCEPT ![e] =
                            [@ EXCEPT !.pc = "delete", !.hits = hits]]
    <3>1. PICK page \in Pages(exclusion[e].rule, exclusion[e].document, shown) :
            exclusion' = [exclusion EXCEPT ![e] = [@ EXCEPT !.pc = "delete",
                !.hits = Condemned(exclusion[e].rule, exclusion[e].document, page)]]
      BY <1>5 DEF SearchHits
    <3>2. page \subseteq shown
      BY PagesWithin
    <3> QED
      BY <3>1, <3>2 DEF Condemned, Of
  <2> DEFINE x == [exclusion[e] EXCEPT !.pc = "delete", !.hits = hits]
  <2>2. x \in ExclusionState /\ ExclusionFormed(x)
    BY <1>0, <1>5, <2>1
       DEF SearchHits, ExclusionState, ExclusionFormed, Idle, TypeInv, TypeOK
  <2>3. exclusion' = [exclusion EXCEPT ![e] = x]
    BY <2>1
  <2>4. exclusion[e].document \in Document /\ Overlook(e, exclusion[e].document, shown)
    BY <1>0, <1>5 DEF SearchHits, ExclusionFormed
  <2>5. overlooked' \in [Exclusion -> SUBSET Document]
    BY <2>4, OverlookType DEF TypeInv, TypeOK
  <2> HIDE DEF x
  <2> QED
    BY <1>5, <2>2, <2>3, <2>5, ExclusionTyping DEF SearchHits, TypeInv, TypeOK, stores
<1>6. CASE DeleteHit(e) \/ HitsDeleted(e)
  <2>1. PICK x : /\ exclusion' = [exclusion EXCEPT ![e] = x]
                 /\ x \in ExclusionState /\ ExclusionFormed(x)
    <3>1. CASE HitsDeleted(e)
      <4>1. exclusion' = [exclusion EXCEPT ![e] = [exclusion[e] EXCEPT !.pc = "purge"]]
        BY <3>1 DEF HitsDeleted
      <4>2. /\ [exclusion[e] EXCEPT !.pc = "purge"] \in ExclusionState
            /\ ExclusionFormed([exclusion[e] EXCEPT !.pc = "purge"])
        BY <1>0, <3>1 DEF HitsDeleted, ExclusionState, ExclusionFormed, Idle
      <4> QED
        BY <4>1, <4>2
    <3>2. CASE DeleteHit(e)
      <4>1. PICK h \in exclusion[e].hits : exclusion' = [exclusion EXCEPT ![e] =
                IF h \notin keyword THEN EndedExclusion(e, "failed")
                ELSE [exclusion[e] EXCEPT !.hits = @ \ {h}]]
        BY <3>2 DEF DeleteHit
      <4> DEFINE next == [exclusion[e] EXCEPT !.hits = @ \ {h}]
                 y == IF h \notin keyword THEN EndedExclusion(e, "failed") ELSE next
      <4>2. next \in ExclusionState /\ ExclusionFormed(next)
        BY <1>0, <3>2 DEF DeleteHit, ExclusionState, ExclusionFormed, Idle
      <4>3. /\ EndedExclusion(e, "failed") \in ExclusionState
            /\ ExclusionFormed(EndedExclusion(e, "failed"))
        BY <3>2, EndedExclusionType DEF DeleteHit
      <4>4. exclusion' = [exclusion EXCEPT ![e] = y]
        BY <4>1
      <4> HIDE DEF next
      <4>5. y \in ExclusionState /\ ExclusionFormed(y)
        BY <4>2, <4>3
      <4> QED
        BY <4>4, <4>5
    <3> QED
      BY <1>6, <3>1, <3>2
  <2>2. keyword' \subseteq keyword /\ UNCHANGED <<rules, versions, vector, shown, upload, history>>
    BY <1>6 DEF DeleteHit, HitsDeleted, stores
  <2> QED
    BY <2>1, <2>2, ExclusionTyping DEF TypeInv, TypeOK, history, ruleHistory
<1>7. CASE EndExclusion(e)
  <2>1. EndedExclusion(e, "done") \in ExclusionState /\ ExclusionFormed(EndedExclusion(e, "done"))
    BY <1>7, EndedExclusionType DEF EndExclusion
  <2> QED
    BY <1>7, <2>1, ExclusionTyping DEF EndExclusion, TypeInv, TypeOK, stores, history, ruleHistory
<1>8. CASE FailExclusion(e)
  <2>1. exclusion[e].pc # "new"
    BY <1>8 DEF FailExclusion, RunningExclusions, Idle
  <2>2. /\ EndedExclusion(e, "failed") \in ExclusionState
        /\ ExclusionFormed(EndedExclusion(e, "failed"))
    BY <2>1, EndedExclusionType
  <2> QED
    BY <1>8, <2>2, ExclusionTyping DEF FailExclusion, TypeInv, TypeOK, stores, history, ruleHistory
<1> QED
  BY <1>1, <1>2, <1>3, <1>4, <1>5, <1>6, <1>7, <1>8 DEF ExclusionStep

\* TypeInv is inductive.
LEMMA TypeInit == Init => TypeInv
BY DEF Init, TypeInv, TypeOK, UploadFormed, ExclusionFormed, Steps, NewUpload, NewExclusion,
   UploadState, ExclusionState, Idle
LEMMA TypeNext ==
    ASSUME TypeInv, [Next]_vars
    PROVE  TypeInv'
<1>1. ASSUME NEW u \in Upload, Begin(u) \/ UploadStep(u) \/ FailUpload(u) PROVE TypeInv'
  BY <1>1, UploadStepType
<1>2. ASSUME NEW e \in Exclusion, AddRule(e) \/ ExclusionStep(e) \/ FailExclusion(e)
      PROVE  TypeInv'
  BY <1>2, ExclusionStepType
<1>3. ASSUME NEW p \in Pattern, Include(p) PROVE TypeInv'
  <2>1. blocked' \in [Upload -> SUBSET Segment]
    BY <1>3, StillBlockedType DEF Include, TypeInv, TypeOK
  <2>2. inforce' \in [Exclusion -> BOOLEAN]
    <3>1. inforce' = [e \in Exclusion |-> inforce[e] /\ exclusion[e].pattern # p]
      BY <1>3 DEF Include
    <3> QED
      BY Zenon, <3>1 DEF TypeInv, TypeOK
  <2> QED
    BY <1>3, <2>1, <2>2 DEF Include, TypeInv, TypeOK
<1>4. CASE Refresh \/ UNCHANGED vars
  BY <1>4 DEF Refresh, vars, stores, history, ruleHistory, TypeInv, TypeOK
<1> QED
  BY <1>1, <1>2, <1>3, <1>4 DEF Next
LEMMA TypeInvariance == Spec => []TypeInv
<1>1. TypeInv /\ [Next]_vars => TypeInv'
  BY TypeNext
<1> QED
  BY <1>1, TypeInit, PTL DEF Spec

\* TypeOK: every store, history, ruleHistory and local variable has its type, in every
\* execution.
THEOREM Typing == Spec => []TypeOK
<1>1. TypeInv => TypeOK
  BY DEF TypeInv
<1> QED
  BY <1>1, TypeInvariance, PTL

-----------------------------------------------------------------------------
(***************************************************************************)
(* What an upload may index.  A running upload has included no segment     *)
(* that was blocked from its beginning, because what has been blocked all  *)
(* along is blocked by the rules of this moment; and a chunk belongs to an *)
(* upload that has begun.                                                  *)
(***************************************************************************)
BlockedInv ==
    /\ \A x \in Searchable : /\ upload[x.by].pc \notin {"new", "refused"}
                             /\ x.segment \notin blocked[x.by]
    /\ \A u \in RunningUploads : /\ blocked[u] \subseteq BlockedIn(rules, upload[u].document)
                                 /\ upload[u].included \cap blocked[u] = {}
    /\ \A u \in Upload : upload[u].pc = "new" => upload[u].included = {}

\* A step of one upload that adds chunks of what it has included, if any, and
\* leaves rules and histories alone.
LEMMA OwnStep ==
    ASSUME TypeInv, BlockedInv, NEW u \in RunningUploads, UNCHANGED <<rules, blocked>>,
           NEW x \in UploadState, upload' = [upload EXCEPT ![u] = x],
           x.pc \notin {"new", "refused"}, x.document = upload[u].document,
           x.included \cap blocked[u] = {},
           vector' \subseteq vector \cup ChunksOf(u, upload[u].included),
           keyword' \subseteq keyword \cup ChunksOf(u, upload[u].included)
    PROVE  BlockedInv'
<1>1. u \in Upload /\ upload \in [Upload -> UploadState]
  BY DEF RunningUploads, TypeInv, TypeOK
<1>2. upload'[u] = x /\ \A v \in Upload : v # u => upload'[v] = upload[v]
  BY <1>1
<1>3. \A y \in ChunksOf(u, upload[u].included) : y.by = u /\ y.segment \notin blocked[u]
  BY DEF ChunksOf, BlockedInv
<1>4. \A y \in Searchable : y.by \in Upload
  BY DEF Searchable, TypeInv, TypeOK, Chunk
<1>5. ASSUME NEW y \in Searchable'
      PROVE  upload'[y.by].pc \notin {"new", "refused"} /\ y.segment \notin blocked'[y.by]
  <2>1. y \in Searchable \/ y \in ChunksOf(u, upload[u].included)
    BY DEF Searchable
  <2> QED
    BY <1>1, <1>2, <1>3, <1>4, <2>1 DEF BlockedInv
<1>6. ASSUME NEW v \in RunningUploads'
      PROVE  /\ blocked'[v] \subseteq BlockedIn(rules, upload'[v].document)
             /\ upload'[v].included \cap blocked'[v] = {}
  <2>1. v \in Upload /\ upload'[v].pc \notin Idle
    BY DEF RunningUploads
  <2>2. v \in RunningUploads
    BY <1>2, <2>1 DEF RunningUploads
  <2>3. CASE v = u
    BY <1>2, <2>2, <2>3 DEF BlockedInv
  <2>4. CASE v # u
    BY <1>2, <2>1, <2>2, <2>4 DEF BlockedInv
  <2> QED
    BY <2>3, <2>4
<1> QED
  BY <1>5, <1>6 DEF BlockedInv, BlockedIn, RulesFor

\* A step that touches no upload and adds no chunk, with the rules and what is
\* blocked as StillBlocked says.
LEMMA RulesStep ==
    ASSUME TypeInv, BlockedInv, UNCHANGED upload, vector' \subseteq vector,
           keyword' \subseteq keyword, blocked' = StillBlocked(rules')
    PROVE  BlockedInv'
<1>1. \A v \in Upload : blocked'[v] \subseteq blocked[v]
  BY DEF StillBlocked
<1>2. \A y \in Searchable : y.by \in Upload
  BY DEF Searchable, TypeInv, TypeOK, Chunk
<1>3. \A v \in RunningUploads : blocked'[v] \subseteq BlockedIn(rules', upload[v].document)
  BY DEF StillBlocked, RunningUploads
<1>4. RunningUploads' = RunningUploads /\ Searchable' \subseteq Searchable
  BY DEF RunningUploads, Searchable
<1>5. \A v \in RunningUploads : v \in Upload
  BY DEF RunningUploads
<1>6. \A y \in Searchable' :
        upload'[y.by].pc \notin {"new", "refused"} /\ y.segment \notin blocked'[y.by]
  BY <1>1, <1>2, <1>4 DEF BlockedInv
<1>7. \A v \in RunningUploads' : upload'[v].included \cap blocked'[v] = {}
  BY <1>1, <1>4, <1>5 DEF BlockedInv
<1>8. \A v \in RunningUploads' : blocked'[v] \subseteq BlockedIn(rules', upload'[v].document)
  BY <1>3, <1>4
<1> QED
  BY <1>6, <1>7, <1>8 DEF BlockedInv, BlockedIn, RulesFor

\* The same with rules and blocked left alone.
LEMMA RemovalStep ==
    ASSUME TypeInv, BlockedInv, UNCHANGED <<upload, rules, blocked>>,
           vector' \subseteq vector, keyword' \subseteq keyword
    PROVE  BlockedInv'
BY DEF BlockedInv, BlockedIn, RulesFor, RunningUploads, Searchable

LEMMA BlockedUploadStep ==
    ASSUME TypeInv, BlockedInv, NEW u \in Upload, UploadStep(u) \/ FailUpload(u)
    PROVE  BlockedInv'
<1>0. /\ upload[u] \in UploadState /\ UploadFormed(upload[u])
      /\ upload[u].indexed \subseteq upload[u].included
  BY DEF TypeInv, TypeOK
<1>1. u \in RunningUploads
  BY DEF RunningUploads, Idle, UploadStep, FailUpload, ReadVersion, PurgeVector, PurgeKeyword,
     CheckSegment, Upsert, Index, SaveMetadata
<1>2. upload[u].included \cap blocked[u] = {}
  BY <1>1 DEF BlockedInv
<1>3. CASE ReadVersion(u)
  <2> DEFINE v == versions[upload[u].document]
             x == [upload[u] EXCEPT !.previous = v,
                                    !.pc = IF v > 0 THEN "purge_vector" ELSE "filter"]
  <2>1. v \in Nat
    BY <1>0, <1>3 DEF ReadVersion, TypeInv, TypeOK, UploadFormed, Steps
  <2>2. /\ x \in UploadState /\ x.pc \notin {"new", "refused"}
        /\ x.document = upload[u].document /\ x.included = upload[u].included
    BY <1>0, <2>1 DEF UploadState
  <2>3. upload' = [upload EXCEPT ![u] = x]
    BY <1>3 DEF ReadVersion
  <2> HIDE DEF x
  <2> QED
    BY <1>1, <1>2, <1>3, <2>2, <2>3, OwnStep DEF ReadVersion, stores, history, ruleHistory
<1>4. CASE \/ PurgeVector(u) \/ Upsert(u)
           \/ PurgeKeyword(u) /\ ~Conflict(upload[u].document)
  <2>1. PICK pc \in {"purge_keyword", "filter", "index"} : upload' = [upload EXCEPT ![u].pc = pc]
    BY <1>4 DEF PurgeVector, PurgeKeyword, Upsert
  <2> DEFINE x == [upload[u] EXCEPT !.pc = pc]
  <2>2. /\ x \in UploadState /\ x.pc \notin {"new", "refused"}
        /\ x.document = upload[u].document /\ x.included = upload[u].included
    BY <1>0 DEF UploadState
  <2>3. upload' = [upload EXCEPT ![u] = x]
    BY <2>1
  <2>4. /\ UNCHANGED <<rules, blocked>>
        /\ vector' \subseteq vector \cup ChunksOf(u, upload[u].included)
        /\ keyword' \subseteq keyword \cup ChunksOf(u, upload[u].included)
    BY <1>4 DEF PurgeVector, PurgeKeyword, DeleteByQuery, Upsert, history, ruleHistory
  <2> HIDE DEF x
  <2> QED
    BY <1>1, <1>2, <2>2, <2>3, <2>4, OwnStep
<1>5. CASE CheckSegment(u)
  <2> DEFINE x(s) == [upload[u] EXCEPT !.unchecked = @ \ {s},
                          !.included = IF s \in BlockedIn(rules, upload[u].document)
                                       THEN @ ELSE @ \cup {s}]
  <2>1. PICK s \in upload[u].unchecked : upload' = [upload EXCEPT ![u] = x(s)]
    BY <1>5 DEF CheckSegment
  <2>2. /\ x(s) \in UploadState /\ x(s).pc = "filter" /\ x(s).document = upload[u].document
        /\ \A t \in x(s).included : t \in upload[u].included \/ t \notin BlockedIn(rules, upload[u].document)
    BY <1>0, <1>5 DEF CheckSegment, UploadState
  <2>3. x(s).included \cap blocked[u] = {}
    BY <1>1, <1>2, <2>2 DEF BlockedInv
  <2> HIDE DEF x
  <2> QED
    BY <1>1, <1>5, <2>1, <2>2, <2>3, OwnStep DEF CheckSegment, stores, history, ruleHistory
<1>6. CASE Index(u)
  <2>1. PICK s \in upload[u].included \ upload[u].indexed :
            /\ keyword' = keyword \cup ChunksOf(u, {s})
            /\ upload' = [upload EXCEPT ![u].indexed = @ \cup {s}]
    BY <1>6 DEF Index
  <2> DEFINE x == [upload[u] EXCEPT !.indexed = @ \cup {s}]
  <2>2. /\ x \in UploadState /\ x.pc = "index"
        /\ x.document = upload[u].document /\ x.included = upload[u].included
    BY <1>0, <1>6 DEF Index, UploadState
  <2>3. upload' = [upload EXCEPT ![u] = x]
    BY <2>1
  <2>4. ChunksOf(u, {s}) \subseteq ChunksOf(u, upload[u].included)
    BY DEF ChunksOf
  <2> HIDE DEF x
  <2> QED
    BY <1>1, <1>2, <1>6, <2>1, <2>2, <2>3, <2>4, OwnStep DEF Index, history, ruleHistory
<1>7. CASE \/ SaveMetadata(u) \/ FailUpload(u)
           \/ PurgeKeyword(u) /\ Conflict(upload[u].document)
  <2>1. PICK pc \in {"done", "failed"} : upload' = [upload EXCEPT ![u] = EndedUpload(u, pc)]
    BY <1>7 DEF SaveMetadata, FailUpload, PurgeKeyword
  <2>2. upload[u].pc \in Steps
    BY <1>0, <1>1 DEF RunningUploads, UploadState, Steps
  <2>3. EndedUpload(u, pc) \in UploadState
    BY <2>2, EndedUploadType
  <2>4. /\ EndedUpload(u, pc).pc = pc /\ EndedUpload(u, pc).document = upload[u].document
        /\ EndedUpload(u, pc).included = {}
    BY <1>0 DEF EndedUpload, UploadState
  <2>5. UNCHANGED <<rules, vector, blocked>> /\ keyword' \subseteq keyword
    BY <1>7 DEF SaveMetadata, FailUpload, PurgeKeyword, DeleteByQuery, stores, history
  <2> QED
    BY <1>1, <2>1, <2>3, <2>4, <2>5, OwnStep
<1> QED
  BY <1>3, <1>4, <1>5, <1>6, <1>7 DEF UploadStep

LEMMA BlockedBegin ==
    ASSUME TypeInv, BlockedInv, NEW u \in Upload, Begin(u)
    PROVE  BlockedInv'
<1> DEFINE x(d, s) == IF IsExcluded(d) THEN [upload[u] EXCEPT !.pc = "refused"]
                      ELSE [upload[u] EXCEPT !.pc = "read_version", !.document = d,
                                             !.segments = s, !.unchecked = s]
<1>1. PICK d \in Document, s \in SUBSET Segment :
        /\ upload' = [upload EXCEPT ![u] = x(d, s)]
        /\ blocked' = [blocked EXCEPT ![u] = IF IsExcluded(d) THEN {} ELSE BlockedIn(rules, d)]
  BY DEF Begin
<1>2. /\ upload[u].pc = "new" /\ UNCHANGED <<rules, vector, keyword>>
      /\ upload[u] \in UploadState
  BY DEF Begin, stores, TypeInv, TypeOK
<1>3. \A y \in Searchable : y.by \in Upload /\ y.by # u
  BY <1>2 DEF BlockedInv, Searchable, TypeInv, TypeOK, Chunk
<1>4. \A v \in Upload : v # u => upload'[v] = upload[v] /\ blocked'[v] = blocked[v]
  BY <1>1 DEF TypeInv, TypeOK
<1>5. \A y \in Searchable' :
        upload'[y.by].pc \notin {"new", "refused"} /\ y.segment \notin blocked'[y.by]
  BY <1>2, <1>3, <1>4 DEF Searchable, BlockedInv
<1>6. ASSUME NEW v \in RunningUploads'
      PROVE  /\ blocked'[v] \subseteq BlockedIn(rules, upload'[v].document)
             /\ upload'[v].included \cap blocked'[v] = {}
  <2>1. CASE v = u
    <3>1. upload'[u] = x(d, s) /\ blocked'[u] = IF IsExcluded(d) THEN {} ELSE BlockedIn(rules, d)
      BY <1>1 DEF TypeInv, TypeOK
    <3>2. x(d, s).pc \notin Idle
      BY <2>1, <3>1 DEF RunningUploads
    <3>3. ~IsExcluded(d)
      BY <1>2, <3>2 DEF Idle, UploadState
    <3>4. x(d, s).document = d /\ x(d, s).included = upload[u].included
      BY <1>2, <3>3 DEF UploadState
    <3>5. upload[u].included = {}
      BY <1>2 DEF BlockedInv
    <3> QED
      BY <2>1, <3>1, <3>3, <3>4, <3>5
  <2>2. CASE v # u
    BY <1>4, <2>2 DEF RunningUploads, BlockedInv
  <2> QED
    BY <2>1, <2>2
<1>7. x(d, s).pc # "new" /\ upload'[u] = x(d, s)
  BY <1>1, <1>2 DEF TypeInv, TypeOK, UploadState
<1>8. \A v \in Upload : upload'[v].pc = "new" => upload'[v].included = {}
  BY <1>4, <1>7 DEF BlockedInv
<1> QED
  BY <1>2, <1>5, <1>6, <1>8 DEF BlockedInv, BlockedIn, RulesFor

\* The steps of an exclusion only remove chunks, and leave the uploads alone.
LEMMA ExclusionShrinks ==
    ASSUME NEW e \in Exclusion, ExclusionStep(e) \/ FailExclusion(e)
    PROVE  /\ UNCHANGED <<upload, rules, versions, shown, blocked, superseded>>
           /\ UNCHANGED <<published, before, inforce>>
           /\ vector' \subseteq vector /\ keyword' \subseteq keyword
<1>1. /\ UNCHANGED <<upload, rules, versions, shown, blocked, superseded>>
      /\ UNCHANGED <<published, before, inforce>>
  BY DEF ExclusionStep, FailExclusion, ListDocuments, PurgeNext, DeleteDocument,
     SearchHits, DeleteHit, HitsDeleted, EndExclusion, stores, history, ruleHistory
<1>2. vector' \subseteq vector
  BY DEF ExclusionStep, FailExclusion, ListDocuments, PurgeNext, DeleteDocument,
     SearchHits, DeleteHit, HitsDeleted, EndExclusion, stores
<1>3. keyword' \subseteq keyword
  BY DEF ExclusionStep, FailExclusion, ListDocuments, PurgeNext, DeleteDocument,
     SearchHits, DeleteHit, HitsDeleted, EndExclusion, stores, DeleteByQuery
<1> QED
  BY <1>1, <1>2, <1>3

LEMMA BlockedInit == Init => BlockedInv
BY DEF Init, BlockedInv, Searchable, RunningUploads, NewUpload, Idle
LEMMA BlockedNext ==
    ASSUME TypeInv, BlockedInv, [Next]_vars
    PROVE  BlockedInv'
<1>1. ASSUME NEW u \in Upload, Begin(u) PROVE BlockedInv'
  BY <1>1, BlockedBegin
<1>2. ASSUME NEW u \in Upload, UploadStep(u) \/ FailUpload(u) PROVE BlockedInv'
  BY <1>2, BlockedUploadStep
<1>3. ASSUME NEW e \in Exclusion, AddRule(e) PROVE BlockedInv'
  BY <1>3, RulesStep DEF AddRule
<1>4. ASSUME NEW e \in Exclusion, ExclusionStep(e) \/ FailExclusion(e) PROVE BlockedInv'
  <2>1. /\ UNCHANGED <<upload, rules, blocked>>
        /\ vector' \subseteq vector /\ keyword' \subseteq keyword
    BY <1>4, ExclusionShrinks
  <2> QED
    BY <2>1, RemovalStep
<1>5. ASSUME NEW p \in Pattern, Include(p) PROVE BlockedInv'
  BY <1>5, RulesStep DEF Include
<1>6. CASE Refresh \/ UNCHANGED vars
  BY <1>6, RemovalStep DEF Refresh, vars, stores, history
<1> QED
  BY <1>1, <1>2, <1>3, <1>4, <1>5, <1>6 DEF Next

\* BlockedNeverIndexed: a segment that was blocked from the beginning of an
\* upload to its end is not indexed by it, whatever runs or fails besides.
THEOREM BlockedNeverIndexedTheorem == Spec => []BlockedNeverIndexed
<1>1. TypeInv /\ BlockedInv /\ [Next]_vars => BlockedInv'
  BY BlockedNext
<1>2. BlockedInv => BlockedNeverIndexed
  BY DEF BlockedInv, BlockedNeverIndexed
<1> QED
  BY <1>1, <1>2, BlockedInit, TypeInvariance, PTL DEF Spec

-----------------------------------------------------------------------------
(***************************************************************************)
(* Uploads that have ended and whose document has a version: they add no   *)
(* chunks, the version stays, and once every search sees what they left in *)
(* the keyword index, every search sees it for good.                       *)
(***************************************************************************)
OwnerInv ==
    /\ \A x \in Searchable : /\ x.document = upload[x.by].document
                             /\ upload[x.by].pc \in {"index", "done", "failed"}
    /\ \A u \in Upload : upload[u].pc = "done" => versions[upload[u].document] > 0
Quiet(u) ==
    /\ upload[u].pc \in {"done", "failed"}
    /\ versions[upload[u].document] > 0
    /\ \A x \in keyword : x.by = u => x \in shown

\* What the steps of a running upload have in common.
LEMMA UploadStepShape ==
    ASSUME TypeInv, NEW u \in Upload, UploadStep(u) \/ FailUpload(u)
    PROVE  /\ upload[u].pc \in Steps /\ upload'[u].pc \in Steps \cup {"done", "failed"}
           /\ \A v \in Upload : v # u => upload'[v] = upload[v]
           /\ upload'[u].document = upload[u].document
           /\ vector' \subseteq vector \cup ChunksOf(u, Segment)
           /\ keyword' \subseteq keyword \cup ChunksOf(u, Segment)
           /\ upload[u].pc \notin {"filter", "index"} =>
                vector' \subseteq vector /\ keyword' \subseteq keyword
           /\ upload[u].pc = "index" => upload'[u].pc \in {"index", "done", "failed"}
           /\ upload[u].pc = "filter" /\ upload'[u].pc # "index" =>
                vector' \subseteq vector /\ keyword' \subseteq keyword
           /\ upload'[u].pc = "done" => versions'[upload[u].document] > 0
           /\ \A d \in Document : versions[d] > 0 => versions'[d] > 0
           /\ UNCHANGED <<rules, shown, exclusion, history>>
<1>0. upload \in [Upload -> UploadState] /\ upload[u] \in UploadState /\ UploadFormed(upload[u])
  BY DEF TypeInv, TypeOK
<1>1. upload[u].included \subseteq Segment
  BY <1>0 DEF UploadState
<1>2. upload[u].pc \in Steps
  BY <1>0 DEF UploadStep, FailUpload, RunningUploads, Idle, UploadState, Steps, ReadVersion,
     PurgeVector, PurgeKeyword, CheckSegment, Upsert, Index, SaveMetadata
<1>3. /\ vector' \subseteq vector \cup ChunksOf(u, Segment)
      /\ keyword' \subseteq keyword \cup ChunksOf(u, Segment)
  BY <1>1 DEF UploadStep, FailUpload, ReadVersion, PurgeVector, PurgeKeyword, DeleteByQuery,
     CheckSegment, Upsert, Index, SaveMetadata, ChunksOf, stores
<1>4. UNCHANGED <<rules, shown, exclusion, history>>
  BY DEF UploadStep, FailUpload, ReadVersion, PurgeVector, PurgeKeyword,
     CheckSegment, Upsert, Index, SaveMetadata, stores
<1>5. \A v \in Upload : v # u => upload'[v] = upload[v]
  BY <1>0 DEF UploadStep, FailUpload, ReadVersion, PurgeVector, PurgeKeyword,
     CheckSegment, Upsert, Index, SaveMetadata
<1>6. CASE SaveMetadata(u)
  <2>1. upload[u].previous \in Nat /\ upload[u].document \in Document
    BY <1>0, <1>6 DEF SaveMetadata, UploadFormed, Steps
  <2>2. /\ versions' = [versions EXCEPT ![upload[u].document] = upload[u].previous + 1]
        /\ UNCHANGED <<vector, keyword>>
    BY <1>6 DEF SaveMetadata
  <2>3. versions'[upload[u].document] > 0
    <3>1. upload[u].previous + 1 > 0
      BY <2>1
    <3> QED
      BY <2>1, <2>2, <3>1 DEF TypeInv, TypeOK
  <2>4. \A d \in Document : versions[d] > 0 => versions'[d] > 0
    BY <2>2, <2>3 DEF TypeInv, TypeOK
  <2>5. upload'[u] = EndedUpload(u, "done")
    BY <1>0, <1>6 DEF SaveMetadata
  <2>6. upload'[u].pc = "done" /\ upload'[u].document = upload[u].document
    BY <1>0, <2>5 DEF EndedUpload, UploadState
  <2> QED
    BY <1>2, <1>3, <1>4, <1>5, <2>2, <2>3, <2>4, <2>6
<1>7. CASE FailUpload(u)
  <2>1. upload'[u] = EndedUpload(u, "failed") /\ UNCHANGED <<versions, vector, keyword>>
    BY <1>0, <1>7 DEF FailUpload, stores
  <2>2. upload'[u].pc = "failed" /\ upload'[u].document = upload[u].document
    BY <1>0, <2>1 DEF EndedUpload, UploadState
  <2> QED
    BY <1>2, <1>3, <1>4, <1>5, <2>1, <2>2
<1>8. CASE PurgeKeyword(u)
  <2>1. /\ upload[u].pc = "purge_keyword" /\ UNCHANGED <<versions, vector>>
        /\ keyword' \subseteq keyword
    BY <1>8 DEF PurgeKeyword, DeleteByQuery
  <2>2. upload'[u].document = upload[u].document /\ upload'[u].pc \in {"filter", "failed"}
    <3>1. CASE Conflict(upload[u].document)
      <4>1. upload'[u] = EndedUpload(u, "failed")
        BY <1>0, <1>8, <3>1 DEF PurgeKeyword
      <4> QED
        BY <1>0, <4>1 DEF EndedUpload, UploadState
    <3>2. CASE ~Conflict(upload[u].document)
      BY <1>0, <1>8, <3>2 DEF PurgeKeyword, UploadState
    <3> QED
      BY <3>1, <3>2
  <2> QED
    BY <1>2, <1>3, <1>4, <1>5, <2>1, <2>2 DEF Steps
<1>9. CASE ~SaveMetadata(u) /\ ~FailUpload(u) /\ ~PurgeKeyword(u)
  <2>1. UNCHANGED versions
    BY <1>9 DEF UploadStep, ReadVersion, PurgeVector, CheckSegment, Upsert, Index, stores
  <2>2. CASE ReadVersion(u)
    <3>1. /\ upload[u].pc = "read_version" /\ UNCHANGED <<vector, keyword>>
          /\ upload'[u].document = upload[u].document
          /\ upload'[u].pc \in {"purge_vector", "filter"}
      BY <1>0, <2>2 DEF ReadVersion, UploadState, stores
    <3> QED
      BY <1>2, <1>3, <1>4, <1>5, <2>1, <3>1 DEF Steps
  <2>3. CASE PurgeVector(u)
    <3>1. /\ upload[u].pc = "purge_vector" /\ vector' \subseteq vector /\ UNCHANGED keyword
          /\ upload'[u].document = upload[u].document /\ upload'[u].pc = "purge_keyword"
      BY <1>0, <2>3 DEF PurgeVector, UploadState
    <3> QED
      BY <1>2, <1>3, <1>4, <1>5, <2>1, <3>1 DEF Steps
  <2>4. CASE CheckSegment(u)
    <3>1. /\ upload[u].pc = "filter" /\ UNCHANGED <<vector, keyword>>
          /\ upload'[u].document = upload[u].document /\ upload'[u].pc = "filter"
      BY <1>0, <2>4 DEF CheckSegment, UploadState, stores
    <3> QED
      BY <1>2, <1>3, <1>4, <1>5, <2>1, <3>1
  <2>5. CASE Upsert(u) \/ Index(u)
    <3>1. CASE Upsert(u)
      <4>1. /\ upload[u].pc = "filter" /\ upload'[u].pc = "index"
            /\ upload'[u].document = upload[u].document
        BY <1>0, <3>1 DEF Upsert, UploadState
      <4> QED
        BY <1>2, <1>3, <1>4, <1>5, <2>1, <4>1 DEF Steps
    <3>2. CASE Index(u)
      <4>1. PICK s : upload' = [upload EXCEPT ![u].indexed = @ \cup {s}]
        BY <3>2 DEF Index
      <4>2. upload[u].pc = "index" /\ upload'[u].pc = "index"
            /\ upload'[u].document = upload[u].document
        BY <1>0, <3>2, <4>1 DEF Index, UploadState
      <4> QED
        BY <1>2, <1>3, <1>4, <1>5, <2>1, <4>2 DEF Steps
    <3> QED
      BY <2>5, <3>1, <3>2
  <2> QED
    BY <1>9, <2>2, <2>3, <2>4, <2>5 DEF UploadStep
<1> QED
  BY <1>6, <1>7, <1>8, <1>9

\* What an upload is when it has begun.
LEMMA BeginShape ==
    ASSUME TypeInv, NEW u \in Upload, Begin(u)
    PROVE  /\ upload[u].pc = "new" /\ upload'[u].pc \in {"refused", "read_version"}
           /\ \A v \in Upload : v # u => upload'[v] = upload[v]
           /\ UNCHANGED <<rules, versions, vector, keyword, shown, exclusion, ruleHistory>>
<1> DEFINE x(d, s) == IF IsExcluded(d) THEN [upload[u] EXCEPT !.pc = "refused"]
                      ELSE [upload[u] EXCEPT !.pc = "read_version", !.document = d,
                                             !.segments = s, !.unchecked = s]
<1>1. PICK d \in Document, s \in SUBSET Segment : upload' = [upload EXCEPT ![u] = x(d, s)]
  BY DEF Begin
<1>2. upload \in [Upload -> UploadState]
  BY DEF TypeInv, TypeOK
<1>3. upload'[u] = x(d, s) /\ \A v \in Upload : v # u => upload'[v] = upload[v]
  BY <1>1, <1>2
<1>4. x(d, s).pc \in {"refused", "read_version"}
  BY <1>2 DEF UploadState
<1>5. /\ upload[u].pc = "new"
      /\ UNCHANGED <<rules, versions, vector, keyword, shown, exclusion, ruleHistory>>
  BY DEF Begin, stores
<1> QED
  BY <1>3, <1>4, <1>5

\* Everything that is not a step of an upload.
LEMMA OtherShape ==
    ASSUME [Next]_vars,
           \A u \in Upload : ~Begin(u) /\ ~UploadStep(u) /\ ~FailUpload(u)
    PROVE  /\ UNCHANGED <<upload, versions, superseded>>
           /\ vector' \subseteq vector /\ keyword' \subseteq keyword
           /\ shown' = shown \/ (shown' = keyword /\ UNCHANGED keyword)
<1>1. ASSUME NEW e \in Exclusion, AddRule(e)
      PROVE  UNCHANGED <<upload, versions, superseded, vector, keyword, shown>>
  BY <1>1 DEF AddRule
<1>2. ASSUME NEW p \in Pattern, Include(p)
      PROVE  UNCHANGED <<upload, versions, superseded, vector, keyword, shown>>
  BY <1>2 DEF Include
<1>3. ASSUME NEW e \in Exclusion, ExclusionStep(e) \/ FailExclusion(e)
      PROVE  /\ UNCHANGED <<upload, versions, superseded, shown>>
             /\ vector' \subseteq vector /\ keyword' \subseteq keyword
  BY <1>3, ExclusionShrinks
<1>4. CASE Refresh
  BY <1>4 DEF Refresh, history
<1>5. CASE UNCHANGED vars
  BY <1>5 DEF vars, stores, history
<1> QED
  BY <1>1, <1>2, <1>3, <1>4, <1>5 DEF Next

\* OwnerInv is inductive.
LEMMA OwnerNext ==
    ASSUME TypeInv, OwnerInv, [Next]_vars
    PROVE  OwnerInv'
<1>0. \A y \in Searchable : y.by \in Upload
  BY DEF Searchable, TypeInv, TypeOK, Chunk
<1>1. ASSUME NEW u \in Upload, UploadStep(u) \/ FailUpload(u) PROVE OwnerInv'
  <2>1. /\ \A v \in Upload : v # u => upload'[v] = upload[v]
        /\ upload[u].pc \in Steps /\ upload'[u].document = upload[u].document
        /\ upload[u].pc \notin {"filter", "index"} =>
                vector' \subseteq vector /\ keyword' \subseteq keyword
        /\ upload[u].pc = "index" => upload'[u].pc \in {"index", "done", "failed"}
        /\ upload[u].pc = "filter" /\ upload'[u].pc # "index" =>
                vector' \subseteq vector /\ keyword' \subseteq keyword
        /\ upload'[u].pc = "done" => versions'[upload[u].document] > 0
        /\ \A d \in Document : versions[d] > 0 => versions'[d] > 0
        /\ vector' \subseteq vector \cup ChunksOf(u, Segment)
        /\ keyword' \subseteq keyword \cup ChunksOf(u, Segment)
    BY <1>1, UploadStepShape
  <2>2. \A y \in ChunksOf(u, Segment) : y.by = u /\ y.document = upload[u].document
    BY DEF ChunksOf
  <2>3. ASSUME NEW y \in Searchable'
        PROVE  /\ y.document = upload'[y.by].document
               /\ upload'[y.by].pc \in {"index", "done", "failed"}
    <3>1. y \in Searchable \/ y \in ChunksOf(u, Segment)
      BY <2>1 DEF Searchable
    <3>2. y \notin Searchable => upload'[u].pc \in {"index", "done", "failed"}
      BY <2>1, <2>3 DEF Searchable
    <3>3. y \in Searchable /\ y.by = u => upload[u].pc = "index"
      BY <2>1 DEF OwnerInv, Steps
    <3>4. CASE y.by = u
      BY <2>1, <2>2, <3>1, <3>2, <3>3, <3>4 DEF OwnerInv
    <3>5. CASE y.by # u
      BY <1>0, <2>1, <2>2, <3>1, <3>5 DEF OwnerInv
    <3> QED
      BY <3>4, <3>5
  <2>4. \A v \in Upload : upload'[v].pc = "done" => versions'[upload'[v].document] > 0
    <3> TAKE v \in Upload
    <3>1. CASE v = u
      BY <2>1, <3>1
    <3>2. CASE v # u
      BY <2>1, <3>2 DEF OwnerInv, TypeInv, UploadFormed
    <3> QED
      BY <3>1, <3>2
  <2> QED
    BY <2>3, <2>4 DEF OwnerInv
<1>2. ASSUME NEW u \in Upload, Begin(u) PROVE OwnerInv'
  <2>1. /\ upload[u].pc = "new" /\ upload'[u].pc \in {"refused", "read_version"}
        /\ \A v \in Upload : v # u => upload'[v] = upload[v]
        /\ UNCHANGED <<versions, vector, keyword>>
    BY <1>2, BeginShape
  <2>2. \A y \in Searchable : y.by \in Upload /\ y.by # u
    BY <1>0, <2>1 DEF OwnerInv
  <2> QED
    BY <2>1, <2>2 DEF OwnerInv, Searchable
<1>3. CASE \A u \in Upload : ~Begin(u) /\ ~UploadStep(u) /\ ~FailUpload(u)
  <2>1. UNCHANGED <<upload, versions>> /\ vector' \subseteq vector /\ keyword' \subseteq keyword
    BY <1>3, OtherShape
  <2> QED
    BY <2>1 DEF OwnerInv, Searchable
<1> QED
  BY <1>1, <1>2, <1>3

\* A quiet upload stays as it is, and nothing is stored in its name.
LEMMA QuietStays ==
    ASSUME TypeInv, [Next]_vars, NEW v \in Upload, Quiet(v)
    PROVE  /\ Quiet(v)' /\ upload'[v] = upload[v]
           /\ \A x \in vector' \ vector : x.by # v
           /\ \A x \in keyword' \ keyword : x.by # v
<1>0. upload[v].pc \in {"done", "failed"} /\ upload[v].document \in Document
  BY DEF Quiet, TypeInv, UploadFormed
<1>1. ASSUME NEW u \in Upload, UploadStep(u) \/ FailUpload(u)
      PROVE  /\ upload'[v] = upload[v] /\ versions'[upload[v].document] > 0
             /\ \A x \in vector' \ vector : x.by # v
             /\ \A x \in keyword' \ keyword : x.by # v
             /\ UNCHANGED shown
  <2>1. /\ \A w \in Upload : w # u => upload'[w] = upload[w]
        /\ upload[u].pc \in Steps /\ UNCHANGED shown
        /\ \A d \in Document : versions[d] > 0 => versions'[d] > 0
        /\ vector' \subseteq vector \cup ChunksOf(u, Segment)
        /\ keyword' \subseteq keyword \cup ChunksOf(u, Segment)
    BY <1>1, UploadStepShape
  <2>2. u # v /\ \A x \in ChunksOf(u, Segment) : x.by = u
    BY <1>0, <2>1 DEF Steps, ChunksOf
  <2> QED
    BY <1>0, <2>1, <2>2 DEF Quiet
<1>2. ASSUME NEW u \in Upload, Begin(u)
      PROVE  upload'[v] = upload[v] /\ UNCHANGED <<versions, vector, keyword, shown>>
  BY <1>0, <1>2, BeginShape
<1>3. CASE \A u \in Upload : ~Begin(u) /\ ~UploadStep(u) /\ ~FailUpload(u)
  <2>1. /\ UNCHANGED <<upload, versions>> /\ vector' \subseteq vector /\ keyword' \subseteq keyword
        /\ shown' = shown \/ (shown' = keyword /\ UNCHANGED keyword)
    BY <1>3, OtherShape
  <2> QED
    BY <2>1 DEF Quiet
<1> QED
  BY <1>1, <1>2, <1>3 DEF Quiet

\* The settled uploads are quiet.
LEMMA SettledIsQuiet ==
    ASSUME OwnerInv
    PROVE  Settled \subseteq Upload /\ \A v \in Settled : Quiet(v)
BY DEF OwnerInv, Settled, Quiet

-----------------------------------------------------------------------------
(***************************************************************************)
(* What an exclusion leaves.  A document that has chunks of a quiet upload *)
(* is listed, since it has a version; every search and delete sees these   *)
(* chunks; and so what is condemned of them is still to be purged, gone,   *)
(* or of a document with more chunks than the purge looked at.             *)
(***************************************************************************)
\* What is left in an index of what an exclusion has to purge of d.
LeftIn(e, d, chunks) ==
    {x \in Condemned(exclusion[e].rule, d, chunks) : x.by \in published[e]}
\* The documents it is through with.
Through(e) == Matches[exclusion[e].pattern] \ (exclusion[e].pending \cup overlooked[e])
Purged(e) ==
    /\ \A u \in published[e] : Quiet(u)
    /\ exclusion[e].pc \in {"purge", "done"} =>
        \A d \in Through(e) : LeftIn(e, d, Searchable) = {}
    /\ exclusion[e].pc \in {"search", "delete"} =>
        /\ \A d \in Through(e) : d # exclusion[e].document => LeftIn(e, d, Searchable) = {}
        /\ exclusion[e].document \notin overlooked[e] =>
                LeftIn(e, exclusion[e].document, vector) = {}
    /\ exclusion[e].pc = "delete" /\ exclusion[e].document \notin overlooked[e] =>
        LeftIn(e, exclusion[e].document, keyword) \subseteq exclusion[e].hits
    /\ exclusion[e].pc = "done" => exclusion[e].pending = {}
PurgeInv == OwnerInv /\ \A e \in Exclusion : Purged(e)

\* A step that leaves an exclusion alone leaves no more of what it has to purge.
LEMMA OthersKeepPurged ==
    ASSUME TypeInv, PurgeInv, [Next]_vars, NEW e \in Exclusion, exclusion'[e] = exclusion[e],
           published'[e] = published[e], overlooked'[e] = overlooked[e]
    PROVE  Purged(e)'
<1>1. Purged(e) /\ published[e] \subseteq Upload
  BY DEF PurgeInv, TypeInv, TypeOK
<1>2. /\ \A u \in published[e] : Quiet(u)'
      /\ \A x \in vector' \ vector : x.by \notin published[e]
      /\ \A x \in keyword' \ keyword : x.by \notin published[e]
  BY <1>1, QuietStays DEF Purged
<1>3. \A d : /\ LeftIn(e, d, vector)' \subseteq LeftIn(e, d, vector)
             /\ LeftIn(e, d, keyword)' \subseteq LeftIn(e, d, keyword)
             /\ LeftIn(e, d, Searchable)' \subseteq LeftIn(e, d, Searchable)
  BY <1>2 DEF LeftIn, Condemned, Of, Searchable
<1>4. /\ LeftIn(e, exclusion[e].document, vector)' \subseteq LeftIn(e, exclusion[e].document, vector)
      /\ LeftIn(e, exclusion[e].document, keyword)' \subseteq LeftIn(e, exclusion[e].document, keyword)
  BY <1>2 DEF LeftIn, Condemned, Of, Searchable
<1>5. Through(e)' = Through(e)
  BY DEF Through
<1> QED
  BY <1>1, <1>2, <1>3, <1>4, <1>5 DEF Purged

\* A step of anybody else leaves an exclusion alone.
LEMMA OthersLeaveExclusion ==
    ASSUME TypeInv, [Next]_vars, NEW e \in Exclusion,
           ~AddRule(e), ~ExclusionStep(e), ~FailExclusion(e)
    PROVE  /\ exclusion'[e] = exclusion[e] /\ published'[e] = published[e]
           /\ before'[e] = before[e] /\ overlooked'[e] = overlooked[e]
<1>0. /\ exclusion \in [Exclusion -> ExclusionState] /\ published \in [Exclusion -> SUBSET Upload]
      /\ before \in [Exclusion -> SUBSET Upload] /\ overlooked \in [Exclusion -> SUBSET Document]
  BY DEF TypeInv, TypeOK
<1>1. ASSUME NEW u \in Upload, UploadStep(u) \/ FailUpload(u)
      PROVE  UNCHANGED <<exclusion, published, before, overlooked>>
  BY <1>1, UploadStepShape DEF history, ruleHistory
<1>2. ASSUME NEW u \in Upload, Begin(u)
      PROVE  UNCHANGED <<exclusion, published, before, overlooked>>
  BY <1>2, BeginShape DEF ruleHistory
<1>3. ASSUME NEW f \in Exclusion, f # e, AddRule(f)
      PROVE  /\ exclusion'[e] = exclusion[e] /\ published'[e] = published[e]
             /\ before'[e] = before[e] /\ overlooked'[e] = overlooked[e]
  BY <1>0, <1>3 DEF AddRule
<1>4. ASSUME NEW f \in Exclusion, f # e, ExclusionStep(f) \/ FailExclusion(f)
      PROVE  /\ exclusion'[e] = exclusion[e] /\ published'[e] = published[e]
             /\ before'[e] = before[e] /\ overlooked'[e] = overlooked[e]
  <2>1. UNCHANGED <<published, before>>
    BY <1>4, ExclusionShrinks
  <2>2. exclusion'[e] = exclusion[e]
    BY <1>0, <1>4 DEF ExclusionStep, FailExclusion, ListDocuments, PurgeNext, DeleteDocument,
       SearchHits, DeleteHit, HitsDeleted, EndExclusion
  <2>3. overlooked'[e] = overlooked[e]
    BY <1>0, <1>4 DEF ExclusionStep, FailExclusion, ListDocuments, PurgeNext, DeleteDocument,
       SearchHits, DeleteHit, HitsDeleted, EndExclusion, history, ruleHistory, Overlook
  <2> QED
    BY <2>1, <2>2, <2>3
<1>5. ASSUME NEW p \in Pattern, Include(p)
      PROVE  UNCHANGED <<exclusion, published, before, overlooked>>
  BY <1>5 DEF Include
<1>6. CASE Refresh \/ UNCHANGED vars
  BY <1>6 DEF Refresh, vars, history, ruleHistory
<1> QED
  BY <1>1, <1>2, <1>3, <1>4, <1>5, <1>6 DEF Next

\* A page that is not cut holds all that is condemned; one that is, is noted.
LEMMA PageOrOverlooked ==
    ASSUME TypeInv, NEW e \in Exclusion, NEW d, NEW chunks,
           NEW page \in Pages(exclusion[e].rule, d, chunks), Overlook(e, d, chunks)
    PROVE  /\ overlooked'[e] \subseteq overlooked[e] \cup {d}
           /\ overlooked[e] \subseteq overlooked'[e]
           /\ d \notin overlooked'[e] =>
                Condemned(exclusion[e].rule, d, page) = Condemned(exclusion[e].rule, d, chunks)
<1>1. overlooked'[e] = IF Exceeds(exclusion[e].rule, d, chunks)
                       THEN overlooked[e] \cup {d} ELSE overlooked[e]
  BY DEF Overlook, TypeInv, TypeOK
<1>2. CASE Exceeds(exclusion[e].rule, d, chunks)
  BY <1>1, <1>2
<1>3. CASE ~Exceeds(exclusion[e].rule, d, chunks)
  <2>1. page = Condemned(exclusion[e].rule, d, chunks)
    BY <1>3 DEF Pages
  <2>2. Condemned(exclusion[e].rule, d, page) = Condemned(exclusion[e].rule, d, chunks)
    BY <2>1 DEF Condemned, Of
  <2> QED
    BY <1>1, <1>3, <2>2
<1> QED
  BY <1>2, <1>3

\* Each step of an exclusion keeps what is said of itself.
LEMMA OwnPurged ==
    ASSUME TypeInv, PurgeInv, [Next]_vars, NEW e \in Exclusion,
           AddRule(e) \/ ExclusionStep(e) \/ FailExclusion(e)
    PROVE  Purged(e)'
<1>0. /\ Purged(e) /\ exclusion[e] \in ExclusionState /\ ExclusionFormed(exclusion[e])
      /\ exclusion \in [Exclusion -> ExclusionState] /\ published[e] \subseteq Upload
  BY DEF PurgeInv, TypeInv, TypeOK
<1>1. CASE AddRule(e)
  <2>1. published'[e] = Settled
    BY <1>1 DEF AddRule, TypeInv, TypeOK
  <2>2. exclusion'[e].pc = "list"
    <3>1. PICK p \in Pattern, rule \in Rule : exclusion'[e] =
                [exclusion[e] EXCEPT !.pc = "list", !.pattern = p, !.rule = rule]
      BY <1>0, <1>1 DEF AddRule
    <3> QED
      BY <1>0, <3>1 DEF ExclusionState
  <2>3. \A u \in published'[e] : Quiet(u)'
    BY <2>1, SettledIsQuiet, QuietStays DEF PurgeInv
  <2> QED
    BY <2>2, <2>3 DEF Purged
<1>2. ASSUME ExclusionStep(e) \/ FailExclusion(e)
      PROVE  /\ UNCHANGED published /\ \A u \in published[e] : Quiet(u)'
             /\ exclusion'[e].pattern = exclusion[e].pattern
             /\ exclusion'[e].rule = exclusion[e].rule
  <2>1. UNCHANGED published
    BY <1>2, ExclusionShrinks
  <2>2. \A u \in published[e] : Quiet(u)'
    BY <1>0, QuietStays DEF Purged
  <2>3. CASE EndExclusion(e) \/ FailExclusion(e)
    <3>1. PICK pc \in {"done", "failed"} : exclusion'[e] = EndedExclusion(e, pc)
      BY <1>0, <2>3 DEF EndExclusion, FailExclusion
    <3> QED
      BY <1>0, <2>1, <2>2, <3>1 DEF EndedExclusion, ExclusionState
  <2>4. CASE ListDocuments(e)
    <3>1. exclusion'[e] = [exclusion[e] EXCEPT !.pc = "purge",
                !.pending = {d \in Matches[exclusion[e].pattern] : versions[d] > 0}]
      BY <1>0, <2>4 DEF ListDocuments
    <3> QED
      BY <1>0, <2>1, <2>2, <3>1 DEF ExclusionState
  <2>5. CASE PurgeNext(e)
    <3>1. PICK d \in exclusion[e].pending : exclusion' = [exclusion EXCEPT
                ![e].pc = "search", ![e].document = d, ![e].pending = @ \ {d}]
      BY <2>5 DEF PurgeNext
    <3> QED
      BY <1>0, <2>1, <2>2, <3>1 DEF ExclusionState
  <2>6. CASE SearchHits(e)
    <3>1. PICK hits : exclusion'[e] = [exclusion[e] EXCEPT !.pc = "delete", !.hits = hits]
      BY <1>0, <2>6 DEF SearchHits
    <3> QED
      BY <1>0, <2>1, <2>2, <3>1 DEF ExclusionState
  <2>7. CASE DeleteDocument(e)
    <3>1. exclusion'[e] \in {EndedExclusion(e, "failed"), [exclusion[e] EXCEPT !.pc = "purge"]}
      BY <1>0, <2>7 DEF DeleteDocument
    <3> QED
      BY <1>0, <2>1, <2>2, <3>1 DEF EndedExclusion, ExclusionState
  <2>8. CASE DeleteHit(e)
    <3>1. PICK x : exclusion'[e] \in {EndedExclusion(e, "failed"),
                                      [exclusion[e] EXCEPT !.hits = exclusion[e].hits \ {x}]}
      BY <1>0, <2>8 DEF DeleteHit
    <3> QED
      BY <1>0, <2>1, <2>2, <3>1 DEF EndedExclusion, ExclusionState
  <2>9. CASE HitsDeleted(e)
    BY <1>0, <2>1, <2>2, <2>9 DEF HitsDeleted, ExclusionState
  <2> QED
    BY <1>2, <2>3, <2>4, <2>5, <2>6, <2>7, <2>8, <2>9 DEF ExclusionStep
<1> DEFINE left(d, chunks) == LeftIn(e, d, chunks)
\* What is left is what was left, of the chunks that are still there.
<1>3. ASSUME ExclusionStep(e) \/ FailExclusion(e)
      PROVE  /\ \A d : LeftIn(e, d, vector)' = left(d, vector')
             /\ \A d : LeftIn(e, d, keyword)' = left(d, keyword')
             /\ \A d : LeftIn(e, d, Searchable)' = left(d, vector') \cup left(d, keyword')
             /\ \A d : left(d, Searchable) = left(d, vector) \cup left(d, keyword)
             /\ \A d : left(d, vector') \subseteq left(d, vector)
             /\ \A d : left(d, keyword') \subseteq left(d, keyword)
  <2>1. vector' \subseteq vector /\ keyword' \subseteq keyword
    BY <1>3, ExclusionShrinks
  <2> QED
    BY <1>2, <1>3, <2>1 DEF LeftIn, Condemned, Of, Searchable
\* What the keyword index shows of the published uploads is all of them.
<1>4. \A x \in keyword : x.by \in published[e] => x \in shown
  BY <1>0 DEF Purged, Quiet
<1> HIDE DEF left
<1>5. CASE ListDocuments(e)
  <2> DEFINE listed == {d \in Matches[exclusion[e].pattern] : versions[d] > 0}
  <2>1. /\ exclusion'[e].pc = "purge" /\ exclusion'[e].pending = listed
        /\ UNCHANGED <<vector, keyword>>
    BY <1>0, <1>5 DEF ListDocuments, ExclusionState, stores
  <2>2. \A x \in Searchable : x.by \in published[e] => versions[x.document] > 0
    BY <1>0 DEF PurgeInv, OwnerInv, Purged, Quiet
  <2>3. \A d \in Matches[exclusion[e].pattern] \ listed : left(d, Searchable) = {}
    BY <2>2 DEF left, LeftIn, Condemned, Of
  <2>4. \A d \in Through(e)' : LeftIn(e, d, Searchable)' = {}
    <3>1. Through(e)' \subseteq Matches[exclusion[e].pattern] \ listed
      BY <1>2, <1>5, <2>1 DEF Through, ExclusionStep
    <3> QED
      BY <1>3, <1>5, <2>1, <2>3, <3>1 DEF ExclusionStep
  <2> QED
    BY <1>2, <1>5, <2>1, <2>4 DEF Purged, ExclusionStep
<1>6. CASE PurgeNext(e)
  <2>1. PICK d \in exclusion[e].pending :
            /\ \E page \in Pages(exclusion[e].rule, d, vector) :
                vector' = vector \ Condemned(exclusion[e].rule, d, page)
            /\ Overlook(e, d, vector)
            /\ exclusion' = [exclusion EXCEPT
                ![e].pc = "search", ![e].document = d, ![e].pending = @ \ {d}]
    BY <1>6 DEF PurgeNext
  <2>2. PICK page \in Pages(exclusion[e].rule, d, vector) :
            vector' = vector \ Condemned(exclusion[e].rule, d, page)
    BY <2>1
  <2>3. /\ exclusion[e].pc = "purge" /\ exclusion'[e].pc = "search" /\ exclusion'[e].document = d
        /\ exclusion'[e].pending = exclusion[e].pending \ {d}
    BY <1>0, <1>6, <2>1 DEF PurgeNext, ExclusionState
  <2>4. /\ overlooked[e] \subseteq overlooked'[e]
        /\ d \notin overlooked'[e] =>
            Condemned(exclusion[e].rule, d, page) = Condemned(exclusion[e].rule, d, vector)
    BY <2>1, <2>2, PageOrOverlooked
  <2>5. d \notin overlooked'[e] => left(d, vector') = {}
    BY <2>2, <2>4 DEF left, LeftIn, Condemned, Of
  <2>6. ASSUME NEW b \in Through(e)', b # d PROVE LeftIn(e, b, Searchable)' = {}
    <3>1. b \in Through(e)
      BY <1>2, <1>6, <2>3, <2>4, <2>6 DEF Through, ExclusionStep
    <3>2. left(b, Searchable) = {}
      BY <1>0, <2>3, <3>1 DEF Purged, left
    <3> QED
      BY <1>3, <1>6, <3>2 DEF ExclusionStep
  <2>7. d \notin overlooked'[e] => LeftIn(e, d, vector)' = {}
    BY <1>3, <1>6, <2>5 DEF ExclusionStep
  <2> QED
    BY <1>2, <1>6, <2>3, <2>6, <2>7 DEF Purged, ExclusionStep
<1>7. ASSUME exclusion[e].pc \in {"search", "delete"}
      PROVE  /\ exclusion[e].document \notin overlooked[e] =>
                    left(exclusion[e].document, vector) = {}
             /\ \A d \in Through(e) : d # exclusion[e].document => left(d, Searchable) = {}
  BY <1>0, <1>7 DEF Purged, left
\* Back to the list of documents, when nothing is left of the one at hand.
<1>8. ASSUME DeleteDocument(e) \/ HitsDeleted(e), exclusion'[e].pc = "purge",
             exclusion[e].pc \in {"search", "delete"},
             exclusion'[e].pending = exclusion[e].pending, UNCHANGED overlooked,
             exclusion[e].document \notin overlooked[e] => left(exclusion[e].document, keyword') = {}
      PROVE  Purged(e)'
  <2>1. Through(e)' = Through(e)
    BY <1>2, <1>8 DEF Through, ExclusionStep
  <2>2. ASSUME NEW d \in Through(e) PROVE left(d, vector') = {} /\ left(d, keyword') = {}
    <3>1. left(d, vector') \subseteq left(d, vector) /\ left(d, keyword') \subseteq left(d, keyword)
      BY <1>3, <1>8 DEF ExclusionStep
    <3>2. CASE d = exclusion[e].document
      <4>1. d \notin overlooked[e]
        BY DEF Through
      <4> QED
        BY <1>7, <1>8, <3>1, <3>2, <4>1
    <3>3. CASE d # exclusion[e].document
      <4>1. left(d, Searchable) = {}
        BY <1>7, <1>8, <3>3
      <4>2. left(d, Searchable) = left(d, vector) \cup left(d, keyword)
        BY <1>3, <1>8 DEF ExclusionStep
      <4> QED
        BY <3>1, <4>1, <4>2
    <3> QED
      BY <3>2, <3>3
  <2>3. \A d \in Through(e)' : LeftIn(e, d, Searchable)' = {}
    BY <1>3, <1>8, <2>1, <2>2 DEF ExclusionStep
  <2> QED
    BY <1>2, <1>8, <2>3 DEF Purged, ExclusionStep
<1>9. CASE DeleteDocument(e)
  <2>1. CASE Conflict(exclusion[e].document)
    <3>1. exclusion'[e] = EndedExclusion(e, "failed")
      BY <1>0, <1>9, <2>1 DEF DeleteDocument
    <3>2. exclusion'[e].pc = "failed"
      BY <1>0, <3>1 DEF EndedExclusion, ExclusionState
    <3> QED
      BY <1>2, <1>9, <3>2 DEF Purged, ExclusionStep
  <2>2. CASE ~Conflict(exclusion[e].document)
    <3>1. /\ exclusion[e].pc = "search" /\ exclusion'[e].pc = "purge"
          /\ exclusion'[e].pending = exclusion[e].pending /\ UNCHANGED overlooked
          /\ keyword' = keyword \ Of(exclusion[e].document, shown)
      BY <1>0, <1>9, <2>2 DEF DeleteDocument, DeleteByQuery, ExclusionState, history, ruleHistory
    <3>2. left(exclusion[e].document, keyword') = {}
      BY <1>4, <3>1 DEF left, LeftIn, Condemned, Of
    <3> QED
      BY <1>8, <1>9, <3>1, <3>2
  <2> QED
    BY <2>1, <2>2
<1>10. CASE SearchHits(e)
  <2> DEFINE d == exclusion[e].document
  <2>1. PICK page \in Pages(exclusion[e].rule, d, shown) :
            exclusion' = [exclusion EXCEPT ![e] =
                [@ EXCEPT !.pc = "delete", !.hits = Condemned(exclusion[e].rule, d, page)]]
    BY <1>10 DEF SearchHits
  <2>2. /\ exclusion[e].pc = "search" /\ exclusion'[e].pc = "delete"
        /\ exclusion'[e].pending = exclusion[e].pending /\ exclusion'[e].document = d
        /\ exclusion'[e].hits = Condemned(exclusion[e].rule, d, page)
        /\ UNCHANGED <<vector, keyword>> /\ Overlook(e, d, shown)
    BY <1>0, <1>10, <2>1 DEF SearchHits, ExclusionState, stores
  <2>3. /\ overlooked[e] \subseteq overlooked'[e]
        /\ d \notin overlooked'[e] =>
            Condemned(exclusion[e].rule, d, page) = Condemned(exclusion[e].rule, d, shown)
    BY <2>1, <2>2, PageOrOverlooked
  <2>4. left(d, keyword) \subseteq Condemned(exclusion[e].rule, d, shown)
    BY <1>4 DEF left, LeftIn, Condemned, Of
  <2>5. Through(e)' \subseteq Through(e)
    BY <1>2, <1>10, <2>2, <2>3 DEF Through, ExclusionStep
  <2>6. \A b \in Through(e)' : b # d => LeftIn(e, b, Searchable)' = {}
    BY <1>3, <1>7, <1>10, <2>2, <2>5 DEF ExclusionStep
  <2>7. d \notin overlooked'[e] => LeftIn(e, d, vector)' = {}
    BY <1>3, <1>7, <1>10, <2>2, <2>3 DEF ExclusionStep
  <2>8. d \notin overlooked'[e] => LeftIn(e, d, keyword)' \subseteq exclusion'[e].hits
    BY <1>3, <1>10, <2>2, <2>3, <2>4 DEF ExclusionStep
  <2> QED
    BY <1>2, <1>10, <2>2, <2>6, <2>7, <2>8 DEF Purged, ExclusionStep
<1>11. CASE DeleteHit(e)
  <2>1. PICK h \in exclusion[e].hits :
            /\ keyword' = keyword \ {h}
            /\ exclusion' = [exclusion EXCEPT ![e] =
                IF h \notin keyword THEN EndedExclusion(e, "failed")
                ELSE [exclusion[e] EXCEPT !.hits = @ \ {h}]]
    BY <1>11 DEF DeleteHit
  <2>2. CASE h \notin keyword
    <3>1. exclusion'[e] = EndedExclusion(e, "failed")
      BY <1>0, <2>1, <2>2
    <3>2. exclusion'[e].pc = "failed"
      BY <1>0, <3>1 DEF EndedExclusion, ExclusionState
    <3> QED
      BY <1>2, <1>11, <3>2 DEF Purged, ExclusionStep
  <2>3. CASE h \in keyword
    <3>1. exclusion'[e] = [exclusion[e] EXCEPT !.hits = exclusion[e].hits \ {h}]
      BY <1>0, <2>1, <2>3 DEF ExclusionState
    <3>2. /\ exclusion[e].pc = "delete" /\ exclusion'[e].pc = "delete"
          /\ exclusion'[e].pending = exclusion[e].pending
          /\ exclusion'[e].document = exclusion[e].document
          /\ exclusion'[e].hits = exclusion[e].hits \ {h}
          /\ UNCHANGED overlooked
      BY <1>0, <1>11, <3>1 DEF DeleteHit, ExclusionState, history, ruleHistory
    <3>3. exclusion[e].document \notin overlooked[e] =>
            left(exclusion[e].document, keyword) \subseteq exclusion[e].hits
      BY <1>0, <3>2 DEF Purged, left
    <3>4. h \notin left(exclusion[e].document, keyword')
      BY <2>1 DEF left, LeftIn, Condemned, Of
    <3>5. exclusion[e].document \notin overlooked[e] =>
            left(exclusion[e].document, keyword') \subseteq exclusion'[e].hits
      BY <1>3, <1>11, <3>2, <3>3, <3>4 DEF ExclusionStep
    <3>6. Through(e)' = Through(e)
      BY <1>2, <1>11, <3>2 DEF Through, ExclusionStep
    <3>7. \A d \in Through(e)' : d # exclusion[e].document => LeftIn(e, d, Searchable)' = {}
      BY <1>3, <1>7, <1>11, <3>2, <3>6 DEF ExclusionStep
    <3>8. exclusion[e].document \notin overlooked[e] =>
            LeftIn(e, exclusion[e].document, vector)' = {}
      BY <1>3, <1>7, <1>11, <3>2 DEF ExclusionStep, LeftIn
    <3>9. exclusion[e].document \notin overlooked[e] =>
            LeftIn(e, exclusion[e].document, keyword)' \subseteq exclusion'[e].hits
      BY <1>3, <1>11, <3>2, <3>5 DEF ExclusionStep
    <3> QED
      BY <1>2, <1>11, <3>2, <3>7, <3>8, <3>9 DEF Purged, ExclusionStep
  <2> QED
    BY <2>2, <2>3
<1>12. CASE HitsDeleted(e)
  <2>1. /\ exclusion[e].pc = "delete" /\ exclusion'[e].pc = "purge"
        /\ exclusion'[e].pending = exclusion[e].pending /\ exclusion[e].hits = {}
        /\ UNCHANGED <<overlooked, keyword>>
    BY <1>0, <1>12 DEF HitsDeleted, ExclusionState, history, ruleHistory, stores
  <2>2. exclusion[e].document \notin overlooked[e] => left(exclusion[e].document, keyword') = {}
    BY <1>0, <2>1 DEF Purged, left
  <2> QED
    BY <1>8, <1>12, <2>1, <2>2
<1>13. CASE EndExclusion(e)
  <2>1. exclusion'[e] = EndedExclusion(e, "done") /\ exclusion[e].pc = "purge"
        /\ exclusion[e].pending = {} /\ UNCHANGED overlooked
    BY <1>0, <1>13 DEF EndExclusion, history, ruleHistory
  <2>2. exclusion'[e].pc = "done" /\ exclusion'[e].pending = {}
    BY <1>0, <2>1 DEF EndedExclusion, ExclusionState
  <2>3. \A b \in Through(e) : left(b, Searchable) = {}
    BY <1>0, <2>1 DEF Purged, left
  <2>4. Through(e)' = Through(e)
    BY <1>2, <1>13, <2>1, <2>2 DEF Through, ExclusionStep
  <2>5. \A b \in Through(e)' : LeftIn(e, b, Searchable)' = {}
    BY <1>3, <1>13, <2>3, <2>4 DEF ExclusionStep
  <2> QED
    BY <1>2, <1>13, <2>2, <2>5 DEF Purged, ExclusionStep
<1>14. CASE FailExclusion(e)
  <2>1. exclusion'[e] = EndedExclusion(e, "failed")
    BY <1>0, <1>14 DEF FailExclusion
  <2>2. exclusion'[e].pc = "failed"
    BY <1>0, <2>1 DEF EndedExclusion, ExclusionState
  <2> QED
    BY <1>2, <1>14, <2>2 DEF Purged
<1> QED
  BY <1>1, <1>5, <1>6, <1>9, <1>10, <1>11, <1>12, <1>13, <1>14 DEF ExclusionStep

\* PurgeInv is inductive.
LEMMA PurgeInit == Init => PurgeInv
BY DEF Init, PurgeInv, OwnerInv, Purged, Searchable, NewUpload, NewExclusion
LEMMA PurgeInvNext ==
    ASSUME TypeInv, PurgeInv, [Next]_vars
    PROVE  PurgeInv'
<1>1. OwnerInv'
  BY OwnerNext DEF PurgeInv
<1>2. ASSUME NEW e \in Exclusion PROVE Purged(e)'
  <2>1. CASE AddRule(e) \/ ExclusionStep(e) \/ FailExclusion(e)
    BY <2>1, OwnPurged
  <2>2. CASE ~AddRule(e) /\ ~ExclusionStep(e) /\ ~FailExclusion(e)
    BY <2>2, OthersLeaveExclusion, OthersKeepPurged
  <2> QED
    BY <2>1, <2>2
<1> QED
  BY <1>1, <1>2 DEF PurgeInv

\* It says what PurgeReachesPublished says.
LEMMA PurgedIsGone ==
    ASSUME PurgeInv
    PROVE  PurgeReachesPublished
<1> SUFFICES ASSUME NEW e \in Exclusion, exclusion[e].pc = "done",
                    NEW d \in Matches[exclusion[e].pattern] \ overlooked[e],
                    NEW x \in Condemned(exclusion[e].rule, d, Searchable)
             PROVE  x.by \notin published[e]
  BY DEF PurgeReachesPublished
<1>1. LeftIn(e, d, Searchable) = {}
  BY DEF PurgeInv, Purged, Through
<1> QED
  BY <1>1 DEF LeftIn

\* PurgeReachesPublished: once an exclusion has succeeded, nothing it condemns is
\* left of the uploads that were settled when its rule was written, whatever runs
\* or fails besides, but of documents with more chunks than a purge looks at.
THEOREM PurgeReachesPublishedTheorem == Spec => []PurgeReachesPublished
<1>1. TypeInv /\ PurgeInv /\ [Next]_vars => PurgeInv'
  BY PurgeInvNext
<1>2. PurgeInv => PurgeReachesPublished
  BY PurgedIsGone
<1> QED
  BY <1>1, <1>2, PurgeInit, TypeInvariance, PTL DEF Spec

-----------------------------------------------------------------------------
(***************************************************************************)
(* What an upload that has stored a chunk, or is done, has replaced stays  *)
(* out of both indexes: the uploads that were settled when it began add    *)
(* nothing any more, and it purges what they left before it stores its     *)
(* own - or has read version 0, and they left nothing.                     *)
(***************************************************************************)
Stale(u, chunks) ==
    {x \in chunks : x.document = upload[u].document /\ x.by \in superseded[u]}
Replaced(u) ==
    /\ \A v \in superseded[u] : Quiet(v)
    /\ upload[u].pc = "purge_keyword" => Stale(u, vector) = {}
    /\ upload[u].pc \in {"filter", "index", "done"} => Stale(u, Searchable) = {}
    /\ (\E x \in Searchable : x.by = u) => Stale(u, Searchable) = {}
ReplacedInv == \A u \in Upload : Replaced(u)

\* A step that leaves an upload alone leaves what is said of it.
LEMMA ReplacedFrame ==
    ASSUME TypeInv, [Next]_vars, NEW u \in Upload, Replaced(u),
           upload'[u] = upload[u], superseded'[u] = superseded[u],
           \A x \in Searchable' \ Searchable : x.by # u
    PROVE  Replaced(u)'
<1>0. superseded[u] \subseteq Upload
  BY DEF TypeInv, TypeOK
<1>1. /\ \A v \in superseded[u] : Quiet(v)'
      /\ \A x \in vector' \ vector : x.by \notin superseded[u]
      /\ \A x \in keyword' \ keyword : x.by \notin superseded[u]
  BY <1>0, QuietStays DEF Replaced
<1>2. Stale(u, vector)' \subseteq Stale(u, vector) /\ Stale(u, Searchable)' \subseteq Stale(u, Searchable)
  BY <1>1 DEF Stale, Searchable
<1>3. (\E x \in Searchable' : x.by = u) => \E x \in Searchable : x.by = u
  OBVIOUS
<1> QED
  BY <1>1, <1>2, <1>3 DEF Replaced

\* The steps of an upload: reading version 0 means there was nothing to replace.
LEMMA ReplacedOwnStep ==
    ASSUME TypeInv, OwnerInv, [Next]_vars, NEW u \in Upload, UploadStep(u) \/ FailUpload(u),
           Replaced(u)
    PROVE  Replaced(u)'
<1>1. /\ upload \in [Upload -> UploadState] /\ upload[u] \in UploadState
      /\ upload[u].pc \in Steps /\ upload'[u].document = upload[u].document
      /\ upload[u].document \in Document /\ superseded[u] \subseteq Upload
      /\ superseded'[u] = superseded[u]
  BY UploadStepShape DEF TypeInv, TypeOK, UploadFormed, history
<1>2. u \notin superseded[u] /\ \A v \in superseded'[u] : Quiet(v)'
  BY <1>1, QuietStays DEF Replaced, Quiet, Steps
\* Nothing of it is stored before it is at "index".
<1>3. upload[u].pc \in Steps \ {"index"} => \A x \in Searchable : x.by # u
  BY DEF OwnerInv, Steps
<1>4. CASE ReadVersion(u)
  <2>1. /\ UNCHANGED <<vector, keyword>> /\ upload[u].pc = "read_version"
        /\ upload'[u].pc = IF versions[upload[u].document] > 0 THEN "purge_vector" ELSE "filter"
    BY <1>1, <1>4 DEF ReadVersion, stores
  <2>2. ASSUME ~(versions[upload[u].document] > 0), NEW x \in Searchable,
               x.document = upload[u].document
        PROVE  x.by \notin superseded[u]
    <3>1. x.document = upload[x.by].document
      BY DEF OwnerInv
    <3>2. ~Quiet(x.by)
      BY <2>2, <3>1 DEF Quiet
    <3> QED
      BY <3>2 DEF Replaced
  <2>3. ~(versions[upload[u].document] > 0) => Stale(u, Searchable)' = {}
    BY <1>1, <2>1, <2>2 DEF Stale, Searchable
  <2>4. \A x \in Searchable' : x.by # u
    BY <1>3, <2>1 DEF Searchable, Steps
  <2> QED
    BY <1>2, <2>1, <2>3, <2>4 DEF Replaced
<1>5. CASE PurgeVector(u)
  <2>1. /\ upload[u].pc = "purge_vector" /\ upload'[u].pc = "purge_keyword"
        /\ vector' = vector \ Of(upload[u].document, vector) /\ UNCHANGED keyword
    BY <1>1, <1>5 DEF PurgeVector
  <2>2. Stale(u, vector)' = {}
    BY <1>1, <2>1 DEF Stale, Of
  <2>3. \A x \in Searchable' : x.by # u
    BY <1>3, <2>1 DEF Searchable, Steps
  <2> QED
    BY <1>2, <2>1, <2>2, <2>3 DEF Replaced
<1>6. CASE PurgeKeyword(u)
  <2>1. /\ upload[u].pc = "purge_keyword" /\ UNCHANGED vector /\ keyword' \subseteq keyword
    BY <1>6 DEF PurgeKeyword, DeleteByQuery
  <2>2. \A x \in Searchable' : x.by # u
    BY <1>3, <2>1 DEF Searchable, Steps
  <2>3. CASE Conflict(upload[u].document)
    <3>1. upload'[u] = EndedUpload(u, "failed")
      BY <1>1, <1>6, <2>3 DEF PurgeKeyword
    <3>2. upload'[u].pc = "failed"
      BY <1>1, <3>1 DEF EndedUpload, UploadState
    <3> QED
      BY <1>2, <2>2, <3>2 DEF Replaced
  <2>4. CASE ~Conflict(upload[u].document)
    <3>1. /\ upload'[u].pc = "filter"
          /\ keyword' = keyword \ Of(upload[u].document, shown)
      BY <1>1, <1>6, <2>4 DEF PurgeKeyword, DeleteByQuery
    <3>2. Stale(u, vector) = {}
      BY <2>1 DEF Replaced
    <3>3. \A x \in keyword : x.by \in superseded[u] => x \in shown
      BY DEF Replaced, Quiet
    <3>4. Stale(u, Searchable)' = {}
      BY <1>1, <2>1, <3>1, <3>2, <3>3 DEF Stale, Of, Searchable
    <3> QED
      BY <1>2, <2>2, <3>1, <3>4 DEF Replaced
  <2> QED
    BY <2>3, <2>4
<1>7. CASE CheckSegment(u) \/ Upsert(u) \/ Index(u) \/ SaveMetadata(u)
  <2>1. /\ upload[u].pc \in {"filter", "index"}
        /\ vector' \subseteq vector \cup ChunksOf(u, Segment)
        /\ keyword' \subseteq keyword \cup ChunksOf(u, Segment)
    BY <1>7, UploadStepShape DEF CheckSegment, Upsert, Index, SaveMetadata
  <2>2. upload'[u].pc \in {"filter", "index", "done"}
    <3>1. CASE CheckSegment(u)
      BY <1>1, <3>1 DEF CheckSegment
    <3>2. CASE Upsert(u)
      BY <1>1, <3>2 DEF Upsert
    <3>3. CASE Index(u)
      BY <1>1, <3>3 DEF Index
    <3>4. CASE SaveMetadata(u)
      <4>1. upload'[u] = EndedUpload(u, "done")
        BY <1>1, <3>4 DEF SaveMetadata
      <4> QED
        BY <1>1, <4>1 DEF EndedUpload, UploadState
    <3> QED
      BY <1>7, <3>1, <3>2, <3>3, <3>4
  <2>3. Stale(u, Searchable) = {}
    BY <2>1 DEF Replaced
  <2>4. \A x \in ChunksOf(u, Segment) : x.by \notin superseded[u]
    BY <1>2 DEF ChunksOf
  <2>5. Stale(u, Searchable)' = {}
    BY <1>1, <2>1, <2>3, <2>4 DEF Stale, Searchable
  <2> QED
    BY <1>2, <2>2, <2>5 DEF Replaced
<1>8. CASE FailUpload(u)
  <2>1. upload'[u] = EndedUpload(u, "failed") /\ UNCHANGED <<vector, keyword>>
    BY <1>1, <1>8 DEF FailUpload, stores
  <2>2. upload'[u].pc = "failed"
    BY <1>1, <2>1 DEF EndedUpload, UploadState
  <2>3. Stale(u, Searchable)' = Stale(u, Searchable) /\ Searchable' = Searchable
    BY <1>1, <2>1 DEF Stale, Searchable
  <2> QED
    BY <1>2, <2>2, <2>3 DEF Replaced
<1> QED
  BY <1>4, <1>5, <1>6, <1>7, <1>8 DEF UploadStep

\* ReplacedInv is inductive.
LEMMA ReplacedInit == Init => ReplacedInv
BY DEF Init, ReplacedInv, Replaced, NewUpload, Searchable
LEMMA ReplacedNext ==
    ASSUME TypeInv, OwnerInv, ReplacedInv, [Next]_vars
    PROVE  ReplacedInv'
<1>0. \A y \in Searchable : y.by \in Upload
  BY DEF Searchable, TypeInv, TypeOK, Chunk
<1>1. ASSUME NEW u \in Upload, UploadStep(u) \/ FailUpload(u) PROVE ReplacedInv'
  <2>1. /\ \A v \in Upload : v # u => upload'[v] = upload[v]
        /\ vector' \subseteq vector \cup ChunksOf(u, Segment)
        /\ keyword' \subseteq keyword \cup ChunksOf(u, Segment)
        /\ UNCHANGED superseded
    BY <1>1, UploadStepShape DEF history
  <2>2. \A x \in Searchable' \ Searchable : x.by = u
    BY <2>1 DEF Searchable, ChunksOf
  <2>3. \A v \in Upload : v # u => Replaced(v)'
    BY <2>1, <2>2, ReplacedFrame DEF ReplacedInv
  <2>4. Replaced(u)'
    BY <1>1, ReplacedOwnStep DEF ReplacedInv
  <2> QED
    BY <2>3, <2>4 DEF ReplacedInv
<1>2. ASSUME NEW u \in Upload, Begin(u) PROVE ReplacedInv'
  <2>1. /\ upload[u].pc = "new" /\ upload'[u].pc \in {"refused", "read_version"}
        /\ \A v \in Upload : v # u => upload'[v] = upload[v]
        /\ UNCHANGED <<vector, keyword>>
    BY <1>2, BeginShape
  <2>2. superseded' = [superseded EXCEPT ![u] = Settled]
    BY <1>2 DEF Begin
  <2>3. superseded'[u] = Settled /\ \A v \in Upload : v # u => superseded'[v] = superseded[v]
    BY <2>2 DEF TypeInv, TypeOK
  <2>4. \A v \in Upload : v # u => Replaced(v)'
    BY <2>1, <2>3, ReplacedFrame DEF ReplacedInv, Searchable
  <2>5. \A v \in superseded'[u] : Quiet(v)'
    BY <2>3, SettledIsQuiet, QuietStays
  <2>6. \A x \in Searchable' : x.by # u
    BY <2>1 DEF OwnerInv, Searchable
  <2>7. Replaced(u)'
    BY <2>1, <2>5, <2>6 DEF Replaced
  <2> QED
    BY <2>4, <2>7 DEF ReplacedInv
<1>3. CASE \A u \in Upload : ~Begin(u) /\ ~UploadStep(u) /\ ~FailUpload(u)
  <2>1. /\ UNCHANGED <<upload, superseded>>
        /\ vector' \subseteq vector /\ keyword' \subseteq keyword
    BY <1>3, OtherShape
  <2> QED
    BY <2>1, ReplacedFrame DEF ReplacedInv, Searchable
<1> QED
  BY <1>1, <1>2, <1>3

\* NeverMixed: once a re-upload has stored a chunk, and at the latest when it has
\* succeeded, nothing is left of the uploads of the document that were settled
\* when it began, whatever else runs or fails.
THEOREM NeverMixedTheorem == Spec => []NeverMixed
<1>1. Init => PurgeInv /\ ReplacedInv
  BY PurgeInit, ReplacedInit
<1>2. TypeInv /\ PurgeInv /\ ReplacedInv /\ [Next]_vars => (PurgeInv /\ ReplacedInv)'
  BY PurgeInvNext, ReplacedNext DEF PurgeInv
<1>3. ReplacedInv => NeverMixed
  BY DEF ReplacedInv, Replaced, Stale, NeverMixed, Of
<1> QED
  BY <1>1, <1>2, <1>3, TypeInvariance, PTL DEF Spec

-----------------------------------------------------------------------------
(***************************************************************************)
(* As long as a rule is in force, every upload that begins after it was    *)
(* written has what it blocks blocked from the beginning to the end.       *)
(***************************************************************************)
Enforced(e) ==
    inforce[e] =>
        /\ exclusion[e].pc # "new" /\ rules[exclusion[e].pattern] = exclusion[e].rule
        /\ \A u \in Upload :
            /\ upload[u].pc \notin {"new", "refused"} /\ u \notin before[e]
            /\ upload[u].document \in Matches[exclusion[e].pattern]
            => exclusion[e].rule.blocks \subseteq blocked[u]
EnforcedInv == \A e \in Exclusion : Enforced(e)

\* A rule in the table blocks its segments.
LEMMA RuleBlocks ==
    ASSUME NEW rs, NEW p \in Pattern, rs[p] # NoRule, NEW d \in Matches[p]
    PROVE  rs[p].blocks \subseteq BlockedIn(rs, d)
<1>1. rs[p] \in RulesFor(rs, d)
  BY DEF RulesFor
<1> QED
  BY <1>1 DEF BlockedIn

\* The pattern and the rule of an exclusion that has begun stay.
LEMMA RuleStays ==
    ASSUME TypeInv, [Next]_vars, NEW e \in Exclusion, exclusion[e].pc # "new"
    PROVE  /\ exclusion'[e].pc # "new" /\ exclusion'[e].pattern = exclusion[e].pattern
           /\ exclusion'[e].rule = exclusion[e].rule
<1>0. exclusion \in [Exclusion -> ExclusionState] /\ exclusion[e] \in ExclusionState
  BY DEF TypeInv, TypeOK
<1>1. CASE ExclusionStep(e) \/ FailExclusion(e)
  <2>1. CASE EndExclusion(e) \/ FailExclusion(e)
    <3>1. PICK pc \in {"done", "failed"} : exclusion'[e] = EndedExclusion(e, pc)
      BY <1>0, <2>1 DEF EndExclusion, FailExclusion
    <3> QED
      BY <1>0, <3>1 DEF EndedExclusion, ExclusionState
  <2>2. CASE ListDocuments(e)
    <3>1. exclusion'[e] = [exclusion[e] EXCEPT !.pc = "purge",
                !.pending = {d \in Matches[exclusion[e].pattern] : versions[d] > 0}]
      BY <1>0, <2>2 DEF ListDocuments
    <3> QED
      BY <1>0, <3>1 DEF ExclusionState
  <2>3. CASE PurgeNext(e)
    <3>1. PICK d \in exclusion[e].pending : exclusion' = [exclusion EXCEPT
                ![e].pc = "search", ![e].document = d, ![e].pending = @ \ {d}]
      BY <2>3 DEF PurgeNext
    <3> QED
      BY <1>0, <3>1 DEF ExclusionState
  <2>4. CASE SearchHits(e)
    <3>1. PICK hits : exclusion'[e] = [exclusion[e] EXCEPT !.pc = "delete", !.hits = hits]
      BY <1>0, <2>4 DEF SearchHits
    <3> QED
      BY <1>0, <3>1 DEF ExclusionState
  <2>5. CASE DeleteDocument(e)
    <3>1. exclusion'[e] \in {EndedExclusion(e, "failed"), [exclusion[e] EXCEPT !.pc = "purge"]}
      BY <1>0, <2>5 DEF DeleteDocument
    <3> QED
      BY <1>0, <3>1 DEF EndedExclusion, ExclusionState
  <2>6. CASE DeleteHit(e)
    <3>1. PICK x : exclusion'[e] \in {EndedExclusion(e, "failed"),
                                      [exclusion[e] EXCEPT !.hits = exclusion[e].hits \ {x}]}
      BY <1>0, <2>6 DEF DeleteHit
    <3>2. exclusion[e].pc = "delete"
      BY <2>6 DEF DeleteHit
    <3> QED
      BY <1>0, <3>1, <3>2 DEF EndedExclusion, ExclusionState
  <2>7. CASE HitsDeleted(e)
    BY <1>0, <2>7 DEF HitsDeleted, ExclusionState
  <2> QED
    BY <1>1, <2>1, <2>2, <2>3, <2>4, <2>5, <2>6, <2>7 DEF ExclusionStep
<1>2. ~AddRule(e)
  BY DEF AddRule
<1>3. CASE ~ExclusionStep(e) /\ ~FailExclusion(e)
  BY <1>2, <1>3, OthersLeaveExclusion
<1> QED
  BY <1>1, <1>3

\* The steps that leave the rules alone.
LEMMA EnforcedElsewhere ==
    ASSUME TypeInv, EnforcedInv, [Next]_vars, UNCHANGED <<rules, before, inforce, blocked>>,
           \A u \in Upload :
                upload'[u].pc \notin {"new", "refused"} =>
                    /\ upload[u].pc \notin {"new", "refused"}
                    /\ upload'[u].document = upload[u].document
    PROVE  EnforcedInv'
<1> SUFFICES ASSUME NEW e \in Exclusion, inforce'[e] PROVE Enforced(e)'
  BY DEF EnforcedInv, Enforced
<1>1. Enforced(e) /\ inforce[e] /\ exclusion[e].pc # "new"
  BY DEF EnforcedInv, Enforced
<1>2. /\ exclusion'[e].pc # "new" /\ exclusion'[e].pattern = exclusion[e].pattern
      /\ exclusion'[e].rule = exclusion[e].rule
  BY <1>1, RuleStays
<1> QED
  BY <1>1, <1>2 DEF Enforced

\* The steps that change the rules of one pattern: the uploads in progress keep
\* what every rule still in force blocks.
LEMMA EnforcedRules ==
    ASSUME TypeInv, EnforcedInv, [Next]_vars, NEW p \in Pattern, NEW rule,
           rules' = [rules EXCEPT ![p] = rule], blocked' = StillBlocked(rules'),
           UNCHANGED upload,
           NEW e \in Exclusion, inforce[e], exclusion[e].pattern # p, before'[e] = before[e]
    PROVE  Enforced(e)'
<1>1. Enforced(e) /\ exclusion[e].pc # "new"
  BY DEF EnforcedInv, Enforced
<1>2. /\ exclusion'[e].pc # "new" /\ exclusion'[e].pattern = exclusion[e].pattern
      /\ exclusion'[e].rule = exclusion[e].rule
  BY <1>1, RuleStays
<1>3. exclusion[e].pattern \in Pattern /\ exclusion[e].rule \in Rule
  BY <1>1 DEF TypeInv, ExclusionFormed
<1>4. rules'[exclusion[e].pattern] = exclusion[e].rule
  BY <1>1, <1>3 DEF Enforced, TypeInv, TypeOK
<1>5. ASSUME NEW u \in Upload, upload[u].pc \notin {"new", "refused"}, u \notin before[e],
             upload[u].document \in Matches[exclusion[e].pattern]
      PROVE  exclusion[e].rule.blocks \subseteq blocked'[u]
  <2>1. exclusion[e].rule.blocks \subseteq blocked[u]
    BY <1>1, <1>5 DEF Enforced
  <2>2. exclusion[e].rule.blocks \subseteq BlockedIn(rules', upload[u].document)
    BY <1>3, <1>4, <1>5, RuleBlocks, IngestionAssumption
  <2>3. blocked'[u] \in {blocked[u], blocked[u] \cap BlockedIn(rules', upload[u].document)}
    BY DEF StillBlocked
  <2> QED
    BY <2>1, <2>2, <2>3
<1> QED
  BY <1>1, <1>2, <1>4, <1>5 DEF Enforced

LEMMA EnforcedInit == Init => EnforcedInv
BY DEF Init, EnforcedInv, Enforced
LEMMA EnforcedNext ==
    ASSUME TypeInv, EnforcedInv, [Next]_vars
    PROVE  EnforcedInv'
<1>0. /\ upload \in [Upload -> UploadState] /\ exclusion \in [Exclusion -> ExclusionState]
      /\ rules \in [Pattern -> Rule \cup {NoRule}] /\ blocked \in [Upload -> SUBSET Segment]
      /\ before \in [Exclusion -> SUBSET Upload]
  BY DEF TypeInv, TypeOK
<1>1. ASSUME NEW u \in Upload, UploadStep(u) \/ FailUpload(u) PROVE EnforcedInv'
  <2>1. /\ upload[u].pc \in Steps /\ upload'[u].document = upload[u].document
        /\ \A v \in Upload : v # u => upload'[v] = upload[v]
        /\ UNCHANGED <<rules, before, inforce, blocked>>
    BY <1>1, UploadStepShape DEF history, ruleHistory
  <2>2. \A v \in Upload : upload'[v].pc \notin {"new", "refused"} =>
            /\ upload[v].pc \notin {"new", "refused"}
            /\ upload'[v].document = upload[v].document
    BY <2>1 DEF Steps
  <2> QED
    BY <2>1, <2>2, EnforcedElsewhere
<1>2. ASSUME NEW u \in Upload, Begin(u), NEW e \in Exclusion, inforce'[e] PROVE Enforced(e)'
  <2>1. /\ upload[u].pc = "new" /\ upload'[u].pc \in {"refused", "read_version"}
        /\ \A v \in Upload : v # u => upload'[v] = upload[v]
        /\ UNCHANGED <<rules, exclusion, ruleHistory>>
    BY <1>2, BeginShape
  <2>2. PICK d \in Document, s \in SUBSET Segment :
            /\ upload' = [upload EXCEPT ![u] =
                IF IsExcluded(d) THEN [@ EXCEPT !.pc = "refused"]
                ELSE [@ EXCEPT !.pc = "read_version", !.document = d,
                               !.segments = s, !.unchecked = s]]
            /\ blocked' = [blocked EXCEPT ![u] = IF IsExcluded(d) THEN {} ELSE BlockedIn(rules, d)]
    BY <1>2 DEF Begin
  <2>3. Enforced(e) /\ inforce[e]
    BY <1>2, <2>1 DEF EnforcedInv, ruleHistory
  <2>4. exclusion[e].pattern \in Pattern /\ exclusion[e].rule \in Rule
    BY <2>3 DEF Enforced, TypeInv, ExclusionFormed
  <2>5. ASSUME upload'[u].pc # "refused", upload'[u].document \in Matches[exclusion[e].pattern]
        PROVE  exclusion[e].rule.blocks \subseteq blocked'[u]
    <3>1. ~IsExcluded(d)
      BY <1>0, <2>2, <2>5
    <3>2. upload'[u].document = d /\ blocked'[u] = BlockedIn(rules, d)
      BY <1>0, <2>2, <3>1 DEF UploadState
    <3>3. rules[exclusion[e].pattern] = exclusion[e].rule
      BY <2>3 DEF Enforced
    <3> QED
      BY <2>4, <2>5, <3>2, <3>3, RuleBlocks, IngestionAssumption
  <2>6. \A v \in Upload : v # u => blocked'[v] = blocked[v]
    BY <1>0, <2>2
  <2> QED
    BY <2>1, <2>3, <2>5, <2>6 DEF Enforced, ruleHistory
<1>3. ASSUME NEW f \in Exclusion, AddRule(f), NEW e \in Exclusion, inforce'[e]
      PROVE  Enforced(e)'
  <2>1. PICK p \in Pattern, rule \in Rule :
            /\ rules' = [rules EXCEPT ![p] = rule]
            /\ exclusion' = [exclusion EXCEPT ![f] =
                [@ EXCEPT !.pc = "list", !.pattern = p, !.rule = rule]]
            /\ inforce' = [g \in Exclusion |-> g = f \/ (inforce[g] /\ exclusion[g].pattern # p)]
    BY <1>3 DEF AddRule
  <2>2. /\ before' = [before EXCEPT ![f] = {u \in Upload : upload[u].pc # "new"}]
        /\ UNCHANGED upload /\ blocked' = StillBlocked(rules')
    BY <1>3 DEF AddRule
  <2>3. CASE e = f
    <3>1. /\ exclusion'[e].pc = "list" /\ exclusion'[e].pattern = p /\ exclusion'[e].rule = rule
          /\ rules'[p] = rule
      BY <1>0, <2>1, <2>3 DEF ExclusionState
    <3>2. before'[e] = {u \in Upload : upload[u].pc # "new"}
      BY <1>0, <2>2, <2>3
    <3> QED
      BY <2>2, <3>1, <3>2 DEF Enforced
  <2>4. CASE e # f
    <3>1. inforce[e] /\ exclusion[e].pattern # p
      BY <1>3, <2>1, <2>4
    <3>2. before'[e] = before[e]
      BY <1>0, <2>2, <2>4
    <3> QED
      BY <2>1, <2>2, <3>1, <3>2, EnforcedRules
  <2> QED
    BY <2>3, <2>4
<1>4. ASSUME NEW p \in Pattern, Include(p), NEW e \in Exclusion, inforce'[e] PROVE Enforced(e)'
  <2>1. /\ rules' = [rules EXCEPT ![p] = NoRule] /\ blocked' = StillBlocked(rules')
        /\ UNCHANGED <<upload, before>>
    BY <1>4 DEF Include
  <2>2. inforce[e] /\ exclusion[e].pattern # p
    BY <1>4 DEF Include
  <2> QED
    BY <2>1, <2>2, EnforcedRules
<1>5. ASSUME NEW e \in Exclusion, ExclusionStep(e) \/ FailExclusion(e) PROVE EnforcedInv'
  <2>1. UNCHANGED <<upload, rules, before, inforce, blocked>>
    BY <1>5, ExclusionShrinks
  <2> QED
    BY <2>1, EnforcedElsewhere
<1>6. CASE Refresh \/ UNCHANGED vars
  <2>1. UNCHANGED <<upload, rules, before, inforce, blocked>>
    BY <1>6 DEF Refresh, vars, stores, history, ruleHistory
  <2> QED
    BY <2>1, EnforcedElsewhere
<1>7. EnforcedInv' <=> \A e \in Exclusion : inforce'[e] => Enforced(e)'
  BY DEF EnforcedInv, Enforced
<1> QED
  BY <1>1, <1>2, <1>3, <1>4, <1>5, <1>6, <1>7 DEF Next

\* What a rule blocks it condemns.
LEMMA BlockedIsGone ==
    ASSUME TypeInv, BlockedInv, PurgeInv, EnforcedInv
    PROVE  ExcludedIsGone
<1> SUFFICES ASSUME NEW e \in Exclusion, inforce[e], NEW x \in Searchable,
                    x.document \in Matches[exclusion[e].pattern],
                    x.segment \in exclusion[e].rule.blocks
             PROVE  /\ x.by \in before[e]
                    /\ exclusion[e].pc = "done" /\ x.document \notin overlooked[e] =>
                            x.by \notin published[e]
  BY DEF ExcludedIsGone
<1>1. x.by \in before[e]
  <2>1. /\ x.by \in Upload /\ x.document = upload[x.by].document
        /\ upload[x.by].pc \notin {"new", "refused"}
    BY DEF PurgeInv, OwnerInv, Searchable, TypeInv, TypeOK, Chunk
  <2>2. x.segment \notin blocked[x.by]
    BY DEF BlockedInv
  <2> QED
    BY <2>1, <2>2 DEF EnforcedInv, Enforced
<1>2. x \in Condemned(exclusion[e].rule, x.document, Searchable)
  BY DEF Condemned, Of
<1> QED
  BY <1>1, <1>2, PurgedIsGone DEF PurgeReachesPublished

\* ExcludedIsGone: as long as a rule is in force, what it blocks is only found of
\* uploads that began before the rule was written, and once its exclusion has
\* succeeded, not of those that were settled then, whatever else runs or fails.
THEOREM ExcludedIsGoneTheorem == Spec => []ExcludedIsGone
<1>1. Init => BlockedInv /\ PurgeInv /\ EnforcedInv
  BY BlockedInit, PurgeInit, EnforcedInit
<1>2. TypeInv /\ BlockedInv /\ PurgeInv /\ EnforcedInv /\ [Next]_vars
        => (BlockedInv /\ PurgeInv /\ EnforcedInv)'
  BY BlockedNext, PurgeInvNext, EnforcedNext
<1>3. TypeInv /\ BlockedInv /\ PurgeInv /\ EnforcedInv => ExcludedIsGone
  BY BlockedIsGone
<1> QED
  BY <1>1, <1>2, <1>3, TypeInvariance, PTL DEF Spec
=============================================================================
