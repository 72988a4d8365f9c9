---------------------------- MODULE MCRetrieval ----------------------------
(***************************************************************************)
(* A small instance of Retrieval for TLC: a document of two segments, the  *)
(* first version for everybody until it expires, the second INTERNAL, and  *)
(* a rule for the whole document or a locator that matches both segments.  *)
(* Two versions are four chunks, so that the lists to fuse are longer than *)
(* the pool.                                                               *)
(***************************************************************************)
EXTENDS Retrieval, TLC

CONSTANTS faq, s1, s2, pFaq

MCDocument == {faq}
MCSegment == {s1, s2}
MCPattern == {pFaq}
MCMatches == pFaq :> {faq}
MCRule == [whole : {TRUE}, scans : {MCSegment}, blocks : {MCSegment}, purges_document : {TRUE}]
     \cup [whole : {FALSE}, scans : {MCSegment}, blocks : {MCSegment}, purges_document : {FALSE}]

\* The segments are interchangeable.
Symmetry == Permutations(MCSegment)
=============================================================================
