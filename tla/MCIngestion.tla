----------------------------- MODULE MCIngestion -----------------------------
(***************************************************************************)
(* Small instances of Ingestion for TLC: documents of two segments, of one *)
(* locator kind, a pattern for one document and one for all, and a rule of *)
(* each shape - whole document, locator, kind alone.                       *)
(***************************************************************************)
EXTENDS Ingestion, TLC

CONSTANTS faq, rates, s1, s2, pRates, pAll

MCDocument == {faq, rates}
MCSegment == {s1, s2}
MCPattern == {pRates, pAll}
MCMatches == (pRates :> {rates}) @@ (pAll :> {faq, rates})

Whole == [whole |-> TRUE, scans |-> MCSegment, blocks |-> MCSegment, purges_document |-> TRUE]
Locator == [whole |-> FALSE, scans |-> MCSegment, blocks |-> {s1}, purges_document |-> FALSE]
KindAlone == [whole |-> FALSE, scans |-> {s2}, blocks |-> {s2}, purges_document |-> TRUE]
MCRule == {Whole, Locator, KindAlone}

\* One document, under both patterns, for the runs with two exclusions.
OneDocument == {rates}
OneMatches == (pRates :> {rates}) @@ (pAll :> {rates})
=============================================================================
