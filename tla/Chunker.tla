------------------------------ MODULE Chunker ------------------------------
(***************************************************************************)
(* SemanticChunker.split: the loop that packs the sentences of a segment   *)
(* into chunks of at most MaxChars, each beginning with the end of the one *)
(* before it.                                                              *)
(*                                                                         *)
(* The text, its sentences joined by one blank each, is a row of positions *)
(* from 1; a sentence, a chunk or what is collected of one is an interval  *)
(* of it.  A chunk is such an interval because an overlap is a suffix of   *)
(* the chunk before it and the next sentence follows after one blank.      *)
(*                                                                         *)
(* A definition commented as a slip is no part of the specification: it is *)
(* the definition below it with a plausible mistake in it.                 *)
(***************************************************************************)
EXTENDS Naturals, Sequences

CONSTANTS MaxChars, OverlapChars

\* The defaults are 800 and 150.  With no overlap the tail text[-0:] is the
\* whole text, and chunks grow without end.
ASSUME ChunkerAssumption == MaxChars \in Nat /\ OverlapChars \in Nat \ {0}

VARIABLES
    sentences,   \* the sentences of the text
    next,        \* the sentence the loop is at
    current,     \* what is collected of the next chunk
    chunks       \* the chunks
splitVars == <<sentences, next, current, chunks>>

Interval == [from : Nat, to : Nat]
Nothing == [from |-> 1, to |-> 0]
Length(t) == (t.to + 1) - t.from

IsText(s) ==
    /\ s \in Seq(Interval)
    /\ \A i \in 1 .. Len(s) :
        /\ s[i].from <= s[i].to
        /\ s[i].from = IF i = 1 THEN 1 ELSE s[i - 1].to + 2

StartOn(text) ==
    /\ sentences = text
    /\ next = 1
    /\ current = Nothing
    /\ chunks = <<>>

Fits == Length(current) + Length(sentences[next]) + 1 <= MaxChars

\* Slip: a sentence that fits replaces what is collected.
PackOver ==
    /\ next <= Len(sentences) /\ Fits
    /\ current' = sentences[next]
    /\ next' = next + 1
    /\ UNCHANGED <<sentences, chunks>>
Pack ==
    /\ next <= Len(sentences) /\ Fits
    /\ current' = [from |-> IF current = Nothing THEN sentences[next].from ELSE current.from,
                   to |-> sentences[next].to]
    /\ next' = next + 1
    /\ UNCHANGED <<sentences, chunks>>

\* Where _overlap_tail begins.  A blank it begins with is stripped.
TailStarts(t) ==
    IF Length(t) > OverlapChars
    THEN {(t.to + 1) - OverlapChars, (t.to + 2) - OverlapChars} \cap (1 .. t.to)
    ELSE {t.from}

\* Slip: the whole of the chunk before goes on as the overlap.
CutKeepingAll ==
    /\ next <= Len(sentences) /\ ~Fits
    /\ chunks' = IF current = Nothing THEN chunks ELSE Append(chunks, current)
    /\ current' = [from |-> IF current = Nothing THEN sentences[next].from ELSE current.from,
                   to |-> sentences[next].to]
    /\ next' = next + 1
    /\ UNCHANGED sentences
\* A first sentence that is too long has no chunk before it.
Cut ==
    /\ next <= Len(sentences) /\ ~Fits
    /\ IF current = Nothing
       THEN current' = sentences[next] /\ UNCHANGED chunks
       ELSE /\ chunks' = Append(chunks, current)
            /\ \E start \in TailStarts(current) :
                current' = [from |-> start, to |-> sentences[next].to]
    /\ next' = next + 1
    /\ UNCHANGED sentences

\* What is left when the sentences are used up is the last chunk.
EndSplit ==
    /\ next = Len(sentences) + 1
    /\ chunks' = IF current = Nothing THEN chunks ELSE Append(chunks, current)
    /\ current' = Nothing
    /\ next' = next + 1
    /\ UNCHANGED sentences

SplitStep == Pack \/ Cut \/ EndSplit
SplitInit == \E text \in Seq(Interval) : IsText(text) /\ StartOn(text)
SplitSpec == SplitInit /\ [][SplitStep]_splitVars
-----------------------------------------------------------------------------
(***************************************************************************)
(* Properties                                                              *)
(***************************************************************************)
\* The variables have their types and the loop stays within the text.
SplitTypeOK ==
    /\ IsText(sentences)
    /\ next \in 1 .. Len(sentences) + 2
    /\ current \in Interval
    /\ chunks \in Seq(Interval)

Covers(t, s) == t.from <= s.from /\ s.to <= t.to

\* No sentence is lost or cut in half: each one the loop is past stands whole
\* in some chunk (semantic_chunker.py:3-6), although an overlap may cut it a
\* second time.
EverySentenceWhole ==
    \A i \in 1 .. Len(sentences) : i < next =>
        \/ Covers(current, sentences[i])
        \/ \E k \in 1 .. Len(chunks) : Covers(chunks[k], sentences[i])

SizeOK(t) ==
    \/ Length(t) <= MaxChars
    \/ \E i \in 1 .. Len(sentences) :
        t.to = sentences[i].to /\ Length(t) <= OverlapChars + 1 + Length(sentences[i])

\* A chunk is longer than MaxChars only if it is an overlap and one sentence:
\* overlaps never add up.
OversizeIsOneSentence == SizeOK(current) /\ \A k \in 1 .. Len(chunks) : SizeOK(chunks[k])
=============================================================================
