------------------------- MODULE SegmentationProofs -------------------------
(***************************************************************************)
(* What the loops of Segmentation and Chunker guarantee for every file,    *)
(* batch size, limit and overlap: where a segment's locator comes from,    *)
(* that nothing of a file is lost or taken twice, and that no sentence of  *)
(* a segment is cut.                                                       *)
(*                                                                         *)
(* ReadInv is the invariant of the loops that make segments, SplitInv of   *)
(* the one that splits them.  A recursive function is what its definition  *)
(* says by InductionUpTo, which rests on the well-foundedness of <.        *)
(***************************************************************************)
EXTENDS Segmentation, FiniteSetTheorems, SequenceTheorems, TLAPS

(***************************************************************************)
(* The loop of split.                                                      *)
(***************************************************************************)
\* Past the first sentence, and until the loop ends, something is collected,
\* and it ends with the sentence before the next.
Collected ==
    /\ next = 1 => current = Nothing
    /\ 1 < next /\ next <= Len(sentences) + 1 =>
        /\ 1 <= current.from /\ current.from <= current.to
        /\ current.to = sentences[next - 1].to
SplitInv == SplitTypeOK /\ Collected

\* The next sentence is not empty, and one blank after what is collected.
LEMMA NextSentence ==
    ASSUME SplitInv, next <= Len(sentences)
    PROVE  /\ sentences[next] \in Interval
           /\ 1 <= sentences[next].from /\ sentences[next].from <= sentences[next].to
           /\ next = 1 => current = Nothing
           /\ next > 1 => /\ current # Nothing /\ 1 <= current.from
                          /\ current.from <= current.to
                          /\ sentences[next].from = current.to + 2
<1>1. next \in 1 .. Len(sentences) /\ sentences \in Seq(Interval) /\ current \in Interval
  BY DEF SplitInv, SplitTypeOK, IsText
<1>2. sentences[next] \in Interval
  BY <1>1
<1>3. sentences[next].from <= sentences[next].to
  BY <1>1 DEF SplitInv, SplitTypeOK, IsText
<1>4. next = 1 => current = Nothing /\ sentences[next].from = 1
  BY <1>1 DEF SplitInv, SplitTypeOK, IsText, Collected
<1>5. ASSUME next > 1
      PROVE  /\ 1 <= current.from /\ current.from <= current.to
             /\ sentences[next].from = current.to + 2
  BY <1>1, <1>5 DEF SplitInv, SplitTypeOK, IsText, Collected
<1>6. next > 1 => current # Nothing
  BY <1>5 DEF Nothing
<1>7. 1 <= sentences[next].from
  BY <1>1, <1>2, <1>4, <1>5 DEF Interval
<1> QED BY <1>2, <1>3, <1>4, <1>5, <1>6, <1>7

\* An overlap is not empty, begins within the chunk and is no longer than
\* OverlapChars.
LEMMA TailWithin ==
    ASSUME NEW t \in Interval, 1 <= t.from, t.from <= t.to, NEW start \in TailStarts(t)
    PROVE  start \in Nat /\ 1 <= start /\ start <= t.to /\ (t.to + 1) - start <= OverlapChars
<1>1. t.from \in Nat /\ t.to \in Nat
  BY DEF Interval
<1>2. CASE Length(t) > OverlapChars
  BY <1>1, <1>2, ChunkerAssumption DEF TailStarts, Length
<1>3. CASE ~(Length(t) > OverlapChars)
  BY <1>1, <1>3, ChunkerAssumption DEF TailStarts, Length
<1> QED BY <1>2, <1>3

\* What a sentence that does not fit leaves behind.
LEMMA CutResult ==
    ASSUME SplitInv, Cut
    PROVE  /\ current'.to = sentences[next].to
           /\ current' \in Interval /\ 1 <= current'.from
           /\ current'.from <= sentences[next].from
           /\ Length(current') <= OverlapChars + 1 + Length(sentences[next])
<1> DEFINE s == sentences[next]
<1>0. next <= Len(sentences) /\ s \in Interval /\ 1 <= s.from /\ s.from <= s.to
  BY NextSentence DEF Cut
<1>1. CASE current = Nothing
  <2>1. current' = s
    BY <1>1 DEF Cut
  <2> QED BY <2>1, <1>0, ChunkerAssumption DEF Length, Interval
<1>2. CASE current # Nothing
  <2>1. current \in Interval /\ next > 1
    BY <1>0, <1>2, NextSentence DEF SplitInv, SplitTypeOK
  <2>2. 1 <= current.from /\ current.from <= current.to /\ s.from = current.to + 2
    BY <1>0, <2>1, NextSentence
  <2>3. PICK start \in TailStarts(current) : current' = [from |-> start, to |-> s.to]
    BY <1>2 DEF Cut
  <2>4. start \in Nat /\ 1 <= start /\ start <= current.to /\ (current.to + 1) - start <= OverlapChars
    BY <2>1, <2>2, TailWithin
  <2> QED BY SMTT(30), <1>0, <2>1, <2>2, <2>3, <2>4, ChunkerAssumption DEF Length, Interval
<1> QED BY <1>1, <1>2

\* A sentence that fits is put behind what is collected.
LEMMA PackResult ==
    ASSUME SplitInv, Pack
    PROVE  /\ current'.to = sentences[next].to
           /\ current' \in Interval /\ 1 <= current'.from
           /\ current'.from <= sentences[next].from
           /\ next > 1 => current'.from = current.from /\ current.to <= current'.to
           /\ Length(current') <= MaxChars
<1> DEFINE s == sentences[next]
<1>0. next <= Len(sentences) /\ s \in Interval /\ 1 <= s.from /\ s.from <= s.to
  BY NextSentence DEF Pack
<1>1. next \in Nat /\ next >= 1 /\ current \in Interval
  BY DEF SplitInv, SplitTypeOK
<1>2. CASE next = 1
  <2>1. current = Nothing
    BY <1>0, <1>2, NextSentence
  <2>2. current' = [from |-> s.from, to |-> s.to]
    BY <2>1 DEF Pack
  <2> QED BY <2>1, <2>2, <1>0, <1>2, ChunkerAssumption DEF Pack, Fits, Length, Interval, Nothing
<1>3. CASE next > 1
  <2>1. /\ current # Nothing /\ 1 <= current.from /\ current.from <= current.to
        /\ s.from = current.to + 2
    BY <1>0, <1>3, NextSentence
  <2>2. current' = [from |-> current.from, to |-> s.to]
    BY <2>1 DEF Pack
  <2> QED BY SMTT(30), <2>1, <2>2, <1>0, <1>1, ChunkerAssumption DEF Pack, Fits, Length, Interval
<1> QED BY <1>1, <1>2, <1>3

\* A step of the loop keeps the invariant.
LEMMA SplitInvKept ==
    ASSUME SplitInv, [SplitStep]_splitVars
    PROVE  SplitInv'
<1>0. /\ IsText(sentences) /\ chunks \in Seq(Interval) /\ current \in Interval
      /\ Len(sentences) \in Nat /\ next \in 1 .. Len(sentences) + 2
  BY DEF SplitInv, SplitTypeOK, IsText
<1>1. ASSUME Pack \/ Cut PROVE SplitInv'
  <2>1. /\ sentences' = sentences /\ next' = next + 1 /\ next <= Len(sentences)
        /\ current' \in Interval /\ 1 <= current'.from
        /\ current'.from <= sentences[next].from /\ current'.to = sentences[next].to
    BY <1>1, PackResult, CutResult DEF Pack, Cut
  <2>2. sentences[next].from <= sentences[next].to
    BY <2>1, NextSentence
  <2>3. chunks' \in Seq(Interval)
    BY SMTT(30), <1>0, <1>1 DEF Pack, Cut
  <2>4. SplitTypeOK'
    BY <1>0, <2>1, <2>3 DEF SplitTypeOK, IsText
  <2>5. current'.from <= current'.to
    BY <1>0, <2>1, <2>2, NextSentence DEF Interval
  <2>6. Collected'
    BY <1>0, <2>1, <2>5 DEF Collected
  <2> QED BY <2>4, <2>6 DEF SplitInv
<1>2. CASE EndSplit
  <2>1. sentences' = sentences /\ next' = Len(sentences) + 2 /\ current' = Nothing
    BY <1>0, <1>2 DEF EndSplit
  <2>2. chunks' \in Seq(Interval)
    BY <1>0, <1>2 DEF EndSplit
  <2>3. SplitTypeOK'
    BY <1>0, <2>1, <2>2 DEF SplitTypeOK, IsText, Nothing, Interval
  <2>4. Collected'
    BY <1>0, <2>1 DEF Collected
  <2> QED BY <2>3, <2>4 DEF SplitInv
<1>3. CASE UNCHANGED splitVars
  BY <1>3 DEF splitVars, SplitInv, SplitTypeOK, Collected, IsText
<1> QED BY <1>1, <1>2, <1>3 DEF SplitStep

\* What covers a sentence goes on covering it in `current`, or becomes a chunk.
LEMMA SentencesStep ==
    ASSUME SplitInv, EverySentenceWhole, [SplitStep]_splitVars
    PROVE  EverySentenceWhole'
<1> SUFFICES ASSUME NEW i \in 1 .. Len(sentences'), i < next'
             PROVE  \/ Covers(current', sentences'[i])
                    \/ \E k \in 1 .. Len(chunks') : Covers(chunks'[k], sentences'[i])
  BY DEF EverySentenceWhole
<1>0. /\ chunks \in Seq(Interval) /\ current \in Interval /\ sentences \in Seq(Interval)
      /\ Len(sentences) \in Nat /\ next \in 1 .. Len(sentences) + 2
  BY DEF SplitInv, SplitTypeOK, IsText
<1>1. ASSUME Pack \/ Cut
      PROVE  \/ Covers(current', sentences'[i])
             \/ \E k \in 1 .. Len(chunks') : Covers(chunks'[k], sentences'[i])
  <2>1. /\ sentences' = sentences /\ next' = next + 1
        /\ current'.from <= sentences[next].from /\ current'.to = sentences[next].to
    BY <1>1, PackResult, CutResult DEF Pack, Cut
  <2>2. CASE i = next
    <3>1. sentences[next] \in Interval
      BY <1>1, NextSentence DEF Pack, Cut
    <3>2. sentences[next].to <= sentences[next].to
      BY <3>1 DEF Interval
    <3> QED BY <2>1, <2>2, <3>2 DEF Covers
  <2>3. CASE i # next
    <3>1. i < next /\ next > 1
      BY <1>0, <2>1, <2>3
    <3>2. CASE \E k \in 1 .. Len(chunks) : Covers(chunks[k], sentences[i])
      <4>1. PICK k \in 1 .. Len(chunks) : Covers(chunks[k], sentences[i])
        BY <3>2
      <4>2. k \in 1 .. Len(chunks') /\ chunks'[k] = chunks[k]
        BY SMTT(30), <1>0, <1>1, <4>1 DEF Pack, Cut
      <4> QED BY <2>1, <4>1, <4>2
    <3>3. CASE Covers(current, sentences[i])
      <4>1. CASE Pack
        <5>1. current'.from = current.from /\ current.to <= current'.to /\ current' \in Interval
          BY <3>1, <4>1, PackResult
        <5>2. sentences[i] \in Interval
          BY <1>0, <2>1
        <5> QED BY SMTT(30), <1>0, <2>1, <3>3, <5>1, <5>2 DEF Covers, Interval
      <4>2. CASE Cut
        <5>1. current # Nothing
          BY <3>1, <4>2, NextSentence DEF Cut
        <5>2. chunks' = Append(chunks, current)
          BY <4>2, <5>1 DEF Cut
        <5>3. Len(chunks') = Len(chunks) + 1 /\ chunks'[Len(chunks) + 1] = current
          BY <1>0, <5>2
        <5>4. Len(chunks) + 1 \in 1 .. Len(chunks')
          BY <1>0, <5>3
        <5> QED BY <2>1, <3>3, <5>3, <5>4
      <4> QED BY <1>1, <4>1, <4>2
    <3> QED BY <2>1, <3>1, <3>2, <3>3 DEF EverySentenceWhole
  <2> QED BY <2>2, <2>3
<1>2. CASE EndSplit
  <2>1. sentences' = sentences /\ next = Len(sentences) + 1 /\ next' = next + 1
    BY <1>2 DEF EndSplit
  <2>2. i < next /\ next > 1
    BY <1>0, <2>1
  <2>3. current # Nothing
    BY <1>0, <2>1, <2>2 DEF SplitInv, Collected, Nothing
  <2>4. chunks' = Append(chunks, current)
    BY <1>2, <2>3 DEF EndSplit
  <2>5. Len(chunks') = Len(chunks) + 1 /\ chunks'[Len(chunks) + 1] = current
    BY <1>0, <2>4
  <2>6. Len(chunks) + 1 \in 1 .. Len(chunks')
    BY <1>0, <2>5
  <2>7. \A k \in 1 .. Len(chunks) : k \in 1 .. Len(chunks') /\ chunks'[k] = chunks[k]
    BY <1>0, <2>4
  <2> QED BY <2>1, <2>2, <2>5, <2>6, <2>7 DEF EverySentenceWhole
<1>3. CASE UNCHANGED splitVars
  BY <1>3 DEF splitVars, EverySentenceWhole
<1> QED BY <1>1, <1>2, <1>3 DEF SplitStep

\* The overlap a cut leaves is bounded whatever it is cut from.
LEMMA OversizeStep ==
    ASSUME SplitInv, OversizeIsOneSentence, [SplitStep]_splitVars
    PROVE  OversizeIsOneSentence'
<1>0. /\ chunks \in Seq(Interval) /\ current \in Interval
      /\ Len(sentences) \in Nat /\ next \in 1 .. Len(sentences) + 2
  BY DEF SplitInv, SplitTypeOK, IsText
<1> DEFINE Sized(t, text) ==
              \/ Length(t) <= MaxChars
              \/ \E i \in 1 .. Len(text) :
                  t.to = text[i].to /\ Length(t) <= OverlapChars + 1 + Length(text[i])
<1>1. /\ Sized(current, sentences)
      /\ \A k \in 1 .. Len(chunks) : Sized(chunks[k], sentences)
  BY DEF OversizeIsOneSentence, SizeOK
<1>2. SUFFICES ASSUME TRUE
               PROVE  /\ Sized(current', sentences')
                      /\ \A k \in 1 .. Len(chunks') : Sized(chunks'[k], sentences')
  BY DEF OversizeIsOneSentence, SizeOK, Length
<1>3. ASSUME sentences' = sentences, chunks' = chunks \/ chunks' = Append(chunks, current)
      PROVE  \A k \in 1 .. Len(chunks') : Sized(chunks'[k], sentences')
  <2> HIDE DEF Sized
  <2> SUFFICES ASSUME NEW k \in 1 .. Len(chunks') PROVE Sized(chunks'[k], sentences')
    OBVIOUS
  <2>1. chunks'[k] = current \/ (k \in 1 .. Len(chunks) /\ chunks'[k] = chunks[k])
    BY <1>0, <1>3
  <2> QED BY <1>1, <1>3, <2>1
<1>4. CASE Pack
  <2>1. Length(current') <= MaxChars
    BY <1>4, PackResult
  <2>2. sentences' = sentences /\ chunks' = chunks
    BY <1>4 DEF Pack
  <2> QED BY <1>3, <2>1, <2>2
<1>5. CASE Cut
  <2>1. sentences' = sentences /\ (chunks' = chunks \/ chunks' = Append(chunks, current))
    BY <1>5 DEF Cut
  <2>2. /\ next \in 1 .. Len(sentences) /\ current'.to = sentences[next].to
        /\ Length(current') <= OverlapChars + 1 + Length(sentences[next])
    BY <1>0, <1>5, CutResult DEF Cut
  <2>3. Sized(current', sentences')
    BY <2>1, <2>2
  <2> QED BY <1>3, <2>1, <2>3
<1>6. CASE EndSplit
  <2>1. /\ sentences' = sentences /\ current' = Nothing
        /\ chunks' = chunks \/ chunks' = Append(chunks, current)
    BY <1>6 DEF EndSplit
  <2>2. Sized(current', sentences')
    BY <2>1, ChunkerAssumption DEF Nothing, Length
  <2> QED BY <1>3, <2>1, <2>2
<1>7. CASE UNCHANGED splitVars
  <2>1. sentences' = sentences /\ current' = current /\ chunks' = chunks
    BY <1>7 DEF splitVars
  <2> QED BY <1>1, <2>1
<1> QED BY <1>4, <1>5, <1>6, <1>7 DEF SplitStep

\* A text about to be split.
Begun == IsText(sentences) /\ StartOn(sentences)

LEMMA BegunKeepsTo == Begun => SplitInv /\ EverySentenceWhole /\ OversizeIsOneSentence
<1> SUFFICES ASSUME Begun PROVE SplitInv /\ EverySentenceWhole /\ OversizeIsOneSentence
  OBVIOUS
<1>1. /\ IsText(sentences) /\ Len(sentences) \in Nat
      /\ next = 1 /\ current = Nothing /\ chunks = <<>>
  BY DEF Begun, StartOn, IsText
<1>2. SplitInv
  <2>1. current \in Interval /\ chunks \in Seq(Interval) /\ next \in 1 .. Len(sentences) + 2
    BY <1>1 DEF Nothing, Interval
  <2> QED BY <1>1, <2>1 DEF SplitInv, SplitTypeOK, Collected
<1>3. EverySentenceWhole
  BY <1>1 DEF EverySentenceWhole
<1>4. OversizeIsOneSentence
  <2>1. Length(Nothing) = 0 /\ 0 <= MaxChars
    BY ChunkerAssumption DEF Nothing, Length
  <2> QED BY <1>1, <2>1 DEF OversizeIsOneSentence, SizeOK
<1> QED BY <1>2, <1>3, <1>4

\* What split guarantees for every text, limit and overlap.
\* The loop keeps to its text: the types of the variables, and where it is.
THEOREM TypeInvariant == SplitSpec => []SplitInv
<1>1. SplitInit => Begun
  BY DEF SplitInit, StartOn, Begun
<1>2. SplitInv /\ [SplitStep]_splitVars => SplitInv'
  BY SplitInvKept
<1> QED BY <1>1, <1>2, BegunKeepsTo, PTL DEF SplitSpec

\* No sentence is lost or cut in half, for any text and limits: what covers a
\* sentence goes on covering it in `current`, or becomes a chunk.
THEOREM SentencesKept == SplitSpec => []EverySentenceWhole
<1>1. SplitInit => Begun
  BY DEF SplitInit, StartOn, Begun
<1>2. SplitInv /\ EverySentenceWhole /\ [SplitStep]_splitVars => EverySentenceWhole'
  BY SentencesStep
<1> QED BY <1>1, <1>2, BegunKeepsTo, TypeInvariant, PTL DEF SplitSpec

\* A chunk longer than MaxChars is an overlap and one sentence, for any text
\* and limits: the overlap a cut leaves is bounded whatever it is cut from.
THEOREM OversizeBounded == SplitSpec => []OversizeIsOneSentence
<1>1. SplitInit => Begun
  BY DEF SplitInit, StartOn, Begun
<1>2. SplitInv /\ OversizeIsOneSentence /\ [SplitStep]_splitVars => OversizeIsOneSentence'
  BY OversizeStep
<1> QED BY <1>1, <1>2, BegunKeepsTo, TypeInvariant, PTL DEF SplitSpec
-----------------------------------------------------------------------------

(***************************************************************************)
(* Sets of positions, and lists of them.                                   *)
(***************************************************************************)
\* A set of natural numbers that is not empty has a least member.
LEMMA LeastMember ==
    ASSUME NEW S \in SUBSET Nat, S # {}
    PROVE  \E x \in S : \A y \in S : x <= y
<1> DEFINE R == {ss \in Nat \X Nat : ss[1] < ss[2]}
<1>1. IsWellFoundedOn(R, Nat)
  BY NatLessThanWellFounded, Zenon DEF OpToRel
<1>2. PICK x \in S : \A y \in S : ~ (<<y, x>> \in R)
  BY <1>1, WFMin, Zenon
<1>3. \A y \in S : ~(y < x)
  BY <1>2
<1> QED BY <1>3

LEMMA MinIsLeast ==
    ASSUME NEW S \in SUBSET Nat, S # {}
    PROVE  Min(S) \in S /\ \A y \in S : Min(S) <= y
<1> DEFINE Least(x) == x \in S /\ \A y \in S : x <= y
<1>1. \E x : Least(x)
  BY LeastMember
<1>2. Min(S) = CHOOSE x : Least(x)
  BY Zenon DEF Min
<1>3. Least(Min(S))
  <2> HIDE DEF Least
  <2> QED BY <1>1, <1>2, Zenon
<1> QED BY <1>3

\* What holds of 0 and of the successor of each number it holds of, holds of all
\* up to n.
LEMMA InductionUpTo ==
    ASSUME NEW n \in Nat, NEW T, 0 \in T, \A i \in 0 .. n : i < n /\ i \in T => i + 1 \in T
    PROVE  \A i \in 0 .. n : i \in T
<1> DEFINE S == {i \in 0 .. n : i \notin T}
<1> SUFFICES ASSUME S # {} PROVE FALSE
  OBVIOUS
<1>1. S \in SUBSET Nat
  OBVIOUS
<1>2. PICK i \in S : \A j \in S : i <= j
  BY <1>1, LeastMember
<1>3. i # 0 /\ i \in 0 .. n /\ i \notin T
  BY <1>2
<1>4. i - 1 \in 0 .. n /\ i - 1 < n /\ i - 1 + 1 = i /\ ~(i <= i - 1)
  BY <1>3
<1>5. i - 1 \in T
  BY <1>2, <1>4
<1> QED BY <1>3, <1>4, <1>5

LEMMA PositionsGiven ==
    ASSUME NEW first \in Int, NEW last \in Int
    PROVE  /\ Positions(first, last) \in Seq(first .. last)
           /\ Range(Positions(first, last)) = first .. last
<1> DEFINE s == Positions(first, last)
           n == (last + 1) - first
<1>1. s = [i \in 1 .. n |-> first + i - 1]
  BY DEF Positions
<1>2. CASE n <= 0
  <2>1. 1 .. n = {} /\ first .. last = {}
    BY <1>2
  <2>2. s = <<>> /\ DOMAIN s = {}
    BY <1>1, <2>1
  <2> QED BY <2>1, <2>2 DEF Range
<1>3. CASE n > 0
  <2>1. n \in Nat
    BY <1>3
  <2>2. \A i \in 1 .. n : first + i - 1 \in first .. last
    OBVIOUS
  <2>3. s \in [1 .. n -> first .. last]
    BY <1>1, <2>2
  <2>4. s \in Seq(first .. last) /\ DOMAIN s = 1 .. n
    BY <2>1, <2>3
  <2>5. ASSUME NEW x \in first .. last PROVE \E i \in DOMAIN s : s[i] = x
    <3>1. x \in Int /\ first + (x - first + 1) - 1 = x
      OBVIOUS
    <3>2. x - first + 1 \in 1 .. n
      BY <3>1
    <3>3. s[x - first + 1] = first + (x - first + 1) - 1
      BY <1>1, <3>2
    <3> QED BY <2>4, <3>1, <3>2, <3>3
  <2>6. \A i \in DOMAIN s : s[i] \in first .. last
    BY <2>3, <2>4
  <2> QED BY <2>4, <2>5, <2>6 DEF Range
<1> QED BY <1>2, <1>3

\* The listing of a set of positions has each of them once, in ascending order.
LEMMA ListingInOrder ==
    ASSUME NEW n \in Nat, NEW S \in SUBSET (1 .. n)
    PROVE  /\ Listing(S) \in Seq(S)
           /\ DOMAIN Listing(S) = 1 .. Cardinality(S) /\ Cardinality(S) \in Nat
           /\ InOrder(Listing(S), S)
<1> DEFINE upto(p) == {q \in S : q <= p}
           h == Cardinality(S)
           rank == [p \in S |-> Cardinality(upto(p))]
           g == Listing(S)
<1>0. \A x \in S : x \in Nat
  OBVIOUS
<1>1. IsFiniteSet(S) /\ h \in Nat
  <2>1. IsFiniteSet(1 .. n)
    BY FS_Interval
  <2> QED BY <2>1, FS_Subset, FS_CardinalityType
<1>2. \A p \in S : IsFiniteSet(upto(p)) /\ Cardinality(upto(p)) \in Nat
                   /\ Cardinality(upto(p)) <= h
  BY <1>1, FS_Subset, FS_CardinalityType
<1>3. \A p \in S : rank[p] \in 1 .. h
  <2> TAKE p \in S
  <2>1. p \in upto(p)
    BY <1>0
  <2>2. Cardinality(upto(p)) # 0
    BY <1>2, <2>1, FS_EmptySet
  <2> QED BY <1>2, <2>2, <1>1
<1>4. ASSUME NEW p \in S, NEW q \in S, p < q PROVE rank[p] < rank[q]
  <2>0. q <= q /\ ~(q <= p) /\ \A x \in S : x <= p => x <= q
    BY <1>0, <1>4
  <2>1. upto(p) \subseteq upto(q) /\ q \in upto(q) /\ q \notin upto(p)
    BY <2>0
  <2>2. Cardinality(upto(p)) <= Cardinality(upto(q)) /\ Cardinality(upto(p)) # Cardinality(upto(q))
    BY <1>2, <2>1, FS_Subset
  <2> QED BY <1>2, <2>2
<1>5. g = [k \in 1 .. h |-> CHOOSE p \in S : rank[p] = k]
  <2>1. \A k \in 1 .. h : (CHOOSE x \in S : Cardinality({y \in S : y <= x}) = k)
                            = CHOOSE p \in S : rank[p] = k
    <3> TAKE k \in 1 .. h
    <3>1. \A x : (x \in S /\ Cardinality({y \in S : y <= x}) = k) <=> (x \in S /\ rank[x] = k)
      OBVIOUS
    <3> QED BY <3>1, Zenon
  <2> QED BY <2>1 DEF Listing
<1> HIDE DEF rank
<1>6. rank \in Surjection(S, 1 .. h)
  <2>1. rank \in Injection(S, 1 .. h)
    <3>1. \A p, q \in S : rank[p] = rank[q] => p = q
      <4> TAKE p, q \in S
      <4>1. rank[p] \in Nat /\ rank[q] \in Nat
        BY <1>3
      <4>2. p < q => rank[p] < rank[q]
        BY <1>4
      <4>3. q < p => rank[q] < rank[p]
        BY <1>4
      <4> QED BY <1>0, <4>1, <4>2, <4>3
    <3>2. rank \in [S -> 1 .. h]
      BY <1>3 DEF rank
    <3> QED BY <3>1, <3>2 DEF Injection, IsInjective
  <2>2. IsFiniteSet(1 .. h) /\ Cardinality(1 .. h) = h
    BY <1>1, FS_Interval
  <2> QED BY <2>1, <2>2, FS_Injection
<1>7. g \in [1 .. h -> S] /\ \A k \in 1 .. h : rank[g[k]] = k
  <2>1. \A k \in 1 .. h : \E p \in S : rank[p] = k
    BY <1>6 DEF Surjection
  <2> QED BY <1>5, <2>1
<1> HIDE DEF g, h
<1>8. \A i, j \in 1 .. h : i < j => g[i] < g[j]
  <2> TAKE i, j \in 1 .. h
  <2> HAVE i < j
  <2>1. g[i] \in S /\ g[j] \in S /\ rank[g[i]] = i /\ rank[g[j]] = j
    BY <1>7
  <2>2. ~(g[j] < g[i])
    <3>1. SUFFICES ASSUME g[j] < g[i] PROVE FALSE
      OBVIOUS
    <3>2. rank[g[j]] < rank[g[i]]
      BY <2>1, <3>1, <1>4
    <3>3. j < i
      BY <2>1, <3>2
    <3> QED BY <3>3
  <2>3. g[i] # g[j]
    BY <2>1
  <2>4. g[i] \in Nat /\ g[j] \in Nat
    BY <1>0, <2>1
  <2> QED BY <2>2, <2>3, <2>4
<1>9. \A p \in S : \E k \in 1 .. h : g[k] = p
  <2> TAKE p \in S
  <2>1. rank[p] \in 1 .. h /\ g[rank[p]] \in S /\ rank[g[rank[p]]] = rank[p]
    BY <1>3, <1>7
  <2>2. g[rank[p]] \in Nat /\ p \in Nat
    BY <1>0, <2>1
  <2>3. rank[p] \in Nat
    BY <1>1, <2>1
  <2>4. ASSUME p < g[rank[p]] PROVE FALSE
    <3>1. rank[p] < rank[g[rank[p]]]
      BY <2>1, <2>4, <1>4
    <3> QED BY <2>1, <2>3, <3>1
  <2>5. ASSUME g[rank[p]] < p PROVE FALSE
    <3>1. rank[g[rank[p]]] < rank[p]
      BY <2>1, <2>5, <1>4
    <3> QED BY <2>1, <2>3, <3>1
  <2> QED BY <2>1, <2>2, <2>4, <2>5
<1>10. DOMAIN g = 1 .. h /\ g \in Seq(S)
  BY <1>1, <1>7 DEF h
<1>11. Range(g) = S
  <2>1. \A k \in 1 .. h : g[k] \in S
    BY <1>7
  <2>2. \A p \in S : \E k \in DOMAIN g : p = g[k]
    BY <1>9, <1>10
  <2> QED BY <1>10, <2>1, <2>2 DEF Range
<1> QED BY <1>1, <1>8, <1>10, <1>11 DEF InOrder, g, h

(***************************************************************************)
(* The invariant.  Its parts are stated for any reading: the item a loop   *)
(* is at, its stack and buffer, and the segments made.                     *)
(***************************************************************************)
\* The kinds of segments a file has.
Kinds ==
    CASE file.format = "docx" -> {"section"}
      [] file.format = "markdown" -> IF Headings = {} THEN {"line_range"} ELSE {"section"}
      [] file.format = "html" -> IF Headings = {} THEN {"whole"} ELSE {"section"}
      [] file.format = "text" -> {"line_range"}
      [] file.format = "rows" -> {"row_range"}
      [] file.format = "pdf" -> {"page_table", "page_paragraph"}
      [] file.format = "xml" -> {"xpath"}
      [] file.format = "json" -> {"json_path"}

SegmentType == [kind : Kinds, path : Seq(Nat), items : Seq(DOMAIN Items)]

Typed(a, st, buf, segs) ==
    /\ a \in 0 .. Len(Items) + 2
    /\ st \in Seq(DOMAIN Items)
    /\ buf \in Seq(DOMAIN Items)
    /\ segs \in Seq(SegmentType)
    /\ a = 0 => file.format = "pdf" /\ segs = <<>>
    /\ buf # <<>> => a \in 1 .. Len(Items) + 1 /\ file.format \in {"docx", "pdf"}
    /\ file.format = "rows" /\ a <= Len(Items) => a >= 2
    /\ file.format = "html" /\ Headings = {} /\ a <= Len(Items) => a = 1 /\ segs = <<>>

\* What the loop is past.
Passed(a) ==
    {i \in DOMAIN Items : i < a \/ (file.format = "pdf" /\ a > 0 /\ InTable(i))}

\* What the loop is past is in one segment or in the buffer.
Kept(a, buf, segs) ==
    /\ \A k \in DOMAIN segs : Range(segs[k].items) \subseteq (Passed(a) \cup Header) \ Preamble
    /\ Range(buf) \subseteq Passed(a)
    /\ \A k \in DOMAIN segs : Range(segs[k].items) \cap Range(buf) = {}
    /\ \A k, m \in DOMAIN segs :
        k # m => Range(segs[k].items) \cap Range(segs[m].items) \subseteq Header
    /\ \A i \in Passed(a) \ (Headings \cup Header \cup Preamble) :
        IsBlank(i) \/ i \in Range(buf) \/ \E k \in DOMAIN segs : i \in Range(segs[k].items)

\* The stack is the chain of the headings that enclose the next item, and what
\* is in the buffer.
Enclosed(a, st, buf, segs) ==
    /\ InOrder(st, Enclosing(a))
    /\ \A i \in Range(buf) : InOrder(st, Enclosing(i))
    /\ \A k \in DOMAIN segs : segs[k].kind = "section" =>
        \A i \in Range(segs[k].items) : InOrder(segs[k].path, Enclosing(i))

ChildPath(i) == <<Items[i].mark, Cardinality({j \in 1 .. i : Items[j].mark = Items[i].mark})>>
Paragraphs(segs) == {k \in DOMAIN segs : segs[k].kind = "page_paragraph"}

\* How the locator of a segment comes from its items.
Located(a, segs) ==
    /\ \A k \in DOMAIN segs :
        LET s == segs[k] IN
        /\ s.kind \in {"line_range", "row_range"} =>
            /\ Len(s.path) = 2 /\ s.path[2] < a
            /\ Range(s.items) \ Header = s.path[1] .. s.path[2]
            /\ \A m \in DOMAIN segs : m < k => segs[m].path[2] < s.path[1]
        /\ s.kind = "xpath" => \E i \in DOMAIN Items : s.items = <<i>> /\ s.path = ChildPath(i)
        /\ s.kind = "json_path" => \E i \in DOMAIN Items : s.items = <<i>> /\ s.path = <<i>>
        /\ s.kind = "page_table" =>
            \E t \in TableStarts : s.items = Table(t) /\ s.path = <<TableNumber(t)>>
    /\ \A k \in Paragraphs(segs) :
        \E n \in 1 .. Cardinality(Paragraphs(segs)) : segs[k].path = <<n>>
    /\ \A k, m \in Paragraphs(segs) : k # m => segs[k].path # segs[m].path

Read(a, st, buf, segs) ==
    /\ Typed(a, st, buf, segs)
    /\ Kept(a, buf, segs)
    /\ Enclosed(a, st, buf, segs)
    /\ Located(a, segs)
ReadInv == file \in File /\ Read(at, stack, buffer, segments)

LEMMA FileFacts ==
    ASSUME file \in File
    PROVE  /\ Items \in Seq(Item)
           /\ Len(Items) \in Nat /\ DOMAIN Items = 1 .. Len(Items)
           /\ \A i \in DOMAIN Items : Items[i].mark \in Nat /\ Items[i].size \in Nat
           /\ file.format \in Format
           /\ Headings \subseteq DOMAIN Items
           /\ file.format \notin {"docx", "markdown", "html"} => Headings = {}
           /\ file.format # "rows" => Header = {}
           /\ file.format \notin {"markdown", "html"} \/ Headings = {} => Preamble = {}
<1>1. Items \in Seq(Item) /\ file.format \in Format
  BY SegmentationAssumption DEF Items
<1>2. Len(Items) \in Nat /\ DOMAIN Items = 1 .. Len(Items)
  BY <1>1, LenProperties
<1>3. \A i \in DOMAIN Items : Items[i].mark \in Nat /\ Items[i].size \in Nat
  <2>1. \A i \in DOMAIN Items : Items[i] \in Item
    BY <1>1, <1>2, ElementOfSeq
  <2> QED BY <2>1 DEF Item
<1>4. Headings \subseteq DOMAIN Items /\ (file.format \notin {"docx", "markdown", "html"} => Headings = {})
  BY DEF Headings
<1>5. file.format # "rows" => Header = {}
  BY DEF Header
<1>6. file.format \notin {"markdown", "html"} \/ Headings = {} => Preamble = {}
  BY DEF Preamble
<1> QED BY <1>1, <1>2, <1>3, <1>4, <1>5, <1>6

\* A file without headings has no stack to speak of.
LEMMA NoHeadings ==
    ASSUME Headings = {}
    PROVE  \A i : Enclosing(i) = {} /\ \A st : InOrder(st, Enclosing(i)) <=> InOrder(st, {})
BY DEF Enclosing

\* A sequence with one more at its end.
LEMMA OneMore ==
    ASSUME NEW S, NEW s \in Seq(S), NEW x \in S
    PROVE  /\ Append(s, x) \in Seq(S) /\ Append(s, x) # <<>>
           /\ Len(s) \in Nat /\ DOMAIN s = 1 .. Len(s)
           /\ DOMAIN Append(s, x) = 1 .. Len(s) + 1
           /\ \A k \in DOMAIN s : k \in DOMAIN Append(s, x) /\ Append(s, x)[k] = s[k]
           /\ Append(s, x)[Len(s) + 1] = x /\ Len(s) + 1 \in DOMAIN Append(s, x)
           /\ \A k \in DOMAIN Append(s, x) : k \in DOMAIN s \/ k = Len(s) + 1
           /\ Range(Append(s, x)) = Range(s) \cup {x}
<1> DEFINE t == Append(s, x)
<1>1. Len(s) \in Nat /\ DOMAIN s = 1 .. Len(s)
  BY LenProperties
<1>2. /\ t \in Seq(S) /\ Len(t) = Len(s) + 1 /\ t[Len(s) + 1] = x
      /\ \A k \in 1 .. Len(s) : t[k] = s[k]
  BY AppendProperties
<1>3. DOMAIN t = 1 .. Len(s) + 1
  BY <1>2, LenProperties
<1>4. t # <<>>
  BY <1>1, <1>2
<1> HIDE DEF t
<1>5. Len(s) + 1 \in DOMAIN t
  BY <1>1, <1>3
<1>6. \A k \in DOMAIN s : k \in DOMAIN t /\ t[k] = s[k]
  BY <1>1, <1>2, <1>3
<1>7. \A k \in DOMAIN t : k \in DOMAIN s \/ k = Len(s) + 1
  BY <1>1, <1>3
<1>8. Range(t) = Range(s) \cup {x}
  <2>1. \A k \in DOMAIN t : t[k] \in Range(s) \cup {x}
    BY <1>2, <1>6, <1>7 DEF Range
  <2>2. \A y \in Range(s) \cup {x} : \E k \in DOMAIN t : y = t[k]
    BY <1>2, <1>5, <1>6 DEF Range
  <2> QED BY <2>1, <2>2 DEF Range
<1> QED BY <1>1, <1>2, <1>3, <1>4, <1>5, <1>6, <1>7, <1>8 DEF t

\* Going on without a segment.
LEMMA KeptOn ==
    ASSUME NEW a, NEW b, NEW buf, NEW new, NEW segs,
           Kept(a, buf, segs), Passed(a) \subseteq Passed(b),
           Range(buf) \subseteq Range(new), Range(new) \subseteq Passed(b),
           \A i \in Range(new) : i \in Range(buf) \/ i \notin Passed(a) \cup Header,
           \A i \in Passed(b) \ Passed(a) :
               i \in Headings \cup Header \cup Preamble \/ IsBlank(i) \/ i \in Range(new)
    PROVE  Kept(b, new, segs)
<1>1. \A k \in DOMAIN segs : /\ Range(segs[k].items) \subseteq (Passed(b) \cup Header) \ Preamble
                             /\ Range(segs[k].items) \subseteq Passed(a) \cup Header
                             /\ Range(segs[k].items) \cap Range(buf) = {}
  BY DEF Kept
<1>2. \A k \in DOMAIN segs : Range(segs[k].items) \cap Range(new) = {}
  BY <1>1
<1>3. \A i \in Passed(b) \ (Headings \cup Header \cup Preamble) :
        IsBlank(i) \/ i \in Range(new) \/ \E k \in DOMAIN segs : i \in Range(segs[k].items)
  BY DEF Kept
<1> QED BY <1>1, <1>2, <1>3 DEF Kept

\* A segment of what was in the buffer, or of what the loop gets past.
LEMMA KeptAdd ==
    ASSUME NEW a, NEW b, NEW buf, NEW new, NEW segs \in Seq(SegmentType), NEW s \in SegmentType,
           Kept(a, buf, segs), Passed(a) \subseteq Passed(b),
           NEW R, R = Range(s.items), R \subseteq (Passed(b) \cup Header) \ Preamble,
           Range(new) \subseteq Passed(b), R \cap Range(new) = {},
           \A i \in R : i \in Range(buf) \/ i \notin Passed(a) \/ i \in Header,
           \A i \in Range(new) : i \in Range(buf) \/ i \notin Passed(a) \cup Header,
           \A i \in Range(buf) : i \in R \cup Range(new),
           \A i \in Passed(b) \ Passed(a) :
               i \in Headings \cup Header \cup Preamble \/ IsBlank(i) \/ i \in R \cup Range(new)
    PROVE  Kept(b, new, Append(segs, s))
<1> DEFINE t == Append(segs, s)
           l == Len(segs) + 1
           Of(k) == Range(segs[k].items)
<1>1. /\ \A k \in DOMAIN segs : k \in DOMAIN t /\ t[k] = segs[k]
      /\ l \in DOMAIN t /\ t[l] = s
      /\ \A k \in DOMAIN t : k \in DOMAIN segs \/ k = l
  BY OneMore
<1> HIDE DEF t, l
<1>2. \A k \in DOMAIN segs : /\ Of(k) \subseteq (Passed(b) \cup Header) \ Preamble
                             /\ Of(k) \subseteq Passed(a) \cup Header
                             /\ Of(k) \cap Range(buf) = {}
  BY DEF Kept
<1>3. \A k, m \in DOMAIN segs : k # m => Of(k) \cap Of(m) \subseteq Header
  BY DEF Kept
<1>4. \A i \in Passed(a) \ (Headings \cup Header \cup Preamble) :
        IsBlank(i) \/ i \in Range(buf) \/ \E k \in DOMAIN segs : i \in Of(k)
  BY DEF Kept
<1> HIDE DEF Of
<1>5. \A k \in DOMAIN segs : Of(k) \cap R \subseteq Header /\ Of(k) \cap Range(new) = {}
  BY <1>2
<1>6. \A k \in DOMAIN t : Range(t[k].items) = IF k \in DOMAIN segs THEN Of(k) ELSE R
  BY <1>1 DEF Of
<1>7. \A k \in DOMAIN t : /\ Range(t[k].items) \subseteq (Passed(b) \cup Header) \ Preamble
                          /\ Range(t[k].items) \cap Range(new) = {}
  BY <1>2, <1>5, <1>6
<1>8. \A k, m \in DOMAIN t : k # m => Range(t[k].items) \cap Range(t[m].items) \subseteq Header
  <2> TAKE k, m \in DOMAIN t
  <2> HAVE k # m
  <2>1. CASE k \in DOMAIN segs /\ m \in DOMAIN segs
    BY <1>3, <1>6, <2>1
  <2>2. CASE k \in DOMAIN segs /\ m \notin DOMAIN segs
    BY <1>5, <1>6, <2>2
  <2>3. CASE k \notin DOMAIN segs /\ m \in DOMAIN segs
    BY <1>5, <1>6, <2>3
  <2> QED BY <1>1, <2>1, <2>2, <2>3
<1>9. \A i \in Passed(b) \ (Headings \cup Header \cup Preamble) :
        IsBlank(i) \/ i \in Range(new) \/ \E k \in DOMAIN t : i \in Range(t[k].items)
  <2> TAKE i \in Passed(b) \ (Headings \cup Header \cup Preamble)
  <2>1. CASE i \in R
    <3>1. R = Range(t[l].items) /\ l \in DOMAIN t
      BY <1>1
    <3> QED BY <2>1, <3>1
  <2>2. CASE \E k \in DOMAIN segs : i \in Of(k)
    <3>1. PICK k \in DOMAIN segs : i \in Of(k)
      BY <2>2
    <3>2. k \in DOMAIN t /\ Range(t[k].items) = Of(k)
      BY <1>1, <1>6, <3>1
    <3> QED BY <3>1, <3>2
  <2>3. CASE i \notin R /\ ~\E k \in DOMAIN segs : i \in Of(k)
    BY <1>4, <2>3
  <2> QED BY <2>1, <2>2, <2>3
<1>10. Kept(b, new, t)
  BY <1>7, <1>8, <1>9 DEF Kept
<1> QED BY <1>10 DEF t

LEMMA EnclosedAdd ==
    ASSUME NEW a, NEW st, NEW b, NEW new, NEW open, NEW buf,
           NEW segs \in Seq(SegmentType), NEW s \in SegmentType, Enclosed(a, st, buf, segs),
           InOrder(open, Enclosing(b)),
           \A i \in Range(new) : InOrder(open, Enclosing(i)),
           s.kind = "section" => \A i \in Range(s.items) : InOrder(s.path, Enclosing(i))
    PROVE  Enclosed(b, open, new, Append(segs, s))
<1> DEFINE t == Append(segs, s)
<1>1. /\ \A k \in DOMAIN segs : t[k] = segs[k]
      /\ t[Len(segs) + 1] = s
      /\ \A k \in DOMAIN t : k \in DOMAIN segs \/ k = Len(segs) + 1
  BY OneMore
<1> HIDE DEF t
<1>2. \A k \in DOMAIN segs : segs[k].kind = "section" =>
        \A i \in Range(segs[k].items) : InOrder(segs[k].path, Enclosing(i))
  BY DEF Enclosed
<1>3. \A k \in DOMAIN t : t[k].kind = "section" =>
        \A i \in Range(t[k].items) : InOrder(t[k].path, Enclosing(i))
  BY <1>1, <1>2
<1>4. Enclosed(b, open, new, t)
  BY <1>3 DEF Enclosed
<1> QED BY <1>4 DEF t

\* The number of paragraphs grows with a paragraph and with nothing else.
LEMMA ParagraphsCounted ==
    ASSUME NEW segs \in Seq(SegmentType), NEW s \in SegmentType
    PROVE  /\ IsFiniteSet(Paragraphs(segs)) /\ Cardinality(Paragraphs(segs)) \in Nat
           /\ s.kind = "page_paragraph" =>
                /\ Paragraphs(Append(segs, s)) = Paragraphs(segs) \cup {Len(segs) + 1}
                /\ Cardinality(Paragraphs(Append(segs, s))) = Cardinality(Paragraphs(segs)) + 1
           /\ s.kind # "page_paragraph" => Paragraphs(Append(segs, s)) = Paragraphs(segs)
           /\ \A k \in Paragraphs(segs) : k \in DOMAIN segs /\ Append(segs, s)[k] = segs[k]
<1> DEFINE t == Append(segs, s)
           l == Len(segs) + 1
<1>1. /\ \A k \in DOMAIN segs : k \in DOMAIN t /\ t[k] = segs[k]
      /\ t[l] = s /\ l \in DOMAIN t
      /\ \A k \in DOMAIN t : k \in DOMAIN segs \/ k = l
      /\ Len(segs) \in Nat /\ DOMAIN segs = 1 .. Len(segs)
  BY OneMore
<1>2. IsFiniteSet(Paragraphs(segs)) /\ Cardinality(Paragraphs(segs)) \in Nat
  <2>1. IsFiniteSet(DOMAIN segs)
    BY <1>1, FS_Interval
  <2>2. Paragraphs(segs) \subseteq DOMAIN segs
    BY DEF Paragraphs
  <2> QED BY <2>1, <2>2, FS_Subset, FS_CardinalityType
<1>3. l \notin DOMAIN segs
  BY <1>1
<1> HIDE DEF t, l
<1>4. s.kind = "page_paragraph" => Paragraphs(t) = Paragraphs(segs) \cup {l}
  BY <1>1 DEF Paragraphs
<1>5. s.kind # "page_paragraph" => Paragraphs(t) = Paragraphs(segs)
  BY <1>1 DEF Paragraphs
<1>6. l \notin Paragraphs(segs)
  BY <1>3 DEF Paragraphs
<1>7. Cardinality(Paragraphs(segs) \cup {l}) = Cardinality(Paragraphs(segs)) + 1
  BY <1>2, <1>6, FS_AddElement
<1>8. \A k \in Paragraphs(segs) : k \in DOMAIN segs /\ t[k] = segs[k]
  BY <1>1 DEF Paragraphs
<1> QED BY <1>2, <1>4, <1>5, <1>7, <1>8 DEF t, l

LEMMA LocatedOn ==
    ASSUME NEW a \in Nat, NEW b \in Nat, a <= b, NEW segs \in Seq(SegmentType), Located(a, segs)
    PROVE  Located(b, segs)
<1>1. ASSUME NEW k \in DOMAIN segs, segs[k].kind \in {"line_range", "row_range"}
      PROVE  segs[k].path[2] < b
  <2>1. segs[k] \in SegmentType
    BY ElementOfSeq, LenProperties
  <2>2. Len(segs[k].path) = 2 /\ segs[k].path[2] < a
    BY <1>1 DEF Located
  <2>3. segs[k].path \in Seq(Nat)
    BY <2>1 DEF SegmentType
  <2>4. segs[k].path[2] \in Nat
    BY <2>2, <2>3, ElementOfSeq
  <2> QED BY <2>2, <2>4
<1> QED BY <1>1 DEF Located

\* What a new segment's locator has to be.
Names(a, b, segs, s) ==
    /\ s.kind \in {"line_range", "row_range"} =>
        /\ Len(s.path) = 2 /\ a <= s.path[1] /\ s.path[2] < b
        /\ Range(s.items) \ Header = s.path[1] .. s.path[2]
    /\ s.kind = "xpath" => \E i \in DOMAIN Items : s.items = <<i>> /\ s.path = ChildPath(i)
    /\ s.kind = "json_path" => \E i \in DOMAIN Items : s.items = <<i>> /\ s.path = <<i>>
    /\ s.kind = "page_table" =>
        \E t \in TableStarts : s.items = Table(t) /\ s.path = <<TableNumber(t)>>
    /\ s.kind = "page_paragraph" => s.path = <<Cardinality(Paragraphs(segs)) + 1>>

\* A file has no other kinds of segments besides ranges.
LEMMA RangesAlone ==
    ASSUME file \in File, "line_range" \in Kinds \/ "row_range" \in Kinds
    PROVE  Kinds \subseteq {"line_range", "row_range"}
<1>1. file.format \in Format
  BY FileFacts
<1> QED BY <1>1 DEF Kinds, Format

LEMMA LocatedAdd ==
    ASSUME file \in File, NEW a \in Nat, NEW b \in Nat, a <= b,
           NEW segs \in Seq(SegmentType), Located(a, segs),
           NEW s \in SegmentType, Names(a, b, segs, s)
    PROVE  Located(b, Append(segs, s))
<1> DEFINE t == Append(segs, s)
           l == Len(segs) + 1
           Ps == Paragraphs(segs)
<1>1. /\ \A k \in DOMAIN segs : k \in DOMAIN t /\ t[k] = segs[k]
      /\ t[l] = s /\ l \in DOMAIN t
      /\ \A k \in DOMAIN t : k \in DOMAIN segs \/ k = l
      /\ Len(segs) \in Nat /\ DOMAIN segs = 1 .. Len(segs)
  BY OneMore
<1>2. Located(b, segs)
  BY LocatedOn
<1>3. \A k \in DOMAIN segs : segs[k] \in SegmentType
  BY <1>1, ElementOfSeq
<1>4. /\ \A m \in DOMAIN segs : ~(l < m) /\ l # m /\ m < l
      /\ ~(l < l)
  BY <1>1
<1> HIDE DEF t, l
<1>5. ASSUME NEW k \in DOMAIN t, t[k].kind \in {"line_range", "row_range"}
      PROVE  /\ Len(t[k].path) = 2 /\ t[k].path[2] < b
             /\ Range(t[k].items) \ Header = t[k].path[1] .. t[k].path[2]
             /\ \A m \in DOMAIN t : m < k => t[m].path[2] < t[k].path[1]
  <2>1. CASE k \in DOMAIN segs
    <3>1. /\ Len(segs[k].path) = 2 /\ segs[k].path[2] < b
          /\ Range(segs[k].items) \ Header = segs[k].path[1] .. segs[k].path[2]
          /\ \A m \in DOMAIN segs : m < k => segs[m].path[2] < segs[k].path[1]
      BY <1>1, <1>2, <1>5, <2>1 DEF Located
    <3>2. \A m \in DOMAIN t : m < k => m \in DOMAIN segs
      BY <1>1, <1>4, <2>1
    <3> QED BY <1>1, <2>1, <3>1, <3>2
  <2>2. CASE k = l
    <3>1. /\ Len(s.path) = 2 /\ a <= s.path[1] /\ s.path[2] < b
          /\ Range(s.items) \ Header = s.path[1] .. s.path[2]
      BY <1>1, <1>5, <2>2 DEF Names
    <3>2. s.path[1] \in Nat
      <4>1. s.path \in Seq(Nat)
        BY DEF SegmentType
      <4> QED BY <3>1, <4>1, ElementOfSeq
    <3>3. ASSUME NEW m \in DOMAIN segs PROVE segs[m].path[2] < s.path[1]
      <4>1. segs[m].kind \in {"line_range", "row_range"}
        <5>1. s.kind \in Kinds /\ segs[m].kind \in Kinds
          BY <1>3 DEF SegmentType
        <5>2. s.kind \in {"line_range", "row_range"}
          BY <1>1, <1>5, <2>2
        <5> QED BY <5>1, <5>2, RangesAlone
      <4>2. Len(segs[m].path) = 2 /\ segs[m].path[2] < a
        BY <4>1 DEF Located
      <4>3. segs[m].path[2] \in Nat
        <5>1. segs[m].path \in Seq(Nat)
          BY <1>3 DEF SegmentType
        <5> QED BY <4>2, <5>1, ElementOfSeq
      <4> QED BY <3>1, <3>2, <4>2, <4>3
    <3> QED BY <1>1, <1>4, <2>2, <3>1, <3>3
  <2> QED BY <1>1, <2>1, <2>2
<1>6. \A k \in DOMAIN t :
        /\ t[k].kind = "xpath" =>
            \E i \in DOMAIN Items : t[k].items = <<i>> /\ t[k].path = ChildPath(i)
        /\ t[k].kind = "json_path" =>
            \E i \in DOMAIN Items : t[k].items = <<i>> /\ t[k].path = <<i>>
        /\ t[k].kind = "page_table" =>
            \E u \in TableStarts : t[k].items = Table(u) /\ t[k].path = <<TableNumber(u)>>
  <2> TAKE k \in DOMAIN t
  <2>1. CASE k \in DOMAIN segs
    BY <1>1, <1>2, <2>1 DEF Located
  <2>2. CASE k = l
    BY <1>1, <2>2 DEF Names
  <2> QED BY <1>1, <2>1, <2>2
<1>7. /\ IsFiniteSet(Ps) /\ Cardinality(Ps) \in Nat
      /\ s.kind = "page_paragraph" =>
           Paragraphs(t) = Ps \cup {l} /\ Cardinality(Paragraphs(t)) = Cardinality(Ps) + 1
      /\ s.kind # "page_paragraph" => Paragraphs(t) = Ps
      /\ \A k \in Ps : k \in DOMAIN segs /\ t[k] = segs[k]
  BY ParagraphsCounted DEF t, l
<1>8. /\ \A k \in Ps : \E n \in 1 .. Cardinality(Ps) : segs[k].path = <<n>>
      /\ \A k, m \in Ps : k # m => segs[k].path # segs[m].path
  BY DEF Located
<1>9. CASE s.kind # "page_paragraph"
  <2>1. /\ \A k \in Paragraphs(t) : \E n \in 1 .. Cardinality(Paragraphs(t)) : t[k].path = <<n>>
        /\ \A k, m \in Paragraphs(t) : k # m => t[k].path # t[m].path
    BY <1>7, <1>8, <1>9
  <2> QED BY <1>5, <1>6, <2>1 DEF Located, t
<1>10. CASE s.kind = "page_paragraph"
  <2> DEFINE c == Cardinality(Ps)
  <2>1. Paragraphs(t) = Ps \cup {l} /\ Cardinality(Paragraphs(t)) = c + 1 /\ c \in Nat
    BY <1>7, <1>10
  <2>2. s.path = <<c + 1>>
    BY <1>10 DEF Names
  <2> HIDE DEF c
  <2>3. /\ \A k \in Ps : \E n \in 1 .. c : t[k].path = <<n>>
        /\ \A k, m \in Ps : k # m => t[k].path # t[m].path
    BY <1>7, <1>8 DEF c
  <2>4. \A k \in Paragraphs(t) : \E n \in 1 .. c + 1 : t[k].path = <<n>>
    <3>1. \A n \in 1 .. c : n \in 1 .. c + 1
      BY <2>1
    <3>2. c + 1 \in 1 .. c + 1
      BY <2>1
    <3> QED BY <1>1, <2>1, <2>2, <2>3, <3>1, <3>2
  <2>5. \A k \in Ps : t[k].path # <<c + 1>>
    <3>1. \A n \in 1 .. c : n # c + 1
      BY <2>1
    <3>2. \A n : <<n>> = <<c + 1>> => n = c + 1
      OBVIOUS
    <3> QED BY <2>3, <3>1, <3>2
  <2>6. \A k, m \in Paragraphs(t) : k # m => t[k].path # t[m].path
    BY <1>1, <2>1, <2>2, <2>3, <2>5
  <2> QED BY <1>5, <1>6, <2>1, <2>4, <2>6 DEF Located, t
<1> QED BY <1>9, <1>10

(***************************************************************************)
(* The steps of the loops.                                                 *)
(***************************************************************************)
LEMMA EmptyRange == Range(<<>>) = {}
BY DEF Range

LEMMA OneItem ==
    ASSUME NEW S, NEW i \in S
    PROVE  <<i>> \in Seq(S) /\ Range(<<i>>) = {i}
<1>1. DOMAIN <<i>> = {1} /\ <<i>>[1] = i
  OBVIOUS
<1> QED BY <1>1 DEF Range

LEMMA FunctionIsList ==
    ASSUME NEW n \in Nat, NEW S, NEW f \in [1 .. n -> S]
    PROVE  f \in Seq(S) /\ Len(f) = n
OBVIOUS

\* Where no heading is passed the chain stays.
LEMMA EnclosingStays ==
    ASSUME file \in File, NEW i \in Nat, NEW j \in Nat, i <= j,
           \A h \in Headings : h < i \/ j <= h
    PROVE  Enclosing(j) = Enclosing(i)
<1>1. \A h \in Headings : h \in Nat
  BY FileFacts
<1>2. \A h \in Headings : h < j <=> h < i
  BY <1>1
<1> QED BY <1>2 DEF Enclosing

\* The stack a heading leaves is the chain of what comes after it.
LEMMA OpenedEncloses ==
    ASSUME file \in File, stack \in Seq(DOMAIN Items), NEW i \in Headings,
           InOrder(stack, Enclosing(i)),
           NEW j \in Nat, i < j, \A h \in Headings : h <= i \/ j <= h
    PROVE  Opened(i) \in Seq(DOMAIN Items) /\ InOrder(Opened(i), Enclosing(j))
<1> DEFINE P == {k \in DOMAIN stack : Items[stack[k]].mark < Items[i].mark}
           g == Listing(P)
           kept == [k \in DOMAIN g |-> stack[g[k]]]
           lower == {h \in Enclosing(i) : Items[h].mark < Items[i].mark}
<1>1. /\ Len(stack) \in Nat /\ DOMAIN stack = 1 .. Len(stack)
      /\ \A k \in DOMAIN stack : stack[k] \in DOMAIN Items
  BY LenProperties, ElementOfSeq
<1>2. P \in SUBSET (1 .. Len(stack))
  BY <1>1
<1>3. /\ g \in Seq(P) /\ DOMAIN g = 1 .. Cardinality(P) /\ Cardinality(P) \in Nat
      /\ Range(g) = P /\ \A k, m \in DOMAIN g : k < m => g[k] < g[m]
  BY <1>1, <1>2, ListingInOrder DEF InOrder
<1>4. /\ \A k \in DOMAIN g : g[k] \in P /\ g[k] \in DOMAIN stack
      /\ \A p \in P : \E k \in DOMAIN g : g[k] = p
  BY <1>3 DEF Range
<1> HIDE DEF g
<1>5. /\ Range(stack) = Enclosing(i)
      /\ \A k, m \in DOMAIN stack : k < m => stack[k] < stack[m]
  BY DEF InOrder
<1>6. kept \in Seq(DOMAIN Items) /\ DOMAIN kept = DOMAIN g /\ Len(kept) \in Nat
  <2>1. kept \in [1 .. Cardinality(P) -> DOMAIN Items]
    BY <1>1, <1>3, <1>4
  <2>2. kept \in Seq(DOMAIN Items)
    BY <1>3, <2>1, FunctionIsList
  <2> QED BY <2>2, LenProperties
<1>7. Range(kept) = lower
  <2>1. \A k \in DOMAIN g : stack[g[k]] \in lower
    BY <1>4, <1>5 DEF Range
  <2>2. ASSUME NEW h \in lower PROVE \E k \in DOMAIN g : stack[g[k]] = h
    <3>1. PICK p \in DOMAIN stack : stack[p] = h
      BY <1>5 DEF Range
    <3>2. p \in P
      BY <3>1
    <3> QED BY <1>4, <3>1, <3>2
  <2> QED BY <1>6, <2>1, <2>2 DEF Range
<1>8. \A k, m \in DOMAIN kept : k < m => kept[k] < kept[m]
  BY <1>3, <1>4, <1>5, <1>6
<1>9. i \in DOMAIN Items /\ i \in Nat /\ \A h \in Headings : h \in Nat
  BY FileFacts
<1>10. Enclosing(j) = lower \cup {i}
  <2>1. \A h \in Headings : h < j <=> h < i \/ h = i
    BY <1>9
  <2>2. \A h \in Enclosing(j) : h \in lower \cup {i}
    BY <1>9, <2>1 DEF Enclosing
  <2>3. i \in Enclosing(j)
    BY <1>9, <2>1 DEF Enclosing
  <2>4. ASSUME NEW h \in lower PROVE h \in Enclosing(j)
    <3>1. /\ h \in Headings /\ h < i /\ h < j /\ Items[h].mark < Items[i].mark
          /\ \A f \in Headings : h < f /\ f < i => Items[f].mark > Items[h].mark
      BY <1>9, <2>1 DEF Enclosing
    <3>2. Items[h].mark \in Nat /\ Items[i].mark \in Nat
      BY <3>1, FileFacts
    <3>3. \A f \in Headings : h < f /\ f < j => Items[f].mark > Items[h].mark
      BY <2>1, <3>1, <3>2
    <3> QED BY <3>1, <3>3 DEF Enclosing
  <2> QED BY <2>2, <2>3, <2>4
<1>11. \A k \in DOMAIN kept : kept[k] < i /\ kept[k] \in Nat
  <2>1. \A h \in lower : h < i /\ h \in Nat
    BY <1>9 DEF Enclosing
  <2> QED BY <1>7, <2>1 DEF Range
<1>12. Opened(i) = Append(kept, i)
  BY Zenon DEF Opened, g
<1> HIDE DEF kept, lower
<1> DEFINE t == Append(kept, i)
<1>13. /\ t \in Seq(DOMAIN Items)
       /\ \A k \in DOMAIN kept : t[k] = kept[k]
       /\ t[Len(kept) + 1] = i /\ DOMAIN kept = 1 .. Len(kept)
       /\ \A k \in DOMAIN t : k \in DOMAIN kept \/ k = Len(kept) + 1
       /\ Range(t) = Range(kept) \cup {i}
  BY <1>6, <1>9, OneMore
<1> HIDE DEF t
<1>14. \A k, m \in DOMAIN t : k < m => t[k] < t[m]
  <2> TAKE k, m \in DOMAIN t
  <2> HAVE k < m
  <2>1. k \in DOMAIN kept
    BY <1>6, <1>13
  <2>2. CASE m \in DOMAIN kept
    BY <1>8, <1>13, <2>1, <2>2
  <2>3. CASE m = Len(kept) + 1
    BY <1>11, <1>13, <2>1, <2>3
  <2> QED BY <1>13, <2>2, <2>3
<1> QED BY <1>7, <1>10, <1>12, <1>13, <1>14 DEF InOrder, t

\* The section of a heading ends where the next heading is, or the file ends.
LEMMA SectionEnds ==
    ASSUME file \in File, NEW i \in Headings
    PROVE  /\ SectionEnd(i) \in i + 1 .. Len(Items) + 1
           /\ \A h \in Headings : h <= i \/ SectionEnd(i) <= h
<1> DEFINE S == {h \in Headings : h > i} \cup {Len(Items) + 1}
<1>1. /\ i \in 1 .. Len(Items) /\ Len(Items) \in Nat
      /\ \A h \in Headings : h \in 1 .. Len(Items)
  BY FileFacts
<1>2. S \in SUBSET Nat /\ S # {}
  <2>1. Len(Items) + 1 \in Nat /\ Len(Items) + 1 \in S
    BY <1>1
  <2>2. \A h \in {h \in Headings : h > i} : h \in Nat
    BY <1>1
  <2> QED BY <2>1, <2>2
<1>3. Min(S) \in S /\ \A h \in S : Min(S) <= h
  BY <1>2, MinIsLeast
<1>4. SectionEnd(i) = Min(S)
  BY DEF SectionEnd
<1>5. \A h \in S : h \in i + 1 .. Len(Items) + 1
  BY <1>1
<1>6. \A h \in Headings : h <= i \/ h \in S
  BY <1>1
<1> HIDE DEF S
<1> QED BY <1>3, <1>4, <1>5, <1>6

\* A flush and what goes with it.
LEMMA FlushResult ==
    ASSUME ReadInv, NEW kind \in Kinds \cap {"section", "page_paragraph"}, NEW path \in Seq(Nat),
           kind = "section" => path = stack,
           kind = "page_paragraph" => path = NextParagraph,
           NEW b \in Nat, at <= b, Passed(at) \subseteq Passed(b),
           NEW new, Range(new) \subseteq Passed(b) \ (Passed(at) \cup Header),
           \A i \in Passed(b) \ Passed(at) :
               i \in Headings \cup Header \cup Preamble \/ IsBlank(i) \/ i \in Range(new),
           NEW open, InOrder(open, Enclosing(b)),
           \A i \in Range(new) : InOrder(open, Enclosing(i))
    PROVE  LET segs == Flushed(kind, path)
           IN /\ segs \in Seq(SegmentType)
              /\ Kept(b, new, segs) /\ Enclosed(b, open, new, segs) /\ Located(b, segs)
<1>1. /\ file \in File /\ Typed(at, stack, buffer, segments) /\ Kept(at, buffer, segments)
      /\ Enclosed(at, stack, buffer, segments) /\ Located(at, segments)
  BY DEF ReadInv, Read
<1>2. at \in Nat /\ segments \in Seq(SegmentType) /\ buffer \in Seq(DOMAIN Items)
  BY <1>1, FileFacts DEF Typed
<1>3. CASE buffer = <<>>
  <2>1. Flushed(kind, path) = segments
    BY <1>3 DEF Flushed
  <2>2. Range(buffer) = {}
    BY <1>3, EmptyRange
  <2>3. Kept(b, new, segments)
    BY <1>1, <2>2, KeptOn
  <2>4. Enclosed(b, open, new, segments)
    BY <1>1 DEF Enclosed
  <2>5. Located(b, segments)
    BY <1>1, <1>2, LocatedOn
  <2> QED BY <1>2, <2>1, <2>3, <2>4, <2>5
<1>4. CASE buffer # <<>>
  <2> DEFINE s == Segment(kind, path, buffer)
  <2>1. Flushed(kind, path) = Append(segments, s)
    BY <1>4 DEF Flushed
  <2>2. /\ s \in SegmentType /\ s.kind = kind /\ s.path = path /\ s.items = buffer
    BY <1>2 DEF Segment, SegmentType
  <2> HIDE DEF s
  <2>3. file.format \in {"docx", "pdf"}
    BY <1>1, <1>4 DEF Typed
  <2>4. Preamble = {}
    BY <1>1, <2>3, FileFacts
  <2>5. Range(buffer) \subseteq Passed(at)
    BY <1>1 DEF Kept
  <2>6. Kept(b, new, Append(segments, s))
    <3> DEFINE R == Range(s.items)
    <3>1. R = Range(buffer)
      BY <2>2
    <3>2. /\ R \subseteq (Passed(b) \cup Header) \ Preamble
          /\ Range(new) \subseteq Passed(b) /\ R \cap Range(new) = {}
          /\ \A i \in R : i \in Range(buffer) \/ i \notin Passed(at) \/ i \in Header
          /\ \A i \in Range(new) : i \in Range(buffer) \/ i \notin Passed(at) \cup Header
          /\ \A i \in Range(buffer) : i \in R \cup Range(new)
          /\ \A i \in Passed(b) \ Passed(at) :
               i \in Headings \cup Header \cup Preamble \/ IsBlank(i) \/ i \in R \cup Range(new)
      BY <2>4, <2>5, <3>1
    <3> HIDE DEF R
    <3>3. R = Range(s.items)
      BY DEF R
    <3> QED BY <1>1, <1>2, <2>2, <3>2, <3>3, KeptAdd
  <2>7. Enclosed(b, open, new, Append(segments, s))
    <3>1. s.kind = "section" => \A i \in Range(s.items) : InOrder(s.path, Enclosing(i))
      BY <1>1, <2>2 DEF Enclosed
    <3> QED BY <1>1, <1>2, <2>2, <3>1, EnclosedAdd
  <2>8. Located(b, Append(segments, s))
    <3>1. Paragraphs(segments) = {k \in DOMAIN segments : segments[k].kind = "page_paragraph"}
      BY DEF Paragraphs
    <3>2. Names(at, b, segments, s)
      BY <2>2, <3>1 DEF Names, NextParagraph
    <3> QED BY <1>1, <1>2, <2>2, <3>2, LocatedAdd
  <2>9. Append(segments, s) \in Seq(SegmentType)
    BY <1>2, <2>2, OneMore
  <2> QED BY <2>1, <2>6, <2>7, <2>8, <2>9
<1> QED BY <1>3, <1>4

\* What a loop that goes on from a to b gets past.
LEMMA PassedOn ==
    ASSUME file \in File, NEW a \in Nat, NEW b \in Nat, a <= b, a >= 1
    PROVE  /\ Passed(a) \subseteq Passed(b)
           /\ \A i \in Passed(b) \ Passed(a) : i \in DOMAIN Items /\ a <= i /\ i < b
           /\ \A i \in DOMAIN Items : i < b => i \in Passed(b)
           /\ \A i \in Passed(a) : i < a \/ (file.format = "pdf" /\ InTable(i))
<1>1. \A i \in DOMAIN Items : i \in Nat /\ (i < a => i < b) /\ (i < a \/ a <= i)
  BY FileFacts
<1> QED BY <1>1 DEF Passed

LEMMA ReadFacts ==
    ASSUME ReadInv
    PROVE  /\ file \in File /\ Typed(at, stack, buffer, segments) /\ Kept(at, buffer, segments)
           /\ Enclosed(at, stack, buffer, segments) /\ Located(at, segments)
           /\ at \in Nat /\ Len(Items) \in Nat /\ segments \in Seq(SegmentType)
           /\ at >= 1 \/ file.format = "pdf"
           /\ file.format \notin {"docx", "pdf"} => buffer = <<>>
           /\ stack \in Seq(DOMAIN Items) /\ stack \in Seq(Nat) /\ buffer \in Seq(DOMAIN Items)
<1>1. /\ file \in File /\ Typed(at, stack, buffer, segments) /\ Kept(at, buffer, segments)
      /\ Enclosed(at, stack, buffer, segments) /\ Located(at, segments)
  BY DEF ReadInv, Read
<1>2. Len(Items) \in Nat /\ DOMAIN Items \subseteq Nat
  BY <1>1, FileFacts
<1>3. at \in Nat /\ segments \in Seq(SegmentType) /\ (at >= 1 \/ file.format = "pdf")
  BY <1>1, <1>2 DEF Typed
<1>4. stack \in Seq(DOMAIN Items) /\ buffer \in Seq(DOMAIN Items)
  BY <1>1 DEF Typed
<1>5. stack \in Seq(Nat)
  <2>1. stack \in [1 .. Len(stack) -> DOMAIN Items] /\ Len(stack) \in Nat
    BY <1>4, LenProperties
  <2>2. stack \in [1 .. Len(stack) -> Nat]
    BY <1>2, <2>1
  <2> QED BY <2>1, <2>2, FunctionIsList
<1>6. file.format \notin {"docx", "pdf"} => buffer = <<>>
  BY <1>1 DEF Typed
<1> QED BY <1>1, <1>2, <1>3, <1>4, <1>5, <1>6

\* A segment made of items the loop gets past, or of none, in a format that
\* collects nothing.
LEMMA AddResult ==
    ASSUME ReadInv, file.format \notin {"docx", "pdf"}, NEW b \in Nat, at <= b,
           NEW s \in SegmentType, Names(at, b, segments, s),
           NEW R, R = Range(s.items), \A i \in R : i \in Header \/ (at <= i /\ i < b),
           R \cap Preamble = {},
           \A i \in DOMAIN Items : at <= i /\ i < b =>
               i \in Headings \cup Header \cup Preamble \/ IsBlank(i) \/ i \in R,
           NEW open, InOrder(open, Enclosing(b)),
           s.kind = "section" => \A i \in R : InOrder(s.path, Enclosing(i))
    PROVE  LET segs == Append(segments, s)
           IN /\ segs \in Seq(SegmentType)
              /\ Kept(b, <<>>, segs) /\ Enclosed(b, open, <<>>, segs) /\ Located(b, segs)
<1>1. /\ file \in File /\ Kept(at, buffer, segments) /\ buffer = <<>>
      /\ Enclosed(at, stack, buffer, segments) /\ Located(at, segments)
      /\ at \in Nat /\ segments \in Seq(SegmentType) /\ at >= 1
  BY ReadFacts
<1>2. /\ Passed(at) \subseteq Passed(b)
      /\ \A i \in Passed(b) \ Passed(at) : i \in DOMAIN Items /\ at <= i /\ i < b
      /\ \A i \in DOMAIN Items : i < b => i \in Passed(b)
      /\ \A i \in Passed(at) : i < at
  BY <1>1, PassedOn
<1>3. Range(<<>>) = {}
  BY EmptyRange
<1>4. \A i \in R : i \in DOMAIN Items /\ i \in Nat
  <2>1. s.items \in Seq(DOMAIN Items)
    BY DEF SegmentType
  <2>2. \A k \in DOMAIN s.items : s.items[k] \in DOMAIN Items
    BY <2>1, ElementOfSeq, LenProperties
  <2>3. DOMAIN Items \subseteq Nat
    BY <1>1, FileFacts
  <2> QED BY <2>2, <2>3 DEF Range
<1>5. /\ R \subseteq (Passed(b) \cup Header) \ Preamble
      /\ \A i \in R : i \notin Passed(at) \/ i \in Header
  <2>1. \A i \in R : at <= i => ~(i < at)
    BY <1>1, <1>4
  <2> QED BY <1>2, <1>4, <2>1
<1>6. \A i \in Passed(b) \ Passed(at) :
        i \in Headings \cup Header \cup Preamble \/ IsBlank(i) \/ i \in R
  BY <1>2
<1>7. Kept(b, <<>>, Append(segments, s))
  <2> DEFINE new == <<>>
  <2>1. /\ Range(new) \subseteq Passed(b) /\ R \cap Range(new) = {}
        /\ \A i \in R : i \in Range(buffer) \/ i \notin Passed(at) \/ i \in Header
        /\ \A i \in Range(new) : i \in Range(buffer) \/ i \notin Passed(at) \cup Header
        /\ \A i \in Range(buffer) : i \in R \cup Range(new)
        /\ \A i \in Passed(b) \ Passed(at) :
             i \in Headings \cup Header \cup Preamble \/ IsBlank(i) \/ i \in R \cup Range(new)
    BY <1>1, <1>3, <1>5, <1>6
  <2> HIDE DEF new
  <2>2. Kept(b, new, Append(segments, s))
    BY <1>1, <1>2, <1>5, <2>1, KeptAdd
  <2> QED BY <2>2 DEF new
<1>8. Enclosed(b, open, <<>>, Append(segments, s))
  <2> DEFINE new == <<>>
  <2>1. \A i \in Range(new) : InOrder(open, Enclosing(i))
    BY <1>3
  <2> HIDE DEF new
  <2>2. Enclosed(b, open, new, Append(segments, s))
    BY <1>1, <2>1, EnclosedAdd
  <2> QED BY <2>2 DEF new
<1>9. Located(b, Append(segments, s)) /\ Append(segments, s) \in Seq(SegmentType)
  BY <1>1, LocatedAdd, OneMore
<1> QED BY <1>7, <1>8, <1>9

LEMMA SkipResult ==
    ASSUME ReadInv, NEW b \in Nat, at <= b, at >= 1, NEW new, Range(buffer) \subseteq Range(new),
           \A i \in Range(new) : i \in Range(buffer) \/ (i \in Passed(b) \ Passed(at) /\ i \notin Header),
           \A i \in DOMAIN Items : at <= i /\ i < b /\ i \notin Passed(at) =>
               i \in Headings \cup Header \cup Preamble \/ IsBlank(i) \/ i \in Range(new),
           NEW open, InOrder(open, Enclosing(b)), \A i \in Range(new) : InOrder(open, Enclosing(i))
    PROVE  /\ Kept(b, new, segments) /\ Enclosed(b, open, new, segments) /\ Located(b, segments)
<1>1. /\ file \in File /\ Kept(at, buffer, segments)
      /\ Enclosed(at, stack, buffer, segments) /\ Located(at, segments)
      /\ at \in Nat /\ segments \in Seq(SegmentType)
  BY ReadFacts
<1>2. /\ Passed(at) \subseteq Passed(b)
      /\ \A i \in Passed(b) \ Passed(at) : i \in DOMAIN Items /\ at <= i /\ i < b
  BY <1>1, PassedOn
<1>3. Range(buffer) \subseteq Passed(at)
  BY <1>1 DEF Kept
<1>4. Kept(b, new, segments)
  <2>1. /\ Range(new) \subseteq Passed(b)
        /\ \A i \in Range(new) : i \in Range(buffer) \/ i \notin Passed(at) \cup Header
        /\ \A i \in Passed(b) \ Passed(at) :
             i \in Headings \cup Header \cup Preamble \/ IsBlank(i) \/ i \in Range(new)
    BY <1>2, <1>3
  <2> QED BY <1>1, <1>2, <2>1, KeptOn
<1>5. Enclosed(b, open, new, segments)
  BY <1>1 DEF Enclosed
<1>6. Located(b, segments)
  BY <1>1, LocatedOn
<1> QED BY <1>4, <1>5, <1>6

LEMMA DocxHeadingStep ==
    ASSUME ReadInv, DocxHeading
    PROVE  file' = file /\ Read(at', stack', buffer', segments')
<1>1. /\ file \in File /\ at \in Nat /\ Len(Items) \in Nat /\ at >= 1
      /\ Typed(at, stack, buffer, segments) /\ Enclosed(at, stack, buffer, segments)
      /\ stack \in Seq(DOMAIN Items) /\ stack \in Seq(Nat)
  BY ReadFacts DEF DocxHeading, Reading
<1>2. /\ file.format = "docx" /\ at <= Len(Items) /\ at \in Headings
      /\ segments' = Flushed("section", stack) /\ buffer' = <<>>
      /\ stack' = Opened(at) /\ at' = at + 1 /\ file' = file
  BY DEF DocxHeading, Reading
<1> DEFINE b == at + 1
<1>3. b \in Nat /\ at <= b /\ at < b
  BY <1>1
<1>4. /\ Passed(at) \subseteq Passed(b)
      /\ \A i \in Passed(b) \ Passed(at) : i = at
  <2>1. \A i \in Nat : at <= i /\ i < b => i = at
    BY <1>1
  <2>2. DOMAIN Items \subseteq Nat
    BY <1>1, FileFacts
  <2> QED BY <1>1, <1>3, <2>1, <2>2, PassedOn
<1>5. stack' \in Seq(DOMAIN Items) /\ InOrder(stack', Enclosing(b))
  <2>1. \A h \in Headings : h <= at \/ b <= h
    BY <1>1, FileFacts
  <2> QED BY <1>1, <1>2, <1>3, <2>1, OpenedEncloses DEF Enclosed
<1>6. Range(buffer') = {}
  BY <1>2, EmptyRange
<1>7. "section" \in Kinds \cap {"section", "page_paragraph"}
  BY <1>2 DEF Kinds
<1> HIDE DEF b
<1>8. /\ segments' \in Seq(SegmentType)
      /\ Kept(b, buffer', segments') /\ Enclosed(b, stack', buffer', segments')
      /\ Located(b, segments')
  BY <1>1, <1>2, <1>3, <1>4, <1>5, <1>6, <1>7, FlushResult
<1>9. Typed(b, stack', buffer', segments')
  <2>1. b \in 0 .. Len(Items) + 2 /\ b # 0
    BY <1>1, <1>2 DEF b
  <2>2. buffer' \in Seq(DOMAIN Items)
    BY <1>2
  <2> QED BY <1>2, <1>5, <1>8, <2>1, <2>2 DEF Typed
<1> QED BY <1>2, <1>8, <1>9 DEF Read, b

LEMMA DocxParagraphStep ==
    ASSUME ReadInv, DocxParagraph
    PROVE  file' = file /\ Read(at', stack', buffer', segments')
<1>1. /\ file \in File /\ at \in Nat /\ Len(Items) \in Nat /\ at >= 1
      /\ Typed(at, stack, buffer, segments) /\ Enclosed(at, stack, buffer, segments)
      /\ stack \in Seq(DOMAIN Items) /\ buffer \in Seq(DOMAIN Items)
      /\ segments \in Seq(SegmentType)
  BY ReadFacts DEF DocxParagraph, Reading
<1>2. /\ file.format = "docx" /\ at <= Len(Items) /\ at \notin Headings
      /\ buffer' = (IF IsBlank(at) THEN buffer ELSE Append(buffer, at))
      /\ at' = at + 1 /\ file' = file /\ stack' = stack /\ segments' = segments
  BY DEF DocxParagraph, Reading
<1> DEFINE b == at + 1
<1>3. b \in Nat /\ at <= b /\ at < b /\ at \in DOMAIN Items /\ b \in 0 .. Len(Items) + 2 /\ b # 0
      /\ b \in 1 .. Len(Items) + 1
  BY <1>1, <1>2, FileFacts
<1>4. \A i \in DOMAIN Items : at <= i /\ i < b => i = at
  BY <1>1, FileFacts
<1>5. Enclosing(b) = Enclosing(at)
  <2>1. \A h \in Headings : h < at \/ b <= h
    BY <1>1, <1>2, FileFacts
  <2> QED BY <1>1, <1>3, <2>1, EnclosingStays
<1>6. at \in Passed(b) \ Passed(at) /\ at \notin Header
  <2>1. Header = {}
    BY <1>1, <1>2, FileFacts
  <2> QED BY <1>1, <1>2, <1>3, <2>1 DEF Passed
<1> HIDE DEF b
<1>7. /\ buffer' \in Seq(DOMAIN Items)
      /\ Range(buffer') = IF IsBlank(at) THEN Range(buffer) ELSE Range(buffer) \cup {at}
  <2>1. /\ Append(buffer, at) \in Seq(DOMAIN Items)
        /\ Range(Append(buffer, at)) = Range(buffer) \cup {at}
    BY <1>1, <1>3, OneMore
  <2>2. CASE IsBlank(at)
    BY <1>1, <1>2, <2>2
  <2>3. CASE ~IsBlank(at)
    BY <1>2, <2>1, <2>3
  <2> QED BY <2>2, <2>3
<1>8. /\ Kept(b, buffer', segments) /\ Enclosed(b, stack, buffer', segments)
      /\ Located(b, segments)
  <2>1. /\ Range(buffer) \subseteq Range(buffer')
        /\ \A i \in Range(buffer') :
             i \in Range(buffer) \/ (i \in Passed(b) \ Passed(at) /\ i \notin Header)
        /\ \A i \in DOMAIN Items : at <= i /\ i < b => IsBlank(i) \/ i \in Range(buffer')
    BY <1>4, <1>6, <1>7
  <2>2. InOrder(stack, Enclosing(b)) /\ \A i \in Range(buffer') : InOrder(stack, Enclosing(i))
    BY <1>1, <1>5, <1>7 DEF Enclosed
  <2> QED BY <1>1, <1>3, <2>1, <2>2, SkipResult
<1>9. Typed(b, stack, buffer', segments)
  BY <1>1, <1>2, <1>3, <1>7 DEF Typed
<1> QED BY <1>2, <1>8, <1>9 DEF Read, b

LEMMA PositionsOfItems ==
    ASSUME file \in File, NEW first \in Nat, NEW last \in Int, first >= 1, last <= Len(Items)
    PROVE  /\ Positions(first, last) \in Seq(DOMAIN Items)
           /\ Range(Positions(first, last)) = first .. last
<1>1. Positions(first, last) \in Seq(first .. last) /\ Range(Positions(first, last)) = first .. last
  <2>1. first \in Int
    OBVIOUS
  <2> QED BY <2>1, PositionsGiven
<1>2. first .. last \subseteq DOMAIN Items
  BY FileFacts
<1> QED BY <1>1, <1>2

LEMMA ItemsAreNumbers ==
    ASSUME file \in File, NEW s \in Seq(DOMAIN Items)
    PROVE  s \in Seq(Nat)
<1>1. s \in [1 .. Len(s) -> DOMAIN Items] /\ Len(s) \in Nat
  BY LenProperties
<1>2. s \in [1 .. Len(s) -> Nat]
  BY <1>1, FileFacts
<1> QED BY <1>1, <1>2, FunctionIsList

\* The items of a segment that goes unwritten are blank.
LEMMA Unwritten ==
    ASSUME NEW ps, ~Written(ps)
    PROVE  \A i \in Range(ps) : IsBlank(i)
BY DEF Written

LEMMA TakeSectionStep ==
    ASSUME ReadInv, TakeSection
    PROVE  file' = file /\ Read(at', stack', buffer', segments')
<1> DEFINE b == SectionEnd(at)
           body == Positions(at + 1, b - 1)
           s == Segment("section", Opened(at), body)
<1>1. /\ file \in File /\ at \in Nat /\ Len(Items) \in Nat /\ at >= 1
      /\ Enclosed(at, stack, buffer, segments) /\ buffer = <<>>
      /\ stack \in Seq(DOMAIN Items) /\ segments \in Seq(SegmentType)
  BY ReadFacts DEF TakeSection, Reading
<1>2. /\ file.format \in {"markdown", "html"} /\ at <= Len(Items) /\ at \in Headings
      /\ segments' = (IF Written(body) THEN Append(segments, s) ELSE segments)
      /\ at' = b /\ stack' = Opened(at) /\ file' = file /\ buffer' = buffer
  BY DEF TakeSection, Reading
<1>3. b \in at + 1 .. Len(Items) + 1 /\ \A h \in Headings : h <= at \/ b <= h
  BY <1>1, <1>2, SectionEnds
<1>4. b \in Nat /\ at <= b /\ at < b /\ b - 1 \in Int /\ b - 1 <= Len(Items)
      /\ b \in 0 .. Len(Items) + 2 /\ b # 0 /\ at + 1 \in Nat /\ at + 1 >= 1
  BY <1>1, <1>3
<1>5. body \in Seq(DOMAIN Items) /\ Range(body) = at + 1 .. b - 1
  BY <1>1, <1>4, PositionsOfItems
<1>6. Opened(at) \in Seq(DOMAIN Items) /\ InOrder(Opened(at), Enclosing(b))
  BY <1>1, <1>2, <1>3, <1>4, OpenedEncloses DEF Enclosed
<1>7. \A i \in at + 1 .. b - 1 : InOrder(Opened(at), Enclosing(i))
  <2> TAKE i \in at + 1 .. b - 1
  <2>1. i \in Nat /\ at < i
    BY <1>1, <1>4
  <2>2. \A h \in Headings : h <= at \/ i <= h
    <3>1. \A h \in Headings : h \in Nat
      BY <1>1, FileFacts
    <3> QED BY <1>3, <1>4, <3>1
  <2> QED BY <1>1, <1>2, <2>1, <2>2, OpenedEncloses DEF Enclosed
<1>8. \A i \in DOMAIN Items : at <= i /\ i < b => i \in Headings \/ i \in at + 1 .. b - 1
  <2>1. \A i \in Nat : at <= i /\ i < b => i = at \/ i \in at + 1 .. b - 1
    BY <1>1, <1>4, SMTT(30)
  <2>2. \A i \in DOMAIN Items : i \in Nat
    BY <1>1, FileFacts
  <2> QED BY <1>2, <2>1, <2>2, ZenonT(30)
<1>9. (at + 1 .. b - 1) \cap Preamble = {}
  <2>1. Headings \in SUBSET Nat /\ Headings # {}
    BY <1>1, <1>2, FileFacts
  <2>2. Min(Headings) \in Nat /\ Min(Headings) <= at
    BY <1>2, <2>1, MinIsLeast
  <2> DEFINE first == Min(Headings)
  <2>3. first \in Nat /\ first <= at
    BY <2>2
  <2>4. \A i \in at + 1 .. b - 1 : i \notin 1 .. first - 1
    <3> HIDE DEF first
    <3> TAKE i \in at + 1 .. b - 1
    <3>1. i \in Int /\ at < i
      BY <1>1, <1>4, SMTT(30)
    <3> QED BY <2>3, <3>1, <1>1, SMTT(30)
  <2> QED BY <2>4 DEF Preamble
<1>10. \A i \in at + 1 .. b - 1 : at <= i /\ i < b
  BY <1>1, <1>4
<1>11. s \in SegmentType /\ s.kind = "section" /\ s.path = Opened(at) /\ s.items = body
  <2>1. "section" \in Kinds
    BY <1>2 DEF Kinds
  <2>2. Opened(at) \in Seq(Nat)
    BY <1>1, <1>6, ItemsAreNumbers
  <2> QED BY <1>5, <2>1, <2>2 DEF Segment, SegmentType
<1>12. Names(at, b, segments, s)
  BY <1>11 DEF Names
<1> HIDE DEF s, body, b
<1>13. /\ segments' \in Seq(SegmentType)
       /\ Kept(b, <<>>, segments') /\ Enclosed(b, stack', <<>>, segments') /\ Located(b, segments')
  <2>1. CASE Written(body)
    <3> DEFINE R == at + 1 .. b - 1
    <3>1. /\ R = Range(s.items) /\ \A i \in R : i \in Header \/ (at <= i /\ i < b)
          /\ R \cap Preamble = {}
          /\ \A i \in DOMAIN Items : at <= i /\ i < b =>
               i \in Headings \cup Header \cup Preamble \/ IsBlank(i) \/ i \in R
          /\ s.kind = "section" => \A i \in R : InOrder(s.path, Enclosing(i))
      BY <1>5, <1>7, <1>8, <1>9, <1>10, <1>11
    <3> HIDE DEF R
    <3>2. file.format \notin {"docx", "pdf"}
      BY <1>2
    <3> QED BY <1>2, <1>4, <1>6, <1>11, <1>12, <2>1, <3>1, <3>2, AddResult
  <2>2. CASE ~Written(body)
    <3> DEFINE new == buffer
    <3>1. Range(new) = {} /\ new = <<>>
      BY <1>1, EmptyRange
    <3>2. \A i \in DOMAIN Items : at <= i /\ i < b => i \in Headings \/ IsBlank(i)
      BY <1>5, <1>8, <2>2, Unwritten
    <3>3. segments' = segments
      BY <1>2, <2>2
    <3>4. /\ Range(buffer) \subseteq Range(new)
          /\ \A i \in Range(new) : i \in Range(buffer) \/ (i \in Passed(b) \ Passed(at) /\ i \notin Header)
          /\ \A i \in DOMAIN Items : at <= i /\ i < b /\ i \notin Passed(at) =>
               i \in Headings \cup Header \cup Preamble \/ IsBlank(i) \/ i \in Range(new)
          /\ \A i \in Range(new) : InOrder(stack', Enclosing(i))
      BY <3>1, <3>2
    <3> HIDE DEF new
    <3>5. InOrder(stack', Enclosing(b))
      BY <1>2, <1>6
    <3>6. Kept(b, new, segments) /\ Enclosed(b, stack', new, segments) /\ Located(b, segments)
      BY <1>1, <1>4, <3>4, <3>5, SkipResult
    <3> QED BY <1>1, <3>1, <3>3, <3>6
  <2> QED BY <2>1, <2>2
<1>14. Typed(b, stack', <<>>, segments')
  <2>1. <<>> \in Seq(DOMAIN Items)
    OBVIOUS
  <2> QED BY <1>2, <1>4, <1>6, <1>13, <2>1 DEF Typed
<1> QED BY <1>1, <1>2, <1>13, <1>14 DEF Read, b

\* A step of a loop without headings: the items from at to b make a segment, or
\* there is nothing to keep in them.
LEMMA FlatResult ==
    ASSUME ReadInv, file.format \notin {"docx", "pdf"}, Headings = {},
           NEW b \in Nat, at <= b, b <= Len(Items) + 2, b = 1 => at = b,
           file.format = "html" => b > Len(Items),
           NEW s \in SegmentType, s.kind # "section", Names(at, b, segments, s),
           NEW R, R = Range(s.items), \A i \in R : i \in Header \/ (at <= i /\ i < b),
           NEW made \in BOOLEAN,
           \A i \in DOMAIN Items : at <= i /\ i < b => IsBlank(i) \/ (made /\ i \in R)
    PROVE  Read(b, stack, buffer, IF made THEN Append(segments, s) ELSE segments)
<1>1. /\ file \in File /\ Typed(at, stack, buffer, segments)
      /\ Enclosed(at, stack, buffer, segments) /\ buffer = <<>>
      /\ at \in Nat /\ Len(Items) \in Nat /\ segments \in Seq(SegmentType) /\ at >= 1
      /\ stack \in Seq(DOMAIN Items)
  BY ReadFacts
<1>2. InOrder(stack, Enclosing(b))
  BY <1>1, NoHeadings DEF Enclosed
<1>3. Preamble = {} /\ Range(buffer) = {}
  BY <1>1, FileFacts, EmptyRange
<1> DEFINE segs == IF made THEN Append(segments, s) ELSE segments
<1>4. /\ segs \in Seq(SegmentType)
      /\ Kept(b, buffer, segs) /\ Enclosed(b, stack, buffer, segs) /\ Located(b, segs)
  <2>1. CASE made
    <3>1. /\ R \cap Preamble = {}
          /\ \A i \in DOMAIN Items : at <= i /\ i < b =>
               i \in Headings \cup Header \cup Preamble \/ IsBlank(i) \/ i \in R
      BY <1>3, <2>1
    <3> DEFINE t == Append(segments, s)
    <3>2. /\ t \in Seq(SegmentType)
          /\ Kept(b, <<>>, t) /\ Enclosed(b, stack, <<>>, t) /\ Located(b, t)
      BY <1>2, <3>1, AddResult
    <3> QED BY <1>1, <2>1, <3>2
  <2>2. CASE ~made
    <3> DEFINE new == buffer
    <3>1. /\ Range(buffer) \subseteq Range(new)
          /\ \A i \in Range(new) : i \in Range(buffer) \/ (i \in Passed(b) \ Passed(at) /\ i \notin Header)
          /\ \A i \in DOMAIN Items : at <= i /\ i < b /\ i \notin Passed(at) =>
               i \in Headings \cup Header \cup Preamble \/ IsBlank(i) \/ i \in Range(new)
          /\ \A i \in Range(new) : InOrder(stack, Enclosing(i))
      BY <1>3, <2>2
    <3> HIDE DEF new
    <3>2. Kept(b, new, segments) /\ Enclosed(b, stack, new, segments) /\ Located(b, segments)
      BY <1>1, <1>2, <3>1, SkipResult
    <3> QED BY <1>1, <2>2, <3>2 DEF new
  <2> QED BY <2>1, <2>2
<1> HIDE DEF segs
<1>5. Typed(b, stack, buffer, segs)
  <2>1. b \in 0 .. Len(Items) + 2 /\ b # 0
    BY <1>1
  <2>2. file.format = "rows" /\ b <= Len(Items) => b >= 2
    BY <1>1, <2>1 DEF Typed
  <2>3. file.format = "html" => ~(b <= Len(Items))
    BY <1>1
  <2> QED BY <1>1, <1>4, <2>1, <2>2, <2>3 DEF Typed
<1> QED BY <1>4, <1>5 DEF Read, segs

LEMMA TakePageStep ==
    ASSUME ReadInv, TakePage
    PROVE  file' = file /\ Read(at', stack', buffer', segments')
<1> DEFINE page == Positions(1, Len(Items))
           s == Segment("whole", <<>>, page)
           b == Len(Items) + 1
<1>1. /\ file \in File /\ at \in Nat /\ Len(Items) \in Nat /\ at >= 1
      /\ Typed(at, stack, buffer, segments)
  BY ReadFacts DEF TakePage, Reading
<1>2. /\ file.format = "html" /\ at <= Len(Items) /\ Headings = {}
      /\ segments' = (IF Written(page) THEN <<s>> ELSE <<>>)
      /\ at' = b /\ stack' = stack /\ file' = file /\ buffer' = buffer
  BY DEF TakePage, Reading
<1>3. at = 1 /\ segments = <<>>
  BY <1>1, <1>2 DEF Typed
<1>4. segments' = IF Written(page) THEN Append(segments, s) ELSE segments
  <2>1. Append(<<>>, s) = <<s>>
    OBVIOUS
  <2> QED BY <1>2, <1>3, <2>1
<1>5. page \in Seq(DOMAIN Items) /\ Range(page) = 1 .. Len(Items)
  <2>1. Len(Items) \in Int /\ Len(Items) <= Len(Items)
    BY <1>1
  <2> QED BY <1>1, <2>1, PositionsOfItems
<1>6. s \in SegmentType /\ s.kind = "whole" /\ s.items = page
  <2>1. "whole" \in Kinds
    BY <1>2 DEF Kinds
  <2> QED BY <1>5, <2>1 DEF Segment, SegmentType
<1>7. Names(at, b, segments, s)
  BY <1>6 DEF Names
<1> HIDE DEF s, page
<1>8. /\ b \in Nat /\ at <= b /\ b <= Len(Items) + 2 /\ b # 1 /\ b > Len(Items)
      /\ \A i \in DOMAIN Items : i \in 1 .. Len(Items)
      /\ \A i \in 1 .. Len(Items) : at <= i /\ i < b
  BY <1>1, <1>2, <1>3, FileFacts
<1> HIDE DEF b
<1> DEFINE R == 1 .. Len(Items)
           made == Written(page)
<1>9. /\ R = Range(s.items) /\ \A i \in R : i \in Header \/ (at <= i /\ i < b)
      /\ \A i \in DOMAIN Items : at <= i /\ i < b => IsBlank(i) \/ (made /\ i \in R)
  BY <1>5, <1>6, <1>8, Unwritten
<1>10. made \in BOOLEAN
  BY DEF Written
<1>11. segments' = IF made THEN Append(segments, s) ELSE segments
  BY <1>4
<1>12. s.kind # "section" /\ file.format \notin {"docx", "pdf"}
  BY <1>2, <1>6
<1> HIDE DEF R, made
<1>13. Read(b, stack, buffer, IF made THEN Append(segments, s) ELSE segments)
  BY <1>2, <1>6, <1>7, <1>8, <1>9, <1>10, <1>12, FlatResult
<1> QED BY <1>2, <1>11, <1>13

LEMMA TakeLinesStep ==
    ASSUME ReadInv, TakeLines
    PROVE  file' = file /\ Read(at', stack', buffer', segments')
<1> DEFINE two == {at + BatchSize - 1, Len(Items)}
           last == Min(two)
           lines == Positions(at, last)
           s == Segment("line_range", <<at, last>>, lines)
           b == last + 1
<1>1. /\ file \in File /\ at \in Nat /\ Len(Items) \in Nat /\ at >= 1
  BY ReadFacts DEF TakeLines, Reading
<1>2. /\ file.format \in {"text", "markdown"} /\ at <= Len(Items) /\ Headings = {}
      /\ segments' = (IF Written(lines) THEN Append(segments, s) ELSE segments)
      /\ at' = b /\ stack' = stack /\ file' = file /\ buffer' = buffer
  BY DEF TakeLines, Reading
<1>3. last \in Nat /\ at <= last /\ last <= Len(Items)
  <2>1. BatchSize \in Nat /\ BatchSize >= 1
    BY SegmentationAssumption
  <2>2. two \in SUBSET Nat /\ two # {} /\ Len(Items) \in two
    BY <1>1, <2>1
  <2>3. last \in two /\ last <= Len(Items)
    BY <2>2, MinIsLeast
  <2> HIDE DEF last
  <2> QED BY <1>1, <1>2, <2>1, <2>3
<1> HIDE DEF last, two
<1>4. lines \in Seq(DOMAIN Items) /\ Range(lines) = at .. last
  <2>1. last \in Int
    BY <1>3
  <2> QED BY <1>1, <1>3, <2>1, PositionsOfItems
<1>5. /\ s \in SegmentType /\ s.kind = "line_range" /\ s.items = lines /\ s.path = <<at, last>>
  <2>1. "line_range" \in Kinds
    BY <1>2 DEF Kinds
  <2>2. <<at, last>> \in Seq(Nat)
    BY <1>1, <1>3
  <2> QED BY <1>4, <2>1, <2>2 DEF Segment, SegmentType
<1>6. /\ b \in Nat /\ at <= b /\ b <= Len(Items) + 2 /\ b # 1 /\ last < b
      /\ \A i \in at .. last : at <= i /\ i < b
      /\ \A i \in DOMAIN Items : at <= i /\ i < b => i \in at .. last
  BY <1>1, <1>2, <1>3, FileFacts
<1>7. Names(at, b, segments, s)
  <2>1. <<at, last>>[1] = at /\ <<at, last>>[2] = last /\ Len(<<at, last>>) = 2 /\ at <= at
    BY <1>1
  <2>2. Header = {}
    BY <1>1, <1>2, FileFacts
  <2> QED BY <1>4, <1>5, <1>6, <2>1, <2>2 DEF Names
<1> HIDE DEF b, s, lines
<1> DEFINE R == at .. last
           made == Written(lines)
<1>8. /\ R = Range(s.items) /\ \A i \in R : i \in Header \/ (at <= i /\ i < b)
      /\ \A i \in DOMAIN Items : at <= i /\ i < b => IsBlank(i) \/ (made /\ i \in R)
  BY <1>4, <1>5, <1>6, Unwritten
<1>9. made \in BOOLEAN
  BY DEF Written
<1>10. segments' = IF made THEN Append(segments, s) ELSE segments
  BY <1>2
<1>11. s.kind # "section" /\ file.format \notin {"docx", "pdf", "html"}
  BY <1>2, <1>5
<1> HIDE DEF R, made
<1>12. Read(b, stack, buffer, IF made THEN Append(segments, s) ELSE segments)
  BY <1>2, <1>5, <1>6, <1>7, <1>8, <1>9, <1>11, FlatResult
<1> QED BY <1>2, <1>10, <1>12

\* An item put before a list.
LEMMA OneBefore ==
    ASSUME NEW S, NEW s \in Seq(S), NEW x \in S
    PROVE  <<x>> \o s \in Seq(S) /\ Range(<<x>> \o s) = {x} \cup Range(s)
<1> DEFINE one == <<x>>
<1>1. one \in Seq(S) /\ Range(one) = {x}
  BY OneItem
<1> HIDE DEF one
<1>2. one \o s \in Seq(S)
  BY <1>1, ConcatProperties
<1>3. Range(one \o s) = Range(one) \cup Range(s)
  BY <1>1, RangeConcatenation
<1> QED BY <1>1, <1>2, <1>3 DEF one

LEMMA TakeRowsStep ==
    ASSUME ReadInv, TakeRows
    PROVE  file' = file /\ Read(at', stack', buffer', segments')
<1> DEFINE start == at - 2
           two == {BatchSize, Len(DataRows) - start}
           count == Min(two)
           last == at + count - 1
           rows == Positions(at, last)
           s == Segment("row_range", <<start + 2, start + 1 + count>>, <<1>> \o rows)
           b == at + count
<1>1. /\ file \in File /\ at \in Nat /\ Len(Items) \in Nat /\ at >= 1
      /\ Typed(at, stack, buffer, segments) /\ segments \in Seq(SegmentType)
  BY ReadFacts DEF TakeRows, Reading
<1>2. /\ file.format = "rows" /\ at <= Len(Items)
      /\ segments' = Append(segments, s)
      /\ at' = b /\ stack' = stack /\ file' = file /\ buffer' = buffer
  BY DEF TakeRows, Reading
<1>3. at >= 2 /\ Headings = {} /\ Header = {1} /\ 1 \in DOMAIN Items
  <2>1. at >= 2
    BY <1>1, <1>2 DEF Typed
  <2>2. Headings = {} /\ DOMAIN Items = 1 .. Len(Items)
    BY <1>1, <1>2, FileFacts
  <2>3. Header = {1}
    BY <1>2 DEF Header
  <2>4. 1 \in 1 .. Len(Items)
    BY <1>1, <1>2
  <2> QED BY <2>1, <2>2, <2>3, <2>4
<1>4. Len(DataRows) = Len(Items) - 1
  <2>1. Items \in Seq(Item) /\ Items # <<>>
    BY <1>1, <1>3, FileFacts
  <2> QED BY <2>1, HeadTailProperties DEF DataRows
<1>5. count \in Nat /\ 1 <= count /\ at + count <= Len(Items) + 1
  <2>1. BatchSize \in Nat /\ BatchSize >= 1
    BY SegmentationAssumption
  <2>2. Len(DataRows) - start = (Len(Items) + 1) - at
    BY <1>1, <1>4
  <2>3. two \in SUBSET Nat /\ two # {} /\ Len(DataRows) - start \in two /\ \A x \in two : 1 <= x
    BY <1>1, <1>2, <2>1, <2>2
  <2>4. count \in two /\ count <= Len(DataRows) - start
    BY <2>3, MinIsLeast
  <2> HIDE DEF count, two
  <2> QED BY <1>1, <2>2, <2>3, <2>4
<1> HIDE DEF count, two
<1>6. last \in Nat /\ last <= Len(Items) /\ start + 2 = at /\ start + 1 + count = last /\ b = last + 1
  BY <1>1, <1>5
<1> HIDE DEF start, last, b
<1>7. rows \in Seq(DOMAIN Items) /\ Range(rows) = at .. last
  <2>1. last \in Int
    BY <1>6
  <2> QED BY <1>1, <1>6, <2>1, PositionsOfItems
<1>8. <<1>> \o rows \in Seq(DOMAIN Items) /\ Range(<<1>> \o rows) = {1} \cup (at .. last)
  BY <1>3, <1>7, OneBefore
<1>9. s \in SegmentType /\ s.kind = "row_range" /\ s.items = <<1>> \o rows /\ s.path = <<at, last>>
  <2>1. "row_range" \in Kinds
    BY <1>2 DEF Kinds
  <2>2. <<at, last>> \in Seq(Nat)
    BY <1>1, <1>6
  <2> QED BY <1>6, <1>8, <2>1, <2>2 DEF Segment, SegmentType
<1>10. /\ b \in Nat /\ at <= b /\ b <= Len(Items) + 2 /\ b # 1 /\ last < b
       /\ \A i \in at .. last : at <= i /\ i < b /\ i # 1
       /\ \A i \in DOMAIN Items : at <= i /\ i < b => i \in at .. last
  <2>1. /\ b \in Nat /\ at <= b /\ b <= Len(Items) + 2 /\ b # 1 /\ last < b
        /\ \A i \in at .. last : at <= i /\ i < b /\ i # 1
        /\ \A i \in Nat : at <= i /\ i < b => i \in at .. last
    BY <1>1, <1>3, <1>5, <1>6 DEF b
  <2>2. DOMAIN Items \subseteq Nat
    BY <1>1, FileFacts
  <2> QED BY <2>1, <2>2
<1> DEFINE R == {1} \cup (at .. last)
<1>11. Names(at, b, segments, s)
  <2>1. <<at, last>>[1] = at /\ <<at, last>>[2] = last /\ Len(<<at, last>>) = 2 /\ at <= at
    BY <1>1
  <2>2. R \ Header = at .. last
    BY <1>3, <1>10
  <2> QED BY <1>8, <1>9, <1>10, <2>1, <2>2 DEF Names
<1>12. /\ R = Range(s.items) /\ \A i \in R : i \in Header \/ (at <= i /\ i < b)
       /\ \A i \in DOMAIN Items : at <= i /\ i < b => IsBlank(i) \/ (TRUE /\ i \in R)
  BY <1>3, <1>8, <1>9, <1>10
<1> HIDE DEF s, R, rows
<1>13. s.kind # "section" /\ file.format \notin {"docx", "pdf", "html"}
  BY <1>2, <1>9
<1>14. Read(b, stack, buffer, IF TRUE THEN Append(segments, s) ELSE segments)
  BY <1>3, <1>9, <1>10, <1>11, <1>12, <1>13, FlatResult
<1> QED BY <1>2, <1>14

LEMMA TakeChildStep ==
    ASSUME ReadInv, TakeChild
    PROVE  file' = file /\ Read(at', stack', buffer', segments')
<1> DEFINE index == Cardinality({i \in 1 .. at : Items[i].mark = Items[at].mark})
           s == Segment("xpath", <<Items[at].mark, index>>, <<at>>)
           b == at + 1
           made == ~IsBlank(at)
<1>1. /\ file \in File /\ at \in Nat /\ Len(Items) \in Nat /\ at >= 1
  BY ReadFacts DEF TakeChild, Reading
<1>2. /\ file.format = "xml" /\ at <= Len(Items)
      /\ segments' = (IF made THEN Append(segments, s) ELSE segments)
      /\ at' = b /\ stack' = stack /\ file' = file /\ buffer' = buffer
  BY DEF TakeChild, Reading
<1>3. at \in DOMAIN Items /\ Headings = {} /\ Items[at].mark \in Nat /\ index \in Nat
  <2>1. at \in DOMAIN Items /\ Headings = {} /\ Items[at].mark \in Nat
    <3> HIDE DEF index, made
    <3>1. DOMAIN Items = 1 .. Len(Items) /\ Headings = {}
      BY <1>1, <1>2, FileFacts
    <3>2. at \in DOMAIN Items
      BY <1>1, <1>2, <3>1
    <3> QED BY <1>1, <3>1, <3>2, FileFacts
  <2>2. IsFiniteSet(1 .. at)
    BY <1>1, FS_Interval
  <2>3. IsFiniteSet({i \in 1 .. at : Items[i].mark = Items[at].mark})
    BY <2>2, FS_Subset
  <2> QED BY <2>1, <2>3, FS_CardinalityType
<1>4. s.path = ChildPath(at)
  BY DEF Segment, ChildPath
<1> HIDE DEF index
<1>5. s \in SegmentType /\ s.kind = "xpath" /\ s.items = <<at>> /\ Range(s.items) = {at}
  <2>1. "xpath" \in Kinds
    BY <1>2 DEF Kinds
  <2>2. <<Items[at].mark, index>> \in Seq(Nat)
    BY <1>3
  <2>3. <<at>> \in Seq(DOMAIN Items) /\ Range(<<at>>) = {at}
    BY <1>3, OneItem
  <2> QED BY <2>1, <2>2, <2>3 DEF Segment, SegmentType
<1>6. Names(at, b, segments, s)
  BY <1>3, <1>4, <1>5 DEF Names
<1> HIDE DEF s
<1>7. /\ b \in Nat /\ at <= b /\ at < b /\ b <= Len(Items) + 2 /\ b # 1 /\ at <= at
      /\ \A i \in DOMAIN Items : at <= i /\ i < b => i = at
  BY <1>1, <1>2, FileFacts
<1> HIDE DEF b
<1> DEFINE R == {at}
<1>8. /\ R = Range(s.items) /\ \A i \in R : i \in Header \/ (at <= i /\ i < b)
      /\ \A i \in DOMAIN Items : at <= i /\ i < b => IsBlank(i) \/ (made /\ i \in R)
  BY <1>5, <1>7
<1> HIDE DEF R
<1>9. made \in BOOLEAN /\ s.kind # "section" /\ file.format \notin {"docx", "pdf", "html"}
  BY <1>2, <1>5
<1> HIDE DEF made
<1>10. Read(b, stack, buffer, IF made THEN Append(segments, s) ELSE segments)
  BY <1>3, <1>5, <1>6, <1>7, <1>8, <1>9, FlatResult
<1> QED BY <1>2, <1>10

LEMMA TakeEntryStep ==
    ASSUME ReadInv, TakeEntry
    PROVE  file' = file /\ Read(at', stack', buffer', segments')
<1> DEFINE s == Segment("json_path", <<at>>, <<at>>)
           b == at + 1
<1>1. /\ file \in File /\ at \in Nat /\ Len(Items) \in Nat /\ at >= 1
  BY ReadFacts DEF TakeEntry, Reading
<1>2. /\ file.format = "json" /\ at <= Len(Items)
      /\ segments' = Append(segments, s)
      /\ at' = b /\ stack' = stack /\ file' = file /\ buffer' = buffer
  BY DEF TakeEntry, Reading
<1>3. at \in DOMAIN Items /\ Headings = {}
  BY <1>1, <1>2, FileFacts
<1>4. /\ s \in SegmentType /\ s.kind = "json_path" /\ s.items = <<at>> /\ s.path = <<at>>
      /\ Range(s.items) = {at}
  <2>1. "json_path" \in Kinds
    BY <1>2 DEF Kinds
  <2>2. <<at>> \in Seq(DOMAIN Items) /\ Range(<<at>>) = {at} /\ <<at>> \in Seq(Nat)
    BY <1>1, <1>3, OneItem
  <2> QED BY <2>1, <2>2 DEF Segment, SegmentType
<1>5. Names(at, b, segments, s)
  BY <1>3, <1>4 DEF Names
<1> HIDE DEF s
<1>6. /\ b \in Nat /\ at <= b /\ at < b /\ b <= Len(Items) + 2 /\ b # 1 /\ at <= at
      /\ \A i \in DOMAIN Items : at <= i /\ i < b => i = at
  BY <1>1, <1>2, FileFacts
<1> HIDE DEF b
<1> DEFINE R == {at}
<1>7. /\ R = Range(s.items) /\ \A i \in R : i \in Header \/ (at <= i /\ i < b)
      /\ \A i \in DOMAIN Items : at <= i /\ i < b => IsBlank(i) \/ (TRUE /\ i \in R)
  BY <1>4, <1>6
<1> HIDE DEF R
<1>8. s.kind # "section" /\ file.format \notin {"docx", "pdf", "html"}
  BY <1>2, <1>4
<1>9. Read(b, stack, buffer, IF TRUE THEN Append(segments, s) ELSE segments)
  BY <1>3, <1>4, <1>5, <1>6, <1>7, <1>8, FlatResult
<1> QED BY <1>2, <1>9

LEMMA ParagraphNumber ==
    ASSUME NEW segs \in Seq(SegmentType), segs = segments
    PROVE  NextParagraph \in Seq(Nat)
<1>1. Cardinality(Paragraphs(segs)) \in Nat
  <2>1. IsFiniteSet(DOMAIN segs) /\ Paragraphs(segs) \subseteq DOMAIN segs
    <3>1. Len(segs) \in Nat /\ DOMAIN segs = 1 .. Len(segs)
      BY LenProperties
    <3>2. IsFiniteSet(1 .. Len(segs))
      BY <3>1, FS_Interval
    <3> QED BY <3>1, <3>2 DEF Paragraphs
  <2> QED BY <2>1, FS_Subset, FS_CardinalityType
<1>2. NextParagraph = <<Cardinality(Paragraphs(segs)) + 1>>
  BY DEF NextParagraph, Paragraphs
<1> QED BY <1>1, <1>2

LEMMA EndFileStep ==
    ASSUME ReadInv, EndFile
    PROVE  file' = file /\ Read(at', stack', buffer', segments')
<1> DEFINE b == at + 1
<1>1. /\ file \in File /\ at \in Nat /\ Len(Items) \in Nat
      /\ Typed(at, stack, buffer, segments) /\ Enclosed(at, stack, buffer, segments)
      /\ stack \in Seq(DOMAIN Items) /\ stack \in Seq(Nat) /\ segments \in Seq(SegmentType)
      /\ file.format \notin {"docx", "pdf"} => buffer = <<>>
  BY ReadFacts
<1>2. /\ at = Len(Items) + 1
      /\ segments' = (IF file.format = "pdf" THEN Flushed("page_paragraph", NextParagraph)
                      ELSE Flushed("section", stack))
      /\ buffer' = <<>> /\ at' = b /\ file' = file /\ stack' = stack
  BY DEF EndFile
<1>3. b \in Nat /\ at <= b /\ at < b /\ at >= 1 /\ b = Len(Items) + 2 /\ b # 0
      /\ b \in 0 .. Len(Items) + 2
  BY <1>1, <1>2
<1>4. \A i \in DOMAIN Items : i < at /\ i < b
  BY <1>1, <1>2, FileFacts
<1>5. Passed(at) = DOMAIN Items /\ Passed(b) = DOMAIN Items
  BY <1>4 DEF Passed
<1>6. InOrder(stack, Enclosing(b))
  <2>1. \A h \in Headings : h < at
    BY <1>1, <1>4, FileFacts
  <2> QED BY <1>1, <1>3, <2>1, EnclosingStays DEF Enclosed
<1> DEFINE new == <<>>
<1>7. Range(new) = {}
  BY EmptyRange
<1> HIDE DEF new, b
<1>8. /\ segments' \in Seq(SegmentType)
      /\ Kept(b, new, segments') /\ Enclosed(b, stack, new, segments') /\ Located(b, segments')
  <2>1. CASE file.format = "pdf"
    <3>1. "page_paragraph" \in Kinds \cap {"section", "page_paragraph"}
      BY <2>1 DEF Kinds
    <3>2. NextParagraph \in Seq(Nat)
      BY <1>1, ParagraphNumber
    <3>3. segments' = Flushed("page_paragraph", NextParagraph)
      BY <1>2, <2>1
    <3> QED BY <1>3, <1>5, <1>6, <1>7, <3>1, <3>2, <3>3, FlushResult
  <2>2. CASE file.format = "docx"
    <3>1. "section" \in Kinds \cap {"section", "page_paragraph"}
      BY <2>2 DEF Kinds
    <3>2. segments' = Flushed("section", stack)
      BY <1>2, <2>2
    <3> QED BY <1>1, <1>3, <1>5, <1>6, <1>7, <3>1, <3>2, FlushResult
  <2>3. CASE file.format \notin {"docx", "pdf"}
    <3>1. segments' = segments /\ Range(buffer) = {}
      BY <1>1, <1>2, <2>3, EmptyRange DEF Flushed
    <3>2. Kept(b, new, segments) /\ Enclosed(b, stack, new, segments) /\ Located(b, segments)
      BY <1>3, <1>5, <1>6, <1>7, <3>1, SkipResult
    <3> QED BY <1>1, <3>1, <3>2
  <2> QED BY <2>1, <2>2, <2>3
<1>9. Typed(b, stack, new, segments')
  <2>1. new \in Seq(DOMAIN Items) /\ new = <<>>
    BY DEF new
  <2>2. ~(b <= Len(Items))
    BY <1>1, <1>3
  <2> QED BY <1>1, <1>3, <1>8, <2>1, <2>2 DEF Typed
<1> QED BY <1>2, <1>8, <1>9 DEF Read, b, new

LEMMA TakeLineStep ==
    ASSUME ReadInv, TakeLine
    PROVE  file' = file /\ Read(at', stack', buffer', segments')
<1> DEFINE b == at + 1
           skipped == IsBlank(at) \/ InTable(at)
           ends == buffer # <<>> /\ EndsParagraph(Last(buffer), at)
<1>1. /\ file \in File /\ at \in Nat /\ Len(Items) \in Nat /\ at >= 1
      /\ Typed(at, stack, buffer, segments) /\ Enclosed(at, stack, buffer, segments)
      /\ stack \in Seq(DOMAIN Items) /\ buffer \in Seq(DOMAIN Items)
      /\ segments \in Seq(SegmentType)
  BY ReadFacts DEF TakeLine, Reading
<1>2. /\ file.format = "pdf" /\ at <= Len(Items)
      /\ skipped => buffer' = buffer /\ segments' = segments
      /\ ~skipped /\ ends =>
           segments' = Flushed("page_paragraph", NextParagraph) /\ buffer' = <<at>>
      /\ ~skipped /\ ~ends => buffer' = Append(buffer, at) /\ segments' = segments
      /\ at' = b /\ file' = file /\ stack' = stack
  BY DEF TakeLine, Reading
<1> HIDE DEF ends
<1>3. /\ b \in Nat /\ at <= b /\ at < b /\ b \in 0 .. Len(Items) + 2 /\ b # 0
      /\ b \in 1 .. Len(Items) + 1 /\ at \in 1 .. Len(Items)
      /\ \A i \in 1 .. Len(Items) : at <= i /\ i < b => i = at
  BY <1>1, <1>2
<1>4. Headings = {} /\ Header = {} /\ DOMAIN Items = 1 .. Len(Items)
  BY <1>1, <1>2, FileFacts
<1>5. \A i : InOrder(stack, Enclosing(i))
  BY <1>1, <1>4, NoHeadings DEF Enclosed
<1>6. at \in DOMAIN Items /\ at \in Passed(b) /\ (skipped => IsBlank(at) \/ at \in Passed(at))
      /\ (~skipped => at \notin Passed(at))
  BY <1>1, <1>2, <1>3, <1>4 DEF Passed
<1>7. Passed(at) \subseteq Passed(b) /\ \A i \in Passed(b) \ Passed(at) : i = at
  BY <1>1, <1>3, <1>4, PassedOn
<1> HIDE DEF b, skipped
<1>8. /\ segments' \in Seq(SegmentType) /\ buffer' \in Seq(DOMAIN Items)
      /\ Kept(b, buffer', segments') /\ Enclosed(b, stack, buffer', segments')
      /\ Located(b, segments')
  <2>1. CASE skipped
    <3>1. /\ \A i \in DOMAIN Items : at <= i /\ i < b /\ i \notin Passed(at) => IsBlank(i)
      BY <1>3, <1>4, <1>6, <2>1
    <3> DEFINE new == buffer
    <3>2. /\ Range(buffer) \subseteq Range(new)
          /\ \A i \in Range(new) :
               i \in Range(buffer) \/ (i \in Passed(b) \ Passed(at) /\ i \notin Header)
          /\ \A i \in DOMAIN Items : at <= i /\ i < b /\ i \notin Passed(at) =>
               i \in Headings \cup Header \cup Preamble \/ IsBlank(i) \/ i \in Range(new)
      BY <3>1
    <3> HIDE DEF new
    <3>3. Kept(b, new, segments) /\ Enclosed(b, stack, new, segments) /\ Located(b, segments)
      BY <1>1, <1>3, <1>5, <3>2, SkipResult
    <3> QED BY <1>1, <1>2, <2>1, <3>3 DEF new
  <2>2. CASE ~skipped /\ ends
    <3> DEFINE new == <<at>>
    <3>1. Range(new) = {at} /\ new \in Seq(DOMAIN Items)
      BY <1>6, OneItem
    <3>2. /\ Range(new) \subseteq Passed(b) \ (Passed(at) \cup Header)
          /\ \A i \in Passed(b) \ Passed(at) :
               i \in Headings \cup Header \cup Preamble \/ IsBlank(i) \/ i \in Range(new)
      BY <1>4, <1>6, <1>7, <2>2, <3>1
    <3>3. segments' = Flushed("page_paragraph", NextParagraph) /\ buffer' = new
      BY <1>2, <2>2
    <3> HIDE DEF new
    <3>4. "page_paragraph" \in Kinds \cap {"section", "page_paragraph"}
      BY <1>2 DEF Kinds
    <3>5. NextParagraph \in Seq(Nat)
      BY <1>1, ParagraphNumber
    <3>6. LET segs == Flushed("page_paragraph", NextParagraph)
          IN /\ segs \in Seq(SegmentType)
             /\ Kept(b, new, segs) /\ Enclosed(b, stack, new, segs) /\ Located(b, segs)
      BY <1>3, <1>5, <1>7, <3>2, <3>4, <3>5, FlushResult
    <3> QED BY <3>1, <3>3, <3>6
  <2>3. CASE ~skipped /\ ~ends
    <3> DEFINE new == Append(buffer, at)
    <3>1. Range(new) = Range(buffer) \cup {at} /\ new \in Seq(DOMAIN Items)
      BY <1>1, <1>6, OneMore
    <3>2. segments' = segments /\ buffer' = new
      BY <1>2, <2>3
    <3> HIDE DEF new
    <3>3. /\ Range(buffer) \subseteq Range(new)
          /\ \A i \in Range(new) :
               i \in Range(buffer) \/ (i \in Passed(b) \ Passed(at) /\ i \notin Header)
          /\ \A i \in DOMAIN Items : at <= i /\ i < b /\ i \notin Passed(at) =>
               i \in Headings \cup Header \cup Preamble \/ IsBlank(i) \/ i \in Range(new)
      BY <1>3, <1>4, <1>6, <2>3, <3>1
    <3>4. Kept(b, new, segments) /\ Enclosed(b, stack, new, segments) /\ Located(b, segments)
      BY <1>1, <1>3, <1>5, <3>3, SkipResult
    <3> QED BY <1>1, <3>1, <3>2, <3>4
  <2> QED BY <2>1, <2>2, <2>3
<1>9. Typed(b, stack, buffer', segments')
  BY <1>1, <1>2, <1>3, <1>8 DEF Typed
<1> QED BY <1>2, <1>8, <1>9 DEF Read, b

\* A table is the lines from its first to the last before one that is not of a
\* table.
LEMMA TableGiven ==
    ASSUME file \in File, NEW s \in TableStarts
    PROVE  /\ s \in DOMAIN Items /\ s \in Nat /\ InTable(s) /\ (s = 1 \/ ~InTable(s - 1))
           /\ TableEnd(s) \in s .. Len(Items)
           /\ TableEnd(s) = Len(Items) \/ ~InTable(TableEnd(s) + 1)
           /\ \A i \in s .. TableEnd(s) : InTable(i)
           /\ Table(s) \in Seq(DOMAIN Items) /\ Range(Table(s)) = s .. TableEnd(s)
<1> DEFINE S == {i \in s .. Len(Items) : i = Len(Items) \/ ~InTable(i + 1)}
           e == TableEnd(s)
<1>1. s \in DOMAIN Items /\ InTable(s) /\ (s = 1 \/ ~InTable(s - 1))
  BY DEF TableStarts
<1>2. s \in 1 .. Len(Items) /\ Len(Items) \in Nat
  BY <1>1, FileFacts
<1>3. S \in SUBSET Nat /\ Len(Items) \in S
  BY <1>2
<1>4. e \in S /\ \A i \in S : e <= i
  <2>1. e = Min(S)
    BY DEF TableEnd
  <2>2. S # {}
    BY <1>3
  <2> HIDE DEF e, S
  <2> QED BY <1>3, <2>1, <2>2, MinIsLeast
<1>5. e \in s .. Len(Items) /\ (e = Len(Items) \/ ~InTable(e + 1))
  BY <1>4
<1>6. \A i \in s .. e : InTable(i)
  <2> SUFFICES ASSUME NEW i \in s .. e, ~InTable(i) PROVE FALSE
    OBVIOUS
  <2>1. i # s
    BY <1>1
  <2>2. i - 1 \in s .. Len(Items) /\ i - 1 + 1 = i
    BY <1>2, <1>5, <2>1
  <2>3. i - 1 \in S
    BY <2>2
  <2>4. e <= i - 1
    BY <1>4, <2>3
  <2> QED BY <1>2, <1>5, <2>4
<1> HIDE DEF e, S
<1>7. Table(s) \in Seq(DOMAIN Items) /\ Range(Table(s)) = s .. e
  <2>1. s \in Nat /\ s >= 1 /\ e \in Int /\ e <= Len(Items)
    BY <1>2, <1>5
  <2> QED BY <2>1, PositionsOfItems DEF Table, e
<1> QED BY <1>1, <1>2, <1>5, <1>6, <1>7 DEF e

\* Tables have no line in common.
LEMMA TablesApart ==
    ASSUME file \in File, NEW s \in TableStarts, NEW t \in TableStarts, s # t
    PROVE  Range(Table(s)) \cap Range(Table(t)) = {}
<1>1. ASSUME NEW u \in TableStarts, NEW v \in TableStarts, u < v
      PROVE  TableEnd(u) < v
  <2>1. /\ u \in Nat /\ v \in Nat /\ TableEnd(u) \in u .. Len(Items)
        /\ \A i \in u .. TableEnd(u) : InTable(i)
        /\ v = 1 \/ ~InTable(v - 1)
        /\ u \in 1 .. Len(Items)
    BY TableGiven, FileFacts
  <2>2. v # 1
    BY <1>1, <2>1
  <2>3. ~(v - 1 \in u .. TableEnd(u))
    BY <2>1, <2>2
  <2> QED BY <1>1, <2>1, <2>3
<1>2. /\ s \in Nat /\ t \in Nat
      /\ TableEnd(s) \in s .. Len(Items) /\ TableEnd(t) \in t .. Len(Items)
      /\ Range(Table(s)) = s .. TableEnd(s) /\ Range(Table(t)) = t .. TableEnd(t)
  BY TableGiven
<1>3. s < t \/ t < s
  BY <1>2
<1>4. TableEnd(s) < t \/ TableEnd(t) < s
  BY <1>1, <1>3
<1>5. \A i : ~(i \in s .. TableEnd(s) /\ i \in t .. TableEnd(t))
  BY <1>2, <1>4
<1> QED BY <1>2, <1>5

\* A line of a table is in one of the tables.
LEMMA TableOfLine ==
    ASSUME file \in File, NEW i \in DOMAIN Items, InTable(i)
    PROVE  \E s \in TableStarts : i \in Range(Table(s))
<1> DEFINE W == {j \in 1 .. i : \A k \in j .. i : InTable(k)}
<1>1. i \in 1 .. Len(Items) /\ Len(Items) \in Nat
  BY FileFacts
<1>2. W \in SUBSET Nat /\ i \in W
  BY <1>1
<1>3. PICK s \in W : \A j \in W : s <= j
  BY <1>2, LeastMember
<1>4. s \in 1 .. i /\ \A k \in s .. i : InTable(k)
  BY <1>3
<1>5. s \in TableStarts
  <2>1. s \in DOMAIN Items /\ InTable(s)
    BY <1>1, <1>4, FileFacts
  <2>2. ASSUME s # 1, InTable(s - 1) PROVE FALSE
    <3>1. s - 1 \in 1 .. i /\ \A k \in s - 1 .. i : k = s - 1 \/ k \in s .. i
      BY <1>1, <1>4, <2>2
    <3>2. s - 1 \in W
      BY <1>4, <2>2, <3>1
    <3>3. s <= s - 1
      BY <1>3, <3>2
    <3> QED BY <1>1, <1>4, <3>3
  <2> QED BY <2>1, <2>2 DEF TableStarts
<1>6. /\ TableEnd(s) \in s .. Len(Items) /\ Range(Table(s)) = s .. TableEnd(s)
      /\ TableEnd(s) = Len(Items) \/ ~InTable(TableEnd(s) + 1)
  BY <1>5, TableGiven
<1>7. ~(TableEnd(s) < i)
  <2> SUFFICES ASSUME TableEnd(s) < i PROVE FALSE
    OBVIOUS
  <2>1. TableEnd(s) + 1 \in s .. i /\ TableEnd(s) # Len(Items)
    BY <1>1, <1>4, <1>6
  <2> QED BY <1>4, <1>6, <2>1
<1>8. i \in s .. TableEnd(s)
  BY <1>1, <1>4, <1>6, <1>7
<1> QED BY <1>5, <1>6, <1>8

\* Two tables do not have one number.
LEMMA TableNumbersApart ==
    ASSUME file \in File, NEW s \in TableStarts, NEW t \in TableStarts, s # t
    PROVE  TableNumber(s) \in Nat /\ TableNumber(s) # TableNumber(t)
<1> DEFINE Upto(u) == {v \in TableStarts : v <= u}
<1>1. TableStarts \subseteq DOMAIN Items /\ DOMAIN Items = 1 .. Len(Items) /\ Len(Items) \in Nat
  BY FileFacts DEF TableStarts
<1>2. \A u \in TableStarts : IsFiniteSet(Upto(u)) /\ Cardinality(Upto(u)) \in Nat
                             /\ TableNumber(u) = Cardinality(Upto(u))
  <2>1. IsFiniteSet(DOMAIN Items)
    BY <1>1, FS_Interval
  <2>2. \A u \in TableStarts : Upto(u) \subseteq DOMAIN Items
    BY <1>1
  <2> QED BY <2>1, <2>2, FS_Subset, FS_CardinalityType DEF TableNumber
<1>3. ASSUME NEW u \in TableStarts, NEW v \in TableStarts, u < v
      PROVE  Cardinality(Upto(u)) # Cardinality(Upto(v))
  <2>1. u \in Nat /\ v \in Nat /\ \A x \in TableStarts : x \in Nat
    BY <1>1
  <2>2. v <= v /\ ~(v <= u) /\ \A x \in TableStarts : x <= u => x <= v
    BY <1>3, <2>1
  <2>3. Upto(u) \subseteq Upto(v) /\ v \in Upto(v) /\ v \notin Upto(u)
    BY <2>2
  <2> QED BY <1>2, <2>3, FS_Subset
<1>4. s < t \/ t < s
  BY <1>1
<1> QED BY <1>2, <1>3, <1>4

LEMMA TakeTablesStep ==
    ASSUME ReadInv, TakeTables
    PROVE  file' = file /\ Read(at', stack', buffer', segments')
<1> DEFINE F == {s \in TableStarts : Written(Table(s))}
           filled == Listing(F)
           segs == [k \in DOMAIN filled |->
                       Segment("page_table", <<TableNumber(filled[k])>>, Table(filled[k]))]
<1>1. /\ file \in File /\ Len(Items) \in Nat /\ DOMAIN Items = 1 .. Len(Items)
      /\ Typed(at, stack, buffer, segments) /\ Enclosed(at, stack, buffer, segments)
      /\ stack \in Seq(DOMAIN Items)
  BY ReadFacts, FileFacts
<1>2. /\ file.format = "pdf" /\ at = 0 /\ segments' = segs
      /\ at' = 1 /\ file' = file /\ stack' = stack /\ buffer' = buffer
  BY DEF TakeTables
<1>3. buffer = <<>> /\ Range(buffer) = {}
  <2>1. 0 \notin 1 .. Len(Items) + 1
    BY <1>1
  <2>2. buffer = <<>>
    BY <1>1, <1>2, <2>1 DEF Typed
  <2> QED BY <2>2, EmptyRange
<1>4. Headings = {} /\ Header = {} /\ Preamble = {}
  BY <1>1, <1>2, FileFacts
<1>5. F \in SUBSET (1 .. Len(Items)) /\ F \subseteq TableStarts
  BY <1>1 DEF TableStarts
<1>6. /\ DOMAIN filled = 1 .. Cardinality(F) /\ Cardinality(F) \in Nat
      /\ Range(filled) = F /\ \A k, m \in DOMAIN filled : k < m => filled[k] < filled[m]
  BY <1>1, <1>5, ListingInOrder DEF InOrder
<1>7. /\ \A k \in DOMAIN filled : filled[k] \in F /\ filled[k] \in TableStarts
      /\ \A s \in F : \E k \in DOMAIN filled : filled[k] = s
      /\ \A k, m \in DOMAIN filled : k # m => filled[k] # filled[m]
  <2>1. /\ \A k \in DOMAIN filled : filled[k] \in F
        /\ \A s \in F : \E k \in DOMAIN filled : filled[k] = s
    BY <1>6 DEF Range
  <2>2. ASSUME NEW k \in DOMAIN filled, NEW m \in DOMAIN filled, k # m
        PROVE  filled[k] # filled[m]
    <3>1. k < m \/ m < k
      BY <1>6, <2>2
    <3>2. filled[k] \in Nat /\ filled[m] \in Nat
      BY <1>5, <2>1
    <3>3. filled[k] < filled[m] \/ filled[m] < filled[k]
      BY <1>6, <3>1
    <3> QED BY <3>2, <3>3
  <2> QED BY <1>5, <2>1, <2>2
<1> HIDE DEF filled
<1>8. \A k \in DOMAIN filled :
        /\ segs[k] \in SegmentType /\ segs[k].kind = "page_table"
        /\ segs[k].items = Table(filled[k]) /\ segs[k].path = <<TableNumber(filled[k])>>
  <2> TAKE k \in DOMAIN filled
  <2>1. "page_table" \in Kinds
    BY <1>2 DEF Kinds
  <2>2. Table(filled[k]) \in Seq(DOMAIN Items)
    BY <1>1, <1>7, TableGiven
  <2>3. <<TableNumber(filled[k])>> \in Seq(Nat)
    <3>1. IsFiniteSet(1 .. Len(Items))
      BY <1>1, FS_Interval
    <3>2. {t \in TableStarts : t <= filled[k]} \subseteq 1 .. Len(Items)
      BY <1>1 DEF TableStarts
    <3>3. TableNumber(filled[k]) \in Nat
      BY <3>1, <3>2, FS_Subset, FS_CardinalityType DEF TableNumber
    <3> QED BY <3>3
  <2>4. segs[k] = Segment("page_table", <<TableNumber(filled[k])>>, Table(filled[k]))
    OBVIOUS
  <2> HIDE DEF segs
  <2> QED BY <2>1, <2>2, <2>3, <2>4 DEF Segment, SegmentType
<1>9. DOMAIN segs = DOMAIN filled /\ segs \in Seq(SegmentType)
  <2>1. segs \in [1 .. Cardinality(F) -> SegmentType]
    BY <1>6, <1>8
  <2>2. DOMAIN segs = DOMAIN filled
    OBVIOUS
  <2> HIDE DEF segs
  <2> QED BY <1>6, <2>1, <2>2, FunctionIsList
<1> HIDE DEF segs
<1>10. \A k \in DOMAIN segs : Range(segs[k].items) = Range(Table(filled[k]))
  BY <1>8, <1>9
<1>11. \A i \in DOMAIN Items : i \in Passed(1) <=> InTable(i)
  <2>1. \A i \in 1 .. Len(Items) : ~(i < 1)
    BY <1>1
  <2>2. 1 > 0
    OBVIOUS
  <2> QED BY <1>1, <1>2, <2>1, <2>2 DEF Passed
<1>12. Kept(1, buffer, segs)
  <2>1. ASSUME NEW k \in DOMAIN segs
        PROVE  Range(segs[k].items) \subseteq Passed(1)
    <3>1. filled[k] \in TableStarts
      BY <1>7, <1>9
    <3>2. /\ Range(Table(filled[k])) = filled[k] .. TableEnd(filled[k])
          /\ \A i \in filled[k] .. TableEnd(filled[k]) : InTable(i)
          /\ filled[k] \in 1 .. Len(Items) /\ TableEnd(filled[k]) \in filled[k] .. Len(Items)
      BY <1>1, <3>1, TableGiven
    <3>3. \A i \in filled[k] .. TableEnd(filled[k]) : i \in 1 .. Len(Items)
      BY <1>1, <3>2
    <3> QED BY <1>1, <1>10, <1>11, <3>2, <3>3
  <2>2. ASSUME NEW k \in DOMAIN segs, NEW m \in DOMAIN segs, k # m
        PROVE  Range(segs[k].items) \cap Range(segs[m].items) = {}
    BY <1>1, <1>7, <1>9, <1>10, <2>2, TablesApart
  <2>3. ASSUME NEW i \in Passed(1), ~IsBlank(i)
        PROVE  \E k \in DOMAIN segs : i \in Range(segs[k].items)
    <3>1. i \in DOMAIN Items /\ InTable(i)
      BY <1>11 DEF Passed
    <3>2. PICK s \in TableStarts : i \in Range(Table(s))
      BY <1>1, <3>1, TableOfLine
    <3>3. s \in F
      BY <2>3, <3>2 DEF Written
    <3>4. PICK k \in DOMAIN filled : filled[k] = s
      BY <1>7, <3>3
    <3> QED BY <1>9, <1>10, <3>2, <3>4
  <2> QED BY <1>3, <1>4, <2>1, <2>2, <2>3 DEF Kept
<1>13. Enclosed(1, stack, buffer, segs)
  <2>1. InOrder(stack, Enclosing(1))
    BY <1>1, <1>4, NoHeadings DEF Enclosed
  <2> QED BY <1>3, <1>8, <1>9, <2>1 DEF Enclosed
<1>14. Located(1, segs)
  <2>1. Paragraphs(segs) = {}
    BY <1>8, <1>9 DEF Paragraphs
  <2>2. \A k \in DOMAIN segs :
          \E t \in TableStarts : segs[k].items = Table(t) /\ segs[k].path = <<TableNumber(t)>>
    BY <1>7, <1>8, <1>9
  <2> QED BY <1>8, <1>9, <2>1, <2>2 DEF Located
<1>15. Typed(1, stack, buffer, segs)
  <2>1. 1 \in 0 .. Len(Items) + 2 /\ 1 # 0
    BY <1>1
  <2>2. buffer \in Seq(DOMAIN Items)
    BY <1>3
  <2> QED BY <1>1, <1>2, <1>3, <1>9, <2>1, <2>2 DEF Typed
<1> QED BY <1>2, <1>12, <1>13, <1>14, <1>15 DEF Read

\* The invariant holds of a file that has just been opened.
LEMMA InitRead == Init => ReadInv
<1> SUFFICES ASSUME Init PROVE ReadInv
  OBVIOUS
<1>1. /\ file \in File /\ stack = <<>> /\ buffer = <<>> /\ segments = <<>>
      /\ at = CASE file.format = "rows" -> Min({2, Len(Items) + 1})
                [] file.format = "pdf" -> 0
                [] Headings # {} /\ file.format # "docx" -> Min(Headings)
                [] OTHER -> 1
  BY DEF Init
<1>2. /\ Len(Items) \in Nat /\ DOMAIN Items = 1 .. Len(Items) /\ file.format \in Format
      /\ Headings \subseteq DOMAIN Items
      /\ file.format \notin {"docx", "markdown", "html"} => Headings = {}
  BY <1>1, FileFacts
<1> DEFINE Fresh(a) ==
        /\ a \in 0 .. Len(Items) + 2
        /\ a = 0 => file.format = "pdf"
        /\ file.format = "rows" /\ a <= Len(Items) => a >= 2
        /\ file.format = "html" /\ Headings = {} => a = 1
        /\ \A i \in Passed(a) : i \in Header \cup Preamble
        /\ \A h \in Headings : ~(h < a)
<1>3. Fresh(at)
  <2>1. CASE file.format = "rows"
    <3>1. {2, Len(Items) + 1} \in SUBSET Nat
      BY <1>2
    <3>2. at = Min({2, Len(Items) + 1})
      BY <1>1, <1>2, <2>1
    <3>3. at \in {2, Len(Items) + 1} /\ at <= 2 /\ at <= Len(Items) + 1
      BY <3>1, <3>2, MinIsLeast
    <3>4. Header = {1} /\ Headings = {}
      BY <1>2, <2>1 DEF Header
    <3>5. \A i \in Passed(at) : i \in 1 .. Len(Items) /\ i < at
      BY <1>2, <2>1 DEF Passed
    <3>6. \A i \in Passed(at) : i = 1
      BY <1>2, <3>3, <3>5
    <3> QED BY <1>2, <2>1, <3>3, <3>4, <3>6
  <2>2. CASE file.format = "pdf"
    <3>1. at = 0
      BY <1>1, <1>2, <2>2
    <3>2. \A i \in DOMAIN Items : ~(i < 0)
      BY <1>2
    <3>3. ~(0 > 0) /\ 0 \in 0 .. Len(Items) + 2
      BY <1>2
    <3>4. Passed(0) = {}
      BY <3>2, <3>3 DEF Passed
    <3> QED BY <1>2, <2>2, <3>1, <3>3, <3>4
  <2>3. CASE file.format \in {"markdown", "html"} /\ Headings # {}
    <3>1. at = Min(Headings)
      BY <1>1, <2>3
    <3>2. Headings \in SUBSET Nat
      BY <1>2
    <3>3. at \in Headings /\ \A h \in Headings : at <= h
      BY <2>3, <3>1, <3>2, MinIsLeast
    <3>4. at \in 1 .. Len(Items) /\ \A h \in Headings : ~(h < at)
      BY <1>2, <3>3
    <3>5. Preamble = 1 .. at - 1
      BY <2>3, <3>1 DEF Preamble
    <3>6. \A i \in Passed(at) : i \in 1 .. Len(Items) /\ i < at
      BY <1>2, <2>3 DEF Passed
    <3>7. \A i \in Passed(at) : i \in 1 .. at - 1
      BY <1>2, <3>4, <3>6
    <3>8. at \in 0 .. Len(Items) + 2 /\ at # 0
      BY <1>2, <3>4
    <3> QED BY <2>3, <3>4, <3>5, <3>7, <3>8
  <2>4. CASE file.format \notin {"rows", "pdf"} /\ (Headings = {} \/ file.format = "docx")
    <3>1. at = 1
      BY <1>1, <2>4
    <3>2. \A i \in DOMAIN Items : ~(i < 1)
      BY <1>2
    <3>3. 1 \in 0 .. Len(Items) + 2 /\ 1 # 0
      BY <1>2
    <3>4. Passed(1) = {}
      BY <2>4, <3>2 DEF Passed
    <3> QED BY <1>2, <2>4, <3>1, <3>2, <3>3, <3>4
  <2> QED BY <1>2, <2>1, <2>2, <2>3, <2>4
<1>4. Range(<<>>) = {} /\ DOMAIN <<>> = {}
  BY EmptyRange
<1>5. Typed(at, stack, buffer, segments)
  <2>1. <<>> \in Seq(DOMAIN Items) /\ <<>> \in Seq(SegmentType)
    OBVIOUS
  <2> QED BY <1>1, <1>3, <2>1 DEF Typed
<1>6. Kept(at, buffer, segments)
  BY <1>1, <1>3, <1>4 DEF Kept
<1>7. Enclosed(at, stack, buffer, segments)
  <2>1. Enclosing(at) = {}
    BY <1>3 DEF Enclosing
  <2>2. InOrder(stack, Enclosing(at))
    BY <1>1, <1>4, <2>1 DEF InOrder
  <2> QED BY <1>1, <1>4, <2>2 DEF Enclosed
<1>8. Located(at, segments)
  <2>1. Paragraphs(segments) = {}
    BY <1>1, <1>4 DEF Paragraphs
  <2> QED BY <1>1, <1>4, <2>1 DEF Located
<1> QED BY <1>1, <1>5, <1>6, <1>7, <1>8 DEF ReadInv, Read

\* A reading is the same thing for the file in the next state as in this one.
LEMMA SameFile ==
    ASSUME file' = file, file \in File, Read(at', stack', buffer', segments')
    PROVE  ReadInv'
<1>1. /\ Items' = Items /\ Header' = Header
  BY DEF Items, Header
<1>2. Headings' = Headings
  BY <1>1 DEF Headings, IsBlank
<1>3. Kinds' = Kinds /\ Preamble' = Preamble
  BY <1>1, <1>2 DEF Kinds, Preamble
<1>4. SegmentType' = SegmentType
  BY <1>1, <1>3 DEF SegmentType
<1>5. Typed(at, stack, buffer, segments)'
  BY <1>1, <1>2, <1>4 DEF Read, Typed
<1>6. Kept(at, buffer, segments)'
  BY <1>1, <1>2, <1>3 DEF Read, Kept, Passed, InTable, IsBlank
<1>7. Enclosed(at, stack, buffer, segments)'
  BY <1>1, <1>2 DEF Read, Enclosed, Enclosing
<1>8. TableStarts' = TableStarts
  BY <1>1 DEF TableStarts, InTable
<1>9. Located(at, segments)'
  <2>1. \A s : TableEnd(s)' = TableEnd(s) /\ TableNumber(s)' = TableNumber(s)
    BY <1>1, <1>8 DEF TableEnd, TableNumber, InTable
  <2>2. \A s : Table(s)' = Table(s)
    BY <2>1 DEF Table, Positions
  <2>3. \A i : ChildPath(i)' = ChildPath(i)
    BY <1>1 DEF ChildPath
  <2>4. Paragraphs(segments)' = Paragraphs(segments')
    BY DEF Paragraphs
  <2>5. Located(at', segments')
    BY DEF Read
  <2> QED BY <1>1, <1>8, <2>1, <2>2, <2>3, <2>4, <2>5 DEF Located
<1> QED BY <1>5, <1>6, <1>7, <1>9 DEF ReadInv, Read

LEMMA ReadStep ==
    ASSUME ReadInv, [Next]_allVars
    PROVE  ReadInv'
<1>1. file \in File
  BY DEF ReadInv
<1>2. CASE SegmentStep
  <2>1. file' = file /\ Read(at', stack', buffer', segments')
    BY <1>2, DocxHeadingStep, DocxParagraphStep, TakeSectionStep, TakePageStep, TakeLinesStep,
       TakeRowsStep, TakeTablesStep, TakeLineStep, TakeChildStep, TakeEntryStep, EndFileStep
       DEF SegmentStep
  <2> QED BY <1>1, <2>1, SameFile
<1>3. CASE UNCHANGED segmentVars
  <2>1. /\ file' = file /\ at' = at /\ stack' = stack /\ buffer' = buffer /\ segments' = segments
    BY <1>3 DEF segmentVars
  <2>2. Read(at', stack', buffer', segments')
    BY <2>1 DEF ReadInv
  <2> QED BY <1>1, <2>1, <2>2, SameFile
<1>4. SegmentStep \/ UNCHANGED segmentVars
  BY DEF Next, BeginSplit, allVars
<1> QED BY <1>2, <1>3, <1>4
-----------------------------------------------------------------------------
\* The invariant, whatever the file.
THEOREM ReadInvariant == Spec => []ReadInv
<1>1. ReadInv /\ [Next]_allVars => ReadInv'
  BY ReadStep
<1> QED BY <1>1, InitRead, PTL DEF Spec

\* There is one way to list a set of positions in order.
LEMMA OneOrder ==
    ASSUME NEW S \in SUBSET Nat, NEW s \in Seq(Nat), NEW t \in Seq(Nat),
           InOrder(s, S), InOrder(t, S)
    PROVE  s = t
<1>0. /\ Len(s) \in Nat /\ DOMAIN s = 1 .. Len(s)
      /\ Len(t) \in Nat /\ DOMAIN t = 1 .. Len(t)
  OBVIOUS
<1>a. (\A k \in DOMAIN s : s[k] \in Nat) /\ (\A k \in DOMAIN t : t[k] \in Nat)
  OBVIOUS
<1>1. /\ Len(s) \in Nat /\ DOMAIN s = 1 .. Len(s) /\ \A k \in DOMAIN s : s[k] \in Nat
      /\ Len(t) \in Nat /\ DOMAIN t = 1 .. Len(t) /\ \A k \in DOMAIN t : t[k] \in Nat
  BY <1>0, <1>a
<1>2. /\ \A k \in DOMAIN s : \E m \in DOMAIN t : t[m] = s[k]
      /\ \A k \in DOMAIN t : \E m \in DOMAIN s : s[m] = t[k]
  BY DEF InOrder, Range
<1>3. /\ \A k, m \in DOMAIN s : k < m => s[k] < s[m]
      /\ \A k, m \in DOMAIN t : k < m => t[k] < t[m]
  BY DEF InOrder
\* They agree as far as both go: look at the first place where they do not.
<1>4. \A k \in DOMAIN s \cap DOMAIN t : s[k] = t[k]
  <2> DEFINE D == {k \in DOMAIN s \cap DOMAIN t : s[k] # t[k]}
  <2> SUFFICES ASSUME D # {} PROVE FALSE
    OBVIOUS
  <2>1. D \in SUBSET Nat
    BY <1>1
  <2>2. PICK k \in D : \A j \in D : k <= j
    BY <2>1, LeastMember
  <2>a. k \in DOMAIN s /\ k \in DOMAIN t
    OBVIOUS
  <2>b. \A j \in DOMAIN s \cap DOMAIN t : j \notin D => s[j] = t[j]
    OBVIOUS
  <2> HIDE DEF D
  <2>3. PICK m \in DOMAIN t : t[m] = s[k]
    BY <1>2, <2>a
  <2>4. PICK p \in DOMAIN s : s[p] = t[k]
    BY <1>2, <2>a
  <2>c. k \in 1 .. Len(s) /\ k \in 1 .. Len(t) /\ m \in 1 .. Len(t) /\ p \in 1 .. Len(s)
    BY <1>0, <2>a
  <2>d. k \in Nat /\ m \in Nat /\ p \in Nat /\ s[k] \in Nat /\ t[k] \in Nat
    BY <1>1, <2>a, <2>c
  <2>5. ~(m < k)
    <3> SUFFICES ASSUME m < k PROVE FALSE
      OBVIOUS
    <3>1. m \in 1 .. Len(s)
      BY <1>0, <2>c
    <3>2. m \in DOMAIN s
      BY <1>0, <3>1
    <3>3. ~(k <= m)
      BY <2>d
    <3>4. m \notin D
      BY <2>2, <3>3
    <3>5. s[m] = t[m]
      BY <2>b, <3>2, <3>4
    <3>6. s[m] < s[k]
      BY <1>3, <2>a, <3>2
    <3> QED BY <2>d, <2>3, <3>5, <3>6
  <2>6. ~(p < k)
    <3> SUFFICES ASSUME p < k PROVE FALSE
      OBVIOUS
    <3>1. p \in 1 .. Len(t)
      BY <1>0, <2>c
    <3>2. p \in DOMAIN t
      BY <1>0, <3>1
    <3>3. ~(k <= p)
      BY <2>d
    <3>4. p \notin D
      BY <2>2, <3>3
    <3>5. s[p] = t[p]
      BY <2>b, <3>2, <3>4
    <3>6. t[p] < t[k]
      BY <1>3, <2>a, <3>2
    <3> QED BY <2>d, <2>4, <3>5, <3>6
  <2>7. k # m /\ k # p
    <3>1. s[k] # t[k]
      BY DEF D
    <3> QED BY <2>3, <2>4, <3>1
  <2>8. k < m /\ k < p
    BY <2>d, <2>5, <2>6, <2>7
  <2>9. t[k] < s[k] /\ s[k] < t[k]
    BY <1>3, <2>a, <2>3, <2>4, <2>8
  <2> QED BY <2>d, <2>9
\* Neither goes on when the other has ended.
<1>5. ~(Len(s) < Len(t))
  <2> SUFFICES ASSUME Len(s) < Len(t) PROVE FALSE
    OBVIOUS
  <2>1. Len(s) + 1 \in DOMAIN t
    BY <1>1
  <2>2. PICK m \in DOMAIN s : s[m] = t[Len(s) + 1]
    BY <1>2, <2>1
  <2>3. m \in DOMAIN t /\ m < Len(s) + 1
    BY <1>1
  <2>4. t[m] = s[m] /\ t[m] < t[Len(s) + 1]
    BY <1>3, <1>4, <2>1, <2>3
  <2> QED BY <1>1, <2>2, <2>3, <2>4
<1>6. ~(Len(t) < Len(s))
  <2> SUFFICES ASSUME Len(t) < Len(s) PROVE FALSE
    OBVIOUS
  <2>1. Len(t) + 1 \in DOMAIN s
    BY <1>1
  <2>2. PICK m \in DOMAIN t : t[m] = s[Len(t) + 1]
    BY <1>2, <2>1
  <2>3. m \in DOMAIN s /\ m < Len(t) + 1
    BY <1>1
  <2>4. s[m] = t[m] /\ s[m] < s[Len(t) + 1]
    BY <1>3, <1>4, <2>1, <2>3
  <2> QED BY <1>1, <2>2, <2>3, <2>4
<1>7. Len(s) = Len(t)
  <2>1. Len(s) \in Nat /\ Len(t) \in Nat
    BY <1>1
  <2> QED BY <1>5, <1>6, <2>1
<1> QED BY <1>1, <1>4, <1>7, SeqEqual

LEMMA WiderSeq ==
    ASSUME NEW T, NEW S \in SUBSET T, NEW s \in Seq(S)
    PROVE  s \in Seq(T)
OBVIOUS

\* Whatever headings a file has, and of whatever levels and titles, a section's
\* breadcrumb joins the titles of those that enclose each of its items.
THEOREM BreadcrumbTheorem == Spec => []BreadcrumbIsEnclosing
<1>1. ReadInv => BreadcrumbIsEnclosing
  <2> SUFFICES ASSUME ReadInv, NEW k \in DOMAIN segments, segments[k].kind = "section",
                      NEW i \in Range(segments[k].items)
               PROVE  Locator(segments[k]) = Breadcrumb(Listing(Enclosing(i)))
    BY DEF BreadcrumbIsEnclosing
  <2>1. InOrder(segments[k].path, Enclosing(i)) /\ segments[k].path \in Seq(Nat)
    <3>1. segments \in Seq(SegmentType)
      BY DEF ReadInv, Read, Typed
    <3>2. segments[k] \in SegmentType
      BY <3>1, LenProperties, ElementOfSeq
    <3> QED BY <3>2 DEF ReadInv, Read, Enclosed, SegmentType
  <2>2. Len(Items) \in Nat /\ Enclosing(i) \in SUBSET (1 .. Len(Items))
    BY FileFacts DEF ReadInv, Enclosing
  <2>3. InOrder(Listing(Enclosing(i)), Enclosing(i)) /\ Listing(Enclosing(i)) \in Seq(Nat)
    <3>1. PICK n \in Nat : Enclosing(i) \in SUBSET (1 .. n)
      BY <2>2
    <3>2. PICK S \in SUBSET (1 .. n) : S = Enclosing(i)
      BY <3>1
    <3>3. InOrder(Listing(S), S) /\ Listing(S) \in Seq(S)
      BY ListingInOrder, Zenon
    <3>4. Listing(S) \in Seq(Nat)
      <4>1. S \subseteq Nat
        BY <3>1
      <4> QED BY <3>3, <4>1, WiderSeq
    <3> QED BY <3>2, <3>3, <3>4
  <2>4. Enclosing(i) \in SUBSET Nat
    BY <2>2
  <2>5. segments[k].path = Listing(Enclosing(i))
    BY <2>1, <2>3, <2>4, OneOrder
  <2> QED BY <2>5 DEF Locator
<1> QED BY <1>1, ReadInvariant, PTL

\* Two elements of an XML file do not have one path.
LEMMA ChildPathsApart ==
    ASSUME file \in File, NEW i \in DOMAIN Items, NEW j \in DOMAIN Items, i # j
    PROVE  ChildPath(i) # ChildPath(j)
<1> DEFINE Upto(u, tag) == {v \in 1 .. u : Items[v].mark = tag}
<1>1. DOMAIN Items = 1 .. Len(Items) /\ Len(Items) \in Nat
  BY FileFacts
<1>2. ASSUME NEW u \in DOMAIN Items, NEW v \in DOMAIN Items, u < v, Items[u].mark = Items[v].mark
      PROVE  ChildPath(u) # ChildPath(v)
  <2> DEFINE tag == Items[v].mark
  <2>1. /\ \A w \in 1 .. u : w \in 1 .. v
        /\ v \in 1 .. v /\ v \notin 1 .. u /\ v \in Nat
    BY <1>1, <1>2
  <2>2. Upto(u, tag) \subseteq Upto(v, tag) /\ v \in Upto(v, tag) /\ v \notin Upto(u, tag)
    BY <2>1
  <2>3. IsFiniteSet(Upto(v, tag))
    <3>1. IsFiniteSet(1 .. v)
      BY <2>1, FS_Interval
    <3> QED BY <3>1, FS_Subset
  <2>4. Cardinality(Upto(u, tag)) # Cardinality(Upto(v, tag))
    BY <2>2, <2>3, FS_Subset
  <2>5. /\ ChildPath(u)[2] = Cardinality(Upto(u, tag))
        /\ ChildPath(v)[2] = Cardinality(Upto(v, tag))
    BY <1>2 DEF ChildPath
  <2> QED BY <2>4, <2>5
<1>3. i < j \/ j < i
  BY <1>1
<1>4. ChildPath(i)[1] = Items[i].mark /\ ChildPath(j)[1] = Items[j].mark
  BY DEF ChildPath
<1> QED BY <1>2, <1>3, <1>4

\* A locator names what its segment holds, whatever the file and the size of a
\* batch.
THEOREM LocatorTheorem == Spec => []LocatorNamesItsContent
<1>1. ReadInv => LocatorNamesItsContent
  <2> SUFFICES ASSUME ReadInv, NEW k \in DOMAIN segments
               PROVE  IF segments[k].kind \in {"line_range", "row_range"}
                      THEN /\ Range(segments[k].items) \ Header
                                = segments[k].path[1] .. segments[k].path[2]
                           /\ \A m \in DOMAIN segments :
                                m < k => segments[m].path[2] < segments[k].path[1]
                      ELSE segments[k].kind \notin {"section", "whole"} =>
                           \A m \in DOMAIN segments :
                              m # k /\ segments[m].kind = segments[k].kind =>
                                segments[m].path # segments[k].path
    BY DEF LocatorNamesItsContent
  <2>1. /\ file \in File /\ Kept(at, buffer, segments) /\ Located(at, segments)
        /\ segments \in Seq(SegmentType)
    BY ReadFacts
  <2>2. CASE segments[k].kind \in {"line_range", "row_range"}
    BY <2>1, <2>2 DEF Located
  <2>3. CASE segments[k].kind \notin {"line_range", "row_range", "section", "whole"}
    <3> SUFFICES ASSUME NEW m \in DOMAIN segments, m # k, segments[m].kind = segments[k].kind
                 PROVE  segments[m].path # segments[k].path
      BY <2>3
    <3>1. segments[k].kind \in Kinds
      <4>1. segments[k] \in SegmentType
        BY <2>1, ElementOfSeq, LenProperties
      <4> QED BY <4>1 DEF SegmentType
    <3>2. /\ segments[k].kind \in {"xpath", "json_path", "page_table", "page_paragraph"}
          /\ file.format # "rows"
      <4>1. file.format \in Format
        BY <2>1, FileFacts
      <4> QED BY <2>3, <3>1, <4>1 DEF Kinds, Format
    <3>3. Range(segments[m].items) \cap Range(segments[k].items) = {}
      <4>1. Header = {}
        BY <2>1, <3>2, FileFacts
      <4> QED BY <2>1, <4>1 DEF Kept
    <3>4. CASE segments[k].kind = "xpath"
      <4>1. PICK i \in DOMAIN Items : segments[k].items = <<i>> /\ segments[k].path = ChildPath(i)
        BY <2>1, <3>4 DEF Located
      <4>2. PICK j \in DOMAIN Items : segments[m].items = <<j>> /\ segments[m].path = ChildPath(j)
        BY <2>1, <3>4 DEF Located
      <4>3. i # j
        BY <3>3, <4>1, <4>2, OneItem
      <4> QED BY <2>1, <4>1, <4>2, <4>3, ChildPathsApart
    <3>5. CASE segments[k].kind = "json_path"
      <4>1. PICK i \in DOMAIN Items : segments[k].items = <<i>> /\ segments[k].path = <<i>>
        BY <2>1, <3>5 DEF Located
      <4>2. PICK j \in DOMAIN Items : segments[m].items = <<j>> /\ segments[m].path = <<j>>
        BY <2>1, <3>5 DEF Located
      <4>3. i # j
        BY <3>3, <4>1, <4>2, OneItem
      <4>4. <<i>>[1] = i /\ <<j>>[1] = j
        OBVIOUS
      <4> QED BY <4>1, <4>2, <4>3, <4>4
    <3>6. CASE segments[k].kind = "page_table"
      <4>1. PICK s \in TableStarts :
              segments[k].items = Table(s) /\ segments[k].path = <<TableNumber(s)>>
        BY <2>1, <3>6 DEF Located
      <4>2. PICK t \in TableStarts :
              segments[m].items = Table(t) /\ segments[m].path = <<TableNumber(t)>>
        BY <2>1, <3>6 DEF Located
      <4>3. s # t
        <5>1. Range(Table(s)) = s .. TableEnd(s) /\ TableEnd(s) \in s .. Len(Items) /\ s \in Nat
          BY <2>1, TableGiven
        <5>2. s \in s .. TableEnd(s)
          BY <2>1, <5>1, FileFacts
        <5> QED BY <3>3, <4>1, <4>2, <5>1, <5>2
      <4>4. TableNumber(s) # TableNumber(t)
        BY <2>1, <4>3, TableNumbersApart
      <4>5. <<TableNumber(s)>>[1] = TableNumber(s) /\ <<TableNumber(t)>>[1] = TableNumber(t)
        OBVIOUS
      <4> QED BY <4>1, <4>2, <4>4, <4>5
    <3>7. CASE segments[k].kind = "page_paragraph"
      BY <2>1, <3>7 DEF Located, Paragraphs
    <3> QED BY <3>2, <3>4, <3>5, <3>6, <3>7
  <2> QED BY <2>2, <2>3
<1> QED BY <1>1, ReadInvariant, PTL

\* Nothing with text is lost from a file, or put in two segments, whatever the
\* file: the preamble of Markdown and HTML is the one exception.
THEOREM ContentTheorem == Spec => []ContentSegmentedOnce
<1>1. ReadInv => ContentSegmentedOnce
  <2> SUFFICES ASSUME ReadInv, at = Len(Items) + 2,
                      NEW i \in DOMAIN Items \ (Headings \cup Header)
               PROVE  LET holders == {k \in DOMAIN segments : i \in Range(segments[k].items)}
                      IN IF i \in Preamble THEN holders = {}
                         ELSE IsBlank(i) \/ Cardinality(holders) = 1
    BY DEF ContentSegmentedOnce
  <2> DEFINE holders == {k \in DOMAIN segments : i \in Range(segments[k].items)}
  <2>1. /\ file \in File /\ Typed(at, stack, buffer, segments) /\ Kept(at, buffer, segments)
        /\ Len(Items) \in Nat
    BY ReadFacts
  <2>2. Range(buffer) = {}
    <3>1. ~(at \in 1 .. Len(Items) + 1)
      BY <2>1
    <3>2. buffer = <<>>
      BY <2>1, <3>1 DEF Typed
    <3> QED BY <3>2, EmptyRange
  <2>3. i \in Passed(at)
    <3>1. i < at
      BY <2>1, FileFacts
    <3> QED BY <3>1 DEF Passed
  <2>4. ASSUME i \in Preamble PROVE holders = {}
    BY <2>1, <2>4 DEF Kept
  <2>5. ASSUME i \notin Preamble, ~IsBlank(i) PROVE Cardinality(holders) = 1
    <3>1. PICK k \in DOMAIN segments : i \in Range(segments[k].items)
      BY <2>1, <2>2, <2>3, <2>5 DEF Kept
    <3>2. \A m \in DOMAIN segments : i \in Range(segments[m].items) => m = k
      BY <2>1, <3>1 DEF Kept
    <3>3. holders = {k}
      BY <3>1, <3>2
    <3> QED BY <3>3, FS_Singleton
  <2> QED BY <2>4, <2>5
<1> QED BY <1>1, ReadInvariant, PTL
-----------------------------------------------------------------------------

(***************************************************************************)
(* The segments handed to split.                                           *)
(***************************************************************************)
\* A running sum is what its recursive definition says, and a number.
SumOf(n, size) ==
    CHOOSE f : f = [k \in 1 .. n |-> IF k = 1 THEN 1 ELSE f[k - 1] + size[k - 1] + 1]
IsSum(f, n, size) ==
    \A k \in 1 .. n : /\ f[k] \in Nat \ {0}
                       /\ f[k] = IF k = 1 THEN 1 ELSE f[k - 1] + size[k - 1] + 1
LEMMA RunningSum ==
    ASSUME NEW n \in Nat, NEW size \in [1 .. n -> Nat]
    PROVE  IsSum(SumOf(n, size), n, size)
<1> DEFINE begin == SumOf(n, size)
<1> DEFINE Sums(f) == f = [k \in 1 .. n |-> IF k = 1 THEN 1 ELSE f[k - 1] + size[k - 1] + 1]
           Upto(m, f) == \A k \in 1 .. m : f[k] = IF k = 1 THEN 1 ELSE f[k - 1] + size[k - 1] + 1
           T == {m \in 0 .. n : \E f \in [1 .. m -> Nat \ {0}] : Upto(m, f)}
<1>1. 0 \in T
  <2>1. 1 .. 0 = {} /\ 0 \in 0 .. n
    OBVIOUS
  <2>2. <<>> \in [1 .. 0 -> Nat \ {0}] /\ Upto(0, <<>>)
    BY <2>1
  <2> QED BY <2>1, <2>2
<1>2. ASSUME NEW i \in 0 .. n, i < n, i \in T PROVE i + 1 \in T
  <2>1. PICK f \in [1 .. i -> Nat \ {0}] : Upto(i, f)
    BY <1>2
  <2> DEFINE x == IF i = 0 THEN 1 ELSE f[i] + size[i] + 1
             g == [k \in 1 .. i + 1 |-> IF k = i + 1 THEN x ELSE f[k]]
  <2>2. i \in Nat /\ i + 1 \in 0 .. n /\ i + 1 \in 1 .. n /\ (i # 0 => i \in 1 .. i /\ i \in 1 .. n)
    BY <1>2
  <2>3. x \in Nat \ {0}
    <3>1. CASE i = 0
      BY <3>1
    <3>2. CASE i # 0
      <4>1. f[i] \in Nat \ {0} /\ size[i] \in Nat
        BY <2>2, <3>2
      <4>2. x = f[i] + size[i] + 1
        BY <3>2
      <4> QED BY <4>1, <4>2
    <3> QED BY <3>1, <3>2
  <2> HIDE DEF x
  <2>4. /\ \A k \in 1 .. i : k \in 1 .. i + 1 /\ k # i + 1
        /\ i + 1 \in 1 .. i + 1 /\ \A k \in 1 .. i + 1 : k = i + 1 \/ k \in 1 .. i
    BY <2>2
  <2>5. g[i + 1] = x /\ \A k \in 1 .. i : g[k] = f[k]
    BY <2>4
  <2>6. g \in [1 .. i + 1 -> Nat \ {0}]
    BY <2>3, <2>4
  <2> HIDE DEF g
  <2>7. Upto(i + 1, g)
    <3> SUFFICES ASSUME NEW k \in 1 .. i + 1
                 PROVE  g[k] = IF k = 1 THEN 1 ELSE g[k - 1] + size[k - 1] + 1
      OBVIOUS
    <3>1. CASE k \in 1 .. i
      <4>1. k # 1 => k - 1 \in 1 .. i
        BY <2>2, <3>1
      <4> QED BY <2>1, <2>5, <3>1, <4>1
    <3>2. CASE k = i + 1
      <4>1. (k = 1 <=> i = 0) /\ k - 1 = i
        BY <2>2, <3>2
      <4> QED BY <2>2, <2>5, <3>2, <4>1 DEF x
    <3> QED BY <2>4, <3>1, <3>2
  <2> QED BY <2>2, <2>6, <2>7
<1>3. n \in T
  <2> HIDE DEF T
  <2>1. n \in 0 .. n
    OBVIOUS
  <2> QED BY <1>1, <1>2, <2>1, InductionUpTo
<1>4. \E f : Sums(f)
  <2>1. PICK f \in [1 .. n -> Nat \ {0}] : Upto(n, f)
    BY <1>3
  <2>2. Sums(f)
    BY <2>1
  <2> QED BY <2>2
<1>5. Sums(begin)
  <2>1. begin = CHOOSE f : Sums(f)
    BY Zenon DEF SumOf
  <2> HIDE DEF Sums, begin
  <2> QED BY <1>4, <2>1, Zenon
<1> HIDE DEF begin
<1>6. \A k \in 1 .. n : begin[k] = IF k = 1 THEN 1 ELSE begin[k - 1] + size[k - 1] + 1
  BY <1>5
<1> DEFINE U == {m \in 0 .. n : m = 0 \/ begin[m] \in Nat \ {0}}
<1>7. 0 \in U
  OBVIOUS
<1>8. ASSUME NEW i \in 0 .. n, i < n, i \in U PROVE i + 1 \in U
  <2>1. i + 1 \in 1 .. n /\ i + 1 \in 0 .. n /\ i + 1 - 1 = i /\ (i + 1 = 1 <=> i = 0)
    BY <1>8
  <2>2. begin[i + 1] = IF i = 0 THEN 1 ELSE begin[i] + size[i] + 1
    <3> DEFINE Term(k) == begin[k] = IF k = 1 THEN 1 ELSE begin[k - 1] + size[k - 1] + 1
    <3>1. \A k \in 1 .. n : Term(k)
      BY <1>6
    <3>2. Term(i + 1)
      <4> HIDE DEF Term
      <4> QED BY <2>1, <3>1
    <3>3. i + 1 - 1 = i /\ (i + 1 = 1 <=> i = 0)
      BY <2>1
    <3> QED BY <3>2, <3>3
  <2>3. CASE i = 0
    BY <2>1, <2>2, <2>3
  <2>4. CASE i # 0
    <3>1. begin[i] \in Nat \ {0} /\ size[i] \in Nat
      BY <1>8, <2>4
    <3>2. begin[i] + size[i] + 1 \in Nat \ {0}
      BY <3>1
    <3> QED BY <2>1, <2>2, <2>4, <3>2
  <2> QED BY <2>3, <2>4
<1>9. \A k \in 0 .. n : k \in U
  <2> HIDE DEF U
  <2> QED BY <1>7, <1>8, InductionUpTo
<1>10. \A k \in 1 .. n : begin[k] \in Nat \ {0}
  <2> TAKE k \in 1 .. n
  <2>1. k \in 0 .. n /\ k # 0
    OBVIOUS
  <2>2. k \in U
    BY <1>9, <2>1
  <2> QED BY <2>1, <2>2
<1> QED BY <1>6, <1>10 DEF begin, IsSum

\* The text of a segment: sentences none of which is empty, each one blank after
\* the one before.
LEMMA TextOfSegment ==
    ASSUME file \in File, NEW ps \in Seq(DOMAIN Items)
    PROVE  IsText(TextOf(ps))
<1> DEFINE W == {k \in DOMAIN ps : ~IsBlank(ps[k])}
           written == Listing(W)
           SizeAt(k) == Items[ps[written[k]]].size
           n == Cardinality(W)
           sum == CHOOSE f : f = [k \in DOMAIN written |-> IF k = 1 THEN 1 ELSE f[k - 1] + SizeAt(k - 1) + 1]
           t == [k \in DOMAIN written |-> [from |-> sum[k], to |-> sum[k] + SizeAt(k) - 1]]
<1>1. TextOf(ps) = t
  BY Zenon DEF TextOf
<1>2. Len(ps) \in Nat /\ DOMAIN ps = 1 .. Len(ps) /\ \A k \in DOMAIN ps : ps[k] \in DOMAIN Items
  BY LenProperties, ElementOfSeq
<1>3. /\ written \in Seq(W) /\ DOMAIN written = 1 .. n /\ n \in Nat
  <2>1. W \in SUBSET (1 .. Len(ps))
    BY <1>2
  <2> QED BY <1>2, <2>1, ListingInOrder
<1>4. \A k \in 1 .. n : SizeAt(k) \in Nat \ {0}
  <2> TAKE k \in 1 .. n
  <2>1. written[k] \in W
    <3> HIDE DEF W
    <3> QED BY <1>3, ElementOfSeq, LenProperties
  <2>2. ps[written[k]] \in DOMAIN Items /\ ~IsBlank(ps[written[k]])
    BY <1>2, <2>1
  <2>3. Items[ps[written[k]]].size \in Nat
    BY <2>2, FileFacts
  <2> QED BY <2>2, <2>3 DEF IsBlank
<1> DEFINE size == [k \in 1 .. n |-> SizeAt(k)]
<1>5. size \in [1 .. n -> Nat]
  BY <1>4
<1>6. sum = SumOf(n, size)
  <2>1. \A f : [k \in DOMAIN written |-> IF k = 1 THEN 1 ELSE f[k - 1] + SizeAt(k - 1) + 1]
                = [k \in 1 .. n |-> IF k = 1 THEN 1 ELSE f[k - 1] + size[k - 1] + 1]
    <3> HIDE DEF written
    <3> TAKE f
    <3>1. \A k \in 1 .. n : k = 1 \/ k - 1 \in 1 .. n
      BY <1>3
    <3>2. \A k \in 1 .. n : k # 1 => size[k - 1] = SizeAt(k - 1)
      BY <3>1
    <3> QED BY <1>3, <3>2
  <2> QED BY <2>1, Zenon DEF SumOf
<1> HIDE DEF sum, written, W, n
<1>7. \A k \in 1 .. n : /\ sum[k] \in Nat \ {0}
                        /\ sum[k] = IF k = 1 THEN 1 ELSE sum[k - 1] + size[k - 1] + 1
  <2> HIDE DEF size
  <2>1. n \in Nat
    BY <1>3
  <2>2. IsSum(SumOf(n, size), n, size)
    BY <1>5, <2>1, RunningSum
  <2> QED BY <1>6, <2>2 DEF IsSum
<1>8. \A k \in 1 .. n : size[k] \in Nat \ {0} /\ size[k] = SizeAt(k)
  BY <1>4
<1> HIDE DEF SizeAt, size
<1>9. \A k \in 1 .. n :
        /\ t[k] = [from |-> sum[k], to |-> sum[k] + size[k] - 1]
        /\ t[k] \in Interval /\ t[k].from = sum[k] /\ t[k].to = sum[k] + size[k] - 1
  <2> TAKE k \in 1 .. n
  <2>1. t[k] = [from |-> sum[k], to |-> sum[k] + size[k] - 1]
    BY <1>3, <1>8
  <2>2. sum[k] \in Nat /\ sum[k] + size[k] - 1 \in Nat
    BY <1>7, <1>8
  <2> QED BY <2>1, <2>2 DEF Interval
<1>10. t \in Seq(Interval) /\ Len(t) = n
  <2>1. t \in [1 .. n -> Interval]
    BY <1>3, <1>9
  <2> HIDE DEF t
  <2> QED BY <1>3, <2>1, FunctionIsList
<1> HIDE DEF t
<1>11. ASSUME NEW k \in 1 .. n
       PROVE  /\ t[k].from <= t[k].to
              /\ t[k].from = IF k = 1 THEN 1 ELSE t[k - 1].to + 2
  <2>1. t[k].from <= t[k].to
    <3>1. sum[k] \in Nat /\ size[k] \in Nat \ {0}
      BY <1>7, <1>8
    <3>2. t[k].from = sum[k] /\ t[k].to = sum[k] + size[k] - 1
      BY <1>9
    <3> QED BY <3>1, <3>2
  <2>2. CASE k = 1
    BY <1>7, <1>9, <2>1, <2>2
  <2>3. CASE k # 1
    <3>1. k - 1 \in 1 .. n
      BY <1>3, <2>3
    <3>2. sum[k - 1] \in Nat /\ size[k - 1] \in Nat
      BY <1>7, <1>8, <3>1
    <3>3. t[k - 1].to = sum[k - 1] + size[k - 1] - 1 /\ t[k].from = sum[k - 1] + size[k - 1] + 1
      BY <1>7, <1>9, <2>3, <3>1
    <3> QED BY <2>1, <2>3, <3>2, <3>3
  <2> QED BY <2>2, <2>3
<1> QED BY <1>1, <1>10, <1>11 DEF IsText

\* A split begins with the text of a segment, and goes on as the loop does.
Counted == split \in Nat
LEMMA SplitsBegin ==
    ReadInv /\ Counted /\ [Next]_allVars => (Begun' \/ [SplitStep]_splitVars) /\ Counted'
<1> SUFFICES ASSUME ReadInv, split \in Nat, [Next]_allVars
             PROVE  (Begun' \/ [SplitStep]_splitVars) /\ split' \in Nat
  BY DEF Counted
<1>1. CASE BeginSplit
  <2>1. split < Len(segments) /\ split' = split + 1 /\ sentences' = TextOf(segments[split + 1].items)
        /\ next' = 1 /\ current' = Nothing /\ chunks' = <<>>
    BY <1>1 DEF BeginSplit
  <2>2. file \in File /\ segments \in Seq(SegmentType)
    BY ReadFacts
  <2>3. split + 1 \in 1 .. Len(segments) /\ Len(segments) \in Nat
    BY <2>1, <2>2, LenProperties
  <2>4. segments[split + 1] \in SegmentType
    BY <2>2, <2>3, ElementOfSeq
  <2>5. segments[split + 1].items \in Seq(DOMAIN Items)
    BY <2>4 DEF SegmentType
  <2>6. IsText(sentences')
    BY <2>1, <2>2, <2>5, TextOfSegment
  <2>7. Begun'
    BY <2>1, <2>6 DEF Begun, StartOn, IsText, Nothing
  <2> QED BY <2>1, <2>7
<1>2. CASE SegmentStep /\ UNCHANGED <<split, splitVars>>
  BY <1>2
<1>3. CASE SplitStep /\ UNCHANGED <<segmentVars, split>>
  BY <1>3
<1>4. CASE UNCHANGED allVars
  BY <1>4 DEF allVars
<1> QED BY <1>1, <1>2, <1>3, <1>4 DEF Next

LEMMA InitBegun == Init => Begun /\ Counted
<1> SUFFICES ASSUME Init PROVE Begun /\ split \in Nat
  BY DEF Counted
<1>1. StartOn(<<>>) /\ split = 0
  BY DEF Init
<1>2. IsText(<<>>)
  <2>1. <<>> \in Seq(Interval) /\ Len(<<>>) = 0
    OBVIOUS
  <2> QED BY <2>1 DEF IsText
<1>3. sentences = <<>>
  BY <1>1 DEF StartOn
<1> QED BY <1>1, <1>2, <1>3 DEF Begun

\* Every segment of a file is handed to the chunker as a text: the chunker's
\* types hold whatever file is split.
THEOREM SplitTypes == Spec => []SplitTypeOK
<1>1. SplitInv /\ [SplitStep]_splitVars => SplitInv'
  BY SplitInvKept
<1>2. Spec => []SplitInv
  BY <1>1, SplitsBegin, InitBegun, BegunKeepsTo, ReadInvariant, PTL DEF Spec
<1>3. SplitInv => SplitTypeOK
  BY DEF SplitInv
<1> QED BY <1>2, <1>3, PTL

\* No sentence of a segment is lost or cut in half, whatever the file.
THEOREM SegmentSentencesKept == Spec => []EverySentenceWhole
<1>1. SplitInv /\ [SplitStep]_splitVars => SplitInv'
  BY SplitInvKept
<1>2. SplitInv /\ EverySentenceWhole /\ [SplitStep]_splitVars => EverySentenceWhole'
  BY SentencesStep
<1> QED BY <1>1, <1>2, SplitsBegin, InitBegun, BegunKeepsTo, ReadInvariant, PTL DEF Spec

\* A chunk of a segment is longer than MaxChars only if it is an overlap and one
\* sentence, whatever the file.
THEOREM SegmentOversizeBounded == Spec => []OversizeIsOneSentence
<1>1. SplitInv /\ [SplitStep]_splitVars => SplitInv'
  BY SplitInvKept
<1>2. SplitInv /\ OversizeIsOneSentence /\ [SplitStep]_splitVars => OversizeIsOneSentence'
  BY OversizeStep
<1> QED BY <1>1, <1>2, SplitsBegin, InitBegun, BegunKeepsTo, ReadInvariant, PTL DEF Spec
=============================================================================
