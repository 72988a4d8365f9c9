---------------------------- MODULE Segmentation ----------------------------
(***************************************************************************)
(* FileLoader.load, or for a web page segment_html, and then               *)
(* SemanticChunker.split_segments: a file is cut into segments that a      *)
(* locator names, each by the loop of its format, and the text of each     *)
(* segment is split by the loop of Chunker.  The locator is what a         *)
(* no-index rule goes by, so it must name just the content its segment     *)
(* holds.                                                                  *)
(*                                                                         *)
(* A file is a sequence of items: paragraphs, lines, rows, child elements. *)
(* An item has a size, 0 if it is blank, and a mark: a heading's level (0  *)
(* if it is no heading), the space above a PDF line, an element's tag.     *)
(* An item that is not blank is one sentence.  A heading has a title: the  *)
(* list of its parts between any " > " that it is written with.            *)
(*                                                                         *)
(* A definition commented as a slip is no part of the specification: it is *)
(* the definition below it with a plausible mistake in it.                 *)
(***************************************************************************)
EXTENDS Chunker, FiniteSets, SequencesExt

CONSTANTS
    File,        \* the files that may be loaded
    BatchSize    \* _LINE_RANGE_SIZE, _ROWS_PER_SEGMENT

Format == {"docx", "markdown", "html", "text", "rows", "pdf", "xml", "json"}
Item == [mark : Nat, size : Nat, title : Seq(STRING)]
ASSUME SegmentationAssumption ==
    /\ BatchSize \in Nat \ {0}
    /\ \A f \in File : f.format \in Format /\ f.items \in Seq(Item)

VARIABLES
    file,        \* the file
    at,          \* the item the loop is at
    stack,       \* heading_stack: the open headings, each with its level and title
    buffer,      \* items collected for the next segment
    segments,    \* the segments
    split        \* how many of them have been handed to the chunker

segmentVars == <<file, at, stack, buffer, segments>>
allVars == <<segmentVars, split, splitVars>>

Items == file.items
IsBlank(i) == Items[i].size = 0
Positions(first, last) == [i \in 1 .. (last + 1) - first |-> first + i - 1]
\* A set of positions in the order of the file.
Listing(S) == [k \in 1 .. Cardinality(S) |-> CHOOSE x \in S : Cardinality({y \in S : y <= x}) = k]
Written(ps) == \E i \in Range(ps) : ~IsBlank(i)
\* The path of a section are the headings its locator is made of, see Locator;
\* that of any other segment is its locator.
Segment(kind, path, ps) == [kind |-> kind, path |-> path, items |-> ps]

\* What a format takes for a heading: a blank one counts in HTML, but not in
\* DOCX, and cannot be written in Markdown.
Headings ==
    IF file.format \in {"docx", "markdown", "html"}
    THEN {i \in DOMAIN Items : Items[i].mark > 0 /\ (file.format = "html" \/ ~IsBlank(i))}
    ELSE {}

Init ==
    /\ file \in File
    /\ at = CASE file.format = "rows" -> Min({2, Len(Items) + 1})
              [] file.format = "pdf" -> 0
              [] Headings # {} /\ file.format # "docx" -> Min(Headings)
              [] OTHER -> 1
    /\ stack = <<>>
    /\ buffer = <<>>
    /\ segments = <<>>
    /\ split = 0
    /\ StartOn(<<>>)
-----------------------------------------------------------------------------
\* A heading closes the open ones of its level and below; the others stay in order.
\* Slip: a heading of the same level stays open.
OpenedBeside(i) ==
    LET kept == Listing({k \in DOMAIN stack : Items[stack[k]].mark <= Items[i].mark})
    IN Append([k \in DOMAIN kept |-> stack[kept[k]]], i)
Opened(i) ==
    LET kept == Listing({k \in DOMAIN stack : Items[stack[k]].mark < Items[i].mark})
    IN Append([k \in DOMAIN kept |-> stack[kept[k]]], i)

Reading(formats) == file.format \in formats /\ at <= Len(Items)

\* The locator of a section: the titles of its headings, joined by " > "; what
\* comes before the first heading of a DOCX is under "documento".
Breadcrumb(path) ==
    IF path = <<>> THEN <<"documento">>
    ELSE FlattenSeq([k \in DOMAIN path |-> Items[path[k]].title])
Locator(segment) == IF segment.kind = "section" THEN Breadcrumb(segment.path) ELSE segment.path

\* flush: what was collected since the last heading, or gap, is a segment.
Flushed(kind, path) ==
    IF buffer = <<>> THEN segments ELSE Append(segments, Segment(kind, path, buffer))

DocxHeading ==
    /\ Reading({"docx"}) /\ at \in Headings
    /\ segments' = Flushed("section", stack)
    /\ buffer' = <<>>
    /\ stack' = Opened(at)
    /\ at' = at + 1
    /\ UNCHANGED file

\* A paragraph that is not blank; what is blank is left out, headings too.
DocxParagraph ==
    /\ Reading({"docx"}) /\ at \notin Headings
    /\ buffer' = IF IsBlank(at) THEN buffer ELSE Append(buffer, at)
    /\ at' = at + 1
    /\ UNCHANGED <<file, stack, segments>>

\* Where the section of a heading ends.
SectionEnd(i) == Min({h \in Headings : h > i} \cup {Len(Items) + 1})
\* The sections of Markdown and HTML go from heading to heading; what comes
\* before the first belongs to none.
TakeSection ==
    /\ Reading({"markdown", "html"}) /\ at \in Headings
    /\ LET body == Positions(at + 1, SectionEnd(at) - 1)
       IN /\ segments' = IF Written(body)
                         THEN Append(segments, Segment("section", Opened(at), body))
                         ELSE segments
          /\ at' = SectionEnd(at)
    /\ stack' = Opened(at)
    /\ UNCHANGED <<file, buffer>>

TakePage ==
    /\ Reading({"html"}) /\ Headings = {}
    /\ LET page == Positions(1, Len(Items))
       IN segments' = IF Written(page) THEN <<Segment("whole", <<>>, page)>> ELSE <<>>
    /\ at' = Len(Items) + 1
    /\ UNCHANGED <<file, stack, buffer>>

\* Plain text, and Markdown without a heading: a range of lines that are not
\* all blank.
TakeLines ==
    /\ Reading({"text", "markdown"}) /\ Headings = {}
    /\ LET last == Min({at + BatchSize - 1, Len(Items)})
           lines == Positions(at, last)
       IN /\ segments' = IF Written(lines)
                         THEN Append(segments, Segment("line_range", <<at, last>>, lines))
                         ELSE segments
          /\ at' = last + 1
    /\ UNCHANGED <<file, stack, buffer>>

DataRows == Tail(Items)
\* CSV, and each sheet of a workbook: a range of rows under the first row, the
\* header; `start` counts the data rows before the batch.
\* Slip: the header is not counted.
TakeRowsUncounted ==
    /\ Reading({"rows"})
    /\ LET start == at - 2
           count == Min({BatchSize, Len(DataRows) - start})
       IN /\ segments' = Append(segments,
                Segment("row_range", <<start + 1, start + count>>, <<1>> \o Positions(at, at + count - 1)))
          /\ at' = at + count
    /\ UNCHANGED <<file, stack, buffer>>
TakeRows ==
    /\ Reading({"rows"})
    /\ LET start == at - 2
           count == Min({BatchSize, Len(DataRows) - start})
       IN /\ segments' = Append(segments,
                Segment("row_range", <<start + 2, start + 1 + count>>, <<1>> \o Positions(at, at + count - 1)))
          /\ at' = at + count
    /\ UNCHANGED <<file, stack, buffer>>

\* A PDF page: its tables come first, one segment each, and their lines are then
\* left out.  A line's mark is 0 right under the one before it, 1 with a space
\* of two lines above it, 2 in a table.
InTable(i) == Items[i].mark = 2
\* The tables of the page, by the line they begin with.
TableStarts == {i \in DOMAIN Items : InTable(i) /\ (i = 1 \/ ~InTable(i - 1))}
TableEnd(s) == Min({i \in s .. Len(Items) : i = Len(Items) \/ ~InTable(i + 1)})
Table(s) == Positions(s, TableEnd(s))
\* A table without any text in its cells counts, but makes no segment.
TableNumber(s) == Cardinality({t \in TableStarts : t <= s})
TakeTables ==
    /\ file.format = "pdf" /\ at = 0
    /\ LET filled == Listing({s \in TableStarts : Written(Table(s))})
       IN segments' = [k \in DOMAIN filled |->
            Segment("page_table", <<TableNumber(filled[k])>>, Table(filled[k]))]
    /\ at' = 1
    /\ UNCHANGED <<file, stack, buffer>>

\* The space between two lines, in lines; a paragraph ends at one of more than
\* 1.6 (_PARAGRAPH_GAP_MULTIPLIER).  Lines in between count whatever they are.
Gap(p, i) == 2 * Cardinality({j \in p + 1 .. i : Items[j].mark = 1}) + (i - p) - 1
EndsParagraph(p, i) == 10 * Gap(p, i) > 16
NextParagraph ==
    <<Cardinality({k \in DOMAIN segments : segments[k].kind = "page_paragraph"}) + 1>>
\* Slip: a table's lines are left in.
TakeLineOfTable ==
    /\ Reading({"pdf"}) /\ at > 0
    /\ IF IsBlank(at) THEN UNCHANGED <<buffer, segments>>
       ELSE IF buffer # <<>> /\ EndsParagraph(Last(buffer), at)
       THEN /\ segments' = Flushed("page_paragraph", NextParagraph)
            /\ buffer' = <<at>>
       ELSE buffer' = Append(buffer, at) /\ UNCHANGED segments
    /\ at' = at + 1
    /\ UNCHANGED <<file, stack>>
TakeLine ==
    /\ Reading({"pdf"}) /\ at > 0
    /\ IF IsBlank(at) \/ InTable(at) THEN UNCHANGED <<buffer, segments>>
       ELSE IF buffer # <<>> /\ EndsParagraph(Last(buffer), at)
       THEN /\ segments' = Flushed("page_paragraph", NextParagraph)
            /\ buffer' = <<at>>
       ELSE buffer' = Append(buffer, at) /\ UNCHANGED segments
    /\ at' = at + 1
    /\ UNCHANGED <<file, stack>>

\* XML: a child with text, named by its tag and its place among those of the
\* tag.
TakeChild ==
    /\ Reading({"xml"})
    /\ LET tag == Items[at].mark
           index == Cardinality({i \in 1 .. at : Items[i].mark = tag})
       IN segments' = IF IsBlank(at) THEN segments
                      ELSE Append(segments, Segment("xpath", <<tag, index>>, <<at>>))
    /\ at' = at + 1
    /\ UNCHANGED <<file, stack, buffer>>

\* JSON: a top-level entry, empty or not, named by its place.
TakeEntry ==
    /\ Reading({"json"})
    /\ segments' = Append(segments, Segment("json_path", <<at>>, <<at>>))
    /\ at' = at + 1
    /\ UNCHANGED <<file, stack, buffer>>

\* What DOCX and PDF have collected at the end is the last segment.
EndFile ==
    /\ at = Len(Items) + 1
    /\ segments' = IF file.format = "pdf" THEN Flushed("page_paragraph", NextParagraph)
                   ELSE Flushed("section", stack)
    /\ buffer' = <<>>
    /\ at' = at + 1
    /\ UNCHANGED <<file, stack>>

SegmentStep ==
    \/ DocxHeading \/ DocxParagraph \/ TakeSection \/ TakePage \/ TakeLines
    \/ TakeRows \/ TakeTables \/ TakeLine \/ TakeChild \/ TakeEntry \/ EndFile
-----------------------------------------------------------------------------
\* The text of a segment as Chunker sees it: its items that are not blank, one
\* blank between them.
TextOf(ps) ==
    LET written == Listing({k \in DOMAIN ps : ~IsBlank(ps[k])})
        SizeAt(k) == Items[ps[written[k]]].size
        begin[k \in DOMAIN written] == IF k = 1 THEN 1 ELSE begin[k - 1] + SizeAt(k - 1) + 1
    IN [k \in DOMAIN written |-> [from |-> begin[k], to |-> begin[k] + SizeAt(k) - 1]]

\* split_segments: the segments one after another, each on its own.
BeginSplit ==
    /\ at = Len(Items) + 2
    /\ split = 0 \/ next = Len(sentences) + 2
    /\ split < Len(segments)
    /\ split' = split + 1
    /\ sentences' = TextOf(segments[split + 1].items)
    /\ next' = 1
    /\ current' = Nothing
    /\ chunks' = <<>>
    /\ UNCHANGED segmentVars

Next ==
    \/ SegmentStep /\ UNCHANGED <<split, splitVars>>
    \/ BeginSplit
    \/ split > 0 /\ SplitStep /\ UNCHANGED <<segmentVars, split>>

Spec == Init /\ [][Next]_allVars
-----------------------------------------------------------------------------
(***************************************************************************)
(* Properties                                                              *)
(***************************************************************************)
\* The headings an item is under: those before it that no later one of the same
\* or a higher level has closed.
Enclosing(i) ==
    {h \in Headings : h < i /\ \A g \in Headings : h < g /\ g < i => Items[g].mark > Items[h].mark}

InOrder(s, S) == Range(s) = S /\ \A k, m \in DOMAIN s : k < m => s[k] < s[m]

\* The breadcrumb of a section joins the titles of the headings that enclose each
\* of its items, outermost first and no other, whatever levels are skipped or
\* come back: a rule for a section does not spare any of its text.  It does take
\* along every section with the same titles, contrary to docx_segmenter.py:3-5,
\* and one titled "documento" goes with the text before the first heading.
BreadcrumbIsEnclosing ==
    \A k \in DOMAIN segments : segments[k].kind = "section" =>
        \A i \in Range(segments[k].items) :
            Locator(segments[k]) = Breadcrumb(Listing(Enclosing(i)))

\* The header a batch of rows repeats.
Header == IF file.format = "rows" THEN {1} ELSE {}

\* A range names the lines, or rows counted with the header as the first, that
\* its segment holds (csv_segmenter.py:1-5), ranges do not overlap, and no two
\* tables, paragraphs, elements or entries have one locator.
LocatorNamesItsContent ==
    \A k \in DOMAIN segments :
        LET path == segments[k].path IN
        IF segments[k].kind \in {"line_range", "row_range"}
        THEN /\ Range(segments[k].items) \ Header = path[1] .. path[2]
             /\ \A m \in DOMAIN segments : m < k => segments[m].path[2] < path[1]
        ELSE segments[k].kind \notin {"section", "whole"} =>
             \A m \in DOMAIN segments :
                m # k /\ segments[m].kind = segments[k].kind => segments[m].path # path

\* What comes before the first heading of Markdown or HTML.
Preamble ==
    IF file.format \in {"markdown", "html"} /\ Headings # {} THEN 1 .. Min(Headings) - 1 ELSE {}

\* Each item with text, but headings, is in one segment when the file is done,
\* and in no second one - not even a line of a PDF table, which is read twice
\* (pdf_segmenter.py:26-29).  A preamble is in none.
ContentSegmentedOnce ==
    at = Len(Items) + 2 =>
        \A i \in DOMAIN Items \ (Headings \cup Header) :
            LET holders == {k \in DOMAIN segments : i \in Range(segments[k].items)}
            IN IF i \in Preamble THEN holders = {}
               ELSE IsBlank(i) \/ Cardinality(holders) = 1
=============================================================================
