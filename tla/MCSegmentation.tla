--------------------------- MODULE MCSegmentation ---------------------------
(***************************************************************************)
(* A small instance of Segmentation for TLC: every file of up to MaxItems  *)
(* items in every format, with headings of two levels and two titles.      *)
(***************************************************************************)
EXTENDS Segmentation

CONSTANTS MaxItems, Size, Title

\* Marks say nothing of plain lines, rows and entries, and sizes little of XML
\* and of headings, which have a title instead: an empty one if they are blank.
MCFile ==
    LET Lists(items) == UNION {[1 .. n -> items] : n \in 0 .. MaxItems}
        Plain(marks, sizes) == [mark : marks, size : sizes, title : {<<"">>}]
        HeadingItems == Plain({1, 2}, {0}) \cup
                        [mark : {1, 2}, size : {1}, title : {<<t>> : t \in Title}]
    IN [format : {"docx", "markdown", "html"}, items : Lists(Plain({0}, Size) \cup HeadingItems)]
       \cup [format : {"pdf"}, items : Lists(Plain(0 .. 2, Size))]
       \cup [format : {"text", "rows", "json"}, items : Lists(Plain({0}, Size))]
       \cup [format : {"xml"}, items : Lists(Plain({0, 1}, {0, 1}))]
=============================================================================
