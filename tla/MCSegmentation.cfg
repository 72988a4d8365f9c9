CONSTANTS
    File <- MCFile
    MaxItems = 4
    Size = {0, 1, 4}
    Title = {"a", "b"}
    BatchSize = 2
    MaxChars = 6
    OverlapChars = 2
SPECIFICATION Spec
INVARIANTS
    BreadcrumbIsEnclosing
    LocatorNamesItsContent
    ContentSegmentedOnce
    EverySentenceWhole
    OversizeIsOneSentence
CHECK_DEADLOCK FALSE
