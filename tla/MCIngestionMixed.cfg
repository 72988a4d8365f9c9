CONSTANTS
    faq = faq
    rates = rates
    s1 = s1
    s2 = s2
    pRates = pRates
    pAll = pAll
    Document <- OneDocument
    Segment <- MCSegment
    Pattern <- MCPattern
    Matches <- OneMatches
    Rule <- MCRule
    NoRule = noRule
    Unset = unset
    Upload = {1, 2}
    Exclusion = {1}
    ScanLimit = 2
    MaxRunning = 1
SPECIFICATION Spec
INVARIANTS
    DocumentNeverMixed
CHECK_DEADLOCK FALSE
