CONSTANTS
    faq = faq
    rates = rates
    s1 = s1
    s2 = s2
    pRates = pRates
    pAll = pAll
    Document <- OneDocument
    Segment <- MCSegment
    Pattern <- MCPattern
    Matches <- OneMatches
    Rule <- MCRule
    NoRule = noRule
    Unset = unset
    Upload = {1}
    Exclusion = {1, 2}
    ScanLimit = 2
    MaxRunning = 2
SPECIFICATION Spec
INVARIANTS
    ExcludedIsGone
PROPERTIES
    EveryCallEnds
CHECK_DEADLOCK FALSE
