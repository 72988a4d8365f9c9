CONSTANTS
    faq = faq
    rates = rates
    s1 = s1
    s2 = s2
    pRates = pRates
    pAll = pAll
    Document <- MCDocument
    Segment <- MCSegment
    Pattern <- MCPattern
    Matches <- MCMatches
    Rule <- MCRule
    NoRule = noRule
    Unset = unset
    Upload = {1, 2}
    Exclusion = {1}
    ScanLimit = 2
    MaxRunning = 2
SPECIFICATION Spec
INVARIANTS
    TypeOK
    NeverMixed
    BlockedNeverIndexed
    PurgeReachesPublished
CHECK_DEADLOCK FALSE
