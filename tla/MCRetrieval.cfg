CONSTANTS
    faq = faq
    s1 = s1
    s2 = s2
    pFaq = pFaq
    Document <- MCDocument
    Segment <- MCSegment
    Pattern <- MCPattern
    Matches <- MCMatches
    Rule <- MCRule
    NoRule = noRule
    Unset = unset
    Upload = {1, 2}
    Exclusion = {1}
    ScanLimit = 1
    MaxRunning = 1
    Search = {q1}
    InternalUpload = {2}
    ExpiringUpload = {1}
    RankConstant = 60
    CandidatePool = 2
    TopK = 1
SPECIFICATION RetrievalSpec
INVARIANTS
    FoundWasVisible
    RemovedIsNotFound
    AgreedReachesReranker
CHECK_DEADLOCK FALSE
SYMMETRY Symmetry
