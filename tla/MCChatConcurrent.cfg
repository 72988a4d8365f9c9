CONSTANTS
    ConfirmTools = {lock}
    NoAction = none
    Request = {1, 2, 3}
    Streaming = {1}
    Conversation = {c1, c2}
    Question = {q}
    Absent = absent
    MaxInFlight = 2
SPECIFICATION Spec
INVARIANTS
    AuditBeforeDone
    StoredTurnsAudited
    CacheHoldsVerified
    ExecutedWasOffered
    OpenProposalIsLastTurn
    NoTurnLost
    PerformedIsClosed
PROPERTIES
    ImplementsConfirmedAction
CHECK_DEADLOCK FALSE
SYMMETRY Symmetry
