CONSTANTS
    ConfirmTools = {lock}
    NoAction = none
    Request = {1, 2}
    Streaming = {}
    Conversation = {c1, c2}
    Question = {q}
    Absent = absent
    MaxInFlight = 1
SPECIFICATION Spec
INVARIANTS
    EveryReplyAudited
CHECK_DEADLOCK FALSE
