CONSTANTS
    Message = {m1, m2}
    Conversation = {c1, c2}
    Null = null
    FixedText = fixed
    Boundary = boundary
    MaxOpen = 2
    MaxDeltas = 2
SPECIFICATION Spec
INVARIANTS
    TypeOK
    OneReplyEach
    NoWordLost
PROPERTIES
    FollowUpsJoin
    EverySendSettles
CHECK_DEADLOCK FALSE
