CONSTANTS
    Message = {m1}
    Conversation = {c1}
    Null = null
    FixedText = fixed
    Boundary = boundary
    MaxOpen = 2
    MaxDeltas = 2
SPECIFICATION Spec
INVARIANTS
    FinalAnswerOnScreen
CHECK_DEADLOCK FALSE
