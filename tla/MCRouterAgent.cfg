CONSTANTS
    SearchTool = search
    UnknownTool = unknown
    Tools = {search, branches, lock}
    ConfirmTools = {lock}
    NoAction = none
    Word = {hello, rate}
    Greeting = {hello}
    Fallback = fallback
    Prompt = prompt
    Document = {d1, d2}
    MaxIterations = 2
    MaxWords = 2
    MaxCalls = 2
SPECIFICATION Spec
INVARIANTS
    TypeOK
    OneDoneLast
    RevealedIsGrounded
    GroundedIsBacked
    ConfirmToolsNeverRun
    CitesLastSearch
    KeepsContract
PROPERTIES
    Terminates
CHECK_DEADLOCK FALSE
