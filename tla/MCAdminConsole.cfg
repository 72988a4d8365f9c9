SPECIFICATION Spec
CONSTANTS
    Op <- MCOp
    Visit <- MCVisit
    Call <- MCCall
    Key = {"subject", "host"}
    Subject = "subject"
    Host = "host"
    Limit <- MCLimit
    Traffic <- MCTraffic
    PageToken = {"employee", "invalid"}
    NoRequest = NoRequest
INVARIANTS
    WithinLimit
    TableIsCurrent
PROPERTIES
    RefusedOverLimit
    WindowEnds
CHECK_DEADLOCK FALSE
