--------------------------- MODULE MCAdminConsole ---------------------------
EXTENDS AdminConsole

MCOp == 1..2
MCVisit == 1..1
MCCall == (MCOp \X {"documents", "rules", "change"}) \cup (MCVisit \X {"visit"})
MCLimit == [e \in {"chat", "ingest"} |-> IF e = "chat" THEN 2 ELSE 1]
MCTraffic ==
    [endpoint : {"chat", "ingest"}, token : {"employee"}, key : {"subject"}]
=============================================================================
