SPECIFICATION FairSpec
CONSTANTS
    e1 = e1
    e2 = e2
    Executions = {e1, e2}
    MaxRateLimitEntries = 5
    RequestLimit = 2
    CreateLimit = 1
    HourLimit = 2
    Minute = 2
    Hour = 3
    ReportedEnds = {"exited"}
CHECK_DEADLOCK FALSE
INVARIANTS
    TypeOK
    OnlyCurrentRun
    OneSocket
    ActiveHasCause
    CreationRate
PROPERTIES
    RunEnds
