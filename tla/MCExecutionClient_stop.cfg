SPECIFICATION Spec
CONSTANTS
    e1 = e1
    e2 = e2
    Executions = {e1}
    MaxRateLimitEntries = 5
    RequestLimit = 2
    CreateLimit = 1
    HourLimit = 2
    Minute = 1
    Hour = 2
    ReportedEnds = {"exited"}
CHECK_DEADLOCK FALSE
PROPERTIES
    StopStops
