SPECIFICATION SweepSpec
CONSTANTS
    s1 = s1
    s2 = s2
    s3 = s3
    v1 = v1
    v2 = v2
    i1 = i1
    Sessions = {s1}
    Workers = {w1}
    Conns = {c1}
    Visitors = {v1}
    Ips = {i1}
    VisitorOf <- OneVisitor
    IpOf <- OneIp
    Dispatcher = Dispatcher
    Maintenance = Maintenance
    NONE = NONE
    SessionCapacity = 2
    QueueCapacity = 1
    GlobalConcurrency = 1
    VisitorConcurrency = 1
    IpConcurrency = 2
    ChannelCapacity = 1
    ReportedPhases = {"compiling", "running"}
    ReportedReasons = {"completed"}
    Inputs = {"stdin", "resize", "terminate", "lagged", "rate", "hello_failed", "heartbeat", "stream_ended", "refused", "receiver_dropped", "silence", "tick", "expiry"}
CHECK_DEADLOCK FALSE
INVARIANTS
    AssignmentConsistent
    NoLostWakeup
PROPERTIES
    FinishedIsFinal
    ExpiredIsCancelled
