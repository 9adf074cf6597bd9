SPECIFICATION Spec
CONSTANTS
    s1 = s1
    s2 = s2
    s3 = s3
    v1 = v1
    v2 = v2
    i1 = i1
    Sessions = {s1, s2, s3}
    Workers = {w1, w2}
    Conns = {c1, c2}
    Visitors = {v1, v2}
    Ips = {i1}
    VisitorOf <- TwoVisitors
    IpOf <- OneIp
    Dispatcher = Dispatcher
    Maintenance = Maintenance
    NONE = NONE
    SessionCapacity = 3
    QueueCapacity = 1
    GlobalConcurrency = 1
    VisitorConcurrency = 1
    IpConcurrency = 2
    ChannelCapacity = 1
    ReportedPhases = {}
    ReportedReasons = {}
    Inputs = {}
CHECK_DEADLOCK FALSE
SYMMETRY SameVisitor
INVARIANTS
    ConcurrencyLimits
    QueueBound
    QueuedOnce
