SPECIFICATION Spec
CONSTANTS
    s1 = s1
    s2 = s2
    s3 = s3
    v1 = v1
    v2 = v2
    i1 = i1
    Sessions = {s1, s2}
    Workers = {w1}
    Conns = {c1}
    Visitors = {v1}
    Ips = {i1}
    VisitorOf <- OneVisitor
    IpOf <- OneIp
    Dispatcher = Dispatcher
    Maintenance = Maintenance
    NONE = NONE
    SessionCapacity = 2
    QueueCapacity = 1
    GlobalConcurrency = 1
    VisitorConcurrency = 2
    IpConcurrency = 2
    ChannelCapacity = 1
    ReportedPhases = {}
    ReportedReasons = {"completed"}
    Inputs = {}
CHECK_DEADLOCK FALSE
SYMMETRY Symmetry
INVARIANTS
    QueueWithinCapacity
