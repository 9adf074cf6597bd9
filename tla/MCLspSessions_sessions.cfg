SPECIFICATION FairSpec
CONSTANTS
    s1 = s1
    s2 = s2
    v1 = v1
    i1 = i1
    Sessions = {s1, s2}
    Visitors = {v1}
    Ips = {i1}
    VisitorOf <- OneVisitor
    IpOf <- OneIp
    MaxSessions = 2
    MaxSessionsPerVisitor = 1
    MaxSessionsPerIp = 2
    TicketTtl = 1
    IdleTtl = 2
    AbsoluteTtl = 3
CHECK_DEADLOCK FALSE
INVARIANTS
    TypeOK
    ResourcesOwned
    DeadlineArmed
PROPERTIES
    ImplementsPool
    LifetimeBounded
    EventuallyRemoved
