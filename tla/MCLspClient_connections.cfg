SPECIFICATION FairSpec
CONSTANTS
    l1 = l1
    l2 = l2
    Sessions = {l1, l2}
    MaxConnectAttempts = 2
    MaxReconnectAttempts = 1
    Names <- FourNames
    Lower <- LowerOfFour
    SourceFileMaxCount = 2
CHECK_DEADLOCK FALSE
INVARIANTS
    ProjectAccepted
    SessionHasFiles
    RestartHasCause
    RequestsBounded
PROPERTIES
    FilesReachServer
