SPECIFICATION FairSpec
CONSTANTS
    JobCount = 2
    CommandCapacity = 1
    OutboundCapacity = 2
    ControlCapacity = 1
INVARIANTS
    StreamAgreement
PROPERTIES
    JobResolved
    ProcessesStop
