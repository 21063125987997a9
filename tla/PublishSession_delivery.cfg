SPECIFICATION CalmSpec
CONSTANTS
    Server = {s1, s2, s3}
    NoServer = NoServer
    MaxBatch = 1
    LockCapacity = 2
    UnlockCapacity = 0
    MaxMessage = 2
    MaxTerm = 2
    MaxFaults = 1
    MaxNet = 2
    First = s1
CONSTRAINT FewMessages
SYMMETRY Symmetry
CHECK_DEADLOCK FALSE
INVARIANTS
    TypeOK
    FlowFollowsQueue
PROPERTY
    DeliversOnce
