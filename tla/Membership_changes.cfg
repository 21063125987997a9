SPECIFICATION CalmSpec
CONSTANTS
    Server = {s1, s2, s3}
    NoServer = NoServer
    First = {s1, s2}
    FirstLeader = s1
    MinGap = 2
    MaxAttempts = 1
    MaxTerm = 4
    MaxLog = 3
    MaxCalls = 1
    MaxFaults = 1
CHECK_DEADLOCK FALSE
INVARIANTS
    TypeOK
    LeaderUsesNewest
    OneChangeAtATime
    CommittedAgree
PROPERTIES
    LeftIsCommitted
