SPECIFICATION OneLeaderSpec
CONSTANTS
    Entry <- MCEntry
    Size <- MCSize
    MaxSize = 1
    NoRetention = FALSE
    Server = {s1, s2, s3}
    NoServer = NoServer
    MinGap = 2
    MaxEntries = 1
    MaxTerm = 1
    MaxIndex = 2
    MaxFaults = 1
    MaxMessages = 4
    First = s1
ACTION_CONSTRAINTS
    OneLeader
    PromptTransfers
CHECK_DEADLOCK FALSE
INVARIANT
    CommittedOnMajority
PROPERTY
    FollowersCatchUpWithIt
