SPECIFICATION Spec
CONSTANTS
    Entry <- MCEntry
    Size <- MCSize
    MaxSize = 1
    NoRetention = FALSE
    Server = {s1, s2, s3}
    NoServer = NoServer
    MinGap = 3
    MaxEntries = 2
    MaxTerm = 2
    MaxIndex = 2
    MaxFaults = 1
    MaxMessages = 3
    First = s1
CONSTRAINTS
    FewerMessages
    TransfersInTerm
    AnswersWithin
SYMMETRY Symmetry
CHECK_DEADLOCK FALSE
INVARIANTS
    TypeOK
    LogMatching
    AnswersHold
    
    CommittedAgree
PROPERTY
    LeaderKeepsItsLog
