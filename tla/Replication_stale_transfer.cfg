SPECIFICATION Spec
CONSTANTS
    Entry <- MCEntry
    Size <- MCSize
    MaxSize = 1
    NoRetention = FALSE
    Server = {s1, s2, s3}
    NoServer = NoServer
    MinGap = 2
    MaxEntries = 1
    MaxTerm = 2
    MaxIndex = 2
    MaxFaults = 1
    MaxMessages = 3
    First = s1
CONSTRAINT FewMessages
SYMMETRY Symmetry
CHECK_DEADLOCK FALSE
INVARIANT
    CommittedAgree
