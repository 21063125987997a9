SPECIFICATION Spec
CONSTANTS
    Entry <- MCEntry
    Size <- MCSize
    MaxSize = 1
    NoRetention = FALSE
    Server = {s1, s2, s3}
    NoServer = NoServer
    MinGap = 9
    MaxEntries = 1
    MaxTerm = 4
    MaxIndex = 0
    MaxFaults = 0
    MaxMessages = 2
    First = s1
CONSTRAINT FewMessages
SYMMETRY Symmetry
CHECK_DEADLOCK FALSE
INVARIANT
    CommittedAgree
