SPECIFICATION WorkingSpec
CONSTANTS
    Server = {s1, s2, s3}
    NoServer = NoServer
    MaxBatch = 2
    LockCapacity = 2
    UnlockCapacity = 0
    MaxMessage = 3
    MaxTerm = 2
    MaxFaults = 2
    MaxNet = 2
    First = s1
CONSTRAINT FewMessages
SYMMETRY Symmetry
CHECK_DEADLOCK FALSE
INVARIANT
    AnswersNotBehind
