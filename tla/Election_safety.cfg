SPECIFICATION MCSpec
CONSTANTS
    Server = {s1, s2, s3}
    None = None
    MaxTerm = 2
    MaxTimeouts = 2
    MaxFaults = 1
    LastEntries <- MCLastEntries
SYMMETRY Symmetry
VIEW View
CHECK_DEADLOCK FALSE
INVARIANTS
    TypeOK
    OneVotePerTerm
    VotesOnDisk
    VotesAreBacked
    LeaderIsUpToDate
    LeaderTimerStopped
    CandidateVotedForItself
PROPERTY
    KeepsTheBook
