SPECIFICATION FairSpec
CONSTANTS
    Server = {s1, s2, s3}
    Up = {s1, s2}
    None = None
    MaxTerm = 2
    LastEntries <- SameLastEntries
CHECK_DEADLOCK FALSE
PROPERTY
    CandidacyEnds
