SPECIFICATION Spec
CONSTANTS
    Server = {s1, s2}
    Up = {s1, s2}
    None = None
    MaxTerm = 1
    LastEntries <- SameLastEntries
CHECK_DEADLOCK FALSE
INVARIANT
    LeaderNeverHearsALeader
