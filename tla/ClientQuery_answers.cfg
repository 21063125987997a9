SPECIFICATION CalmSpec
CONSTANTS
    Server = {s1, s2}
    NoServer = NoServer
    Subscription = {a}
    MaxBatch = 2
    LockCapacity = 2
    UnlockCapacity = 0
    MaxMessage = 2
    MaxQuery = 2
    MaxChanges = 2
    MaxFaults = 1
CHECK_DEADLOCK FALSE
INVARIANTS
    TypeOK
    ReadsOwnWrites
    FlowFollowsQueue
PROPERTIES
    EveryQueryAnswered
    SubscriptionsFollow
