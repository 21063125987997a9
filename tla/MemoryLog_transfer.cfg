SPECIFICATION FairSpec
CONSTANTS
    Entry <- MCEntry
    Size <- MCSize
    MaxSize = 2
    NoRetention = FALSE
    MaxIndex = 4
CHECK_DEADLOCK FALSE
INVARIANTS
    TypeOK
    CommittedEntryStays
    TransferInBounds
    CopyIsFaithful
PROPERTIES
    KeepsTheLog
    TransferEnds
