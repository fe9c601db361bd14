SPECIFICATION FairSpec
CONSTANTS
    s1 = s1
    s2 = s2
    Writers <- Sessions
    PageLimit = 2
    MaxLive = 3
    MaxEvents = 6
    MaxBreaks = 2
CHECK_DEADLOCK FALSE
INVARIANTS
    TypeOK
    SequenceIsComplete
    NoHole
PROPERTIES
    LastEventsReached
