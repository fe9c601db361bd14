SPECIFICATION FairSpec
CONSTANTS
    w1 = w1
    w2 = w2
    Workers <- Pool
    Total = 4
    QueueSize = 2
    MaxFaults = 1
CHECK_DEADLOCK FALSE
INVARIANTS
    TypeOK
    FinishedCoversWork
    QuietAfterStop
    NothingDiscarded
PROPERTIES
    StoppedTakesNoUrl
    ExecuteEnds
    KeepsContract
