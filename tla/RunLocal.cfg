SPECIFICATION Spec
CONSTANTS
    e1 = e1
    e2 = e2
    c1 = c1
    c2 = c2
    u1 = u1
    u2 = u2
    Executors <- Slots
    Clients <- Requests
    Urls <- TwoUrls
    NoExec = NoExec
    Celery = FALSE
    Stalls = FALSE
    MaxRequests = 3
    MaxFaults = 1
SYMMETRY Symmetric
CHECK_DEADLOCK FALSE
INVARIANTS
    TypeOK
    SingleLocalExecution
    FreshWork
    PausedIsQuiet
PROPERTIES
    CompletedCoversWork
