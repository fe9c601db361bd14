SPECIFICATION FairSpec
CONSTANTS
    e1 = e1
    e2 = e2
    c1 = c1
    c2 = c2
    u1 = u1
    u2 = u2
    Executors <- Slots
    Clients <- Requests
    Urls <- OneUrl
    NoExec = NoExec
    Celery = FALSE
    Stalls = FALSE
    MaxRequests = 3
    MaxFaults = 0
CHECK_DEADLOCK FALSE
PROPERTIES
    RunSettles
