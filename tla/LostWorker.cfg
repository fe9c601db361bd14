SPECIFICATION FairSpec
CONSTANTS
    e1 = e1
    e2 = e2
    c1 = c1
    c2 = c2
    u1 = u1
    u2 = u2
    Executors <- Slots
    Clients <- Requests
    Urls <- TwoUrls
    NoExec = NoExec
    Celery = TRUE
    Stalls = FALSE
    MaxRequests = 0
    MaxFaults = 1
CHECK_DEADLOCK FALSE
PROPERTIES
    ClaimedRunSettles
