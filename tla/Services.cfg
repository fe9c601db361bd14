SPECIFICATION ServicesSpec
CONSTANTS
    p1 = p1
    p2 = p2
    t1 = t1
    t2 = t2
    n1 = n1
    n2 = n2
    Pages <- TwoTasks
    DriftThreshold = 3
    Nobody = Nobody
    Keys <- TwoNames
    Callers <- TwoTasks
    Capacity = 1
    MaxEntries = 1
    RecycleAfter = 1
    MaxRuntimes = 2
    MaxFaults = 1
    Processes <- TwoProcesses
    Cooldown = 1
    MaxTime = 3
    PacingTime = 2
    MaxDisturbances = 1
    Hosts <- TwoNames
    Fetchers <- TwoTasks
    Home <- OneEach
    Interval = 1
    Protected = 2
    MaxHosts = 1
    Redis = Redis
    Identifiers <- TwoNames
    RequestSlots <- TwoTasks
    Serves <- OneEach
    Window = 2
    MaxRequests = 2
    MaxClients = 1
    LlmCalls <- TwoTasks
    RunsIn <- OneEach
    Threshold = 2
    RestTime = 2
    MaxFailures = 3
SYMMETRY Symmetric
CHECK_DEADLOCK FALSE
INVARIANTS
    ServicesTypeOK
    LaunchReplacesNothing
    RenewSparesContexts
    RetiredIsClosed
    AdmissionsBounded
    FailuresOpen
    OneCompile
    DriftSuspends
PROPERTIES
    SlotsConserved
    SlotsAreSpaced
    BlockedHostRests
    LearnedIsKept
