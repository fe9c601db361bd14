SPECIFICATION JobFairSpec
CONSTANTS
    j1 = j1
    j2 = j2
    w1 = w1
    w2 = w2
    Jobs <- TwoJobs
    Records <- TwoRecords
    Selected <- Overlapping
    Executions <- TwoSlots
    UseCelery = TRUE
    MaxJobFaults = 1
    NoJob = NoJob
CHECK_DEADLOCK FALSE
INVARIANTS
    JobTypeOK
    OneExecution
    EndedReleases
    EnrichedMeansAll
PROPERTIES
    QueuedJobEnds
