SPECIFICATION Spec
CONSTANTS
    t1 = t1
    t2 = t2
    t3 = t3
    Tickets <- Trio
    TicketOrder <- TrioOrder
    ConflictKeys <- SharedKey
    Workers = 2
    InfraRetryLimit = 1
    ResumeRetryLimit = 1
    MaxCycles = 2
    Results <- Outcomes
    MaxBatches = 1
    MaxFaults = 1
INVARIANTS NoConflictingRuns RunsAreRecorded NoTicketStranded LaunchesAccounted ReplansAreSynced
PROPERTIES DrainEnds
CHECK_DEADLOCK FALSE
