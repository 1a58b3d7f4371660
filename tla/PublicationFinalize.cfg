CONSTANTS
    r1 = r1
    r2 = r2
    Records <- MCTwoRecords
    SeedDay = 2
    LastDay = 3
    RefreshDays = 2
    ChunkDays = 1
    SeedStates <- MCExported
    Faults <- MCFinalizeFault
    MaxJobs = 3
    MaxInterrupts = 0
    MaxAmends = 0
SPECIFICATION Spec
CHECK_DEADLOCK FALSE
INVARIANT NeverOvercounts
