CONSTANTS
    r1 = r1
    r2 = r2
    Records <- MCTwoRecords
    SeedDay = 3
    LastDay = 4
    RefreshDays = 3
    ChunkDays = 2
    SeedStates <- MCExportedOrEmpty
    Faults <- MCReadFaults
    MaxJobs = 3
    MaxInterrupts = 1
    MaxAmends = 1
SPECIFICATION Spec
CHECK_DEADLOCK FALSE
SYMMETRY Symmetry2
INVARIANTS
    NeverOvercounts
    NeverUndercounts
    CursorHoldsCounted
    CountedAreListed
    ManifestTotalInBounds
PROPERTIES
    TotalNeverFalls
    FinalizeIsIdempotent
