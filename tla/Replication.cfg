CONSTANTS
    Records <- MCRecords
    LastDay = 3
    DayOf <- MCDays
    Ingested0 = {2}
    PageLimit = 2
    ChunkRecords = 2
    UpsertBatch = 1
    ChunksPerRun = 2
    Scripts = {"push", "export", "migrate", "sync"}
    RefreshDays = 2
    WorkChunkDays = 1
    HccHolds <- MCHolds
    MaxStarts = 2
    MaxFaults = 1
    MaxExports = 2
    MaxRefreshes = 2
SPECIFICATION Spec
CHECK_DEADLOCK FALSE
CONSTRAINT FewRefreshes
INVARIANTS
    PushIsComplete
    MarksFollowRecords
    SeedIsWhole
    MigrationIsComplete
