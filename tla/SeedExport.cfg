CONSTANTS
    Records <- MCRecords
    LastDay = 3
    DayOf <- MCDays
    Ingested0 = {2}
    PageLimit = 2
    ChunkRecords = 2
    UpsertBatch = 1
    ChunksPerRun = 2
    Scripts = {"export", "sync"}
    RefreshDays = 2
    WorkChunkDays = 1
    HccHolds <- MCHolds
    MaxStarts = 1
    MaxFaults = 0
    MaxExports = 1
    MaxRefreshes = 1
SPECIFICATION Spec
CHECK_DEADLOCK FALSE
INVARIANTS
    SyncCopiesEverything
