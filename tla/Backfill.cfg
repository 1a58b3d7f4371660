CONSTANTS
    Records <- MCRecords
    LastDay = 4
    DayOf <- MCDays
    Published0 <- MCPublished
    ChunkDays = 2
    PageSize = 2
    WindowsPerMessage = 2
    MaxEnqueuePerWave = 1
    QueueConcurrency = 2
    BatchSize = 2
    MaxRetries = 1
    HourlyOverlap = 2
    Forces <- MCForces
    MaxWaves = 2
    MaxHourly = 1
    MaxFaults = 1
SPECIFICATION FairSpec
CHECK_DEADLOCK FALSE
INVARIANTS
    WatermarkIsComplete
    NothingForgotten
    LagIsMarked
PROPERTIES
    PassCoversRange
    ProgressIsOwn
    QueueDrains
