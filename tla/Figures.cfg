CONSTANTS
    Unknown = Unknown
    Records <- MCRecords
    LabelOf <- MCLabels
    OldForms <- MCOldForms
    Summers <- MCSummers
    Towed = {2, 3}
    PerDay = 4
    MonthDays = 5
    RefreshDays = 4
    ChunkDays = 3
    ShortDays = 3
    Week = 2
    RankLimit = 2
    RecentLimit = 2
    PageSize = 2
    Start = 20
    Hcc0 <- MCHcc
    Changed = {22}
    LastInstant = 22
    MaxChanges = 1
    MaxJobs = 2
SPECIFICATION Spec
CHECK_DEADLOCK FALSE
INVARIANTS
    WindowsAddUp
    
    PanelAddsUp
    ScrollShowsAll
PROPERTIES
    MigrationKeepsTimes
