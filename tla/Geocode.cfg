CONSTANTS
    Places <- MCPlaces
    StreetOf <- MCStreets
    EntryOf <- MCEntries
    Roads <- MCRoads
    PatternOf <- MCPatterns
    Similar <- MCSimilar
    Pool = 3
    MapLimit = 2
    BatchSize = 2
    RetryDays = 2
    LimitOf <- MCLimits
    Rows0 <- MCRows
    MaxRows = 6
    Growing = {4}
    MaxTroubles = 1
SPECIFICATION FairSpec
CHECK_DEADLOCK FALSE
PROPERTIES
    StaysOnMap
    GetsOnMap
    ScriptEnds
