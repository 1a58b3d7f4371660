CONSTANTS
    Modes <- MCModes
    TimeOf <- MCTimes
    Empty <- MCEmpty
    MaxSockets = 2
    MaxTroubles <- MCTroubles
SPECIFICATION FairSpec
CHECK_DEADLOCK FALSE
INVARIANTS
    StartsFromNewest
PROPERTIES
    NoRegression
    CatchesUp
