CONSTANTS
    r1 = r1
    r2 = r2
    r3 = r3
    r4 = r4
    r5 = r5
    Requests <- MCRequests
    Capacity = 2
SPECIFICATION FairSpec
INVARIANTS
    CountIsExact
    NoIdleSlot
PROPERTIES
    NoOvertaking
    NobodyStarves
