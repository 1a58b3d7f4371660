CONSTANTS
    c1 = c1
    c2 = c2
    Calls <- MCCalls
    NumWindows = 3
    MaxRuns = 3
    IdOf <- MCDistinctIds
    Failures <- MCSliceFailures
    MaxAttempts = 2
    MaxEvictions = 2
SPECIFICATION Spec
INVARIANTS
    NoOverlap
    CheckpointIsExact
    PublishedIsWhole
    PlanIsCurrent
PROPERTIES
    ImplementsRefreshJob
