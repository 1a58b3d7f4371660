CONSTANTS
    c1 = c1
    c2 = c2
    Calls <- MCCalls
    NumWindows = 2
    MaxRuns = 2
    IdOf <- MCDistinctIds
    Failures <- MCAllFailures
    MaxAttempts = 2
    MaxEvictions = 2
SPECIFICATION DailyFairSpec
INVARIANTS
    ActiveHasDriver
    ReportIsTrue
PROPERTIES
    JobEnds
