SPECIFICATION FairAll
CONSTANTS
    MaxCalls = 3
    MaxCrashes = 1
    ManualNames <- MCManual
    Retention = 1
    Deadline = 3
    None = None
    loadersize = 2
    MaxLosses = 1
    MaxFaults = 1
    MaxRuns = 2
INVARIANTS StartsSafely
PROPERTIES EnvironmentsKept UpgradesSettle
CHECK_DEADLOCK FALSE
