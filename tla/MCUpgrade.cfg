SPECIFICATION FairAll
CONSTANTS
    Callers = {a, b}
    MaxRestarts = 3
    MaxKills = 2
    MaxFails = 2
    MaxCrashes = 2
    None = None
INVARIANTS PidFileGuards 
PROPERTIES UpgradesEnd
CHECK_DEADLOCK FALSE
