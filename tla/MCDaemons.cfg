CONSTANTS
    Names = {n1, n2}
    Addrs = {a1}
    Sizes = {1, 2}
    MaxNow = 2
    MaxAppends = 2
    MaxReplaces = 1
    MaxRewrites = 1
    MaxLosses = 1
    MaxTerms = 3
    MaxDeaths = 3
    MaxFails = 3
    MaxChanges = 6
    MaxKills = 3
    MaxSignals = 2
    MaxFaults = 2
SPECIFICATION FairAll
INVARIANTS LeasesSeen HelperKnown
PROPERTIES DaemonsSettle
CHECK_DEADLOCK FALSE
