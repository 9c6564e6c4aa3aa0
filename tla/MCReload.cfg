SPECIFICATION FairAll
CONSTANTS
    Commands = {filter, newip, ntpd}
    Aggregate = {filter, ntpd}
    FcgiCmd = {filter, newip}
    Params = {p, q}
    MaxEvents = 4
    MaxFaults = 1
    Workers = {w1, w2}
    MaxCalls = 3
    MaxIoctlFaults = 1
    None = None
    MaxList = 2
    MaxCodes = 1
INVARIANTS AtMostTwoEntries NoWedgedEntry  VouchersSound 
PROPERTIES OnlyCompletionUncovers QueueDrains CallsRight
CHECK_DEADLOCK FALSE
