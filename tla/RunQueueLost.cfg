SPECIFICATION Spec
CONSTANTS
    Commands = {filter}
    Aggregate = {filter}
    FcgiCmd = {filter}
    Params = {p}
    MaxEvents = 4
    MaxFaults = 0
INVARIANT EventNotLost
CHECK_DEADLOCK FALSE
