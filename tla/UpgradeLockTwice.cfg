SPECIFICATION Spec
CONSTANTS
    Callers = {a, b}
    MaxRestarts = 3
    MaxKills = 2
    None = None
INVARIANTS OneInstance
CHECK_DEADLOCK FALSE
