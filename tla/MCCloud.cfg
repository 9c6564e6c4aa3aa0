SPECIFICATION SpecAll
CONSTANTS
    Instances = {i1, i2}
    Keys = {k1}
    MaxFaults = 1
    MaxAdmin = 2
    MaxItems = 2
    MaxMappings = 2
    MappedRoles = {"wan", "lan", "opt1", "opt2"}
    Other = Other
    Invalid = Invalid
    None = None
SYMMETRY Symmetry
INVARIANTS CloudRight
PROPERTIES ReapplyRight
CHECK_DEADLOCK FALSE
