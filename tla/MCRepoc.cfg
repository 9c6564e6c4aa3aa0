SPECIFICATION SpecAll
CONSTANTS
    Syncs = {s1, s2}
    Locals = {l1}
    Channels = {"stable", "devel", "gone"}
    Published = {"stable", "devel"}
    Gens = {1, 2}
    Prints = {1, 2}
    Versions = {1, 2}
    Installed = 2
    Baked <- MCBaked
    Offered <- MCOffered
    Bases <- MCBases
    MaxFaults = 1
    MaxBegins = 2
    MaxKills = 1
    None = None
    Malformed = Malformed
SYMMETRY Symmetry
INVARIANTS ReposRight
PROPERTIES RepositoriesKept
