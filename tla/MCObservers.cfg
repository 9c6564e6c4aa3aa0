SPECIFICATION FairAll
CONSTANTS
    Workers = {w1, w2}
    Lists <- MCLists
    Types = {"", "rules", "nat", "ether", "other"}
    MaxCalls = 2
    MaxLoads = 1
    MaxFaults = 1
    Packets <- MCPackets
    Files <- MCFiles
    Options <- MCOptions
    NReasons = 16
    MaxOpens = 2
    Clients = {c1}
    Sets <- MCSets
    Ifaces <- MCIfaces
    Busy <- MCBusy
    AVGN_MAX = 2
    Scale = 2
    MaxCount = 2
    Tables <- MCTables
    Queries <- MCQueries
    Limit = 1
    Names = {1, 2}
    First <- MCFirst
    Strings <- MCStrings
    Addrs6 <- MCAddrs6
    Tunnels <- MCTunnels
    Asks = {"getall", "get_ifaddrs", "get_interface_addresses", "listget"}
    MaxIfs = 3
    MaxAddrs = 3
    MaxChanges = 2
    Inputs <- MCInputs
    FCGI_NV_LLEN = 100000
    None = None
INVARIANTS ZeroesInOrder  AnswerRight AveragesRight  AddressesRight 
PROPERTIES ReadsOneRuleset   
CHECK_DEADLOCK FALSE
