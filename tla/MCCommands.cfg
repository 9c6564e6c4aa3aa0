SPECIFICATION FairAll
CONSTANTS
    Words <- MCWords
    Tables <- MCTables
    Entries <- MCEntries
    first_level = "first_level"
    MaxTokens = 5
    Empty = Empty
    NULL = NULL
    Garbage = Garbage
    Clients = {c1, c2}
    MaxCmds = 2
    MaxLines = 1
    MaxExpires = 1
    None = None
INVARIANTS RunsLeafWithItsWord WellFormedRuns
PROPERTIES  EveryoneLeaves
CHECK_DEADLOCK FALSE
