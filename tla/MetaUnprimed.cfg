SPECIFICATION Spec
CONSTANTS
    parent = parent
    child = child
    Docs <- MCDocs
    Tables <- MCTables
    Links <- MCLinks
    InCode <- MCOneDoc
    Reqs = {r1}
    None = none
    TTL = 2
    MaxClock = 3
    MaxRev = 2
    MaxVersion = 2
    MaxFaults = 1
CHECK_DEADLOCK FALSE
INVARIANTS
    AlwaysPrimed
