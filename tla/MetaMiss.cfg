SPECIFICATION Spec
CONSTANTS
    parent = parent
    child = child
    Docs <- MCOneDoc
    Tables <- MCNoTargets
    Links <- MCNoTargets
    InCode = {}
    Reqs = {r1, r2}
    None = none
    TTL = 2
    MaxClock = 5
    MaxRev = 2
    MaxVersion = 2
    MaxFaults = 0
SYMMETRY Symmetry
CHECK_DEADLOCK FALSE
INVARIANTS
    NoLateMiss
