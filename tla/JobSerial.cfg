SPECIFICATION Spec
CONSTANTS
    Clients = {c1, c2}
    Lambdas = {l1}
    Patches <- MCPatches
    SeedStops = {0, 3}
    Null = null
    Keep = keep
    Unloaded = unloaded
    NoClient = noClient
    Overlap = FALSE
    MaxLog = 6
    MaxUpdates = 2
    MaxFaults = 1
SYMMETRY Symmetry
VIEW Unread
INVARIANTS
    TypeOK
    LogTellsStatus
    ScheduledIsPaid
PROPERTIES
    ImplementsJobMachine
