SPECIFICATION FairSpec
CONSTANTS
    Reqs = {r1, r2, r3}
    BootMark = boot
    MaxTokens = 2
    MaxLoads = 2
CHECK_DEADLOCK FALSE
INVARIANTS
    TypeOK
    ListenersAreWaiters
    GateIffSignedOut
    SignInOffered
PROPERTIES
    RetryIsFresh
    EveryRequestSettles
