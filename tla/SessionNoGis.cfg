SPECIFICATION Spec
CONSTANTS
    Reqs = {r1, r2, r3}
    BootMark = boot
    MaxTokens = 2
    MaxLoads = 1
CHECK_DEADLOCK FALSE
INVARIANTS
    NeverWithoutGate
