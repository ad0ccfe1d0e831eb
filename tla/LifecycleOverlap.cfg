SPECIFICATION FairSpec
CONSTANTS
    Docs = {d1}
    Singles = {d1}
    Reqs = {r1, r2}
    Lambdas = {l1, l2}
    Seed = seed
    NoReq = noReq
    NKids = 1
    EditsOverlap = TRUE
    MaxFaults = 1
INVARIANTS
    RefusedLeavesNoTrace
    AckedIsRecorded
PROPERTIES
    EffectWithStatus
    EveryRequestEnds
