SPECIFICATION Spec
CONSTANTS
    Docs = {d1}
    Singles = {}
    Reqs = {r1, r2}
    Lambdas = {l1, l2}
    Seed = seed
    NoReq = noReq
    NKids = 1
    EditsOverlap = FALSE
    MaxFaults = 0
INVARIANTS
    EffectOnce
