SPECIFICATION Spec
CONSTANTS
    Docs = {d1}
    Singles = {}
    Reqs = {r1, r2}
    Lambdas = {l1}
    Seed = seed
    NoReq = noReq
    NKids = 1
    EditsOverlap = TRUE
    MaxFaults = 0
INVARIANTS
    ChildrenWholeWithoutFaults
