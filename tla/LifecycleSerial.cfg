SPECIFICATION Spec
CONSTANTS
    Docs = {d1}
    Singles = {}
    Reqs = {r1, r2, r3, r4}
    Lambdas = {l1}
    Seed = seed
    NoReq = noReq
    NKids = 2
    EditsOverlap = FALSE
    MaxFaults = 1
SYMMETRY Symmetry
INVARIANTS
    TypeOK
    LedgerMatchesStatus
    ChildrenWholeWithoutFaults
PROPERTIES
    SubmittedImmutable
    ImplementsDocMachine
