SPECIFICATION FairSpec
CONSTANTS
    quotation = quotation
    item = item
    currency = currency
    Doctypes <- MCDoctypes
    NoType = noType
    FieldNames <- MCFieldNames
    Framework = framework
    Trees <- MCTrees
    Commands <- MCCommands
    Ops = {o1}
    Serial = TRUE
    MaxStarts = 3
    MaxCrashes = 1
CHECK_DEADLOCK FALSE
INVARIANTS
    TypeOK
    PlanIsClosure
PROPERTIES
    NeverDowngraded
    UpgradeHasColumns
    FinishedIsClosed
    FinishedIsAnnounced
    EveryRunEnds
