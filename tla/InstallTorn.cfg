SPECIFICATION Spec
CONSTANTS
    quotation = quotation
    item = item
    currency = currency
    Doctypes <- MCDoctypes
    NoType = noType
    FieldNames <- MCFieldNames
    Framework = framework
    Trees <- MCOneTree
    Commands <- MCApply
    Ops = {o1}
    Serial = TRUE
    MaxStarts = 3
    MaxCrashes = 1
CHECK_DEADLOCK FALSE
INVARIANTS
    ColumnsExist
