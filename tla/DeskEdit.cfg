SPECIFICATION Spec
CONSTANTS
    Names = {j1, j2}
    NoName = none
    MaxState = 2
    MaxRenders = 3
CHECK_DEADLOCK FALSE
INVARIANTS
    EditShowsForm
