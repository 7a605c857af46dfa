SPECIFICATION Spec
CONSTANTS
    Seeds = {A, B}
    MaxUnlocks = 2
    Turns = {t1}
    MaxSubagents = 0
    Docs = {d1}
    Overlap = FALSE
    None = None
INVARIANT RowsOfOwner
CHECK_DEADLOCK FALSE
