SPECIFICATION Spec
CONSTANTS
    Files <- MCFiles
    Kinds <- MCKinds
    Batches <- MCBatches
    Old = {"old"}
    MaxSends = 2
    None = "none"
INVARIANTS DocumentsAgree RemovedNotUsed NobodyForgotten
CHECK_DEADLOCK FALSE
