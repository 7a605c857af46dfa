SPECIFICATION FairSpec
CONSTANTS
    Seeds = {A, B}
    MaxUnlocks = 2
    Turns = {t1}
    MaxSubagents = 2
    Docs = {d1}
    Overlap = TRUE
    None = None
INVARIANTS TabIsOneIdentity SentAsAuthor
PROPERTY SubmissionEnds
CHECK_DEADLOCK FALSE
