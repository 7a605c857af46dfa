CONSTANTS
    Seeds = {s1, s2}
    Turns = {t1}
    MaxDeltas = 3
    MaxUnlocks = 3
    None = None
SPECIFICATION Spec
INVARIANTS StoredAsOpened TurnsOfOwner
PROPERTIES SilentAfterCleanup TurnSettles
CHECK_DEADLOCK FALSE
