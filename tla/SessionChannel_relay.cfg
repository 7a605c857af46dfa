CONSTANTS
    d1 = d1
    d2 = d2
    a1 = a1
    a2 = a2
    Devices = {d1, d2}
    Accounts = {a1, a2}
    Owner <- SeparateOwner
    Turns = {t1, t2}
    MaxHandshakes = 1
    MaxProcesses = 2
    MaxDeltas = 2
    RelayFaithful = FALSE
    NoSession = NoSession
    NoKey = NoKey
SPECIFICATION Spec
INVARIANTS
    SessionOwnership
    TurnConfidential
CHECK_DEADLOCK FALSE
