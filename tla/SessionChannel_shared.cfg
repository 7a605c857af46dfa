CONSTANTS
    d1 = d1
    d2 = d2
    a1 = a1
    a2 = a2
    Devices = {d1, d2}
    Accounts = {a1}
    Owner <- SharedOwner
    Turns = {t1}
    MaxHandshakes = 2
    MaxProcesses = 2
    MaxDeltas = 2
    RelayFaithful = TRUE
    NoSession = NoSession
    NoKey = NoKey
SPECIFICATION FairSpec
INVARIANTS
    TypeOK
    LostOnlyIfReplaced
PROPERTIES
    TurnEnds
    InstallsFreshKeys
CHECK_DEADLOCK FALSE
