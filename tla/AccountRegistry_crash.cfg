SPECIFICATION RegistrySpec
CONSTANTS
    Accounts = {a1, a2, a3}
    Kems = {k1, k2}
    MaxCrashes = 2
    None = None
    Torn = Torn
    NoFile = NoFile
INVARIANTS RegistryTypeOK NeverTorn CreatedIsDurable
PROPERTY RecordsPersist
CHECK_DEADLOCK FALSE
