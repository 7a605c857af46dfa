SPECIFICATION FairSpec
CONSTANTS
    Seeds = {s1}
    MaxTries = 2
    MaxFaults = 1
    None = None
INVARIANTS
    OnlyOnEvidence
    CookiesStay
PROPERTY UnlockSettles
