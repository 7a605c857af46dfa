SPECIFICATION FairSpec
CONSTANTS
    Default = default
    ToolModel = tool
    Models = {default, tool, tee, cloud}
    Attested = {default, tool, tee}
    Lists <- SomeLists
    Callers = {t1, p1}
    Turns = {t1}
    TTL = 1
    MaxTime = 2
    MaxSteps = 2
    MaxDeltas = 1
    SettingsSet <- EachKind
    NoList = NoList
    NoModel = NoModel
INVARIANTS StreamInOrder RoutedAsAllowed CacheFresh
PROPERTY TurnEnds
CHECK_DEADLOCK FALSE
