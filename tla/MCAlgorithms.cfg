SPECIFICATION Spec
CONSTANTS
    MaxChars = 10
    OverlapChars = 4
    MinChars = 2
    None = None
    NoParent = NoParent
    NewChat = NewChat
    Whole <- MCWhole
    ForkOf <- MCForkOf
    Files <- MCFiles
    AllowedOrigins = {"spa"}
    RouteMap = {"chat"}
INVARIANTS
    ChunkingSound
    RowsFaithful
    AllHitsPaged
    RoutesAnswer
    FmspcFound
CHECK_DEADLOCK FALSE
