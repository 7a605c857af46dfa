SPECIFICATION MCSpec
CONSTANTS
    A = A
    c1 = c1
    i1 = i1
    Seeds = {A}
    Convos = {c1, c2, c3}
    History <- OneConversation
    MaxTurns = 2
    Ticks = 2
    MaxUnlocks = 2
    None = None
    Panels = {"agents", "default", "memories", "skills"}
    Ids = {i1, i2}
    Fields = {"name", "tools"}
    MaxEdits = 2
    Opens = {p1, p2}
    TTL = 1
    MaxTime = 2
    MaxLists = 2
    Fallback = Fallback
INVARIANTS
    SidebarKept
    LibraryAgrees
    PickerFresh
PROPERTIES
    LiveWins
    PollsCatchUp
CHECK_DEADLOCK FALSE
