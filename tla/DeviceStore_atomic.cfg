CONSTANTS
    Keys = {k1}
    chat = chat
    library = library
    Calls = {chat, library}
    Ops <- MCOps
    MaxWork = 4
    MaxTime = 2
    NoKey = nokey
SPECIFICATION Spec
INVARIANTS TablesSound NoCallForgotten
PROPERTIES AtomicStore
CHECK_DEADLOCK FALSE
