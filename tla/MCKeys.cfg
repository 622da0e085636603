CONSTANTS
    Keys = {0, 1, 2, 3, 4}
    Digits = {1}
    Words = {1, 2, 3}
    Escape = 0
    Leftovers = {4}
    Entries <- MCEntries
    Pushes <- MCPushes
    Remap = {TRUE, FALSE}
    PushShift = 1
    MinGrow = 2
    CheckEvery = 3
    MaxExpansion = 3
    MaxTyped = 2
    MaxEntries = 2
    MaxQueue = 3
SPECIFICATION Spec
INVARIANTS BufferHolds MapsAreFound
PROPERTIES  InterruptStopsMacro
CHECK_DEADLOCK FALSE
