CONSTANTS
    PageRoom = 6
    InternalSize = 2
    Overhead = 1
    RefLen = 1
    CountMod = 64
    MaxPages = 20
    Lens = {2, 7}
    Files <- MCFiles
    MaxCalls = 2
    MaxSyncs = 2
    Keys = {0, 3, 8, 10}
    FailAnywhere = FALSE
SPECIFICATION Spec
CHECK_DEADLOCK FALSE
INVARIANT TreeSound
PROPERTIES ImplementsRecords
