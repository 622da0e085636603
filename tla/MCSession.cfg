CONSTANTS
    Name = {a, b}
    ReadOnly = {}
    Unreadable = {}
    Tmp = {"t1", "t2"}
    Null = Null
    MaxScr = 2
    MaxFref = 3
    MaxExf = 2
    MaxCmds = 4
    Autowrite = FALSE
SYMMETRY Alike
SPECIFICATION Spec
CHECK_DEADLOCK FALSE
INVARIANTS NothingLost NoOverwrite 
PROPERTIES FailureKeepsFiles
