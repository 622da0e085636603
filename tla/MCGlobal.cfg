CONSTANTS
    MaxLines = 3
    MaxDepth = 3
    Cmds = 1
    MaxEdits = 2
SPECIFICATION Spec
INVARIANTS RangesSound StackSound
 
