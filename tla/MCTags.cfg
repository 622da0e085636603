SPECIFICATION Spec
CONSTANTS
  f1 = f1
  f2 = f2
  Temp = Temp
  Gone = Gone
  Null = Null
  File <- MCFile
  Tag <- MCTag
  Ctags <- MCCtags
  Screen = {1, 2}
  Lines = 2
  MaxStack = 3
  MaxCmds = 6
  Quirks = {}
CHECK_DEADLOCK FALSE
INVARIANTS StackSound
PROPERTIES Returns
