SPECIFICATION Spec
CONSTANTS
  Chars <- MCChars
  Other <- MCOther
  Classes <- MCClasses
  Word <- MCWord
  Atoms <- MCAtoms
  Bounds <- MCBounds
  Pieces <- MCPieces
  Flags <- MCFlags
  Lines <- MCLines
  DupMax = 255
  MaxRecursion = 3
  MaxNodes = 4
  MaxPlain = 5
  MaxPieces = 4
  Quirks = {}
INVARIANTS StripSound LeftmostLongest GroupsExplain
CHECK_DEADLOCK FALSE
