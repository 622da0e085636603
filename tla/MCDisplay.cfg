SPECIFICATION Spec
CONSTANTS
  Cols = 2
  MaxRows = 4
  Files <- MCFiles
  Lens <- MCLens
  Sizes = {2, 4}
  Counts = {1, 2}
  MaxChanges = 1
  Undoes = FALSE
CHECK_DEADLOCK FALSE
INVARIANTS MapTrue ScreenShowsMap CursorShown
