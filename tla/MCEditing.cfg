SPECIFICATION Spec
CONSTANTS
  Texts <- MCTexts
  Few <- MCFew
  Counts <- MCCounts
  Named = {"a", "A"}
  NamedD = {}
  NumBufs = 2
  MaxCmds = 3
  MoveKeys <- MCKeys
  OpKeys <- MCKeys
  CommonOnly = TRUE
CHECK_DEADLOCK FALSE
INVARIANTS PlacesInFile CutBuffersHold RegionSound WordsLandRight
