SPECIFICATION Spec
CONSTANTS
  TabStop = 2
  ShiftWidth = 1
  Window = 3
  Screens <- MCScreens
  Orders <- MCOrders
  Text <- LineChars
  MaxTyped = 1
  Answers <- MCAnswers
  Inputs <- MCInputs
  Scroll = 2
  MaxLines = 3
CHECK_DEADLOCK FALSE
INVARIANTS CalledAsMeant
PROPERTIES LinesGoWhereTold MarksFollow SubstituteIsReplace
