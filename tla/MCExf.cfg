CONSTANTS
    t0 = t0
    t1 = t1
    Text = {t0, t1}
    Blank = t0
    MarkName = {m}
    AbsMark = m
    InitFiles <- Files
    MaxLines = 2
    MaxLog = 7
SPECIFICATION Spec
VIEW Visible
CONSTRAINT RegularOnly
INVARIANTS UndoIsExact UndoStaysPossible MarksInFile IndInv
PROPERTIES CursorRestoredInFile LoggedEditKeepsCache
