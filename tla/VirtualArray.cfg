\* An array of three or four rows behind a window of one or more.
CONSTANTS
    Heights = {3, 4}
    Accesses = {1, 2}
    Values = {Zero, Junk, A}
    Zero = Zero
    Junk = Junk
    Unwritten = Unwritten
    HasBackingStore = TRUE
SPECIFICATION Spec
INVARIANTS
    TypeOK
    NoHoles
PROPERTY RowsSurvive
CHECK_DEADLOCK FALSE
