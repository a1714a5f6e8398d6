SPECIFICATION MCSpec
CONSTANTS
    TREE_DEPTH = 4
    Keys <- MCKeys
    Null = Null
    Width = 3
    PKeys = {1, 4, 5, 6}
    Cells = {1, 2, 3, 4, 5, 6, 7, 8, 9, 10}
INVARIANTS WellLinked Nearest Kept
PROPERTY TidyUp
CHECK_DEADLOCK FALSE
