SPECIFICATION MCSpec
CONSTANTS
    Elsz = 3
    Small = 8
    SmallBits = 3
    MaxLen = 6
    ArrayLen = 4
    Nothing = Nothing
    Values = {1, 2, 3}
    Keys = {k1, k2, k3}
    Width = 2
    Depth = 2
    Thresh = 2
    MinThresh = 1
    MaxLines = 3
INVARIANTS RoomForAll CalledInTurn PopularKept
PROPERTY ImplementsPriorityQueue
