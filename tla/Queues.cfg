SPECIFICATION MCSpec
CONSTANTS
    Queues = {q1, q2}
    Entries = {e1, e2, e3}
    Null = Null
    Lists = {l1, l2}
    MaxLen = 3
    Cells = 4
    MaxFails = 2
    MaxRing = 4
INVARIANTS WellLinked ReadersTruthful SinglyLinked ListSound WalksRound
