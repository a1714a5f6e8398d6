SPECIFICATION Spec
CONSTANTS
    k1 = k1
    k2 = k2
    k3 = k3
    Items = {x1, x2, x3}
    Keys = {k1, k2, k3}
    Values = {v1}
    HashFn <- MCHashFn
    Sizes = {1, 2}
    NoValue = NoValue
    FiniFails = TRUE
    NULL = NULL
    Junk = Junk
SYMMETRY MCSymmetry
INVARIANTS Accounted WellLinked DeathsExplained
PROPERTIES TraversalComplete ImplementsDict
CHECK_DEADLOCK FALSE
