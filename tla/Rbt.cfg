SPECIFICATION Spec
CONSTANTS
    N = 7
    Null = Null
    Nodes <- MCNodes
    Key <- MCKey
INVARIANTS SearchTree ListInOrder
PROPERTY ImplementsSortedSet
