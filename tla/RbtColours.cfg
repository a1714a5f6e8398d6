SPECIFICATION Spec
CONSTANTS
    N = 7
    Null = Null
    Nodes <- MCNodes
    Key <- MCKey
INVARIANT NoRedRed
