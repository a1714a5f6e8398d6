SPECIFICATION Spec
CONSTANTS
    Docs <- MCDocs
    Strings <- MCStrings
    Keys <- MCKeys
    BoolPairs = {}
    MaxCalls = 6
INVARIANTS CallsMatchCallbacks ConsistentIsWhole PackedIsRead
PROPERTY ParseEnds
