SPECIFICATION Spec
CONSTANTS
    Docs <- MCDocs
    Values <- MCValues
    Keys <- MCKeys
INVARIANTS IgnoreTakesTheValue BracketsMatchCalls NoFalseReject EachElementOnce
PROPERTY ParseEnds
