CONSTANTS
    a = a
    b = b
    c = c
    NoNodeValue = NoNodeValue
    MaxCalls = 4
    Weighted = FALSE
SPECIFICATION MCCallerSpec
CONSTRAINT CallBound
INVARIANTS
    SetNodesKeepsRetained
