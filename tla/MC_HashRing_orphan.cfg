CONSTANTS
    a = a
    b = b
    c = c
    NoNodeValue = NoNodeValue
    MaxCalls = 6
    Weighted = FALSE
SPECIFICATION MCCallerSpec
CONSTRAINT CallBound
INVARIANTS
    GetReturnsMember
