CONSTANTS
    a = a
    b = b
    c = c
    NoNodeValue = NoNodeValue
    MaxCalls = 3
    Weighted = TRUE
SPECIFICATION MCCallerSpec
CONSTRAINT CallBound
INVARIANTS
    NoHang
