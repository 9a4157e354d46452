CONSTANTS
    a = a
    b = b
    c = c
    NoNodeValue = NoNodeValue
    MaxCalls = 7
    Weighted = FALSE
SPECIFICATION MCCallerSpec
CONSTRAINT CallBound
INVARIANTS
    TypeOK
    LocatorMatchesRing
    TraversalComplete
    MemberShare
    NoHang
