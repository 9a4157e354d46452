CONSTANTS
    a = a
    b = b
    c = c
    NoNodeValue = NoNodeValue
    MaxCalls = 5
    Weighted = FALSE
SPECIFICATION RefineCallerSpec
CONSTRAINT CallBound
PROPERTY
    RingRefinesAbstract
