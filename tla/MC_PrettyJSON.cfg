CONSTANTS
    Bytes = {38, 60, 62, 97, 128, 168, 169, 226}
    MaxLen = 4
SPECIFICATION Spec
CHECK_DEADLOCK FALSE
INVARIANTS
    TypeOK
    EscapeMatchesReference
    OutputHTMLSafe
