CONSTANTS
    Ints <- MCInts
    MaxSlice = 2
SPECIFICATION Spec
INVARIANTS
    TypeOK
    RegisteredRoundTrip
    SliceHelpersMatchSets
