CONSTANTS
    m1 = m1  m2 = m2  k1 = k1  A1 = A1  F1 = F1
    MapIds = {m1, m2}
    Keys = {k1}
    Vals = {1, 2}
    Names = {""}
    ZeroName = ""
    CallerArrs <- MCCallerArrs
    FreshArrs = {F1}
    CallerSlices <- MCCallerSlices
    MaxOpts = 2
    NilMap = NilMap  NilArr = NilArr  None = None
SPECIFICATION Spec
INVARIANTS
    CallerArraysUnchangedByAppend
