SPECIFICATION Spec
INVARIANTS
    TypeOK
    ReportedIffDifferent
