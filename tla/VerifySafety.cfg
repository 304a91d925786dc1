SPECIFICATION Spec
CONSTANTS
    Records = {r1, r2, r3}
    NoRecord = none
    SemCap = 2
    Timings <- CodeTimings
SYMMETRY Symmetry
INVARIANTS
    TypeOK
    OneResultPerRecord
    NoPanic
    LastResortNotNeeded
PROPERTY ReportRefined
