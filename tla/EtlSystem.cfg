SPECIFICATION Spec
CONSTANTS
    Rows = {r1, r2}
    Values <- MCValues
    Keys = {k1, k2}
    None = none
    SafeLimit = 1
    MaxChanges = 1
    MaxKeyChanges = 1
    MaxRuns = 2
SYMMETRY Symmetry
INVARIANTS
    TypeOK
    PerfectIsTrue
    NoFalseAlarm
    SummaryAgrees
    StoredIsFound
