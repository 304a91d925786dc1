SPECIFICATION Spec
CONSTANTS
    Rows = {r1, r2, r3}
    NoRow = none
    Workers = {w1, w2}
    JobsCap = 1
    ResultsCap = 1
    BatchSize = 2
SYMMETRY Symmetry
INVARIANT ExitZeroMeansAllTransferred
