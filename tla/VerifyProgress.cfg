SPECIFICATION FairSpec
CONSTANTS
    Records = {r1, r2}
    NoRecord = none
    SemCap = 1
    Timings <- BothOrders
PROPERTY VerificationEnds
