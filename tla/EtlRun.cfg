SPECIFICATION FairSpec
CONSTANTS
    Rows = {r1, r2, r3, r4}
    NoRow = none
    Workers = {w1, w2}
    JobsCap = 1
    ResultsCap = 1
    BatchSize = 2
INVARIANTS
    TypeOK
    ExactlyOnePlace
    AtMostOneCopy
    CountersAgree
    ReportCoversEveryRowFed
    ShutdownInOrder
    BatchWithinLimit
PROPERTIES
    TransferRefined
    Terminates
