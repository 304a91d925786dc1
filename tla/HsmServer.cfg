SPECIFICATION FairServerSpec
CONSTANTS
    Requests = {q1, q2, q3}
    Startup = startup
    NoOne = nobody
    SlotIds = {0, 2, 11}
    SlotVars <- MCSlotVars
    Word = 16
    KeyFiles <- MCKeyFiles
    KeyDigits = 2
INVARIANTS
    TypeOK
    OwnOperation
    SessionLeftIdle
    InnerLockNeverWaits
    StartTypeOK
    NothingLeftOpen
    WantedSlotUsed
    KeyFileRead
PROPERTY EveryRequestAnswered
