SPECIFICATION ServerSpec
CONSTANTS
    Requests = {q1, q2, q3}
    Startup = startup
    NoOne = nobody
    SlotIds = {0, 2, 11}
    SlotVars <- MCSlotVars
    Word = 16
    KeyFiles <- MCKeyFiles
    KeyDigits = 2
INVARIANT FallbackIsValid
