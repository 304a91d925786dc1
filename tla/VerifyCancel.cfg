SPECIFICATION Spec
CONSTANTS
    Records = {r1, r2}
    NoRecord = none
    SemCap = 1
    Timings <- CodeTimings
INVARIANT CancelCollectsWhatThereIs
