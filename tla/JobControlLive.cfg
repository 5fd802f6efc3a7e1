SPECIFICATION FairSpec
CONSTANTS
    a = a
    b = b
    Jobs = {a}
    NumLines <- JustTwo
    MaxCrashes = 1
    StoreMayFail = TRUE
    NoJob = NoJob
CHECK_DEADLOCK FALSE
PROPERTY SlotFreed
