SPECIFICATION Spec
CONSTANTS
    a = a
    b = b
    Jobs = {a, b}
    NumLines <- TwoOne
    MaxCrashes = 1
    StoreMayFail = FALSE
    NoJob = NoJob
CHECK_DEADLOCK FALSE
INVARIANTS
    TypeOK
    SingleStreamer
    WaitingJobsSafe
    ReplayWindow
    PromptStop
    HeldJobResumable
PROPERTIES
    WithdrawnNeverStarts
    LinesInOrder
