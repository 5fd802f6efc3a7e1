SPECIFICATION Spec
CONSTANTS
    a = a
    b = b
    Jobs = {a, b}
    NumLines <- OneOne
    MaxCrashes = 0
    StoreMayFail = FALSE
    NoJob = NoJob
CHECK_DEADLOCK FALSE
PROPERTY EndedStaysEnded
