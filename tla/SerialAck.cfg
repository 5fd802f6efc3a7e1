SPECIFICATION Spec
CONSTANTS
    NumCmds = 4
    MaxRetries = 2
    AckSize = 2
    MaxLosses = 2
    MaxReports = 2
CHECK_DEADLOCK FALSE
INVARIANT OkMeansExecuted
