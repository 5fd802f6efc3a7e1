SPECIFICATION FairSpec
CONSTANTS
    NumCmds = 4
    MaxRetries = 2
    AckSize = 2
    MaxLosses = 2
    MaxReports = 1
CHECK_DEADLOCK FALSE
INVARIANTS
    TypeOK
    OutstandingBound
    PrematureBound
    LossNoticed
PROPERTY EachEnds
