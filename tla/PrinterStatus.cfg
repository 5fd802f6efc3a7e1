SPECIFICATION FairSpec
CONSTANTS
    NumJobs = 2
    MaxCalls = 2
    MaxOutages = 1
CHECK_DEADLOCK FALSE
INVARIANTS
    TypeOK
    IdleClaimRecent
    OfflineOnceMore
PROPERTY
    SettledReport
