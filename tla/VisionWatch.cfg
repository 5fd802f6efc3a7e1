SPECIFICATION Spec
CONSTANTS
    NumJobs = 2
    NumSamplers = 2
    Threshold = 3
    MaxCalls = 1
CHECK_DEADLOCK FALSE
INVARIANTS
    TypeOK
    FirstPrintWatched
    OldSamplersOneVote
PROPERTY
    FailedOnEvidence
