SPECIFICATION Spec
CONSTANTS
    NumJobs = 2
    MaxCalls = 2
    MaxOutages = 1
CHECK_DEADLOCK FALSE
PROPERTY
    TemperatureBringsIdle
