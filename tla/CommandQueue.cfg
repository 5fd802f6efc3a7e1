SPECIFICATION FairSpec
CONSTANTS
    c1 = c1
    c2 = c2
    c3 = c3
    Cmds = {c1, c2, c3}
    Silent = {c3}
    Capacity = 2
    NoCmd = NoCmd
CHECK_DEADLOCK FALSE
INVARIANTS
    TypeOK
    WokenIsSettled
    NoneForgotten
PROPERTIES
    ImplementsService
    AcceptedGetsSettled
    StopEndsWorker
