SPECIFICATION FairSpec
CONSTANTS
    Ids = {"a", "b"}
    NumTickets = 3
    MaxMessages = 2
    MaxStarts = 2
    MaxCancels = 1
CHECK_DEADLOCK FALSE
INVARIANTS
    TypeOK
    PrintedPerDelivery
    CancelledStaysAway
    PlacedIsKept
    CompletedMeansAllSent
PROPERTY
    JobsRunOut
