SPECIFICATION FairSpec
CONSTANTS
    Commands = {"c1"}
    JobReporter = "jobs"
    Publishers = {"c1", "jobs"}
    NumWords = 5
    Capacity = 2
    MaxLosses = 1
    MaxRefusals = 1
    NumReports = 2
CHECK_DEADLOCK FALSE
INVARIANTS
    TypeOK
    AnswersTrue
    OrderedUnlessCrossed
PROPERTIES
    ImplementsUplink
    AnsweredUnlessFull
