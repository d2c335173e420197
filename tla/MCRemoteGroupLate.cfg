SPECIFICATION FairSpec
CONSTANTS
    NumSources = 1
    MaxReads = 2
    MaxOps = 3
    MaxLate = 1
    ReadBudget = 1
CONSTRAINT WithinBudget
INVARIANTS
    PauseReportIsTrue
    SessionsAreAccountedFor
PROPERTIES
    OperationsReturn
    CancelFreesReaders
CHECK_DEADLOCK FALSE
