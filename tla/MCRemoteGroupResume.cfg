SPECIFICATION Spec
CONSTANTS
    NumSources = 1
    MaxReads = 2
    MaxOps = 2
    MaxLate = 0
    ReadBudget = 1
CONSTRAINT WithinBudget
INVARIANTS
    ResumeReportIsTrue
CHECK_DEADLOCK FALSE
