SPECIFICATION Spec
CONSTANTS
    NumSources = 2
    MaxReads = 2
    MaxOps = 2
    MaxLate = 0
    ReadBudget = 1
CONSTRAINT WithinBudget
INVARIANTS
    CancelCoversTheGroup
CHECK_DEADLOCK FALSE
