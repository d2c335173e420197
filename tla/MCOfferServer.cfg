SPECIFICATION ServerSpec
CONSTANTS
    MaxOffset = 7
    MaxTrackedRanges = 3
    Connection = {c1, c2, c3}
    MaxWorkers = 2
INVARIANTS
    CountIsExact
    SlotsAreCounted
PROPERTIES
    ProgressNeverDecreases
    StopReturns
CHECK_DEADLOCK FALSE
