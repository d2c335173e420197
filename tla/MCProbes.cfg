SPECIFICATION ProbeSpec
CONSTANTS
    File = {f}
    Thread = {t1, t2}
    MaxSize = 2
    MaxCopies = 2
    MaxVersions = 1
    Reader = {r1, r2}
    Length = 2
    MaxRange = 1
    MaxPosition = 3
    MaxWorkers = 2
    MaxRequests = 2
    MaxCommands = 2
    MaxDepth = 3
    MaxItems = 6
    MaxPathUnits = 12
    MaxRoots = 2
    Name = {0, 2, 3, 4}
    Node = {1, 2}
    MaxEntries = 2
    MaxFetch = 2
    Caller = {c1, c2}
    Download = {p1, p2}
    Size = 2
INVARIANTS OneVersionPerSource OfferedObjectIsPasteable SelectionIsCapturedExactly ReadsAreContiguous PasteSeesTheOffer
    ProbesEndClean
PROPERTIES CancelFreesWorkers
CHECK_DEADLOCK FALSE
