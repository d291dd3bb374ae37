\* One caller, one call, two goroutines that call Close.
CONSTANTS
    Workers = {w1}
    Closers = {c1, c2}
    Roots = {r1}
    FolderIds = {0}
    NumSlots = 1
    MaxCalls = 1
    SectorSalt = salt
    None = None

SPECIFICATION FairSpec

PROPERTY CloseReturns

\* The second Close stops for good at the send on stopChan.
CHECK_DEADLOCK FALSE
