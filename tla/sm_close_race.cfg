\* One caller, one call, one Close: the smallest race of a call with Close.
CONSTANTS
    Workers = {w1}
    Closers = {c1}
    Roots = {r1}
    FolderIds = {0}
    NumSlots = 1
    MaxCalls = 1
    SectorSalt = salt
    None = None

SPECIFICATION Spec

INVARIANT NoOperationAfterClose
