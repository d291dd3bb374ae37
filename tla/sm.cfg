\* Two callers making two calls each beside one Close, on two sectors and two
\* folders of two slots.
CONSTANTS
    Workers = {w1, w2}
    Closers = {c1}
    Roots = {r1, r2}
    FolderIds = {0, 1}
    NumSlots = 2
    MaxCalls = 2
    SectorSalt = salt
    None = None

SPECIFICATION FairSpec

INVARIANT TypeOK
INVARIANT SlotsAccountedFor
INVARIANT RefCountMatchesAdds
INVARIANT ReadReturnsOwnData
PROPERTY DrainedWhenCloseReturns
PROPERTY CloseReturns
PROPERTY EveryCallReturns
