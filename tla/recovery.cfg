\* Two goroutines, three sectors, a folder of two slots, five calls and three
\* kills: the folder fills up, and a kill during the replay after a kill happens.
CONSTANTS
    Workers = {w1, w2}
    Roots = {r1, r2, r3}
    NumSlots = 2
    MaxAdds = 5
    MaxCrashes = 3
    None = None
    Torn = Torn

SPECIFICATION FairSpec

INVARIANT TypeOK
INVARIANT TestsHoldWhenSettled
INVARIANT FullyPresentOrAbsent
INVARIANT ReservationsAccounted
PROPERTY AddsAreAtomic
PROPERTY WalDrains
