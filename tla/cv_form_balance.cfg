\* Two keys, a chain of four blocks, one contract: the renter's balance check.
CONSTANTS
    Keys = {kr, kh}
    MaxHeight = 3
    MaxContracts = 1
    MaxRevision = 2
    BlockHeightBits = 8
    None = None
    Balances <- MCBalances
    Contracts <- MCContracts
    Revisions <- MCRevisions

SPECIFICATION Spec

INVARIANT RenterRejectedOnlyWhenShort
