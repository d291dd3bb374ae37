\* Three keys, a chain of four blocks, one contract: who signs a revision.
CONSTANTS
    Keys = {kr, kh, ka}
    MaxHeight = 3
    MaxContracts = 1
    MaxRevision = 2
    BlockHeightBits = 8
    None = None
    Balances <- MCBalances
    Contracts <- MCContracts
    Revisions <- MCRevisions

SPECIFICATION Spec

PROPERTY RevisedByContractParties
