\* Two client goroutines that begin two negotiations between them.
CONSTANTS
    Clients = {c1, c2}
    MaxSessions = 2
    ChanCap = 1
    Requests <- MCRequests

SPECIFICATION FairSpec

INVARIANT TypeOK
INVARIANT AnswersOwnRequest
INVARIANT ReadLoopNeverBlocked
PROPERTY GuardsAreTryLocks
PROPERTY GuardsGivenBack
