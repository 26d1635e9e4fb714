CONSTANTS
    c1 = c1
    c2 = c2
    Clients = {c1, c2}
    Requests <- MCRequests
    Settings <- MCSettings
SPECIFICATION FairSpec
CHECK_DEADLOCK FALSE
INVARIANTS
    StubInv
    GracefulExit
PROPERTIES
    EndsWhenItMust
