CONSTANTS
    Texts <- MCTexts
    Accounts <- MCAccounts
    AbsoluteURIs <- MCURIs
    Files <- MCFiles
    Target <- MCTarget
    Pairs <- MCPairs
    LongPairs <- MCLong
    k1 = k1
    k2 = k2
    k3 = k3
    k4 = k4
    k5 = k5
    Provisioners = {p1}
    Fleets <- CreateFleet
    DryRuns <- RealRuns
    Volumes <- Empty
    MaxFaults = 1
    MaxReruns = 0
SPECIFICATION Spec
CHECK_DEADLOCK FALSE
INVARIANTS
    KeyFilesParse
