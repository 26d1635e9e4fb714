CONSTANTS
    Texts <- MCTexts
    Accounts <- MCAccounts
    AbsoluteURIs <- MCURIs
    Files <- MCFiles
    Target <- MCTarget
    Pairs <- MCPairs
    LongPairs <- MCLong
    k1 = k1
    k2 = k2
    k3 = k3
    k4 = k4
    k5 = k5
    Provisioners = {p1}
    Fleets <- OneFleet
    DryRuns <- AnyDryRun
    Volumes <- MCVolumes
    MaxFaults = 2
    MaxReruns = 1
SPECIFICATION FairSpec
CHECK_DEADLOCK FALSE
INVARIANTS
    CredentialsInv
    LoadedKeyKept
    KeyFilesServed
PROPERTIES
    ApplicationsStart
