CONSTANTS
    Texts <- MCTexts
    BucketNames <- MCBucketNames
    Upper <- MCUpper
    Provisioners = {p1, p2}
    Fleets <- MCFleets
    DryRuns <- AnyDryRun
    Backends <- AllBackends
    Lives <- Lives1
    ByHand <- Hand
    MaxFaults = 1
    MaxEdits = 1
    MaxReruns = 1
SPECIFICATION FairSpec
CHECK_DEADLOCK FALSE
INVARIANTS
    StorageInv
    Converged
    RepeatSendsNothing
    WarningsAreReal
PROPERTIES
    ImplementsReconciler
    OnlyVersioningChanges
    EventuallyProvisioned
