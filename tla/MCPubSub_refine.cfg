CONSTANTS
    Texts <- MCTexts
    ResourceNames <- MCResourceNames
    LabelKeys <- MCLabelKeys
    Provisioners = {p1, p2}
    Fleets <- RefineFleets
    DryRuns <- AnyDryRun
    Endpoints <- OnEmulator
    Lives <- TwoProjects
    ByHand <- TwoByHand
    MaxFaults = 1
    MaxEdits = 1
    MaxReruns = 0
SPECIFICATION FairSpec
CHECK_DEADLOCK FALSE
PROPERTIES
    ImplementsReconciler
    EventuallyProvisioned
