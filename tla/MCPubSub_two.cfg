CONSTANTS
    Texts <- MCTexts
    ResourceNames <- MCResourceNames
    LabelKeys <- MCLabelKeys
    Provisioners = {p1, p2}
    Fleets <- TwoFleets
    DryRuns <- AnyDryRun
    Endpoints <- BothEndpoints
    Lives <- TwoProjects
    ByHand <- TwoByHand
    MaxFaults = 1
    MaxEdits = 1
    MaxReruns = 0
SPECIFICATION Spec
CHECK_DEADLOCK FALSE
INVARIANTS
    SectionInv
    TopicsComeFirst
    Converged
PROPERTIES
    SeenLabelsKept
    NeverSetBack
