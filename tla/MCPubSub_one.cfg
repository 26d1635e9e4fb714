CONSTANTS
    Texts <- MCTexts
    ResourceNames <- MCResourceNames
    LabelKeys <- MCLabelKeys
    Provisioners = {p1}
    Fleets <- OneFleet
    DryRuns <- AnyDryRun
    Endpoints <- BothEndpoints
    Lives <- OneProject
    ByHand <- OneByHand
    MaxFaults = 1
    MaxEdits = 1
    MaxReruns = 1
SPECIFICATION Spec
CHECK_DEADLOCK FALSE
INVARIANTS
    OnlyFaultsFail
    Converged
    RepeatSendsNothing
    WarningsArePrecise
PROPERTIES
    OmittedFieldsKept
