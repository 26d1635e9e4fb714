CONSTANTS
    Texts <- MCTexts
    ResourceNames <- MCResourceNames
    LabelKeys <- MCLabelKeys
    Provisioners = {p1}
    Fleets <- SettingsFleet
    DryRuns <- RealRuns
    Endpoints <- OnCloud
    Lives <- RichProject
    ByHand <- NoByHand
    MaxFaults = 0
    MaxEdits = 0
    MaxReruns = 0
SPECIFICATION Spec
CHECK_DEADLOCK FALSE
PROPERTIES
    OmittedSettingsKept
