CONSTANTS
    Texts <- MCTexts
    LabelKeys = {}
    ResourceNames = {"orders", "worker"}
    BucketNames = {"assets"}
    Upper <- MCUpper
    Accounts = {}
    ProjectIDs = {"other"}
    AbsoluteURIs = {}
    KeyFiles = {"file"}
    Target <- MCTarget
    p1 = p1
    p2 = p2
    k1 = k1
    k2 = k2
    Pairs = {k1, k2}
    LongPairs = {k2}
    Provisioners = {p1, p2}
    Inputs <- MCInputs
    PubSubLives <- NoTopics
    StorageLives <- NoTopics
    Volumes <- NoVolume
    Endpoints <- OnEmulator
    Backends <- InMemory
    MaxFaults = 1
SPECIFICATION FairStack
CHECK_DEADLOCK FALSE
INVARIANTS
    NeverNil
    ExitZeroMeansDone
    OneProject
PROPERTIES
    OnlyWhatIsAsked
    NeverFailsByItself
    EventuallyExitsZero
