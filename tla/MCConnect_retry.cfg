CONSTANTS
    ProbeLimits <- MCProbeLimits
    AnswerTime = 1
    ReadyTimes <- MCReadyTimes
SPECIFICATION FairSpec
CHECK_DEADLOCK FALSE
INVARIANTS
    ConnectInv
    StopsInTime
    AttemptsNeverRunOut
    ComesUpInTime
PROPERTIES
    EventuallyEnds
