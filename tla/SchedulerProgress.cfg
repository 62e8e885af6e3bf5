SPECIFICATION FairSpec
CONSTANTS
    Req <- MCReq
    PromptIds <- MCShortPromptIds
    Page = 4
    HashPage = 2
    Budget = 4
    MaxRunning = 3
    Lptt = 4
    MixedCap = 0
    WarmTokens = 2
    MaxWait = 2
    LateCap = 1
    LateCapMax = 2
    Escalate = 1
    LateHorizon = 1
    AlignFloor = TRUE
    PartialHit = TRUE
    TailPage = 4
    TailTokens = 2
    TailSteps = 2
    TailScan = 2
    DeferFloor = 1
    MaxOut = 1
    MaxPreempt = 1
PROPERTIES
    PrefillCompletes
CHECK_DEADLOCK FALSE
