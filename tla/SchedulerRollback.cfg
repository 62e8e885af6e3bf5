SPECIFICATION Spec
CONSTANTS
    Req <- MCReq
    PromptIds <- MCPromptIds
    Page = 4
    HashPage = 2
    Budget = 8
    MaxRunning = 3
    Lptt = 4
    MixedCap = 1
    WarmTokens = 2
    MaxWait = 2
    LateCap = 1
    LateCapMax = 2
    Escalate = 1
    LateHorizon = 1
    AlignFloor = FALSE
    PartialHit = TRUE
    TailPage = 4
    TailTokens = 2
    TailSteps = 2
    TailScan = 2
    DeferFloor = 1
    MaxOut = 1
    MaxPreempt = 1
PROPERTY
    AdmissionReusesPrefix
CHECK_DEADLOCK FALSE
