SPECIFICATION Spec
CONSTANTS
    Req <- MCReq
    PromptIds <- MCPromptIds
    Page = 4
    HashPage = 2
    Budget = 4
    MaxRunning = 3
    Lptt = 2
    MixedCap = 0
    WarmTokens = 0
    MaxWait = 0
    LateCap = 1
    LateCapMax = 2
    Escalate = 1
    LateHorizon = 1
    AlignFloor = TRUE
    PartialHit = TRUE
    TailPage = 4
    TailTokens = 2
    TailSteps = 2
    TailScan = 2
    DeferFloor = 1
    MaxOut = 1
    MaxPreempt = 1
INVARIANT
    DecodeNeverHeld
CHECK_DEADLOCK FALSE
