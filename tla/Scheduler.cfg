SPECIFICATION Spec
CONSTANTS
    Req <- MCReq
    PromptIds <- MCShortPromptIds
    Page = 4
    HashPage = 2
    Budget = 4
    MaxRunning = 2
    Lptt = 2
    MixedCap = 0
    WarmTokens = 1
    MaxWait = 2
    LateCap = 1
    LateCapMax = 2
    Escalate = 1
    LateHorizon = 1
    AlignFloor = TRUE
    PartialHit = TRUE
    TailPage = 4
    TailTokens = 2
    TailSteps = 2
    TailScan = 2
    DeferFloor = 1
    MaxOut = 2
    MaxPreempt = 1
INVARIANTS
    TypeOK
    DecodeNeverHeld
    ServiceBound
    MarkIsOfAdmission
CHECK_DEADLOCK FALSE
