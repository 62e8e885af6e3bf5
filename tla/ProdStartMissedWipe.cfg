SPECIFICATION Spec
CONSTANTS
    NoStamp = "none"
    Shapes <- MCShapes
    InitShape = "A"
    MaxBootAttempts = 2
    SettlePolls = 1
    ReadyPolls = 2
    WorkerFailLimit = 2
INVARIANT
    MissedWipeIsRetried
