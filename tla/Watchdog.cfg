SPECIFICATION FairSpec
CONSTANTS
    FailThreshold = 2
    StallThreshold = 2
    Grace = 1
    LoadGrace = 1
    MinHealInterval = 3
    MaxRun = 1
    MaxKills = 1
INVARIANTS
    TypeOK
    StallsAreReal
    BouncesAreSpaced
    OperatorStopIsFinal
PROPERTIES
    DownIsHealed
    WedgeIsHealed
