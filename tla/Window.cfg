SPECIFICATION FairSpec
CONSTANTS
    Arms <- MCArms
    Tolerated <- MCTolerated
INVARIANTS
    TypeOK
    FailureIsUndone
    DebtsAreOnFile
    ArmsAreUndisturbed
PROPERTIES
    EvidenceIsOfItsArm
    NoStartOverProfiler
    RunnerEnds
