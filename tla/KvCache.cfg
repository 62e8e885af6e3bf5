SPECIFICATION Spec
CONSTANTS
    b1 = b1
    b2 = b2
    b3 = b3
    b4 = b4
    b5 = b5
    b6 = b6
    s1 = s1
    s2 = s2
    Null = Null
    Blocks <- MCBlocks
    Slots <- MCSlots
    Prompts <- MCPrompts
    Batch <- MCBatch
    Modes <- MCModes
SYMMETRY MCSymmetry
VIEW MCView
INVARIANTS
    TypeOK
    PoolIsConserved
    MarksAreCurrent
    NoStoreIsNeverServed
    CachedPagesAreReachable
    ObsoleteStatesAreFreed
PROPERTIES
    CachedIsSpentLast
    HitIsSpentLast
