SPECIFICATION Spec
CONSTANTS
    Boot <- BootOrder
    Recipes <- MCRecipes
    Spoils <- SpoiledBy
    FlagSets <- MCFlagSets
    Images <- MCImages
    Drifts <- MCDrifts
INVARIANTS
    TypeOK
    RefusalLeavesNoTrace
    RefusalHasCause
PROPERTY
    ImplementsContract
