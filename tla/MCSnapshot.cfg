CONSTANTS
    Realms <- MCRealms
    Natives <- NativeTable
    OtherSymbols <- MCOtherSymbols
    MaxContexts = 3
    MaxCells = 48
    Overwritten = {1}
    MaxRegistered = 1
INVARIANTS
    ContextsDisjoint
    RestoredWhole
    
SPECIFICATION Spec
CHECK_DEADLOCK FALSE
