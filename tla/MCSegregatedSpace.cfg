SPECIFICATION Spec
CONSTANTS
    SizeStep = 2
    BlockPayload = 12
    PreciseCutoff = 4
    HighVolume = 6
    Approximate = {4, 5}
    Word = 128
    BitsPerWord = 2
    BlockBytes = 16
    DataStart = 3
    StructSize = 3
    HeapStart = 24
    HeapSize = 57
    Requests = {3, 5}
    Steps <- RequestedSteps
    CellSize <- RequestedCellSize
    Granules <- BlockGranules
    NumBlocks <- TotalBlocks
    NoBlock = NoBlock
INVARIANTS
    BlocksOwnedOnce
    FreelistComplement
    OomOnlyWhenFull
    AllocatedIsLiveSize
PROPERTIES
    ImplementsCellHeap
