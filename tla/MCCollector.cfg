SPECIFICATION Spec
CONSTANTS
    Small = {a, b}
    Large = {l}
    None = None
    InitThreshold = 2
    MaxDefers = 1
    MaxFields = 1
    MaxPersistent = 2
    SizeStep = 16
    BlockPayload = 16352
    PreciseCutoff = 80
    HighVolume = 256
    Approximate = {80, 112, 156, 219, 307, 430, 602, 843, 1180, 1652, 2314, 3239, 4535, 6349}
    Word = 2147483647
    BitsPerWord = 64
    BlockBytes = 16384
    DataStart = 24
    StructSize = 24
    HeapStart = 4096
    HeapSize = 1048576
SYMMETRY SmallSymmetry
INVARIANTS
    NoDangling
    WeakTargetsLive
    WeakListExact
PROPERTIES
    ClearedOnlyWhenFreed
    GarbageDeleted
