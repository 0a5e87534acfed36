SPECIFICATION Spec
CONSTANTS
    plain = plain
    nested = nested
    setter = setter
    Values = {plain, nested}
    Functions = {setter}
    Undefined = Undefined
    Empty = Empty
    MaxVector = 2
    MaxU32 = 7
    SparseStep = 4
    Threshold = 4
    StringOrder <- MCStringOrder
    EmptyString <- MCEmptyString
    Contents <- MCContents
    MaxItems = 5
    MaxWeight = 2
    Prototypes <- MCPrototypes
    AllIndices <- MCIndices
    SomeIndices <- MCSomeIndices
    AllLengths <- MCLengths
    SomeLengths <- MCSomeLengths
    AllDescriptors <- MCDescriptors
    SomeDescriptors <- MCSomeDescriptors
    Comparators <- MCComparators
    Offset = 256
    Tags = 16
    TwoTo32 = 8
    NativeShift = 32
    Infinity = 1400
    PureNan = 1420
    Precision = 128
    NarrowSizes = {2, 4}
INVARIANTS
    StraysExplained
    PrimitivesAgree
    MethodsAgree
    SortAgrees
    ResultsAgree
PROPERTY IntegrityHolds
CHECK_DEADLOCK FALSE
