SPECIFICATION Spec
CONSTANTS
    d1 = d1
    d2 = d2
    getter = getter
    Objects = {o1, o2, o3}
    Values = {d1, d2}
    Functions = {getter}
    Undefined = Undefined
    Names = {n1, n2}
    Descriptors <- Getter
    Constructors = {}
    Prototype = prototype
    NoObject = NoObject
    NumStructures = 5
    FirstCapacity = 1
    Sites = {n1}
    None = None
    Hole = Hole
CONSTRAINT Scope
INVARIANTS
    StructuresSound
    CachesCoherent
PROPERTIES
    ImplementsObjects
SYMMETRY Symmetry
