SPECIFICATION Spec
CONSTANTS
    prototype = prototype
    f = f
    getter = getter
    Objects = {f, o1, o2, o3}
    Values = {f, o1, o2, o3}
    Functions = {getter}
    Undefined = Undefined
    Names = {prototype}
    Descriptors <- ReadOnly
    Constructors = {f}
    Prototype = prototype
    NoObject = NoObject
    NumStructures = 4
    FirstCapacity = 1
    Sites = {prototype}
    None = None
    Hole = Hole
CONSTRAINT PutSite
PROPERTIES
    ConstructMapCurrent
    ImplementsObjects
SYMMETRY Symmetry
