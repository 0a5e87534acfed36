SPECIFICATION Spec
CONSTANTS
    o1 = o1
    o2 = o2
    f = f
    datum = datum
    getter = getter
    Objects = {o1, o2, f}
    Values = {o1, o2, f, datum}
    Functions = {getter}
    Undefined = Undefined
    Names = {n1}
    Descriptors <- SomeDescriptors
    Constructors = {f}
    Prototype = n1
    NoObject = NoObject
INVARIANTS
    FollowsEcmaOtherwise
PROPERTIES
    EssentialInvariants
