SPECIFICATION Spec
CONSTANTS
    v1 = v1
    v2 = v2
    v3 = v3
    d1 = d1
    d2 = d2
    n1 = n1
    None = None
    Vol <- OneDisk
    HasUuid <- WithUuid
    Dev <- Name1
    Nfs <- NoNames
    Kinds <- PlainKinds
    Contents0 <- AnyContent
    Faults <- NoFaults
INVARIANTS
    FstabNamesRoot
