SPECIFICATION FairSpec
CONSTANTS
    v1 = v1
    v2 = v2
    v3 = v3
    d1 = d1
    d2 = d2
    n1 = n1
    None = None
    Vol <- OneDisk
    HasUuid <- WithUuid
    Dev <- Name1
    Nfs <- NoNames
    Kinds <- MemKinds
    Contents0 <- Ready
    Faults <- UserFaults
INVARIANTS
    TypeOK
PROPERTIES
    NoOverwrite
    TurnupEnds
    BootEnds
