SPECIFICATION Spec
CONSTANTS
    v1 = v1
    v2 = v2
    v3 = v3
    d1 = d1
    d2 = d2
    n1 = n1
    None = None
    Vol <- TwoDisks
    HasUuid <- WithUuid
    Dev <- Names2
    Nfs <- NoNames
    Kinds <- DiskOnly
    Contents0 <- Ready
    Faults <- MovingFaults
INVARIANTS
    RootFollowsUuid
