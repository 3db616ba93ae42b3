SPECIFICATION Spec
CONSTANTS
    u1 = u1
    u2 = u2
    u3 = u3
    a = a
    b = b
    c = c
    m1 = m1
    m2 = m2
    None = None
    Uuid <- Uuids3
    Dev <- Devs3
    Mount <- Mounts2
    Faults <- Fail
INVARIANTS
    TypeOK
    FstabFollows
PROPERTIES
    RightStays
