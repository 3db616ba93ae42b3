SPECIFICATION Spec
CONSTANTS
    u1 = u1
    u2 = u2
    u3 = u3
    a = a
    b = b
    c = c
    m1 = m1
    m2 = m2
    None = None
    Uuid <- Uuids2
    Dev <- Devs3
    Mount <- Mounts1
    Faults <- Power
INVARIANTS
    FstabFollows
