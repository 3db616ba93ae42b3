SPECIFICATION Spec
CONSTANTS
    pf = pf
    df = df
    ff = ff
    i1 = i1
    i2 = i2
    i3 = i3
    None = None
    File <- OneFile
    Preserve <- NoneSuch
    Diff <- NoneSuch
    Image <- OneImage
    Image0 = i1
    Native <- NoneSuch
    Room = 1
    ValidRoom = 1
    Roots <- FlashOnly
    Commands <- Keeping
    Faults <- IOPower
INVARIANTS
    TypeOK
    SavedTogether
    RestoreExact
