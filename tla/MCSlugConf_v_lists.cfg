SPECIFICATION Spec
CONSTANTS
    pf = pf
    df = df
    ff = ff
    i1 = i1
    i2 = i2
    i3 = i3
    None = None
    File <- TwoFiles
    Preserve <- NoneSuch
    Diff <- Listed
    Image <- Images
    Image0 = i1
    Native <- Natives
    Room = 2
    ValidRoom = 2
    Roots <- FlashOrRam
    Commands <- ReadSave
    Faults <- NoFaults
INVARIANTS
    SavedListCounts
