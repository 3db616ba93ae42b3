SPECIFICATION Spec
CONSTANTS
    pf = pf
    df = df
    ff = ff
    i1 = i1
    i2 = i2
    i3 = i3
    None = None
    File <- Files
    Preserve <- Preserved
    Diff <- Listed
    Image <- Images
    Image0 = i1
    Native <- Natives
    Room = 1
    ValidRoom = 1
    Roots <- FlashOrRam
    Commands <- SaveBoot
    Faults <- NoFaults
INVARIANTS
    NeverAsks
    SavedIsBack
