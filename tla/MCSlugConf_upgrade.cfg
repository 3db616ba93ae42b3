SPECIFICATION Spec
CONSTANTS
    pf = pf
    df = df
    ff = ff
    i1 = i1
    i2 = i2
    i3 = i3
    None = None
    File <- TwoFiles
    Preserve <- NoneSuch
    Diff <- Listed
    Image <- OneImage
    Image0 = i1
    Native <- NoneSuch
    Room = 1
    ValidRoom = 1
    Roots <- FlashOrRam
    Commands <- Upgrade
    Faults <- IO
INVARIANTS
    ConfigKept
    WrittenUnmounted
    RootComplete
