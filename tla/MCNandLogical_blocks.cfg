SPECIFICATION Spec
CONSTANTS
    f1 = f1
    Blocks = 3
    Pages = 2
    Bad <- OneBad
    Files <- OneFile
    Commands <- SomeCommands
    Oob0 <- Flashes
    Faults <- EveryFault
INVARIANTS
    TypeOK
    OneCopy
    WrittenReads
    ReadExact
PROPERTIES
    ImplementsStore
