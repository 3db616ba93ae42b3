SPECIFICATION Spec
CONSTANTS
    c1 = c1
    c2 = c2
    c3 = c3
    Client <- Two
    Direct <- Second
    Command <- Asked
    Junk <- RateOnly
    Faults <- AllFaults
    Ctlr = 18
    Fds = 1
    MaxStarts = 2
    MaxFaults = 1
INVARIANTS
    TypeOK
    SettingsKept
    OneShutdown
    NoSuddenOff
    ShutdownCaused
CHECK_DEADLOCK FALSE
