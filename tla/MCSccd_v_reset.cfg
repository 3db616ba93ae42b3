SPECIFICATION Spec
CONSTANTS
    c1 = c1
    c2 = c2
    c3 = c3
    Client <- Two
    Direct <- One
    Command <- Asked
    Junk <- RateOnly
    Faults <- NoFault
    Ctlr = 18
    Fds = 1
    MaxStarts = 1
    MaxFaults = 1
INVARIANTS
    ResetIsReset
CHECK_DEADLOCK FALSE
