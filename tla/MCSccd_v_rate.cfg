SPECIFICATION Spec
CONSTANTS
    c1 = c1
    c2 = c2
    c3 = c3
    Client <- Two
    Direct <- Nobody
    Command <- AskedBlue
    Junk <- RateOnly
    Faults <- NoFault
    Ctlr = 18
    Fds = 1
    MaxStarts = 1
    MaxFaults = 1
INVARIANTS
    RateRestored
CHECK_DEADLOCK FALSE
