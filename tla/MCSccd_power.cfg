SPECIFICATION FairSpec
CONSTANTS
    c1 = c1
    c2 = c2
    c3 = c3
    Client <- Two
    Direct <- Nobody
    Command <- Settings
    Junk <- RateOnly
    Faults <- LineFaults
    Ctlr = 18
    Fds = 1
    MaxStarts = 1
    MaxFaults = 2
PROPERTIES
    SoftPowerSeen
    Enacted
CHECK_DEADLOCK FALSE
