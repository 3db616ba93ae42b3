SPECIFICATION FairSpec
CONSTANTS
    c1 = c1
    c2 = c2
    c3 = c3
    Client <- One
    Direct <- Nobody
    Command <- Settings
    Junk <- RateOnly
    Faults <- Early
    Ctlr = 18
    Fds = 1
    MaxStarts = 1
    MaxFaults = 1
PROPERTIES
    SoftPowerSeen
CHECK_DEADLOCK FALSE
