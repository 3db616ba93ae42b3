SPECIFICATION Spec
CONSTANTS
    p1 = p1
    p2 = p2
    p3 = p3
    None = None
    Proc <- Procs3
    Overlap = FALSE
    MaxFiles = 4
SYMMETRY Symmetry
INVARIANTS
    TypeOK
    OneDaemon
    PidNames
CHECK_DEADLOCK FALSE
