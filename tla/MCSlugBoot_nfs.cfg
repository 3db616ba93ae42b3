SPECIFICATION Spec
CONSTANTS
    v1 = v1
    v2 = v2
    v3 = v3
    d1 = d1
    d2 = d2
    n1 = n1
    None = None
    Vol <- OneExport
    HasUuid <- NoUuids
    Dev <- NoNames
    Nfs <- Exports1
    Kinds <- NfsKinds
    Contents0 <- AnyContent
    Faults <- NoFaults
INVARIANTS
    LinuxrcIntact
    ExitTells
    SelectedRootSound
    RamOnce
PROPERTIES
    KeepsReplaced
    ImplementsBootChoice
