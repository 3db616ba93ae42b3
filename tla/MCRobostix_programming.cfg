SPECIFICATION Spec
CONSTANTS
    t1 = t1
    a1 = a1
    a2 = a2
    Tools <- OneTool
    Programmers <- OneAvr
    Commands <- SomeCommands
    Flips <- TwoFlips
    BootPins <- SomePins
    Faults <- LoadFails
INVARIANT SerialBack
INVARIANT Served
PROPERTY NoGlitch
