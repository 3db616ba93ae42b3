----------------------------- MODULE MCRobostix -----------------------------
(***************************************************************************)
(* Small instances of Robostix: one command and one avrdude at a time, or  *)
(* two avrdudes.                                                           *)
(***************************************************************************)
EXTENDS Robostix

CONSTANTS t1, a1, a2

OneTool == {t1}
OneAvr == {a1}
TwoAvrs == {a1, a2}

\* The boot loader drives no pin, or all outputs, with their latches high.
Pins(out) == [p \in Pin |-> [mode |-> Gpio(out /\ p \notin {"rxd", "miso"}),
                            latch |-> 1]]
SomePins == {Pins(FALSE), Pins(TRUE)}

\* Power and the data line.
TwoFlips == {"vcc5", "txd"}

SomeCommands ==
    {[op |-> "power", arg |-> 0], [op |-> "245", arg |-> 0],
     [op |-> "245", arg |-> 1], [op |-> "txd", arg |-> 0]}

NoFaults == {}
LoadFails == {"load"}
Killed == {"kill"}
=============================================================================
