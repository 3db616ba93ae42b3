----------------------------- MODULE BootChoice -----------------------------
(***************************************************************************)
(* What turnup and the boot scripts promise together.  There is at every   *)
(* moment exactly one boot choice.  A running system may replace it, in    *)
(* one step.  A boot takes the choice there is when it begins, takes a     *)
(* choice of the ram disk only once, and ends in the chosen root, or in    *)
(* the flash root, or, when both are unusable, in no system at all.        *)
(***************************************************************************)
CONSTANTS Choice, FlashChoice, RamChoice, Vol

VARIABLES choice, system, taken

Down == {"off", "booting", "shell", "dead"}

Outcome(c) ==
    {"flash", "shell"}
    \cup (CASE c = FlashChoice -> {}
            [] c = RamChoice   -> {"ram", "dead"}
            [] OTHER           -> Vol \cup {"dead"})

Init == choice \in Choice /\ system = "off" /\ taken = FlashChoice

Select(c) ==
    /\ system \notin Down
    /\ choice' = c
    /\ UNCHANGED <<system, taken>>

Take ==
    /\ system = "off"
    /\ system' = "booting"
    /\ taken' = choice
    /\ choice' = IF choice = RamChoice THEN FlashChoice ELSE choice

Finish ==
    /\ system = "booting"
    /\ system' \in Outcome(taken)
    /\ taken' = FlashChoice
    /\ UNCHANGED choice

PowerOff ==
    /\ system # "off"
    /\ system' = "off"
    /\ taken' = FlashChoice
    /\ UNCHANGED choice

Next == (\E c \in Choice : Select(c)) \/ Take \/ Finish \/ PowerOff

Spec == Init /\ [][Next]_<<choice, system, taken>>
=============================================================================
