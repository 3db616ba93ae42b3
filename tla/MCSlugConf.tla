----------------------------- MODULE MCSlugConf -----------------------------
(***************************************************************************)
(* Small instances of SlugConf: one file that is preserved, one that is    *)
(* listed as 'diff' and one that is found when it has changed.             *)
(***************************************************************************)
EXTENDS SlugConf

CONSTANTS pf, df, ff, i1, i2, i3

Files == {pf, df, ff}
Preserved == {pf}
Listed == {df}
Images == {i1, i2, i3}
Natives == {i3}
OneImage == {i1}
TwoFiles == {df, ff}
OneFile == {ff}
NoneSuch == {}

SaveBoot == {"edit", "save", "reflash_n"}
Upgrade == {"edit", "reflash", "kernel", "init", "read", "default"}
FlashOrRam == {"flash", "ram"}
FlashOnly == {"flash"}
Keeping == {"edit", "save", "restore", "reinit", "reload", "rm_sysconf"}
MinusN == {"reflash_n"}
ReadSave == {"edit", "read", "save"}

NoFaults == {}
Power == {"power"}
IO == {"io", "partial"}
IOPower == IO \cup Power
Partial == {"partial"}
=============================================================================
