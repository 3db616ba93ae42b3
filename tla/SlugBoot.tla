------------------------------ MODULE SlugBoot ------------------------------
(***************************************************************************)
(* A SlugOS machine through its power cycles: it boots, runs turnup        *)
(* commands one at a time, and loses power at any moment.                  *)
(***************************************************************************)
EXTENDS Turnup, Boot

\* No two names reach one volume.
Cabling(a) == \A m, n \in Name : a[m] = a[n] /\ a[m] # None => m = n

Init ==
    /\ linuxrc = FlashScript /\ linuxrc_new = Absent /\ linuxrc_sav = Absent
    /\ copied = FALSE
    /\ at \in [Name -> Vol \cup {None}] /\ Cabling(at)
    /\ \A n \in Name : at[n] # None
    /\ content \in [Vol -> Contents0]
    /\ rootline \in [Vol -> {"none", "rootfs"}]
    /\ \A v \in Vol : content[v] = "empty" => rootline[v] = "none"
    /\ ttt = [v \in Vol |-> "none"]
    /\ dirty = {}
    /\ flashinit = TRUE
    /\ squash = FALSE
    /\ TurnupInit
    /\ BootInit

-----------------------------------------------------------------------------
PowerOn ==
    /\ power = "off" /\ power' = "booting"
    /\ UNCHANGED <<flashVars, volumeVars, cableVars, turnupVars, root, bpc,
                   script, mnt>>

(***************************************************************************)
(* A reboot or a power failure.  What copy_rootfs wrote to a volume that   *)
(* is still mounted may not have reached the disk.                         *)
(***************************************************************************)
LostWrites ==
    /\ content' \in {content} \cup
          {[content EXCEPT ![v] = c] : v \in dirty, c \in Unfinished}
    /\ dirty' = {}
    /\ UNCHANGED <<rootline, ttt, flashinit>>

PowerOff ==
    /\ power # "off"
    /\ Ends("off", "none")
    /\ LostWrites
    /\ Exit(None) /\ cmd' = NoCommand /\ before' = FlashScript
    /\ script' = FlashScript
    /\ UNCHANGED <<flashVars, cableVars>>

(***************************************************************************)
(* The user: other cables while the power is off; other files on a volume, *)
(* or another export option, while no turnup runs.                         *)
(***************************************************************************)
Recable ==
    /\ "recable" \in Faults /\ power = "off"
    /\ \E a \in [Name -> Vol \cup {None}] :
          /\ Cabling(a)
          /\ \A n \in Nfs : a[n] = at[n]
          /\ at' = a
    /\ UNCHANGED <<flashVars, volumeVars, squash, turnupVars, machineVars>>

EditKinds ==
    {"empty", "files", "root"}
    \cup (IF "dangling" \in Faults THEN {"dangling"} ELSE {})

Edit ==
    /\ "edit" \in Faults /\ At("idle")
    /\ \E v \in Vol, c \in EditKinds :
          /\ content' = [content EXCEPT ![v] = c]
          /\ ttt' = [ttt EXCEPT ![v] = "none"]
    /\ UNCHANGED <<flashVars, rootline, dirty, flashinit, cableVars,
                   turnupVars, machineVars>>

RemoveInit ==
    /\ "no_init" \in Faults /\ At("idle")
    /\ flashinit' = FALSE
    /\ UNCHANGED <<flashVars, content, rootline, ttt, dirty, cableVars,
                   turnupVars, machineVars>>

Export ==
    /\ Nfs # {} /\ At("idle")
    /\ squash' = ~squash
    /\ UNCHANGED <<flashVars, volumeVars, at, turnupVars, machineVars>>

Next ==
    \/ StartCommand \/ TurnupStep
    \/ BootStep
    \/ PowerOn \/ PowerOff
    \/ Recable \/ Edit \/ RemoveInit \/ Export

Spec == Init /\ [][Next]_vars

\* A running script goes on running, and a machine with power boots.
Fairness == WF_vars(TurnupStep) /\ WF_vars(BootStep) /\ WF_vars(PowerOn)
FairSpec == Spec /\ Fairness

-----------------------------------------------------------------------------
\* The three names on the flash.
FlashType ==
    /\ linuxrc \in Script \cup {Absent, Partial}
    /\ linuxrc_new \in Script \cup {Absent, Partial}
    /\ linuxrc_sav \in Script \cup {Absent, Partial}
    /\ copied \in BOOLEAN

\* The volumes and how they are reached.
VolumeType ==
    /\ at \in [Name -> Vol \cup {None}]
    /\ content \in [Vol -> Content]
    /\ rootline \in [Vol -> RootLine]
    /\ ttt \in [Vol -> {"none", "root", "nobody"}]
    /\ dirty \subseteq Vol
    /\ flashinit \in BOOLEAN
    /\ squash \in BOOLEAN

\* The command.
CommandType ==
    /\ pc \in TurnupPCs
    /\ cmd \in Commands \cup {NoCommand}
    /\ uuid \in HasUuid \cup {None}
    /\ fst \in BOOLEAN
    /\ newmnt \in Vol \cup {None}
    /\ status \in {0, 1}
    /\ exit \in {None, 0, 1}
    /\ before \in Script \cup {Absent, Partial}

\* The boot.
MachineType ==
    /\ power \in {"off", "booting", "up", "shell", "dead"}
    /\ root \in Vol \cup {"none", "flash", "ram"}
    /\ bpc \in BootPCs
    /\ script \in Script
    /\ mnt \in Vol \cup {None}

\* Every variable keeps to the values the scripts can give it.
TypeOK == FlashType /\ VolumeType /\ CommandType /\ MachineType

(***************************************************************************)
(* Wherever the power fails, in a turnup command or in the ram script that *)
(* rewrites /linuxrc during the boot, /linuxrc is one complete script.     *)
(***************************************************************************)
LinuxrcIntact == linuxrc \in Script

(***************************************************************************)
(* turnup never replaces /linuxrc without having kept the replaced one as  *)
(* /linuxrc.sav, and only as the last step of boot_rootfs.                 *)
(***************************************************************************)
KeepsReplaced ==
    [][power = "up" /\ linuxrc' # linuxrc => linuxrc_sav' = linuxrc]_vars

\* What /linuxrc is after a command that did what it was asked.
Installed ==
    /\ linuxrc.type = BootType
    /\ linuxrc.device = cmd.target

(***************************************************************************)
(* What the exit status of turnup tells.  After a 1 the boot choice is the *)
(* one there was, whichever step failed.  After a 0 the new one is there;  *)
(* disk and nfs, which ignore the status of boot_rootfs, may instead have  *)
(* left the old one, but nothing else.                                     *)
(***************************************************************************)
ExitTells ==
    pc = "idle" =>
        /\ exit = 1 => linuxrc = before
        /\ exit = 0 => Installed \/ (~IsReset /\ linuxrc = before)

\* That all of them install it would be this.
SuccessInstalls == pc = "idle" /\ exit = 0 => Installed

(***************************************************************************)
(* The root file system that /linuxrc names passes the check of the boot   *)
(* scripts, and if the command that chose it also copied it (-i) it is     *)
(* whole: the copy was complete and off the mount table when /linuxrc was  *)
(* changed, so no later crash spoils it.  It is named by its UUID, or, if  *)
(* the cables stay, by the device.                                         *)
(***************************************************************************)
Selected(s) == IF s.uuid # None THEN s.uuid ELSE at[s.device]

SelectedRootSound ==
    /\ linuxrc.type \in {"disk", "nfs"}
    /\ linuxrc.uuid # None \/ "recable" \notin Faults
    => /\ checkmount(content[Selected(linuxrc)])
       /\ copied => content[Selected(linuxrc)] = "root"

(***************************************************************************)
(* What check_rootfs says of a volume that was not copied just then, that  *)
(* it contains a full operating system, would be this.                     *)
(***************************************************************************)
FoundRootWhole ==
    linuxrc.type \in {"disk", "nfs"} => content[Selected(linuxrc)] # "half"

(***************************************************************************)
(* turnup writes over somebody's files, or a working root file system,     *)
(* only when the user said -i and -f.                                      *)
(***************************************************************************)
NoOverwrite ==
    [][\A v \in Vol :
          /\ content[v] \in {"files", "root", "dangling"}
          /\ content'[v] \in Unfinished /\ power' = "up"
          => cmd.force /\ cmd.init /\ newmnt = v]_vars

(***************************************************************************)
(* However the disks were recabled, the machine runs on the volume whose   *)
(* UUID /linuxrc gave, if it is there and ready, not on whatever is now at *)
(* the device name, and then only if it runs on a volume at all.           *)
(***************************************************************************)
RootFollowsUuid ==
    /\ power = "up" /\ root \in Vol
    /\ script.uuid # None /\ Attached(script.uuid)
    => root = script.uuid

\* 'turnup ram' is for one boot: no second boot runs boot/ram.
RamOnce == Booting("boot_ram") => linuxrc.type # "ram"

(***************************************************************************)
(* After a successful turnup the fstab of the new root names the device it *)
(* will be mounted from, as checkroot needs.                               *)
(***************************************************************************)
FstabNamesRoot ==
    pc = "idle" /\ exit = 0 /\ ~IsReset /\ target # None =>
        rootline[target] = cmd.target

\* A probe file that could be written is refused only if the export squashes
\* root, or if rm failed on root's own file.
RefusalTruthful ==
    [][pc = "probed" /\ pc' = "umount_new" => squash \/ ttt[newmnt] = "root"]_vars

\* The boot falls back to flash rather than die.
DiskFallsBack == power # "dead"

(***************************************************************************)
(* A boot dies only on a root that was on its volume already when turnup   *)
(* chose it: never on one that turnup itself had copied.                   *)
(***************************************************************************)
DiesAsFound == power = "dead" => ~copied

-----------------------------------------------------------------------------
\* A command that was started ends, or the machine went down under it.
TurnupEnds == pc # "idle" ~> pc = "idle"

\* Unless the power keeps failing, the machine gets to the end of a boot.
BootEnds == <>[](power # "off") => <>[](power \in {"up", "shell", "dead"})

-----------------------------------------------------------------------------
(***************************************************************************)
(* The boot choice is taken when the kernel runs /linuxrc, except that the *)
(* script for ram takes it by moving boot/flash over itself.               *)
(***************************************************************************)
System ==
    CASE power = "off" -> "off"
      [] power = "booting" ->
            IF bpc \in {"kernel", "ram_rm", "ram_ln", "ram_mv"}
            THEN "off" ELSE "booting"
      [] power = "up" -> root
      [] OTHER -> power

BC == INSTANCE BootChoice WITH
          Choice <- Script, FlashChoice <- FlashScript, RamChoice <- RamScript,
          choice <- linuxrc, system <- System,
          taken <- IF System = "booting" THEN script ELSE FlashScript

ImplementsBootChoice == BC!Spec
=============================================================================
