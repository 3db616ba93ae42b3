------------------------------- MODULE Turnup -------------------------------
(***************************************************************************)
(* /sbin/turnup: the commands disk, memstick, nfs, flash and ram, which    *)
(* choose the file system the next boot uses for its root.  One action is  *)
(* one external program the script runs (mkdir and rmdir of the mount      *)
(* points are merged with the mount they serve), so a power failure can    *)
(* come between any two of them.                                           *)
(***************************************************************************)
EXTENDS SlugState

Commands ==
    [name : {"flash", "ram"}, target : {None}, init : {FALSE}, force : {FALSE}]
    \cup [name : {"disk", "memstick"}, target : Dev,
          init : BOOLEAN, force : BOOLEAN]
    \cup [name : {"nfs"}, target : Nfs, init : BOOLEAN, force : BOOLEAN]

NoCommand == [name |-> "none", target |-> None, init |-> FALSE, force |-> FALSE]

TurnupPCs ==
    {"idle", "get_flash", "mount", "remount", "probe", "probed", "check",
     "copy", "copying", "setup_rootfs", "setup_fstab", "umount_new",
     "boot_rootfs", "rm_new", "write_new", "writing_new", "rm_sav",
     "ln_sav", "mv_new", "cleanup"}

TurnupInit ==
    /\ pc = "idle" /\ cmd = NoCommand
    /\ uuid = None /\ fst = FALSE /\ newmnt = None
    /\ status = 0 /\ exit = None
    /\ before = FlashScript

-----------------------------------------------------------------------------
IsReset == cmd.name \in {"flash", "ram"}
target  == at[cmd.target]     \* the volume behind the command's argument

At(l) == power = "up" /\ pc = l
Goto(l) == pc' = l
Keep == UNCHANGED <<cmd, exit, before, machineVars, cableVars>>

\* The script ends with exit status s, and its variables with it.
Gone == pc' = "idle" /\ uuid' = None /\ fst' = FALSE /\ newmnt' = None
        /\ status' = 0
Exit(s) == Gone /\ exit' = s

(***************************************************************************)
(* The /linuxrc that boot_rootfs writes.  The test for type "disk" is on   *)
(* the boot type, and a memstick boots like a disk.                        *)
(***************************************************************************)
BootTypeOfCommand == cmd.name  \* Mutation: passes the memstick type on
BootType == IF cmd.name = "memstick" THEN "disk" ELSE cmd.name

NewScript ==
    IF IsReset THEN [type |-> cmd.name, device |-> None, uuid |-> None]
    ELSE [type |-> BootType, device |-> cmd.target, uuid |-> uuid]

-----------------------------------------------------------------------------
(***************************************************************************)
(* Starting a command.  A command line whose device is not a block device  *)
(* ends at once with status 1 (Refuse), before anything is touched.        *)
(***************************************************************************)
Begin(c, u) ==
    /\ At("idle")
    /\ cmd' = c /\ uuid' = u /\ fst' = FALSE /\ status' = 1
    /\ before' = linuxrc /\ exit' = None /\ UNCHANGED newmnt
    /\ Goto("get_flash")
    /\ UNCHANGED <<flashVars, volumeVars, cableVars, machineVars>>

Options == {f \in BOOLEAN : f => "force" \in Faults}

StartReset(type) ==
    Begin([name |-> type, target |-> None, init |-> FALSE, force |-> FALSE], None)

StartDisk(name, d, i, f) ==
    /\ at[d] # None
    /\ Begin([name |-> name, target |-> d, init |-> i, force |-> f],
             IF at[d] \in HasUuid THEN at[d] ELSE None)

StartNfs(n, i, f) ==
    Begin([name |-> "nfs", target |-> n, init |-> i, force |-> f], None)

Refuse(name, d, i, f) ==
    /\ At("idle") /\ at[d] = None
    /\ cmd' = [name |-> name, target |-> d, init |-> i, force |-> f]
    /\ before' = linuxrc
    /\ Exit(1)
    /\ UNCHANGED <<flashVars, volumeVars, cableVars, machineVars>>

(***************************************************************************)
(* get_flash: umount any other mount of the flash device and mount it      *)
(* writeable on a temporary directory.  Failure removes the directories    *)
(* and returns 1.                                                          *)
(***************************************************************************)
GetFlash ==
    /\ At("get_flash")
    /\ \/ /\ Goto(IF IsReset THEN "boot_rootfs" ELSE "mount")
          /\ UNCHANGED <<uuid, fst, newmnt, status, exit>>
       \/ Exit(1)
    /\ UNCHANGED <<cmd, before, flashVars, volumeVars, cableVars, machineVars>>

(***************************************************************************)
(* The volume is mounted once to learn its type.  A failing umount is only *)
(* reported.                                                               *)
(***************************************************************************)
FirstMount ==
    /\ At("mount") /\ Goto("remount")
    /\ \/ fst' = FALSE /\ UNCHANGED newmnt
       \/ /\ target # None
          /\ fst' = TRUE
          /\ newmnt' \in {None, target}
    /\ Keep /\ UNCHANGED <<uuid, status, flashVars, volumeVars>>

\* Mutation: the mount is retried until it succeeds.
RemountRetried ==
    /\ At("remount")
    /\ \/ /\ fst /\ target # None /\ newmnt = None
          /\ newmnt' = target
          /\ Goto("check")
       \/ UNCHANGED <<pc, newmnt>>
    /\ Keep /\ UNCHANGED <<uuid, fst, status, flashVars, volumeVars>>

(***************************************************************************)
(* Then it is mounted with that type and the collected options.  The       *)
(* kernel refuses to mount a file system twice on one directory.           *)
(***************************************************************************)
Remount ==
    /\ At("remount")
    /\ \/ /\ fst /\ target # None /\ newmnt = None
          /\ newmnt' = target
          /\ Goto(IF cmd.name = "nfs" THEN "probe" ELSE "check")
       \/ Goto("cleanup") /\ UNCHANGED newmnt
    /\ Keep /\ UNCHANGED <<uuid, fst, status, flashVars, volumeVars>>

(***************************************************************************)
(* nfs only: create a file on the export and see whether root owns it.     *)
(* An export that maps root to nobody refuses the file, or leaves it owned *)
(* by nobody; a file left from an earlier attempt keeps its owner.         *)
(***************************************************************************)
Probe ==
    /\ At("probe")
    /\ \/ Goto("umount_new") /\ UNCHANGED ttt       \* cannot be written
       \/ /\ ~(squash /\ ttt[newmnt] = "root")
          /\ Goto("probed")
          /\ ttt' = [ttt EXCEPT ![newmnt] =
                        IF @ # "none" THEN @
                        ELSE IF squash THEN "nobody" ELSE "root"]
    /\ Keep /\ UNCHANGED <<uuid, fst, newmnt, status, flashVars,
                           content, rootline, dirty, flashinit>>

\* test -O ttt && rm ttt
Probed ==
    /\ At("probed")
    /\ \/ /\ ttt[newmnt] = "root"
          /\ Goto("check")
          /\ ttt' = [ttt EXCEPT ![newmnt] = "none"]
       \/ Goto("umount_new") /\ UNCHANGED ttt  \* not root's, or rm failed
    /\ Keep /\ UNCHANGED <<uuid, fst, newmnt, status, flashVars,
                           content, rootline, dirty, flashinit>>

-----------------------------------------------------------------------------
\* Mutation: -i does not look for existing files.
CheckRootfsOverwrites == cmd.init \/ checkmount(content[newmnt])

(***************************************************************************)
(* check_rootfs: with -i there must be no file on the volume, unless -f;   *)
(* without it there must be a root file system.                            *)
(***************************************************************************)
check_rootfs ==
    IF cmd.init
    THEN cmd.force \/ (content[newmnt] = "empty" /\ ttt[newmnt] = "none")
    ELSE checkmount(content[newmnt])

Check ==
    /\ At("check")
    /\ Goto(IF ~check_rootfs THEN "umount_new"
            ELSE IF cmd.init THEN "copy" ELSE "setup_fstab")
    /\ Keep
    /\ UNCHANGED <<uuid, fst, newmnt, status, flashVars, volumeVars>>

(***************************************************************************)
(* copy_rootfs: find | sed | cpio, whose status is cpio's.  While it runs  *)
(* the volume holds part of the system, at some point as much of it as     *)
(* checkmount asks for.                                                    *)
(***************************************************************************)
CopyStart ==
    /\ At("copy") /\ Goto("copying")
    /\ \E c \in Unfinished : content' = [content EXCEPT ![newmnt] = c]
    /\ dirty' = dirty \cup {newmnt}
    /\ Keep /\ UNCHANGED <<uuid, fst, newmnt, status, flashVars,
                           rootline, ttt, flashinit>>

FlashTree == IF flashinit THEN "root" ELSE "partial"

\* Mutation: the status of cpio is not tested.
CopyEndUntested ==
    /\ At("copying") /\ Goto("setup_rootfs")
    /\ \/ /\ content' = [content EXCEPT ![newmnt] = FlashTree]
          /\ rootline' = [rootline EXCEPT ![newmnt] = "rootfs"]
       \/ UNCHANGED <<content, rootline>>
    /\ Keep
    /\ UNCHANGED <<uuid, fst, newmnt, status, flashVars, ttt, dirty,
                   flashinit>>

CopyEnd ==
    /\ At("copying")
    /\ \/ /\ Goto("setup_rootfs")
          /\ content' = [content EXCEPT ![newmnt] = FlashTree]
          /\ rootline' = [rootline EXCEPT ![newmnt] = "rootfs"]
       \/ /\ "short_copy" \in Faults
          /\ Goto("setup_rootfs") /\ UNCHANGED <<content, rootline>>
       \/ Goto("umount_new") /\ UNCHANGED <<content, rootline>>
    /\ Keep
    /\ UNCHANGED <<uuid, fst, newmnt, status, flashVars, ttt, dirty,
                   flashinit>>

\* setup_rootfs: /dev, /var and the syslog configuration of the new root.
SetupRootfs ==
    /\ At("setup_rootfs")
    /\ Goto("setup_fstab") \/ Goto("umount_new")
    /\ Keep
    /\ UNCHANGED <<uuid, fst, newmnt, status, flashVars, volumeVars>>

(***************************************************************************)
(* setup_fstab rewrites the line for / when the volume's fstab has one.    *)
(* Its return value is dropped: status becomes 0 whatever it did.          *)
(***************************************************************************)
SetupFstab ==
    /\ At("setup_fstab") /\ Goto("umount_new")
    /\ status' = 0
    /\ \/ /\ rootline[newmnt] # "none"
          /\ rootline' = [rootline EXCEPT ![newmnt] = cmd.target]
       \/ UNCHANGED rootline
    /\ Keep
    /\ UNCHANGED <<uuid, fst, newmnt, flashVars, content, ttt, dirty,
                   flashinit>>

UmountNew ==
    /\ At("umount_new")
    /\ \/ newmnt' = None /\ dirty' = dirty \ {newmnt} /\ UNCHANGED status
       \/ /\ status' = IF cmd.force THEN status ELSE 1
          /\ UNCHANGED <<newmnt, dirty>>
    /\ Goto(IF status' = 0 THEN "boot_rootfs" ELSE "cleanup")
    /\ Keep /\ UNCHANGED <<uuid, fst, flashVars, content, rootline, ttt,
                           flashinit>>

-----------------------------------------------------------------------------
(***************************************************************************)
(* boot_rootfs changes /linuxrc on the mounted flash.  Each step may fail. *)
(* boot_reset returns its status; disk and nfs drop it.                    *)
(***************************************************************************)
\* Mutation: boot_reset, too, drops the status.
ReturnDropped(s) ==
    /\ status' = IF IsReset THEN 0 ELSE status
    /\ Goto("cleanup")

Return(s) ==
    /\ status' = IF IsReset THEN s ELSE status
    /\ Goto("cleanup")

\* /boot/<type> must be on the flash
BootRootfs ==
    /\ At("boot_rootfs")
    /\ \/ Goto("rm_new") /\ UNCHANGED status
       \/ Return(1)
    /\ Keep /\ UNCHANGED <<uuid, fst, newmnt, flashVars, volumeVars>>

RmNew ==
    /\ At("rm_new")
    /\ \/ Goto("write_new") /\ linuxrc_new' = Absent /\ UNCHANGED status
       \/ Return(1) /\ UNCHANGED linuxrc_new
    /\ Keep /\ UNCHANGED <<uuid, fst, newmnt, linuxrc, linuxrc_sav,
                           copied, volumeVars>>

\* Mutation: the script is written to /linuxrc itself.
WriteInPlace ==
    /\ At("write_new") /\ cmd.name # "flash"
    /\ Goto("writing_new") /\ linuxrc' = Partial
    /\ Keep /\ UNCHANGED <<uuid, fst, newmnt, status, linuxrc_new, linuxrc_sav,
                           copied, volumeVars>>

\* ln -s for flash; otherwise the script is created, written and chmodded.
WriteNew ==
    /\ At("write_new")
    /\ \/ /\ cmd.name = "flash"
          /\ Goto("rm_sav") /\ linuxrc_new' = NewScript /\ UNCHANGED status
       \/ /\ cmd.name # "flash"
          /\ Goto("writing_new") /\ linuxrc_new' = Partial /\ UNCHANGED status
       \/ Return(1) /\ UNCHANGED linuxrc_new
    /\ Keep /\ UNCHANGED <<uuid, fst, newmnt, linuxrc, linuxrc_sav,
                           copied, volumeVars>>

WrittenNew ==
    /\ At("writing_new")
    /\ \/ Goto("rm_sav") /\ linuxrc_new' = NewScript /\ UNCHANGED status
       \/ Return(1) /\ UNCHANGED linuxrc_new
    /\ Keep /\ UNCHANGED <<uuid, fst, newmnt, linuxrc, linuxrc_sav,
                           copied, volumeVars>>

RmSav ==
    /\ At("rm_sav")
    /\ \/ Goto("ln_sav") /\ linuxrc_sav' = Absent /\ UNCHANGED status
       \/ Return(1) /\ UNCHANGED linuxrc_sav
    /\ Keep /\ UNCHANGED <<uuid, fst, newmnt, linuxrc, linuxrc_new,
                           copied, volumeVars>>

\* Mutation: the old /linuxrc is moved, not linked.
LnSavMoved ==
    /\ At("ln_sav") /\ Goto("mv_new")
    /\ linuxrc_sav' = linuxrc /\ linuxrc' = Absent
    /\ Keep /\ UNCHANGED <<uuid, fst, newmnt, status, linuxrc_new, copied,
                           volumeVars>>

\* Mutation: a failing ln is ignored.
LnSavUntested ==
    /\ At("ln_sav") /\ Goto("mv_new")
    /\ linuxrc_sav' \in {linuxrc, linuxrc_sav}
    /\ Keep /\ UNCHANGED <<uuid, fst, newmnt, status, linuxrc, linuxrc_new,
                           copied, volumeVars>>

LnSav ==
    /\ At("ln_sav")
    /\ \/ Goto("mv_new") /\ linuxrc_sav' = linuxrc /\ UNCHANGED status
       \/ Return(1) /\ UNCHANGED linuxrc_sav
    /\ Keep /\ UNCHANGED <<uuid, fst, newmnt, linuxrc, linuxrc_new,
                           copied, volumeVars>>

MvNew ==
    /\ At("mv_new")
    /\ \/ /\ linuxrc' = linuxrc_new /\ linuxrc_new' = Absent
          /\ copied' = cmd.init
          /\ Return(0)
       \/ /\ Return(1)
          /\ UNCHANGED <<linuxrc, linuxrc_new, copied>>
    /\ Keep /\ UNCHANGED <<uuid, fst, newmnt, linuxrc_sav, volumeVars>>

\* umount and rmdir of the flash; their status is ignored.
Cleanup ==
    /\ At("cleanup") /\ Exit(status)
    /\ UNCHANGED <<cmd, before, flashVars, volumeVars, cableVars, machineVars>>

-----------------------------------------------------------------------------
StartCommand ==
    \/ \E type \in Kinds \cap {"flash", "ram"} : StartReset(type)
    \/ \E d \in Dev, i \in BOOLEAN, f \in Options :
          \E name \in Kinds \cap {"disk", "memstick"} :
              StartDisk(name, d, i, f) \/ Refuse(name, d, i, f)
    \/ /\ "nfs" \in Kinds
       /\ \E n \in Nfs, i \in BOOLEAN, f \in Options : StartNfs(n, i, f)

TurnupStep ==
    \/ GetFlash \/ FirstMount \/ Remount \/ Probe \/ Probed \/ Check
    \/ CopyStart \/ CopyEnd \/ SetupRootfs \/ SetupFstab \/ UmountNew
    \/ BootRootfs \/ RmNew \/ WriteNew \/ WrittenNew \/ RmSav \/ LnSav
    \/ MvNew \/ Cleanup
=============================================================================
