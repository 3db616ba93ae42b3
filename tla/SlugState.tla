------------------------------ MODULE SlugState ------------------------------
(***************************************************************************)
(* The state that turnup (the command that chooses the boot device) and    *)
(* the boot scripts under /boot share on a SlugOS machine:                 *)
(*                                                                         *)
(*   - the flash file system, of which only the three names /linuxrc,      *)
(*     /linuxrc.new and /linuxrc.sav ever change here;                     *)
(*   - the candidate root volumes: disk partitions, reached by a device    *)
(*     name that cabling may change, and NFS exports;                      *)
(*   - the running turnup command, and the running boot.                   *)
(*                                                                         *)
(* Turnup and Boot extend this module; SlugBoot composes them.             *)
(***************************************************************************)
EXTENDS Naturals, FiniteSets

CONSTANTS
    Vol,       \* the file systems that may become a root file system
    HasUuid,   \* those of them for which blkid reports a UUID
    Dev,       \* block device names
    Nfs,       \* NFS root paths
    None,      \* no volume, no UUID, no exit status
    Kinds,     \* the turnup commands the user gives in this instance
    Contents0, \* what the volumes may hold at first
    Faults     \* the environment faults this instance may suffer

FaultKinds ==
    {"recable",      \* disks come up under other device names after a reboot
     "edit",         \* the user changes a volume's files behind turnup's back
     "no_init",      \* the user removes /sbin/init from the flash
     "dangling",     \* ... or leaves it a root whose init is a broken link
     "flaky",        \* a disk is not ready when boot/disk mounts it
     "short_copy",   \* find dies early, or a write fails late, in a pipeline
                     \* into cpio whose status does not tell of it
     "force",        \* the user passes -f
     "boot_write"}   \* the flash cannot be written by the /linuxrc of 'ram'

ASSUME SlugAssumption ==
    /\ HasUuid \subseteq Vol
    /\ None \notin Vol \cup {0, 1}
    /\ Vol \cap {"none", "flash", "ram", "off", "booting", "shell", "dead"} = {}
    /\ Dev \cap Nfs = {}
    /\ Kinds \subseteq {"flash", "ram", "disk", "memstick", "nfs"}
    /\ Contents0 \subseteq {"empty", "files", "root"}
    /\ Faults \subseteq FaultKinds

Name == Dev \cup Nfs

-----------------------------------------------------------------------------
(***************************************************************************)
(* /linuxrc.  For 'flash' it is a symbolic link, otherwise a shell script  *)
(* whose text is determined by the boot type, the device and the UUID.     *)
(***************************************************************************)
FlashScript == [type |-> "flash", device |-> None, uuid |-> None]
RamScript   == [type |-> "ram",   device |-> None, uuid |-> None]

Script ==
    {FlashScript, RamScript}
    \cup [type : {"disk"}, device : Dev, uuid : HasUuid \cup {None}]
    \cup [type : {"nfs"},  device : Nfs, uuid : {None}]

Absent  == [type |-> "absent",  device |-> None, uuid |-> None]
Partial == [type |-> "partial", device |-> None, uuid |-> None]

(***************************************************************************)
(* What a volume holds, as far as check_rootfs and swivel can tell.        *)
(***************************************************************************)
Content ==
    {"empty",      \* directories only
     "files",      \* somebody's files, not a root file system
     "partial",    \* an unfinished copy of a root file system
     "half",       \* one that already has what checkmount looks for
     "root",       \* a root file system, whole
     "dangling"}   \* as "root", but init is a symbolic link to nothing

\* checkmount looks for two directories, a shell, chroot and an init, each
\* program with -x or -h: it does not see what else is missing, and a link
\* passes unresolved.
checkmount(c) == c \in {"half", "root", "dangling"}

\* What a copy may hold when it is broken off.
Unfinished == {"partial", "half"}

\* The device in the fstab line for / : "none" when there is no such line,
\* "rootfs" for the line of the flash image.
RootLine == Name \cup {"none", "rootfs"}

VARIABLES
    linuxrc, linuxrc_new, linuxrc_sav,  \* the three names on the flash
    flashinit, \* TRUE iff the flash root has an executable /sbin/init
    at,        \* at[n]: the volume that device or export n reaches, or None
    content,   \* content[v]: what volume v holds
    rootline,  \* rootline[v]: the fstab line for / on v
    ttt,       \* ttt[v]: the owner of the probe file v/ttt, or "none"
    dirty,     \* the volumes copied to since they were last umounted
    squash,    \* TRUE iff the NFS server maps root to nobody
    \* the running turnup command
    pc, cmd, uuid, fst, newmnt, status, exit,
    before,    \* ghost: /linuxrc when the command began
    copied,    \* ghost: TRUE iff the command that installed /linuxrc had -i
    \* the running system
    power, root, bpc, script, mnt

flashVars   == <<linuxrc, linuxrc_new, linuxrc_sav, copied>>
volumeVars  == <<content, rootline, ttt, dirty, flashinit>>
cableVars   == <<at, squash>>
turnupVars  == <<pc, cmd, uuid, fst, newmnt, status, exit, before>>
machineVars == <<power, root, bpc, script, mnt>>

vars == <<flashVars, volumeVars, cableVars, turnupVars, machineVars>>

Attached(v) == \E n \in Name : at[n] = v
=============================================================================
