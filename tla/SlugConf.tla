------------------------------ MODULE SlugConf ------------------------------
(***************************************************************************)
(* The configuration of a SlugOS machine through boots, sysconf commands,  *)
(* new firmware and power failures.                                        *)
(***************************************************************************)
EXTENDS Reflash

NoCommand == [name |-> "none", parts |-> {}]

CONSTANT Image0   \* the image the machine starts with

ASSUME ImageAssumption == Image0 \in Image \ Native

(***************************************************************************)
(* The machine was flashed with Image0 and not yet booted.  Its SysConf    *)
(* partition is empty, or as the manufacturer left it.                     *)
(***************************************************************************)
Init ==
    /\ kernel = Image0 /\ rootfs = Image0 /\ usr = None
    /\ flash = ImageTree(Image0) /\ newer = {}
    /\ valid \in BOOLEAN /\ text = NoText /\ archive = None
    /\ power = "off" /\ root = "flash" /\ ram = NoFiles
    /\ pc = "idle" /\ cmd = NoCommand /\ image = None /\ exit = None
    /\ saved = NoFiles /\ list = {} /\ pending = {}
    /\ mounted = FALSE
    /\ orig = NoFiles /\ declined = {}

-----------------------------------------------------------------------------
(***************************************************************************)
(* A boot from flash, or into a ram disk that is a copy of it, up to the   *)
(* script sysconfsetup.  A torn kernel or root does not boot, and a root   *)
(* of the manufacturer is not this system.                                 *)
(***************************************************************************)
PowerOn ==
    /\ power = "off"
    /\ IF "torn" \in {kernel, rootfs} \/ rootfs \in Native
       THEN /\ power' = "dead"
            /\ UNCHANGED <<root, ram, pc, cmd>>
       ELSE /\ power' = "up"
            /\ root' \in Roots
            /\ ram' = IF root' = "ram" THEN flash ELSE NoFiles
            /\ Goto("setup")
            /\ cmd' = [name |-> "boot", parts |-> {}]
    /\ UNCHANGED <<partVars, sysVars, treeVars, image, exit, tmpVars, mounted,
                   orig, declined>>

\* An orderly shutdown between commands, or a power failure.
PowerOff ==
    /\ power # "off"
    /\ pc = "idle" \/ "power" \in Faults
    /\ power' = "off" /\ root' = "flash" /\ ram' = NoFiles
    /\ pc' = "idle" /\ cmd' = NoCommand /\ image' = None /\ exit' = None
    /\ saved' = NoFiles /\ list' = {} /\ pending' = {}
    /\ mounted' = FALSE /\ declined' = {} /\ orig' = NoFiles
    /\ UNCHANGED <<partVars, sysVars, treeVars>>

-----------------------------------------------------------------------------
\* The user changes a configuration file of the flash root.
Edit ==
    /\ At("idle") /\ "edit" \in Commands
    /\ root = "flash"
    /\ \E f \in File :
          /\ flash' = [flash EXCEPT ![f] = "user"]
          /\ newer' = newer \cup {f}
    /\ cmd' = NoCommand
    /\ UNCHANGED <<partVars, sysVars, powerVars, pc, image, exit, tmpVars,
                   mounted, orig, declined>>

\* "rm or mv the file (/etc/default/sysconf) to recreate it"
RmSysconf ==
    /\ At("idle") /\ "rm_sysconf" \in Commands
    /\ Here([here EXCEPT !["sysconf"] = None])
    /\ cmd' = NoCommand
    /\ UNCHANGED <<partVars, sysVars, newer, power, root, pc, image, exit,
                   tmpVars, mounted, orig, declined>>

Next ==
    \/ PowerOn \/ PowerOff
    \/ Edit \/ RmSysconf
    \/ SysconfStep \/ ReflashStep

Spec == Init /\ [][Next]_vars

-----------------------------------------------------------------------------
Content == Image \cup {"user", None}
Text == [net : Nets, lists : Seq(SUBSET Path)]

ASSUME TextAssumption == None \notin Text

Tree(t) ==
    /\ DOMAIN t = Path
    /\ \A f \in File : t[f] \in Content
    /\ t["sysconf"] # None => t["sysconf"] \in Text
    /\ t["system"] \in Nets \cup {None}
    /\ t["motd"] \in {"image", "init", "warning", None}

PCs ==
    {"idle", "write_sysconf", "init_reload", "s_mount", "s_copy", "s_write",
     "s_writing", "invalid", "mount", "read", "read_done", "reload", "extract",
     "test", "choose", "copy", "left", "umount", "setup", "setup_reload",
     "f_mount", "f_save", "f_umount", "w_usr", "w_rootfs", "w_kernel",
     "writing_usr", "writing_rootfs", "writing_kernel", "written"}

\* Every variable keeps to the values the scripts can give it.
TypeOK ==
    /\ {kernel, rootfs} \subseteq Image \cup {"torn"}
    /\ usr \in Image \cup {"torn", None}
    /\ Tree(flash) /\ Tree(ram) /\ Tree(saved) /\ Tree(orig)
    /\ newer \subseteq File /\ declined \subseteq File
    /\ valid \in BOOLEAN /\ text \in Text
    /\ archive # None => Tree(archive)
    /\ power \in {"off", "up", "dead"} /\ root \in {"flash", "ram"}
    /\ pc \in PCs
    /\ cmd.name \in AllCommands \cup {"boot", "none"}
    /\ cmd.parts \subseteq {"usr", "rootfs", "kernel"}
    /\ image \in Image \cup {None}
    /\ exit \in {None, 0, 1, 2, 3}
    /\ list \subseteq Path /\ pending \subseteq Path
    /\ mounted \in BOOLEAN

Ended(c) == power = "up" /\ pc = "idle" /\ cmd.name = c

(***************************************************************************)
(* A restore during the boot, where there is no terminal, never comes to   *)
(* a file it would have to ask about: sysconf_test_restore has foreseen    *)
(* what sysconf_restore_conffiles does.                                    *)
(***************************************************************************)
NeverAsks == At("choose") /\ auto => Asked(flash, saved, list) = {}

(***************************************************************************)
(* However a preserving reflash ends, short of a power failure, each file  *)
(* the user had changed is in the flash or in the directory it names,      *)
(* unless the user chose the new one.                                      *)
(***************************************************************************)
ConfigKept ==
    Ended("reflash") =>
        \A f \in File :
            orig[f] = "user" =>
                flash[f] = "user" \/ saved[f] = "user" \/ f \in declined

(***************************************************************************)
(* A partition is written only while it is mounted nowhere: neither on /,  *)
(* nor on the temporary directory.                                         *)
(***************************************************************************)
WrittenUnmounted ==
    At("writing_rootfs") => ~mounted /\ root # "flash"

\* With -n the temporary mount stays; but the running root is never written.
RunningRootKept ==
    At("writing_rootfs") => root # "flash" /\ (preserving => ~mounted)

\* A reflash that exits with 0 has written the whole new root.
RootComplete ==
    cmd.name \in {"reflash", "reflash_n"} /\ Ended(cmd.name) /\ exit = 0
    /\ wanted("rootfs")
    => rootfs = image

\* The same of every partition it was asked to write.
AllComplete ==
    cmd.name \in {"reflash", "reflash_n", "kernel"} /\ Ended(cmd.name) /\ exit = 0
    => /\ wanted("usr") => usr = image
       /\ wanted("rootfs") => rootfs = image
       /\ wanted("kernel") => kernel = image

(***************************************************************************)
(* When a first boot has done its restore, each saved file the user had    *)
(* changed is in the flash again, or the motd warns that it is not.        *)
(***************************************************************************)
SavedIsBack ==
    power = "up" /\ pc = "idle" /\ root = "flash" /\ valid /\ archive # None =>
        \A f \in syssection(text) \cap File :
            archive[f] = "user" => flash[f] = "user" \/ flash["motd"] = "warning"

(***************************************************************************)
(* The list and the archive in the SysConf partition are of one save: what *)
(* a save, interrupted or not, leaves there never makes a restore look for *)
(* files that the archive has not.                                         *)
(***************************************************************************)
SavedTogether ==
    valid /\ archive # None => \A p \in syssection(text) : archive[p] # None

(***************************************************************************)
(* A restore by the user is all or nothing: if it put any file back and    *)
(* exits with 0, each file of the archive, the network configuration among *)
(* them, is what it was at the save, but for those the user declined.      *)
(***************************************************************************)
RestoreExact ==
    Ended("restore") /\ exit = 0 /\ list # {} =>
        /\ archive # None
        /\ \A p \in Path : archive[p] # None /\ p \notin declined => flash[p] = archive[p]

\* A restore that exits with 0 did not skip the files the partition lists.
RestoreDone == Ended("restore") /\ exit = 0 /\ syssection(text) # {} => list # {}

(***************************************************************************)
(* However many lists the text has, the archive after it holds the files   *)
(* of the last one: a save that fails leaves no archive, or its own.       *)
(***************************************************************************)
LastList(t) == t.lists[Len(t.lists)]

ArchiveIsLast ==
    archive # None =>
        /\ text.lists # <<>>
        /\ \A p \in Path : archive[p] # None <=> p \in LastList(text)

\* What a restore will put back is the list of the save that went before.
SavedListCounts ==
    Ended("save") /\ exit = 0 => syssection(text) = list

\* What a save wrote, restore will accept.
SavedIsValid == Ended("save") /\ exit = 0 => valid
=============================================================================
