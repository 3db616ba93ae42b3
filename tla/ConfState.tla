------------------------------ MODULE ConfState ------------------------------
(***************************************************************************)
(* What sysconf, sysconfsetup and reflash change on a machine whose root   *)
(* is in flash: the flash partitions, the tree of configuration files in   *)
(* the root partition, and, while the machine runs from a ram disk, the    *)
(* copy of that tree it runs from.                                         *)
(***************************************************************************)
EXTENDS ConfFiles, FiniteSets

CONSTANTS
    Image,      \* firmware images: a kernel and a root
    Native,     \* those of the manufacturer, that have a usr file system, too
    Room,       \* how many lists the SysConf partition has room for
    ValidRoom,  \* how many lists a text of less than 32768 bytes holds
    Roots,      \* the roots a boot may choose in this instance
    Commands,   \* the commands the user gives in this instance
    Faults      \* the faults this instance may suffer

FaultKinds ==
    {"power",     \* the power fails
     "io",        \* a mount, umount, copy or write fails
     "partial"}   \* a flash write fails half way

AllCommands ==
    {"save", "restore", "read", "default", "reload", "reinit", "init",
     "edit", "rm_sysconf", "reflash", "reflash_n", "kernel"}

ASSUME ConfStateAssumption ==
    /\ Native \subseteq Image
    /\ Room \in Nat /\ ValidRoom \in Nat
    /\ Roots \subseteq {"flash", "ram"}
    /\ Commands \subseteq AllCommands
    /\ Faults \subseteq FaultKinds
    /\ Image \cap {"user", "torn", None} = {}
    /\ None \notin 0..3 /\ None \notin {"user", "torn"}

\* The tree of a freshly written image: no sysconf yet.
ImageTree(i) ==
    [p \in Path |-> CASE p = "sysconf" -> None
                      [] p = "system"  -> "default"
                      [] p = "motd"    -> "image"
                      [] OTHER         -> i]

NoFiles == [p \in Path |-> None]
NoText  == [net |-> "factory", lists |-> <<>>]

VARIABLES
    kernel, rootfs, usr,  \* the image each partition holds, or "torn"
    flash,    \* the configuration files in the root partition
    newer,    \* those of them modified since etc/.configured
    valid,    \* the SysConf partition: TRUE iff sysconf_valid
    text,     \* ... the text after the length word
    archive,  \* ... the cpio archive after the text, or None if unreadable
    power, root, ram,     \* the machine, its root, and the ram disk's tree
    \* the running command
    pc, cmd, image, exit, saved, list, pending, mounted,
    orig,     \* ghost: flash when reflash began
    declined  \* ghost: the files the user did not want back

partVars  == <<kernel, rootfs, usr>>
sysVars   == <<valid, text, archive>>
treeVars  == <<flash, newer>>
powerVars == <<power, root, ram>>
tmpVars   == <<saved, list, pending>>
cmdVars   == <<pc, cmd, image, exit, tmpVars, mounted, orig, declined>>

vars == <<partVars, sysVars, treeVars, powerVars, cmdVars>>

At(l) == power = "up" /\ pc = l
Goto(l) == pc' = l

\* The configuration files under /, and the step that changes them.
here == IF root = "flash" THEN flash ELSE ram

Here(tree) ==
    IF root = "flash" THEN flash' = tree /\ UNCHANGED ram
                      ELSE ram' = tree /\ UNCHANGED flash

\* The command ends.  What it left in /tmp stays there.
Exit(s) == Goto("idle") /\ exit' = s /\ pending' = {}
=============================================================================
