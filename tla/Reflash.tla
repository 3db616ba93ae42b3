------------------------------- MODULE Reflash -------------------------------
(***************************************************************************)
(* reflash: write new images to the usr, root and kernel partitions, and   *)
(* unless -n was given carry the configuration files of the old root over  *)
(* to the new one.  The command starts when its arguments and the sizes of *)
(* the images have been found good.                                        *)
(***************************************************************************)
EXTENDS Sysconf

preserving == cmd.name = "reflash"
wanted(p) == p \in cmd.parts

(***************************************************************************)
(* What can be asked for: a root (-j) or with it a kernel (-i, or -j and   *)
(* -k); a kernel (-k).  A complete image of the manufacturer has a usr     *)
(* file system, too, and clears preserve_config.                           *)
(***************************************************************************)
PartsOf(c, i) ==
    CASE c = "kernel"                     -> {{"kernel"}}
      [] c # "kernel" /\ i \notin Native  -> {{"rootfs"}, {"rootfs", "kernel"}}
      [] c = "reflash_n" /\ i \in Native -> {{"usr", "rootfs", "kernel"}}
      [] c = "reflash" /\ i \in Native    -> {}

StartReflash ==
    \E c \in {"reflash", "reflash_n", "kernel"}, i \in Image :
        /\ \E parts \in PartsOf(c, i) :
              Begin(c, parts, IF "rootfs" \in parts THEN "f_mount" ELSE "w_usr")
        /\ image' = i
        /\ UNCHANGED <<partVars, sysVars, treeVars, powerVars, mounted>>

(***************************************************************************)
(* umountflash -r, which refuses when the flash is mounted on /; then      *)
(* mount it read-only on a temporary directory.                            *)
(***************************************************************************)
FlashMount ==
    /\ At("f_mount")
    /\ \/ /\ root # "flash"
          /\ mounted' = TRUE
          /\ Step(IF preserving THEN "f_save" ELSE "w_usr")
          /\ UNCHANGED <<tmpVars, declined>>
       \/ /\ root = "flash" \/ "io" \in Faults
          /\ mounted' \in {mounted, FALSE}
          /\ Leave(1)
    /\ UNCHANGED <<partVars, sysVars, treeVars, powerVars>>

\* sysconf_save_conffiles, or errorexit
FlashSave ==
    /\ At("f_save")
    /\ \/ /\ list' = ToSave(flash, newer)
          /\ saved' = SavedFiles(flash, list')
          /\ Step("f_umount") /\ UNCHANGED <<pending, mounted, declined>>
       \/ /\ "io" \in Faults
          /\ mounted' \in BOOLEAN
          /\ Leave(1)
    /\ UNCHANGED <<partVars, sysVars, treeVars, powerVars>>

\* Mutation: a failing umount is only reported.
FlashUmountUnchecked ==
    /\ At("f_umount")
    /\ mounted' = FALSE \/ ("io" \in Faults /\ mounted' = TRUE)
    /\ Step("w_usr") /\ UNCHANGED <<tmpVars, declined>>
    /\ UNCHANGED <<partVars, sysVars, treeVars, powerVars>>

FlashUmount ==
    /\ At("f_umount")
    /\ \/ mounted' = FALSE /\ Step("w_usr") /\ UNCHANGED <<tmpVars, declined>>
       \/ /\ "io" \in Faults /\ UNCHANGED mounted
          /\ Exit(1) /\ saved' = NoFiles /\ list' = {}
          /\ UNCHANGED <<cmd, image, orig, declined>>
    /\ UNCHANGED <<partVars, sysVars, treeVars, powerVars>>

-----------------------------------------------------------------------------
(***************************************************************************)
(* The writes, in the order usr, root, kernel.  devio's status is 0, 1     *)
(* (nothing written), 3 (partly written) or another; check_status goes on  *)
(* after a 1 or a 3, unless it was the root.                               *)
(***************************************************************************)
toWrite   == [usr |-> "w_usr", rootfs |-> "w_rootfs", kernel |-> "w_kernel"]
writing   == [usr |-> "writing_usr", rootfs |-> "writing_rootfs",
              kernel |-> "writing_kernel"]
nextWrite == [usr |-> "w_rootfs", rootfs |-> "w_kernel", kernel |-> "written"]

SkipWrite(p) ==
    /\ At(toWrite[p]) /\ ~wanted(p)
    /\ Step(nextWrite[p])
    /\ UNCHANGED <<partVars, sysVars, treeVars, powerVars, tmpVars, mounted, declined>>

\* Status 1: the saved configuration is removed when the root stays.
NothingWritten(p) ==
    /\ At(toWrite[p]) /\ wanted(p) /\ "io" \in Faults
    /\ IF p = "rootfs"
       THEN Exit(1) /\ saved' = NoFiles /\ list' = {}
            /\ UNCHANGED <<cmd, image, orig, declined>>
       ELSE Step(nextWrite[p]) /\ UNCHANGED <<tmpVars, declined>>
    /\ UNCHANGED <<partVars, sysVars, treeVars, powerVars, mounted>>

Holds(p, content) ==
    /\ kernel' = IF p = "kernel" THEN content ELSE kernel
    /\ rootfs' = IF p = "rootfs" THEN content ELSE rootfs
    /\ usr'    = IF p = "usr"    THEN content ELSE usr
    /\ IF p = "rootfs"
       THEN /\ flash' = IF content = "torn" THEN NoFiles ELSE ImageTree(content)
            /\ newer' = {}
       ELSE UNCHANGED treeVars

BeginWrite(p) ==
    /\ At(toWrite[p]) /\ wanted(p)
    /\ Holds(p, "torn")
    /\ Step(writing[p])
    /\ UNCHANGED <<sysVars, powerVars, tmpVars, mounted, declined>>

\* Mutation: what was saved is removed after a partial write, too.
PartlyWrittenRemoves(p) ==
    /\ At(writing[p]) /\ "partial" \in Faults
    /\ \/ /\ p = "rootfs" /\ Exit(3) /\ saved' = NoFiles /\ list' = {}
          /\ UNCHANGED <<cmd, image, orig, declined>>
       \/ p # "rootfs" /\ Step(nextWrite[p]) /\ UNCHANGED <<tmpVars, declined>>
    /\ UNCHANGED <<partVars, sysVars, treeVars, powerVars, mounted>>

\* Mutation: a partial write of the root does not end reflash.
PartlyWrittenGoesOn(p) ==
    /\ At(writing[p]) /\ "partial" \in Faults
    /\ Step(nextWrite[p]) /\ UNCHANGED <<tmpVars, declined>>
    /\ UNCHANGED <<partVars, sysVars, treeVars, powerVars, mounted>>

\* Status 3, or another ("internal error"), of which 2 stands for any.
PartlyWritten(p) ==
    /\ At(writing[p]) /\ "partial" \in Faults
    /\ \/ p = "rootfs" /\ Leave(3)
       \/ Leave(2)
       \/ p # "rootfs" /\ Step(nextWrite[p]) /\ UNCHANGED <<tmpVars, declined>>
    /\ UNCHANGED <<partVars, sysVars, treeVars, powerVars, mounted>>

Written(p) ==
    /\ At(writing[p])
    /\ Holds(p, image)
    /\ Step(nextWrite[p])
    /\ UNCHANGED <<sysVars, powerVars, tmpVars, mounted, declined>>

(***************************************************************************)
(* The images are verified, with a warning at most.  Unless the root was   *)
(* written and its configuration saved, this is all: exit 0.               *)
(***************************************************************************)
NoRestore ==
    /\ At("written") /\ ~(preserving /\ wanted("rootfs"))
    /\ Leave(0)
    /\ UNCHANGED <<partVars, sysVars, treeVars, powerVars, mounted>>

\* mount the new root, and touch etc/.configured in it
Remount ==
    /\ At("written") /\ preserving /\ wanted("rootfs")
    /\ \/ /\ mounted' = TRUE /\ newer' = {}
          /\ Step("choose") /\ UNCHANGED <<tmpVars, declined>>
       \/ /\ "io" \in Faults
          /\ mounted' \in BOOLEAN /\ UNCHANGED newer
          /\ Leave(1)
    /\ UNCHANGED <<partVars, sysVars, flash, powerVars>>

WriteStep(p) ==
    \/ SkipWrite(p) \/ NothingWritten(p) \/ BeginWrite(p)
    \/ PartlyWritten(p) \/ Written(p)

ReflashStep ==
    \/ StartReflash \/ FlashMount \/ FlashSave \/ FlashUmount
    \/ \E p \in {"usr", "rootfs", "kernel"} : WriteStep(p)
    \/ NoRestore \/ Remount
=============================================================================
