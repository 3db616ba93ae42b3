------------------------------- MODULE Sysconf -------------------------------
(***************************************************************************)
(* /sbin/sysconf, and the init script sysconfsetup that runs it at boot.   *)
(* 'sysconf save' writes /etc/default/sysconf and the configuration files  *)
(* of the flash root to the SysConf partition; 'sysconf restore' puts them *)
(* back; a boot that finds no /etc/default/sysconf does so by itself       *)
(* (auto), or makes a default one.                                         *)
(***************************************************************************)
EXTENDS ConfState

auto == cmd.name \in {"boot", "reinit"}

\* A command with no step of its own left nothing in /tmp.
Begin(c, parts, l) ==
    /\ At("idle")
    /\ c \in Commands
    /\ cmd' = [name |-> c, parts |-> parts]
    /\ exit' = None /\ saved' = NoFiles /\ list' = {} /\ pending' = {}
    /\ orig' = (IF c = "reflash" THEN flash ELSE NoFiles) /\ declined' = {}
    /\ Goto(l)

Leave(s) == Exit(s) /\ UNCHANGED <<cmd, image, saved, list, orig, declined>>
Step(l) == Goto(l) /\ UNCHANGED <<cmd, image, exit, orig>>

-----------------------------------------------------------------------------
(***************************************************************************)
(* The commands that write /etc/default/sysconf under /.  They make it in  *)
(* /tmp, a file system of its own, or redirect into it, so that it is torn *)
(* until it is whole; the text is held in saved.sysconf meanwhile.         *)
(***************************************************************************)
netOf(tree) == IF tree.sysconf = None THEN "default" ELSE tree.sysconf.net

sysconf_default(tree) == [net |-> netOf(tree), lists |-> <<>>]

\* sysconf_read, sysconf_default, and init_network of turnup init.
NewText(c) ==
    CASE c = "read"    -> text
      [] c = "default" -> sysconf_default(here)
      [] c = "init"    -> [net |-> "user", lists |-> <<>>]

StartWriteSysconf ==
    \E c \in {"read", "default", "init"} :
        /\ c = "read" => valid
        /\ At("idle") /\ c \in Commands
        /\ cmd' = [name |-> c, parts |-> {}]
        /\ exit' = None /\ list' = {} /\ pending' = {}
        /\ orig' = NoFiles /\ declined' = {}
        /\ saved' = [NoFiles EXCEPT !["sysconf"] = NewText(c)]
        /\ Here([here EXCEPT !["sysconf"] = Torn])
        /\ Goto("write_sysconf")
        /\ UNCHANGED <<partVars, sysVars, newer, power, root, image, mounted>>

WriteSysconf ==
    /\ At("write_sysconf")
    /\ Here([here EXCEPT !["sysconf"] = saved["sysconf"]])
    /\ saved' = NoFiles
    /\ IF cmd.name = "init" THEN Goto("init_reload") /\ UNCHANGED <<exit, pending>>
                            ELSE Exit(0)
    /\ UNCHANGED <<partVars, sysVars, newer, power, root, cmd, image, list,
                   mounted, orig, declined>>

\* sysconf_reload: the system files, and an 'init' motd.
sysconf_reload(tree) == [tree EXCEPT !["system"] = netOf(tree), !["motd"] = "init"]

InitReload ==
    /\ At("init_reload")
    /\ Here([sysconf_reload(here) EXCEPT !["motd"] = None])
    /\ Leave(0)
    /\ UNCHANGED <<partVars, sysVars, newer, power, root, mounted>>

Reload ==
    /\ Begin("reload", {}, "idle")
    /\ Here(sysconf_reload(here))
    /\ UNCHANGED <<partVars, sysVars, newer, power, root, image, mounted>>

\* What a write of t that fails on the way leaves of it.
Pieces(t) ==
    {Torn, [t EXCEPT !.lists = <<>>]} \cup
    UNION {{[t EXCEPT !.lists = Append(SubSeq(t.lists, 1, k - 1), l)] :
                l \in SUBSET t.lists[k]} : k \in DOMAIN t.lists}

-----------------------------------------------------------------------------
(***************************************************************************)
(* sysconf save.  The files come from the flash root, the text from /.     *)
(***************************************************************************)
StartSave ==
    /\ Begin("save", {}, "s_mount")
    /\ UNCHANGED <<partVars, sysVars, treeVars, powerVars, image, mounted>>

\* umountflash, mkdir, mountflash -o ro; or exit 1
SaveMount ==
    /\ At("s_mount")
    /\ \/ mounted' = TRUE /\ Step("s_copy") /\ UNCHANGED <<tmpVars, declined>>
       \/ "io" \in Faults /\ mounted' \in {mounted, FALSE} /\ Leave(1)
    /\ UNCHANGED <<partVars, sysVars, treeVars, powerVars>>

\* sysconf_save_conffiles; a failing umount is only reported
SaveCopy ==
    /\ At("s_copy")
    /\ \/ /\ list' = ToSave(flash, newer)
          /\ saved' = SavedFiles(flash, list')
          /\ Step("s_write") /\ UNCHANGED <<pending, declined>>
       \/ "io" \in Faults /\ Leave(1)
    /\ mounted' = FALSE \/ ("io" \in Faults /\ mounted' = TRUE)
    /\ UNCHANGED <<partVars, sysVars, treeVars, powerVars>>

(***************************************************************************)
(* cat /etc/default/sysconf; echo '[preserve]' | sed; then the list.  The  *)
(* sed should stop at the first line [preserve], but its pattern never     *)
(* matches: lists that are in /etc/default/sysconf are kept.               *)
(***************************************************************************)
SavedText ==
    [net   |-> netOf(here),
     lists |-> Append(IF here["sysconf"] = None THEN <<>>
                      ELSE here["sysconf"].lists, list)]

\* Mutation: sysconf exits with the status of devio.
SaveRefusedStatus ==
    /\ At("s_write")
    /\ Len(SavedText.lists) > Room \/ "io" \in Faults
    /\ Leave(7)
    /\ UNCHANGED <<partVars, sysVars, treeVars, powerVars, mounted>>

(***************************************************************************)
(* devio refuses (7) a text that does not fit, and may fail before (1) or  *)
(* after (3) its first write.  An interrupted write leaves no valid text,  *)
(* or a text without its lists, or one without its archive.                *)
(***************************************************************************)
SaveRefused ==
    /\ At("s_write")
    /\ Len(SavedText.lists) > Room \/ "io" \in Faults
    /\ Leave(1)
    /\ UNCHANGED <<partVars, sysVars, treeVars, powerVars, mounted>>

\* Mutation: the archive of the save before stays until it is overwritten.
SaveWriteOverArchive ==
    /\ At("s_write")
    /\ Len(SavedText.lists) <= Room
    /\ valid' = TRUE /\ text' = SavedText /\ UNCHANGED archive
    /\ Step("s_writing")
    /\ UNCHANGED <<partVars, treeVars, powerVars, tmpVars, mounted, declined>>

SaveWrite ==
    /\ At("s_write")
    /\ Len(SavedText.lists) <= Room
    /\ \/ valid' = FALSE /\ text' = NoText
       \/ valid' = TRUE /\ text' \in {SavedText, [SavedText EXCEPT !.lists = <<>>]}
    /\ archive' = None
    /\ Step("s_writing")
    /\ UNCHANGED <<partVars, treeVars, powerVars, tmpVars, mounted, declined>>

SaveWritten ==
    /\ At("s_writing")
    /\ \/ /\ valid' = (Len(SavedText.lists) <= ValidRoom)
          /\ text' = SavedText /\ archive' = saved
          /\ Leave(0)
       \/ "partial" \in Faults /\ Leave(1) /\ UNCHANGED sysVars
    /\ UNCHANGED <<partVars, treeVars, powerVars, mounted>>

\* The text, or the archive after it, did not fit in /tmp, and nobody noticed.
SaveWrittenShort ==
    /\ At("s_writing") /\ "io" \in Faults
    /\ text' \in Pieces(SavedText) /\ archive' = None
    /\ valid' \in BOOLEAN
    /\ text' # Torn => valid' = (Len(text'.lists) <= ValidRoom)
    /\ Leave(0)
    /\ UNCHANGED <<partVars, treeVars, powerVars, mounted>>

-----------------------------------------------------------------------------
(***************************************************************************)
(* sysconf restore, reinit, and the restore of a first boot, all into the  *)
(* flash root.  The user starts it, or SetupRead below.                    *)
(***************************************************************************)
StartRestore ==
    /\ \E c \in {"restore", "reinit"} :
          Begin(c, {}, IF valid THEN "mount" ELSE "invalid")
    /\ UNCHANGED <<partVars, sysVars, treeVars, powerVars, image, mounted>>

RestoreInvalid ==
    /\ At("invalid") /\ Leave(1)
    /\ UNCHANGED <<partVars, sysVars, treeVars, powerVars, mounted>>

RestoreMount ==
    /\ At("mount")
    /\ \/ mounted' = TRUE /\ Step("read") /\ UNCHANGED <<tmpVars, declined>>
       \/ "io" \in Faults /\ mounted' \in {mounted, FALSE} /\ Leave(1)
    /\ UNCHANGED <<partVars, sysVars, treeVars, powerVars>>

(***************************************************************************)
(* sysconf_read || sysconf_default, of the flash: as above, the file is    *)
(* torn until it is whole.  What follows does not ask whether they failed. *)
(* A failing mv leaves the old file or a part of the new one, and then the *)
(* default comes to be there, or that fails, too.  The text made in /tmp   *)
(* may itself be cut short, which nobody notices.                          *)
(***************************************************************************)
RestoreRead ==
    /\ At("read")
    /\ \/ flash' = [flash EXCEPT !["sysconf"] = Torn] /\ Step("read_done")
       \/ /\ "io" \in Faults
          /\ flash' \in {flash, [flash EXCEPT !["sysconf"] = sysconf_default(flash)]}
          /\ Step("reload")
    /\ UNCHANGED <<partVars, sysVars, newer, powerVars, tmpVars, mounted, declined>>

Unread(t) == {None, sysconf_default(NoFiles)} \cup Pieces(t)

RestoreReadDone ==
    /\ At("read_done")
    /\ \E t \in {text} \cup (IF "io" \in Faults THEN Unread(text) ELSE {}) :
          flash' = [flash EXCEPT !["sysconf"] = t]
    /\ Step("reload")
    /\ UNCHANGED <<partVars, sysVars, newer, powerVars, tmpVars, mounted, declined>>

\* syssection preserve, of the file under tree
preserved(tree) == IF tree["sysconf"] = None THEN {} ELSE syssection(tree["sysconf"])

RestoreReload ==
    /\ At("reload")
    /\ \/ flash' = sysconf_reload(flash)
       \/ "io" \in Faults /\ flash' \in {flash, [flash EXCEPT !["system"] = "torn"]}
    /\ list' = preserved(flash)
    /\ Step(IF list' = {} THEN "umount" ELSE "extract")
    /\ UNCHANGED <<partVars, sysVars, newer, powerVars, saved, pending, mounted,
                   declined>>

warning(tree) == [tree EXCEPT !["motd"] = "warning"]

\* gunzip | cpio -i
RestoreExtract ==
    /\ At("extract")
    /\ \/ /\ archive # None
          /\ saved' = archive
          /\ Step("test")
          /\ UNCHANGED <<flash, list, pending, mounted, declined>>
       \/ /\ archive = None \/ "io" \in Faults
          /\ flash' = warning(flash)
          /\ mounted' = FALSE \/ ("io" \in Faults /\ mounted' = TRUE)
          /\ Leave(1)
    /\ UNCHANGED <<partVars, sysVars, newer, powerVars>>

RestoreTest ==
    /\ At("test")
    /\ IF auto /\ ~TestRestore(flash, saved, list)
       THEN /\ flash' = warning(flash)
            /\ saved' = NoFiles
            /\ Step("umount")
       ELSE /\ flash' = [flash EXCEPT !["motd"] = None]
            /\ UNCHANGED saved
            /\ Step("choose")
    /\ UNCHANGED <<partVars, sysVars, newer, powerVars, list, pending, mounted,
                   declined>>

-----------------------------------------------------------------------------
(***************************************************************************)
(* sysconf_restore_conffiles, for restore and for reflash.  The user wants *)
(* the old version of the files in keep, the new one of those in upgrade,  *)
(* and leaves the others for later.  list becomes the list $restore of the *)
(* files handled; cpio copies one file after the other.                    *)
(***************************************************************************)
Choose ==
    /\ At("choose")
    /\ \E keep \in SUBSET Asked(flash, saved, list) :
       \E upgrade \in SUBSET (Asked(flash, saved, list) \ keep) :
          /\ pending' = ToCopy(flash, saved, list, keep)
          /\ list' = Handled(flash, saved, list, keep)
          /\ saved' = [p \in Path |-> IF p \in upgrade THEN None ELSE saved[p]]
          /\ declined' = upgrade
    /\ Step("copy")
    /\ UNCHANGED <<partVars, sysVars, treeVars, powerVars, mounted>>

CopyOne ==
    /\ At("copy")
    /\ \E p \in pending :
          /\ flash' = [flash EXCEPT ![p] = IF saved[p] = None THEN @ ELSE saved[p]]
          /\ newer' = newer \cup ({p} \cap File)
          /\ pending' = pending \ {p}
    /\ UNCHANGED <<partVars, sysVars, powerVars, pc, cmd, image, exit, saved, list,
                   mounted, orig, declined>>

CopyFail ==
    /\ At("copy")
    /\ "io" \in Faults \/ \E p \in pending : saved[p] = None
    /\ flash' = IF cmd.name = "reflash" THEN flash ELSE warning(flash)
    /\ Leave(1)
    /\ UNCHANGED <<partVars, sysVars, newer, powerVars, mounted>>

(***************************************************************************)
(* The copies are removed from $saved.  With the old etc/.configured back, *)
(* other files may count as modified since.                                *)
(***************************************************************************)
CopyDone ==
    /\ At("copy") /\ pending = {}
    /\ saved' = [p \in Path |-> IF p \in list THEN None ELSE saved[p]]
    /\ newer' \in {newer, File}
    /\ Step("left")
    /\ UNCHANGED <<partVars, sysVars, flash, powerVars, list, pending, mounted,
                   declined>>

\* Mutation: nobody looks for files left in $saved.
LeftUnseen ==
    /\ At("left")
    /\ Step("umount") /\ UNCHANGED <<flash, tmpVars, declined>>
    /\ UNCHANGED <<partVars, sysVars, newer, powerVars, mounted>>

Left ==
    /\ At("left")
    /\ IF cmd.name # "reflash" /\ saved # NoFiles
       THEN flash' = warning(flash) /\ Leave(1)
       ELSE Step("umount") /\ UNCHANGED <<flash, tmpVars, declined>>
    /\ UNCHANGED <<partVars, sysVars, newer, powerVars, mounted>>

\* restore ignores a failing umount, reflash exits with 1
Umount ==
    /\ At("umount")
    /\ \/ mounted' = FALSE /\ Leave(0)
       \/ /\ "io" \in Faults /\ UNCHANGED mounted
          /\ Leave(IF cmd.name = "reflash" THEN 1 ELSE 0)
    /\ UNCHANGED <<partVars, sysVars, treeVars, powerVars>>

-----------------------------------------------------------------------------
(***************************************************************************)
(* sysconfsetup start, at boot.  /tmp is then still a directory of /, and  *)
(* mv replaces /etc/default/sysconf in one step.                           *)
(***************************************************************************)
SetupSkip ==
    /\ At("setup") /\ here["sysconf"] # None
    /\ Leave(None)
    /\ UNCHANGED <<partVars, sysVars, treeVars, powerVars, mounted>>

\* Mutation: a valid text is only reloaded.
SetupReadReload ==
    /\ At("setup") /\ here["sysconf"] = None /\ valid
    /\ Here([here EXCEPT !["sysconf"] = text])
    /\ Step("setup_reload")
    /\ UNCHANGED <<partVars, sysVars, newer, power, root, tmpVars, mounted, declined>>

SetupRead ==
    /\ At("setup") /\ here["sysconf"] = None /\ valid
    /\ Here([here EXCEPT !["sysconf"] = text])
    /\ Step("mount")
    /\ UNCHANGED <<partVars, sysVars, newer, power, root, tmpVars, mounted, declined>>

\* sysconf_read finds no text, or cannot put it into its place.
SetupDefault ==
    /\ At("setup") /\ here["sysconf"] = None
    /\ ~valid \/ "io" \in Faults
    /\ Here([here EXCEPT !["sysconf"] = sysconf_default(here)])
    /\ Step("setup_reload")
    /\ UNCHANGED <<partVars, sysVars, newer, power, root, tmpVars, mounted, declined>>

SetupReload ==
    /\ At("setup_reload")
    /\ Here(sysconf_reload(here))
    /\ Leave(None)
    /\ UNCHANGED <<partVars, sysVars, newer, power, root, mounted>>

SaveStep ==
    \/ SaveMount \/ SaveCopy \/ SaveRefused \/ SaveWrite \/ SaveWritten
    \/ SaveWrittenShort

RestoreStep ==
    \/ RestoreInvalid \/ RestoreMount \/ RestoreRead \/ RestoreReadDone
    \/ RestoreReload \/ RestoreExtract \/ RestoreTest \/ Choose \/ CopyOne \/ CopyFail
    \/ CopyDone \/ Left \/ Umount

SetupStep == SetupSkip \/ SetupRead \/ SetupDefault \/ SetupReload

SysconfStep ==
    \/ StartWriteSysconf \/ WriteSysconf \/ InitReload \/ Reload
    \/ StartSave \/ SaveStep \/ StartRestore \/ RestoreStep \/ SetupStep
=============================================================================
