--------------------------- MODULE SlugConfProofs ---------------------------
(***************************************************************************)
(* Proofs about SlugConf: types, and what reflash and a restore leave      *)
(* behind, for any files, images and faults.                               *)
(***************************************************************************)
EXTENDS SlugConf, SequenceTheorems, TLAPS

USE DEF At, Goto, Step, Exit, Leave

-----------------------------------------------------------------------------
(***************************************************************************)
(* Trees: what the functions of sysconf make of a tree is a tree.          *)
(***************************************************************************)
LEMMA MotdTree ==
    ASSUME NEW t, Tree(t), NEW m \in {"image", "init", "warning", None}
    PROVE  Tree([t EXCEPT !["motd"] = m])
  BY ConfAssumption DEF Tree, Path

LEMMA SysconfTree ==
    ASSUME NEW t, Tree(t), NEW s, s # None => s \in Text
    PROVE  Tree([t EXCEPT !["sysconf"] = s])
  BY ConfAssumption DEF Tree, Path

LEMMA NetTyped ==
    ASSUME NEW t, Tree(t)
    PROVE  netOf(t) \in Nets
  BY DEF Tree, netOf, Text, Nets

LEMMA SystemTree ==
    ASSUME NEW t, Tree(t), NEW n \in Nets
    PROVE  Tree([t EXCEPT !["system"] = n])
  BY ConfAssumption DEF Tree, Path

LEMMA ReloadTree ==
    ASSUME NEW t, Tree(t)
    PROVE  Tree(sysconf_reload(t))
  BY ConfAssumption, NetTyped DEF Tree, sysconf_reload, Path

LEMMA ImageTreeTree ==
    ASSUME NEW i \in Image
    PROVE  Tree(ImageTree(i))
  BY ConfAssumption DEF Tree, ImageTree, Path, Content, Nets

LEMMA NoFilesTree == Tree(NoFiles)
  BY DEF Tree, NoFiles, Path, Content

LEMMA SavedTree ==
    ASSUME NEW t, Tree(t), NEW l
    PROVE  Tree(SavedFiles(t, l))
  BY DEF Tree, SavedFiles, Path, Content

LEMMA CopiedTree ==
    ASSUME NEW t, Tree(t), NEW s, Tree(s), NEW p \in Path
    PROVE  Tree([t EXCEPT ![p] = IF s[p] = None THEN @ ELSE s[p]])
  BY ConfAssumption DEF Tree, Path

LEMMA RemovedTree ==
    ASSUME NEW s, Tree(s), NEW l
    PROVE  Tree([p \in Path |-> IF p \in l THEN None ELSE s[p]])
  BY DEF Tree, Path, Content

LEMMA HereTree ==
    ASSUME NEW t, Tree(t), Tree(flash), Tree(ram), Here(t)
    PROVE  Tree(flash') /\ Tree(ram')
  BY DEF Here

LEMMA SectionTyped ==
    ASSUME NEW t \in Text
    PROVE  syssection(t) \subseteq Path
  BY DEF syssection, Text

LEMMA SomeTexts ==
    /\ NoText \in Text /\ Torn \in Text
    /\ \A n \in Nets : [net |-> n, lists |-> <<>>] \in Text
  BY DEF NoText, Torn, Text, Nets

LEMMA DefaultTyped ==
    ASSUME NEW t, Tree(t)
    PROVE  sysconf_default(t) \in Text
  BY NetTyped, SomeTexts DEF sysconf_default

\* The first lists of a text are lists, and so is a part of the next one.
LEMMA CutLists ==
    ASSUME NEW L, NEW ls \in Seq(L), NEW k \in DOMAIN ls, NEW l \in L
    PROVE  Append(SubSeq(ls, 1, k - 1), l) \in Seq(L)
  <1>1. SubSeq(ls, 1, k - 1) \in Seq(L)
    BY SubSeqProperties
  <1> QED
    BY <1>1

LEMMA PiecesTyped ==
    ASSUME NEW t \in Text
    PROVE  Pieces(t) \subseteq Text
  <1> SUFFICES ASSUME NEW c \in Pieces(t)
               PROVE  c \in Text
    OBVIOUS
  <1>1. Torn \in Text
    BY SomeTexts
  <1>2. \A ls \in Seq(SUBSET Path) : [t EXCEPT !.lists = ls] \in Text
    BY DEF Text
  <1>3. [t EXCEPT !.lists = <<>>] \in Text
    <2>1. <<>> \in Seq(SUBSET Path)
      OBVIOUS
    <2> QED
      BY <1>2, <2>1
  <1>4. ASSUME NEW k \in DOMAIN t.lists, NEW l \in SUBSET t.lists[k]
        PROVE  [t EXCEPT !.lists = Append(SubSeq(t.lists, 1, k - 1), l)] \in Text
    <2>1. t.lists \in Seq(SUBSET Path) /\ t.lists[k] \in SUBSET Path
      BY DEF Text
    <2>2. l \in SUBSET Path
      BY <2>1
    <2>3. Append(SubSeq(t.lists, 1, k - 1), l) \in Seq(SUBSET Path)
      BY <2>1, <2>2, CutLists, Zenon
    <2> QED
      BY <1>2, <2>3
  <1>5. \/ c \in {Torn, [t EXCEPT !.lists = <<>>]}
        \/ \E k \in DOMAIN t.lists : \E l \in SUBSET t.lists[k] :
              c = [t EXCEPT !.lists = Append(SubSeq(t.lists, 1, k - 1), l)]
    BY Zenon DEF Pieces
  <1> QED
    BY <1>1, <1>3, <1>4, <1>5

LEMMA UnreadTyped ==
    ASSUME NEW t \in Text, NEW c \in Unread(t), c # None
    PROVE  c \in Text
  BY PiecesTyped, DefaultTyped, NoFilesTree DEF Unread

LEMMA SavedTextTyped ==
    ASSUME Tree(here), list \subseteq Path
    PROVE  /\ SavedText \in Text
           /\ [SavedText EXCEPT !.lists = <<>>] \in Text
  <1> DEFINE ls == IF here["sysconf"] = None THEN <<>> ELSE here["sysconf"].lists
  <1>1. ls \in Seq(SUBSET Path)
    BY DEF Tree, Text
  <1>2. Append(ls, list) \in Seq(SUBSET Path)
    BY <1>1
  <1>3. netOf(here) \in Nets
    BY NetTyped
  <1>4. SavedText = [net |-> netOf(here), lists |-> Append(ls, list)]
    BY DEF SavedText
  <1> HIDE DEF ls
  <1>5. [SavedText EXCEPT !.lists = <<>>] = [net |-> netOf(here), lists |-> <<>>]
    BY <1>4
  <1>6. SavedText \in Text
    BY <1>2, <1>3, <1>4 DEF Text
  <1>7. [net |-> netOf(here), lists |-> <<>>] \in Text
    BY <1>3, SomeTexts
  <1> QED
    BY <1>5, <1>6, <1>7

LEMMA ToSaveTyped ==
    ASSUME NEW t, NEW n
    PROVE  ToSave(t, n) \subseteq Path
  BY DEF ToSave

-----------------------------------------------------------------------------
(***************************************************************************)
(* Which command may be running at each place of the scripts.              *)
(***************************************************************************)
Writes ==
    {"w_usr", "w_rootfs", "w_kernel", "writing_usr", "writing_rootfs",
     "writing_kernel"}

SavePCs    == {"s_mount", "s_copy", "s_write", "s_writing"}
RestorePCs == {"mount", "read", "read_done", "reload", "extract", "test"}
CopyPCs    == {"choose", "copy", "left", "umount"}
FlashPCs   == {"f_save", "f_umount"}

Named ==
    /\ pc \in SavePCs => cmd.name = "save"
    /\ pc = "write_sysconf" => cmd.name \in {"read", "default", "init"}
    /\ pc = "init_reload" => cmd.name = "init"
    /\ pc \in {"setup", "setup_reload"} => cmd.name = "boot"
    /\ pc = "invalid" => cmd.name \in {"restore", "reinit"}
    /\ pc \in RestorePCs => cmd.name \in {"boot", "restore", "reinit"}
    /\ pc \in CopyPCs => cmd.name \in {"boot", "restore", "reinit", "reflash"}
    /\ pc = "f_mount" => cmd.name \in {"reflash", "reflash_n"}
    /\ pc \in FlashPCs => cmd.name = "reflash"
    /\ pc \in Writes \cup {"written"} =>
          cmd.name \in {"reflash", "reflash_n", "kernel"}
    /\ pc \in {"f_mount", "written"} \cup FlashPCs \cup Writes => image \in Image
    /\ cmd.name = "reflash" => "rootfs" \in cmd.parts

IInv == TypeOK /\ Named

USE DEF partVars, sysVars, treeVars, powerVars, tmpVars,
        Writes, SavePCs, RestorePCs, CopyPCs, FlashPCs

LEMMA InitTyped == Init => IInv
  <1> SUFFICES ASSUME Init PROVE IInv
    OBVIOUS
  <1>1. /\ Tree(flash) /\ Tree(ram) /\ Tree(saved) /\ Tree(orig)
    BY ImageTreeTree, NoFilesTree, ImageAssumption DEF Init
  <1>2. text \in Text
    BY SomeTexts DEF Init
  <1> QED
    BY <1>1, <1>2, ImageAssumption DEF Init, IInv, TypeOK, Named, NoCommand, PCs

LEMMA BeginTyped ==
    ASSUME IInv, NEW c \in AllCommands, NEW parts, NEW l, Begin(c, parts, l)
    PROVE  /\ cmd' = [name |-> c, parts |-> parts] /\ pc' = l
           /\ Tree(saved') /\ Tree(orig')
           /\ exit' = None /\ list' = {} /\ pending' = {} /\ declined' = {}
           /\ power = "up" /\ pc = "idle"
  BY NoFilesTree DEF Begin, IInv, TypeOK

LEMMA BootTyped ==
    ASSUME IInv, PowerOn \/ PowerOff \/ Edit \/ RmSysconf
    PROVE  IInv'
  <1>1. CASE PowerOn
    <2>1. Tree(ram')
      BY <1>1, NoFilesTree DEF PowerOn, IInv, TypeOK
    <2>2. CASE power' = "dead" /\ UNCHANGED <<root, ram, pc, cmd>>
      BY <1>1, <2>2 DEF PowerOn, IInv, TypeOK, Named, PCs
    <2>3. CASE power' = "up" /\ root' \in Roots /\ pc' = "setup"
               /\ cmd' = [name |-> "boot", parts |-> {}]
      <3>1. UNCHANGED <<partVars, sysVars, treeVars, image, exit, tmpVars,
                        mounted, orig, declined>>
        BY <1>1 DEF PowerOn
      <3> QED
        BY <2>1, <2>3, <3>1, ConfStateAssumption DEF IInv, TypeOK, Named, PCs
    <2> QED
      BY <1>1, <2>2, <2>3 DEF PowerOn
  <1>2. CASE PowerOff
    BY <1>2, NoFilesTree DEF PowerOff, IInv, TypeOK, Named, PCs, NoCommand
  <1>3. CASE Edit
    <2>1. Tree(flash')
      BY <1>3, ConfAssumption DEF Edit, IInv, TypeOK, Tree, Path, Content
    <2> QED
      BY <1>3, <2>1 DEF Edit, IInv, TypeOK, Named, PCs, NoCommand
  <1>4. CASE RmSysconf
    <2>1. Tree(here)
      BY DEF here, IInv, TypeOK
    <2>2. Tree(flash') /\ Tree(ram')
      BY <1>4, <2>1, SysconfTree, HereTree DEF RmSysconf, IInv, TypeOK
    <2> QED
      BY <1>4, <2>2 DEF RmSysconf, IInv, TypeOK, Named, PCs, NoCommand
  <1> QED
    BY <1>1, <1>2, <1>3, <1>4

LEMMA WriteTyped ==
    ASSUME IInv, StartWriteSysconf \/ WriteSysconf \/ InitReload \/ Reload
    PROVE  IInv'
  <1>0. Tree(here)
    BY DEF here, IInv, TypeOK
  <1>1. CASE StartWriteSysconf
    <2>1. PICK c \in {"read", "default", "init"} :
              /\ cmd' = [name |-> c, parts |-> {}]
              /\ saved' = [NoFiles EXCEPT !["sysconf"] = NewText(c)]
              /\ Here([here EXCEPT !["sysconf"] = Torn])
      BY <1>1 DEF StartWriteSysconf
    <2>2. NewText(c) \in Text
      BY <1>0, DefaultTyped, SomeTexts DEF NewText, IInv, TypeOK, Nets
    <2>3. Tree(saved')
      BY <2>1, <2>2, NoFilesTree, SysconfTree
    <2>4. Tree(flash') /\ Tree(ram')
      BY <1>0, <2>1, SysconfTree, HereTree, SomeTexts DEF IInv, TypeOK
    <2>5. cmd'.name \in {"read", "default", "init"} /\ cmd'.parts = {}
      BY <2>1
    <2>6. /\ exit' = None /\ list' = {} /\ pending' = {} /\ declined' = {}
          /\ orig' = NoFiles /\ pc' = "write_sysconf"
          /\ UNCHANGED <<partVars, sysVars, newer, power, root, image, mounted>>
      BY <1>1 DEF StartWriteSysconf
    <2> QED
      BY <2>3, <2>4, <2>5, <2>6, NoFilesTree
         DEF IInv, TypeOK, Named, PCs, AllCommands
  <1>2. CASE WriteSysconf
    <2>1. saved["sysconf"] # None => saved["sysconf"] \in Text
      BY DEF IInv, TypeOK, Tree
    <2>2. Tree(flash') /\ Tree(ram')
      BY <1>0, <1>2, <2>1, SysconfTree, HereTree DEF WriteSysconf, IInv, TypeOK
    <2>3. /\ pc = "write_sysconf" /\ saved' = NoFiles
          /\ UNCHANGED <<partVars, sysVars, newer, power, root, cmd, image, list,
                         mounted, orig, declined>>
          /\ \/ pc' = "init_reload" /\ cmd.name = "init"
                /\ UNCHANGED <<exit, pending>>
             \/ pc' = "idle" /\ exit' = 0 /\ pending' = {}
      BY <1>2 DEF WriteSysconf
    <2> QED
      BY <2>2, <2>3, NoFilesTree DEF IInv, TypeOK, Named, PCs
  <1>3. CASE InitReload
    <2>1. Tree([sysconf_reload(here) EXCEPT !["motd"] = None])
      BY <1>0, ReloadTree, MotdTree
    <2>2. Tree(flash') /\ Tree(ram')
      BY <1>3, <2>1, HereTree DEF InitReload, IInv, TypeOK
    <2> QED
      BY <1>3, <2>2 DEF InitReload, IInv, TypeOK, Named, PCs
  <1>4. CASE Reload
    <2>1. Tree(flash') /\ Tree(ram')
      BY <1>0, <1>4, ReloadTree, HereTree DEF Reload, IInv, TypeOK
    <2>2. Begin("reload", {}, "idle") /\ "reload" \in AllCommands
      BY <1>4 DEF Reload, AllCommands
    <2>3. UNCHANGED <<partVars, sysVars, newer, power, root, image, mounted>>
      BY <1>4 DEF Reload
    <2>4. /\ cmd'.name = "reload" /\ cmd'.parts = {} /\ pc' = "idle"
          /\ Tree(saved') /\ Tree(orig') /\ exit' = None
          /\ list' = {} /\ pending' = {} /\ declined' = {}
      BY <2>2, BeginTyped
    <2> QED
      BY <2>1, <2>3, <2>4 DEF IInv, TypeOK, Named, PCs, AllCommands
  <1> QED
    BY <1>1, <1>2, <1>3, <1>4

\* A command that ends, and left no more than a mount or a warning.
LEMMA LeaveTyped ==
    ASSUME IInv, NEW s \in {None, 0, 1, 2, 3}, Leave(s),
           UNCHANGED <<partVars, sysVars, newer, power, root, ram>>,
           Tree(flash'), mounted' \in BOOLEAN
    PROVE  IInv'
  BY DEF IInv, TypeOK, Named, PCs

LEMMA SaveTyped ==
    ASSUME IInv, StartSave \/ SaveStep
    PROVE  IInv'
  <1>0. Tree(here) /\ list \subseteq Path
    BY DEF here, IInv, TypeOK
  <1>1. CASE StartSave
    <2>1. Begin("save", {}, "s_mount") /\ "save" \in AllCommands
      BY <1>1 DEF StartSave, AllCommands
    <2>2. UNCHANGED <<partVars, sysVars, treeVars, powerVars, image, mounted>>
      BY <1>1 DEF StartSave
    <2>3. /\ cmd'.name = "save" /\ cmd'.parts = {} /\ pc' = "s_mount"
          /\ Tree(saved') /\ Tree(orig') /\ exit' = None
          /\ list' = {} /\ pending' = {} /\ declined' = {}
      BY <2>1, BeginTyped
    <2> QED
      BY <2>2, <2>3 DEF IInv, TypeOK, Named, PCs, AllCommands
  <1>2. CASE SaveMount
    <2>1. CASE mounted' = TRUE /\ Step("s_copy") /\ UNCHANGED <<tmpVars, declined>>
      BY <1>2, <2>1 DEF SaveMount, IInv, TypeOK, Named, PCs
    <2>2. CASE mounted' \in {mounted, FALSE} /\ Leave(1)
      BY <1>2, <2>2, LeaveTyped DEF SaveMount, IInv, TypeOK
    <2> QED
      BY <1>2, <2>1, <2>2 DEF SaveMount
  <1>3. CASE SaveCopy
    <2>1. /\ pc = "s_copy" /\ mounted' \in BOOLEAN
          /\ UNCHANGED <<partVars, sysVars, treeVars, powerVars>>
      BY <1>3 DEF SaveCopy
    <2>2. CASE /\ list' = ToSave(flash, newer)
               /\ saved' = SavedFiles(flash, list')
               /\ Step("s_write") /\ UNCHANGED <<pending, declined>>
      <3>1. list' \subseteq Path /\ Tree(saved')
        BY <2>2, ToSaveTyped, SavedTree DEF IInv, TypeOK
      <3> QED
        BY <2>1, <2>2, <3>1 DEF IInv, TypeOK, Named, PCs
    <2>3. CASE Leave(1)
      BY <2>1, <2>3, LeaveTyped DEF IInv, TypeOK
    <2> QED
      BY <1>3, <2>2, <2>3 DEF SaveCopy
  <1>4. CASE SaveRefused
    BY <1>4 DEF SaveRefused, IInv, TypeOK, Named, PCs
  <1>5. CASE SaveWrite
    <2>1. text' \in Text /\ valid' \in BOOLEAN
      BY <1>0, <1>5, SavedTextTyped, SomeTexts DEF SaveWrite
    <2> QED
      BY <1>5, <2>1 DEF SaveWrite, IInv, TypeOK, Named, PCs
  <1>6. CASE SaveWritten
    <2>1. CASE /\ valid' = (Len(SavedText.lists) <= ValidRoom)
               /\ text' = SavedText /\ archive' = saved
               /\ Leave(0)
      <3>1. text' \in Text /\ valid' \in BOOLEAN
        BY <1>0, <2>1, SavedTextTyped
      <3>2. Tree(archive')
        BY <2>1 DEF IInv, TypeOK
      <3> QED
        BY <1>6, <2>1, <3>1, <3>2 DEF SaveWritten, IInv, TypeOK, Named, PCs
    <2>2. CASE Leave(1) /\ UNCHANGED sysVars
      BY <1>6, <2>2, LeaveTyped DEF SaveWritten, IInv, TypeOK
    <2> QED
      BY <1>6, <2>1, <2>2 DEF SaveWritten
  <1>7. CASE SaveWrittenShort
    <2>1. text' \in Pieces(SavedText) /\ archive' = None /\ valid' \in BOOLEAN
      BY <1>7 DEF SaveWrittenShort
    <2>2. text' \in Text
      BY <1>0, <2>1, SavedTextTyped, PiecesTyped
    <2> QED
      BY <1>7, <2>1, <2>2 DEF SaveWrittenShort, IInv, TypeOK, Named, PCs
  <1> QED
    BY <1>1, <1>2, <1>3, <1>4, <1>5, <1>6, <1>7 DEF SaveStep

\* The steps of a restore up to the copy.
LEMMA ExtractTyped ==
    ASSUME IInv,
           \/ StartRestore \/ RestoreInvalid \/ RestoreMount \/ RestoreRead
           \/ RestoreReadDone \/ RestoreReload \/ RestoreExtract \/ RestoreTest
    PROVE  IInv'
  <1>1. CASE StartRestore
    <2>1. PICK c \in {"restore", "reinit"} :
              Begin(c, {}, IF valid THEN "mount" ELSE "invalid")
      BY <1>1 DEF StartRestore
    <2>2. UNCHANGED <<partVars, sysVars, treeVars, powerVars, image, mounted>>
      BY <1>1 DEF StartRestore
    <2>3. c \in AllCommands
      BY DEF AllCommands
    <2>4. /\ cmd' = [name |-> c, parts |-> {}]
          /\ pc' = IF valid THEN "mount" ELSE "invalid"
          /\ Tree(saved') /\ Tree(orig') /\ exit' = None
          /\ list' = {} /\ pending' = {} /\ declined' = {}
      BY <2>1, <2>3, BeginTyped
    <2>5. /\ cmd'.name \in {"restore", "reinit"} /\ cmd'.parts = {}
          /\ pc' \in {"mount", "invalid"}
      BY <2>4
    <2> QED
      BY <2>2, <2>4, <2>5 DEF IInv, TypeOK, Named, PCs, AllCommands
  <1>2. CASE RestoreInvalid
    BY <1>2 DEF RestoreInvalid, IInv, TypeOK, Named, PCs
  <1>3. CASE RestoreMount
    <2>1. CASE mounted' = TRUE /\ Step("read") /\ UNCHANGED <<tmpVars, declined>>
      BY <1>3, <2>1 DEF RestoreMount, IInv, TypeOK, Named, PCs
    <2>2. CASE mounted' \in {mounted, FALSE} /\ Leave(1)
      BY <1>3, <2>2, LeaveTyped DEF RestoreMount, IInv, TypeOK
    <2> QED
      BY <1>3, <2>1, <2>2 DEF RestoreMount
  <1>4. CASE RestoreRead
    <2>0. Tree(flash) /\ sysconf_default(flash) \in Text /\ Torn \in Text
      BY DefaultTyped, SomeTexts DEF IInv, TypeOK
    <2>1. Tree(flash')
      BY <1>4, <2>0, SysconfTree DEF RestoreRead
    <2> QED
      BY <1>4, <2>1 DEF RestoreRead, IInv, TypeOK, Named, PCs
  <1>5. CASE RestoreReadDone
    <2>1. PICK c \in {text} \cup Unread(text) :
              flash' = [flash EXCEPT !["sysconf"] = c]
      BY <1>5 DEF RestoreReadDone
    <2>2. c # None => c \in Text
      BY UnreadTyped DEF IInv, TypeOK
    <2>3. Tree(flash')
      BY <2>1, <2>2, SysconfTree DEF IInv, TypeOK
    <2> QED
      BY <1>5, <2>3 DEF RestoreReadDone, IInv, TypeOK, Named, PCs
  <1>6. CASE RestoreReload
    <2>1. Tree(flash')
      BY <1>6, ReloadTree, SystemTree DEF RestoreReload, IInv, TypeOK, Nets
    <2>2. list' \subseteq Path
      BY <1>6, SectionTyped DEF RestoreReload, preserved, IInv, TypeOK, Tree
    <2> QED
      BY <1>6, <2>1, <2>2 DEF RestoreReload, IInv, TypeOK, Named, PCs
  <1>7. CASE RestoreExtract
    <2>1. CASE /\ archive # None /\ saved' = archive /\ Step("test")
               /\ UNCHANGED <<flash, list, pending, mounted, declined>>
      <3>1. Tree(saved')
        BY <2>1 DEF IInv, TypeOK
      <3> QED
        BY <1>7, <2>1, <3>1 DEF RestoreExtract, IInv, TypeOK, Named, PCs
    <2>2. CASE /\ flash' = warning(flash) /\ Leave(1)
               /\ mounted' = FALSE \/ ("io" \in Faults /\ mounted' = TRUE)
      <3>1. Tree(flash')
        BY <2>2, MotdTree DEF IInv, TypeOK, warning
      <3> QED
        BY <1>7, <2>2, <3>1, LeaveTyped DEF RestoreExtract
    <2> QED
      BY <1>7, <2>1, <2>2 DEF RestoreExtract
  <1>8. CASE RestoreTest
    <2>1. CASE flash' = warning(flash) /\ saved' = NoFiles /\ Step("umount")
      <3>1. Tree(flash') /\ Tree(saved')
        BY <2>1, MotdTree, NoFilesTree DEF IInv, TypeOK, warning
      <3> QED
        BY <1>8, <2>1, <3>1 DEF RestoreTest, IInv, TypeOK, Named, PCs
    <2>2. CASE /\ flash' = [flash EXCEPT !["motd"] = None]
               /\ UNCHANGED saved /\ Step("choose")
      <3>1. Tree(flash')
        BY <2>2, MotdTree DEF IInv, TypeOK
      <3> QED
        BY <1>8, <2>2, <3>1 DEF RestoreTest, IInv, TypeOK, Named, PCs
    <2> QED
      BY <1>8, <2>1, <2>2 DEF RestoreTest
  <1> QED
    BY <1>1, <1>2, <1>3, <1>4, <1>5, <1>6, <1>7, <1>8

\* The steps of sysconf_restore_conffiles, and what follows it.
LEMMA CopyTyped ==
    ASSUME IInv,
           Choose \/ CopyOne \/ CopyFail \/ CopyDone \/ Left \/ Umount
    PROVE  IInv'
  <1>1. CASE Choose
    <2>1. PICK keep \in SUBSET Asked(flash, saved, list),
               upgrade \in SUBSET Asked(flash, saved, list) :
          /\ pending' = ToCopy(flash, saved, list, keep)
          /\ list' = Handled(flash, saved, list, keep)
          /\ saved' = [p \in Path |-> IF p \in upgrade THEN None ELSE saved[p]]
          /\ declined' = upgrade
      BY <1>1 DEF Choose
    <2>2. /\ Asked(flash, saved, list) \subseteq File
          /\ Asked(flash, saved, list) \subseteq list
          /\ list \subseteq Path
      BY DEF Asked, IsDiff, IInv, TypeOK
    <2>3. pending' \subseteq Path /\ list' \subseteq Path /\ declined' \subseteq File
      BY <2>1, <2>2 DEF ToCopy, Handled
    <2>4. Tree(saved')
      BY <2>1, RemovedTree DEF IInv, TypeOK
    <2>5. /\ pc = "choose" /\ pc' = "copy"
          /\ UNCHANGED <<cmd, image, exit, orig>>
          /\ UNCHANGED <<partVars, sysVars, treeVars, powerVars, mounted>>
      BY <1>1 DEF Choose
    <2> QED
      BY <2>3, <2>4, <2>5 DEF IInv, TypeOK, Named, PCs
  <1>2. CASE CopyOne
    <2>1. PICK p \in pending :
          /\ flash' = [flash EXCEPT ![p] = IF saved[p] = None THEN @ ELSE saved[p]]
          /\ newer' = newer \cup ({p} \cap File)
          /\ pending' = pending \ {p}
      BY <1>2 DEF CopyOne
    <2>2. Tree(flash')
      BY <2>1, CopiedTree DEF IInv, TypeOK
    <2>3. /\ pc = "copy"
          /\ UNCHANGED <<partVars, sysVars, powerVars, pc, cmd, image, exit,
                         saved, list, mounted, orig, declined>>
      BY <1>2 DEF CopyOne
    <2> QED
      BY <2>1, <2>2, <2>3 DEF IInv, TypeOK, Named, PCs
  <1>3. CASE CopyFail
    <2>1. Tree(flash')
      BY <1>3, MotdTree DEF CopyFail, IInv, TypeOK, warning
    <2> QED
      BY <1>3, <2>1, LeaveTyped DEF CopyFail, IInv, TypeOK
  <1>4. CASE CopyDone
    <2>1. Tree(saved')
      BY <1>4, RemovedTree DEF CopyDone, IInv, TypeOK
    <2> QED
      BY <1>4, <2>1 DEF CopyDone, IInv, TypeOK, Named, PCs
  <1>5. CASE Left
    <2>1. CASE flash' = warning(flash) /\ Leave(1)
      <3>1. Tree(flash')
        BY <2>1, MotdTree DEF IInv, TypeOK, warning
      <3> QED
        BY <1>5, <2>1, <3>1, LeaveTyped DEF Left, IInv, TypeOK
    <2>2. CASE Step("umount") /\ UNCHANGED <<flash, tmpVars, declined>>
      BY <1>5, <2>2 DEF Left, IInv, TypeOK, Named, PCs
    <2> QED
      BY <1>5, <2>1, <2>2 DEF Left
  <1>6. CASE Umount
    <2>1. Tree(flash')
      BY <1>6 DEF Umount, IInv, TypeOK
    <2>2. \E s \in {0, 1} : Leave(s)
      BY <1>6 DEF Umount
    <2>3. UNCHANGED <<partVars, sysVars, treeVars, powerVars>> /\ mounted' \in BOOLEAN
      BY <1>6 DEF Umount, IInv, TypeOK
    <2> QED
      BY <2>1, <2>2, <2>3, LeaveTyped
  <1> QED
    BY <1>1, <1>2, <1>3, <1>4, <1>5, <1>6

LEMMA SetupTyped ==
    ASSUME IInv, SetupStep
    PROVE  IInv'
  <1>0. Tree(here)
    BY DEF here, IInv, TypeOK
  <1>1. CASE SetupSkip
    BY <1>1 DEF SetupSkip, IInv, TypeOK, Named, PCs
  <1>2. CASE SetupRead
    <2>1. Tree(flash') /\ Tree(ram')
      BY <1>0, <1>2, SysconfTree, HereTree DEF SetupRead, IInv, TypeOK
    <2> QED
      BY <1>2, <2>1 DEF SetupRead, IInv, TypeOK, Named, PCs
  <1>3. CASE SetupDefault
    <2>1. sysconf_default(here) \in Text
      BY <1>0, DefaultTyped
    <2>2. Tree(flash') /\ Tree(ram')
      BY <1>0, <1>3, <2>1, SysconfTree, HereTree DEF SetupDefault, IInv, TypeOK
    <2> QED
      BY <1>3, <2>2 DEF SetupDefault, IInv, TypeOK, Named, PCs
  <1>4. CASE SetupReload
    <2>1. Tree(flash') /\ Tree(ram')
      BY <1>0, <1>4, ReloadTree, HereTree DEF SetupReload, IInv, TypeOK
    <2> QED
      BY <1>4, <2>1 DEF SetupReload, IInv, TypeOK, Named, PCs
  <1> QED
    BY <1>1, <1>2, <1>3, <1>4 DEF SetupStep

-----------------------------------------------------------------------------
Parts == {"usr", "rootfs", "kernel"}

\* The places of reflash that belong to a partition.
LEMMA WritePCs ==
    ASSUME NEW p \in Parts
    PROVE  /\ toWrite[p] \in Writes /\ writing[p] \in Writes
           /\ nextWrite[p] \in Writes \cup {"written"}
           /\ p = "usr" => /\ toWrite[p] = "w_usr" /\ writing[p] = "writing_usr"
                           /\ nextWrite[p] = "w_rootfs"
           /\ p = "rootfs" => /\ toWrite[p] = "w_rootfs"
                              /\ writing[p] = "writing_rootfs"
                              /\ nextWrite[p] = "w_kernel"
           /\ p = "kernel" => /\ toWrite[p] = "w_kernel"
                              /\ writing[p] = "writing_kernel"
                              /\ nextWrite[p] = "written"
  BY DEF Parts, toWrite, writing, nextWrite

LEMMA HoldsTyped ==
    ASSUME IInv, NEW p \in Parts, NEW c \in Image \cup {"torn"}, Holds(p, c)
    PROVE  /\ {kernel', rootfs'} \subseteq Image \cup {"torn"}
           /\ usr' \in Image \cup {"torn", None}
           /\ Tree(flash') /\ newer' \subseteq File
  <1>1. Tree(flash') /\ newer' \subseteq File
    BY ImageTreeTree, NoFilesTree DEF Holds, IInv, TypeOK
  <1> QED
    BY <1>1 DEF Holds, IInv, TypeOK

LEMMA ReflashBegins ==
    ASSUME StartReflash
    PROVE  \E c \in {"reflash", "reflash_n", "kernel"}, i \in Image :
              \E parts \in PartsOf(c, i) :
                 /\ Begin(c, parts, IF "rootfs" \in parts THEN "f_mount" ELSE "w_usr")
                 /\ image' = i
                 /\ UNCHANGED <<partVars, sysVars, treeVars, powerVars, mounted>>
                 /\ parts \subseteq Parts
                 /\ c = "kernel" <=> "rootfs" \notin parts
  BY DEF StartReflash, PartsOf, Parts

LEMMA ReflashTyped ==
    ASSUME IInv, StartReflash \/ FlashMount \/ FlashSave \/ FlashUmount
    PROVE  IInv'
  <1>1. CASE StartReflash
    <2>1. PICK c \in {"reflash", "reflash_n", "kernel"}, i \in Image, parts \in SUBSET Parts :
              /\ Begin(c, parts, IF "rootfs" \in parts THEN "f_mount" ELSE "w_usr")
              /\ image' = i
              /\ UNCHANGED <<partVars, sysVars, treeVars, powerVars, mounted>>
              /\ c = "kernel" <=> "rootfs" \notin parts
      BY <1>1, ReflashBegins
    <2>2. c \in AllCommands
      BY DEF AllCommands
    <2>3. /\ cmd' = [name |-> c, parts |-> parts]
          /\ pc' = IF "rootfs" \in parts THEN "f_mount" ELSE "w_usr"
          /\ Tree(saved') /\ Tree(orig') /\ exit' = None
          /\ list' = {} /\ pending' = {} /\ declined' = {}
      BY <2>1, <2>2, BeginTyped
    <2>4. cmd'.name = c /\ cmd'.parts = parts
      BY <2>3
    <2> QED
      BY <2>1, <2>2, <2>3, <2>4 DEF IInv, TypeOK, Named, PCs, Parts
  <1>2. CASE FlashMount
    <2>1. CASE /\ mounted' = TRUE
               /\ Step(IF preserving THEN "f_save" ELSE "w_usr")
               /\ UNCHANGED <<tmpVars, declined>>
      BY <1>2, <2>1 DEF FlashMount, IInv, TypeOK, Named, PCs, preserving
    <2>2. CASE mounted' \in {mounted, FALSE} /\ Leave(1)
      BY <1>2, <2>2, LeaveTyped DEF FlashMount, IInv, TypeOK
    <2> QED
      BY <1>2, <2>1, <2>2 DEF FlashMount
  <1>3. CASE FlashSave
    <2>1. CASE /\ list' = ToSave(flash, newer)
               /\ saved' = SavedFiles(flash, list')
               /\ Step("f_umount") /\ UNCHANGED <<pending, mounted, declined>>
      <3>1. list' \subseteq Path /\ Tree(saved')
        BY <2>1, ToSaveTyped, SavedTree DEF IInv, TypeOK
      <3> QED
        BY <1>3, <2>1, <3>1 DEF FlashSave, IInv, TypeOK, Named, PCs
    <2>2. CASE mounted' \in BOOLEAN /\ Leave(1)
      BY <1>3, <2>2, LeaveTyped DEF FlashSave, IInv, TypeOK
    <2> QED
      BY <1>3, <2>1, <2>2 DEF FlashSave
  <1>4. CASE FlashUmount
    <2>1. CASE mounted' = FALSE /\ Step("w_usr") /\ UNCHANGED <<tmpVars, declined>>
      BY <1>4, <2>1 DEF FlashUmount, IInv, TypeOK, Named, PCs
    <2>2. CASE /\ UNCHANGED mounted
               /\ Exit(1) /\ saved' = NoFiles /\ list' = {}
               /\ UNCHANGED <<cmd, image, orig, declined>>
      BY <1>4, <2>2, NoFilesTree DEF FlashUmount, IInv, TypeOK, Named, PCs
    <2> QED
      BY <1>4, <2>1, <2>2 DEF FlashUmount
  <1> QED
    BY <1>1, <1>2, <1>3, <1>4

LEMMA WriteStepTyped ==
    ASSUME IInv, NEW p \in Parts, WriteStep(p)
    PROVE  IInv'
  <1>1. CASE SkipWrite(p)
    BY <1>1, WritePCs DEF SkipWrite, IInv, TypeOK, Named, PCs
  <1>2. CASE NothingWritten(p)
    <2>1. CASE /\ Exit(1) /\ saved' = NoFiles /\ list' = {}
               /\ UNCHANGED <<cmd, image, orig, declined>>
      BY <1>2, <2>1, NoFilesTree DEF NothingWritten, IInv, TypeOK, Named, PCs
    <2>2. CASE Step(nextWrite[p]) /\ UNCHANGED <<tmpVars, declined>>
      BY <1>2, <2>2, WritePCs DEF NothingWritten, IInv, TypeOK, Named, PCs
    <2> QED
      BY <1>2, <2>1, <2>2 DEF NothingWritten
  <1>3. CASE BeginWrite(p)
    <2>1. pc = toWrite[p] /\ pc' = writing[p] /\ UNCHANGED <<cmd, image, exit, orig>>
      BY <1>3 DEF BeginWrite
    <2>2. UNCHANGED <<sysVars, powerVars, tmpVars, mounted, declined>>
      BY <1>3 DEF BeginWrite
    <2> QED
      BY <1>3, <2>1, <2>2, WritePCs, HoldsTyped
         DEF BeginWrite, IInv, TypeOK, Named, PCs
  <1>4. CASE PartlyWritten(p)
    <2>1. CASE Leave(2) \/ Leave(3)
      BY <1>4, <2>1, LeaveTyped DEF PartlyWritten, IInv, TypeOK
    <2>2. CASE Step(nextWrite[p]) /\ UNCHANGED <<tmpVars, declined>>
      BY <1>4, <2>2, WritePCs DEF PartlyWritten, IInv, TypeOK, Named, PCs
    <2> QED
      BY <1>4, <2>1, <2>2 DEF PartlyWritten
  <1>5. CASE Written(p)
    <2>1. pc = writing[p] /\ pc' = nextWrite[p] /\ UNCHANGED <<cmd, image, exit, orig>>
      BY <1>5 DEF Written
    <2>2. UNCHANGED <<sysVars, powerVars, tmpVars, mounted, declined>>
      BY <1>5 DEF Written
    <2>3. image \in Image
      BY <2>1, WritePCs DEF IInv, Named
    <2> QED
      BY <1>5, <2>1, <2>2, <2>3, WritePCs, HoldsTyped
         DEF Written, IInv, TypeOK, Named, PCs
  <1> QED
    BY <1>1, <1>2, <1>3, <1>4, <1>5 DEF WriteStep

LEMMA WrittenTyped ==
    ASSUME IInv, NoRestore \/ Remount
    PROVE  IInv'
  <1>1. CASE NoRestore
    BY <1>1, LeaveTyped DEF NoRestore, IInv, TypeOK
  <1>2. CASE Remount
    <2>1. CASE /\ mounted' = TRUE /\ newer' = {}
               /\ Step("choose") /\ UNCHANGED <<tmpVars, declined>>
      BY <1>2, <2>1 DEF Remount, IInv, TypeOK, Named, PCs, preserving
    <2>2. CASE mounted' \in BOOLEAN /\ UNCHANGED newer /\ Leave(1)
      BY <1>2, <2>2, LeaveTyped DEF Remount, IInv, TypeOK
    <2> QED
      BY <1>2, <2>1, <2>2 DEF Remount
  <1> QED
    BY <1>1, <1>2

-----------------------------------------------------------------------------
LEMMA Inductive == IInv /\ [Next]_vars => IInv'
  <1> SUFFICES ASSUME IInv, [Next]_vars PROVE IInv'
    OBVIOUS
  <1>1. CASE UNCHANGED vars
    BY <1>1 DEF vars, cmdVars, IInv, TypeOK, Named
  <1>2. CASE SysconfStep
    BY <1>2, WriteTyped, SaveTyped, ExtractTyped, CopyTyped, SetupTyped
       DEF SysconfStep, RestoreStep
  <1>3. CASE ReflashStep
    BY <1>3, ReflashTyped, WriteStepTyped, WrittenTyped DEF ReflashStep, Parts
  <1> QED
    BY <1>1, <1>2, <1>3, BootTyped DEF Next

(***************************************************************************)
(* TypeOK: the partitions, the trees and the command keep to the values    *)
(* the scripts can give them, and each step belongs to its command.        *)
(***************************************************************************)
THEOREM TypeCorrect == Spec => []IInv /\ []TypeOK
  <1>1. IInv => TypeOK
    BY DEF IInv
  <1> QED
    BY <1>1, InitTyped, Inductive, PTL DEF Spec

-----------------------------------------------------------------------------
(***************************************************************************)
(* Which command a step leaves running.  The steps of sysconf and of boots *)
(* never have a reflash running afterwards, those of reflash nothing else. *)
(***************************************************************************)
SysconfOnly ==
    \/ PowerOff \/ Edit \/ RmSysconf
    \/ StartWriteSysconf \/ WriteSysconf \/ InitReload \/ Reload
    \/ StartSave \/ SaveStep \/ SetupStep
    \/ StartRestore \/ RestoreInvalid \/ RestoreMount \/ RestoreRead
    \/ RestoreReadDone \/ RestoreReload \/ RestoreExtract \/ RestoreTest

Copying == Choose \/ CopyOne \/ CopyFail \/ CopyDone \/ Left \/ Umount

LEMMA Steps ==
    ASSUME IInv, Next
    PROVE  PowerOn \/ SysconfOnly \/ Copying \/ ReflashStep
  BY DEF Next, SysconfStep, RestoreStep, SysconfOnly, Copying

ReflashNames == {"reflash", "reflash_n", "kernel"}

LEMMA NotReflash ==
    ASSUME IInv, SysconfOnly
    PROVE  /\ cmd'.name \notin ReflashNames
           /\ pc' \notin {"f_mount", "written"} \cup FlashPCs \cup Writes
  <1>1. CASE PowerOff \/ Edit \/ RmSysconf
    BY <1>1 DEF PowerOff, Edit, RmSysconf, NoCommand, ReflashNames
  <1>2. CASE StartWriteSysconf
    BY <1>2 DEF StartWriteSysconf, ReflashNames
  <1>3. CASE WriteSysconf \/ InitReload \/ SaveStep \/ SetupStep
    <2>1. UNCHANGED cmd /\ pc \in {"write_sysconf", "init_reload", "setup",
                                   "setup_reload"} \cup SavePCs
      BY <1>3 DEF WriteSysconf, InitReload, SaveStep, SaveMount, SaveCopy,
                  SaveRefused, SaveWrite, SaveWritten, SaveWrittenShort,
                  SetupStep, SetupSkip,
                  SetupRead, SetupDefault, SetupReload
    <2>2. pc' \in {"idle", "init_reload", "setup_reload", "mount"} \cup SavePCs
      BY <1>3 DEF WriteSysconf, InitReload, SaveStep, SaveMount, SaveCopy,
                  SaveRefused, SaveWrite, SaveWritten, SaveWrittenShort,
                  SetupStep, SetupSkip,
                  SetupRead, SetupDefault, SetupReload
    <2> QED
      BY <2>1, <2>2 DEF IInv, Named, ReflashNames
  <1>4. CASE Reload \/ StartSave \/ StartRestore
    BY <1>4 DEF Reload, StartSave, StartRestore, Begin, ReflashNames
  <1>5. CASE \/ RestoreInvalid \/ RestoreMount \/ RestoreRead
             \/ RestoreReadDone \/ RestoreReload \/ RestoreExtract \/ RestoreTest
    <2>1. UNCHANGED cmd /\ pc \in {"invalid"} \cup RestorePCs
      BY <1>5 DEF RestoreInvalid, RestoreMount, RestoreRead, RestoreReadDone,
                  RestoreReload, RestoreExtract, RestoreTest
    <2>2. pc' \in {"idle", "choose", "umount"} \cup RestorePCs
      BY <1>5 DEF RestoreInvalid, RestoreMount, RestoreRead, RestoreReadDone,
                  RestoreReload, RestoreExtract, RestoreTest
    <2> QED
      BY <2>1, <2>2 DEF IInv, Named, ReflashNames
  <1> QED
    BY <1>1, <1>2, <1>3, <1>4, <1>5 DEF SysconfOnly

LEMMA CopySteps ==
    ASSUME Copying
    PROVE  /\ pc \in CopyPCs /\ pc' \in {"copy", "left", "umount", "idle"}
           /\ UNCHANGED <<cmd, partVars, sysVars, powerVars, orig, image>>
  BY DEF Copying, Choose, CopyOne, CopyFail, CopyDone, Left, Umount

LEMMA ReflashSteps ==
    ASSUME IInv, ReflashStep
    PROVE  cmd'.name \in ReflashNames
  <1>1. CASE StartReflash
    BY <1>1, ReflashBegins DEF Begin, ReflashNames
  <1>2. CASE FlashMount \/ FlashSave \/ FlashUmount
    BY <1>2 DEF FlashMount, FlashSave, FlashUmount, IInv, Named, ReflashNames
  <1>3. ASSUME NEW p \in Parts, WriteStep(p)
        PROVE  cmd'.name \in ReflashNames
    <2>1. UNCHANGED cmd /\ pc \in Writes
      BY <1>3, WritePCs DEF WriteStep, SkipWrite, NothingWritten, BeginWrite,
                            PartlyWritten, Written
    <2> QED
      BY <2>1 DEF IInv, Named, ReflashNames
  <1>4. CASE NoRestore \/ Remount
    BY <1>4 DEF NoRestore, Remount, IInv, Named, ReflashNames
  <1> QED
    BY <1>1, <1>2, <1>3, <1>4 DEF ReflashStep, Parts

-----------------------------------------------------------------------------
(***************************************************************************)
(* The partitions are written from a system whose root is not the flash,   *)
(* and after a umount that succeeded, except by reflash -n, which leaves   *)
(* the temporary mount in place.                                           *)
(***************************************************************************)
Released ==
    /\ pc \in FlashPCs => root # "flash"
    /\ pc \in Writes /\ "rootfs" \in cmd.parts =>
          root # "flash" /\ (cmd.name # "reflash_n" => ~mounted)
    /\ pc = "writing_rootfs" => "rootfs" \in cmd.parts

LEMMA ReleasedStep ==
    ASSUME IInv, Released, Next
    PROVE  Released'
  <1>1. CASE PowerOn
    BY <1>1 DEF PowerOn, Released, IInv, TypeOK
  <1>2. CASE SysconfOnly
    BY <1>2, NotReflash DEF Released, ReflashNames
  <1>3. CASE Copying
    BY <1>3, CopySteps DEF Released
  <1>4. CASE StartReflash
    <2>1. PICK c \in ReflashNames, i \in Image, parts \in SUBSET Parts :
              /\ Begin(c, parts, IF "rootfs" \in parts THEN "f_mount" ELSE "w_usr")
              /\ c = "kernel" <=> "rootfs" \notin parts
      BY <1>4, ReflashBegins DEF ReflashNames
    <2>2. /\ cmd' = [name |-> c, parts |-> parts]
          /\ pc' = IF "rootfs" \in parts THEN "f_mount" ELSE "w_usr"
      BY <2>1 DEF Begin
    <2>3. cmd'.name = c /\ cmd'.parts = parts
      BY <2>2
    <2> QED
      BY <2>1, <2>2, <2>3 DEF Released
  <1>5. CASE FlashMount
    BY <1>5 DEF FlashMount, Released, IInv, Named, preserving
  <1>6. CASE FlashSave
    BY <1>6 DEF FlashSave, Released
  <1>7. CASE FlashUmount
    BY <1>7 DEF FlashUmount, Released
  <1>8. ASSUME NEW p \in Parts, WriteStep(p)
        PROVE  Released'
    <2>1. UNCHANGED <<cmd, mounted, root>> /\ pc \in Writes
      BY <1>8, WritePCs DEF WriteStep, SkipWrite, NothingWritten, BeginWrite,
                            PartlyWritten, Written
    <2>2. pc' \notin FlashPCs
      BY <1>8, WritePCs DEF WriteStep, SkipWrite, NothingWritten, BeginWrite,
                            PartlyWritten, Written
    <2>3. pc' = "writing_rootfs" => "rootfs" \in cmd.parts
      BY <1>8, WritePCs DEF WriteStep, SkipWrite, NothingWritten, BeginWrite,
                            PartlyWritten, Written, wanted, Parts
    <2> QED
      BY <2>1, <2>2, <2>3 DEF Released
  <1>9. CASE NoRestore \/ Remount
    BY <1>9 DEF NoRestore, Remount, Released
  <1> QED
    BY <1>1, <1>2, <1>3, <1>4, <1>5, <1>6, <1>7, <1>8, <1>9, Steps
       DEF ReflashStep, Parts

LEMMA ReleasedAlways == Spec => []Released
  <1>1. Init => Released
    BY DEF Init, Released, NoCommand
  <1>2. Released /\ UNCHANGED vars => Released'
    BY DEF Released, vars, cmdVars
  <1>3. IInv /\ Released /\ [Next]_vars => Released'
    BY <1>2, ReleasedStep
  <1> QED
    BY <1>1, <1>3, TypeCorrect, PTL DEF Spec

(***************************************************************************)
(* RunningRootKept: no command, reflash -n included, writes the root that  *)
(* the system runs from, and one that preserves the configuration does not *)
(* write a root that is mounted at all.                                    *)
(***************************************************************************)
THEOREM RunningRootStays == Spec => []RunningRootKept
  <1>1. IInv /\ Released => RunningRootKept
    BY DEF Released, RunningRootKept, preserving, Writes
  <1> QED
    BY <1>1, ReleasedAlways, TypeCorrect, PTL

(***************************************************************************)
(* The names of commands that ran are names of commands that are given.    *)
(***************************************************************************)
Given == cmd.name \in Commands \cup {"boot", "none"}

LEMMA GivenStep ==
    ASSUME IInv, Given, Next
    PROVE  Given'
  <1>1. CASE PowerOn \/ PowerOff \/ Edit \/ RmSysconf
    BY <1>1 DEF PowerOn, PowerOff, Edit, RmSysconf, NoCommand, Given
  <1>2. CASE StartWriteSysconf
    BY <1>2 DEF StartWriteSysconf, Given
  <1>3. CASE Reload \/ StartSave \/ StartRestore
    BY <1>3 DEF Reload, StartSave, StartRestore, Begin, Given
  <1>4. CASE StartReflash
    BY <1>4, ReflashBegins DEF Begin, Given
  <1>5. CASE WriteSysconf \/ InitReload \/ SaveStep \/ SetupStep
    BY <1>5 DEF WriteSysconf, InitReload, SaveStep, SaveMount, SaveCopy,
                SaveRefused, SaveWrite, SaveWritten, SaveWrittenShort,
                SetupStep, SetupSkip,
                SetupRead, SetupDefault, SetupReload, Given
  <1>6. CASE \/ RestoreInvalid \/ RestoreMount \/ RestoreRead
             \/ RestoreReadDone \/ RestoreReload \/ RestoreExtract \/ RestoreTest
    BY <1>6 DEF RestoreInvalid, RestoreMount, RestoreRead, RestoreReadDone,
                RestoreReload, RestoreExtract, RestoreTest, Given
  <1>7. CASE Copying
    BY <1>7, CopySteps DEF Given
  <1>8. CASE FlashMount \/ FlashSave \/ FlashUmount \/ NoRestore \/ Remount
    BY <1>8 DEF FlashMount, FlashSave, FlashUmount, NoRestore, Remount, Given
  <1>9. ASSUME NEW p \in Parts, WriteStep(p)
        PROVE  Given'
    BY <1>9 DEF WriteStep, SkipWrite, NothingWritten, BeginWrite, PartlyWritten,
                Written, Given
  <1> QED
    BY <1>1, <1>2, <1>3, <1>4, <1>5, <1>6, <1>7, <1>8, <1>9, Steps
       DEF SysconfOnly, ReflashStep, Parts

(***************************************************************************)
(* WrittenUnmounted: without reflash -n, a root partition that is being    *)
(* written is mounted neither on / nor on the temporary directory.         *)
(***************************************************************************)
THEOREM NeverWrittenMounted ==
    ASSUME "reflash_n" \notin Commands
    PROVE  Spec => []WrittenUnmounted
  <1>1. Init => Given
    BY DEF Init, Given, NoCommand
  <1>2. Given /\ UNCHANGED vars => Given'
    BY DEF Given, vars, cmdVars
  <1>3. IInv /\ Given /\ [Next]_vars => Given'
    BY <1>2, GivenStep
  <1>4. Released /\ Given => WrittenUnmounted
    BY DEF Released, Given, WrittenUnmounted, Writes
  <1> QED
    BY <1>1, <1>3, <1>4, ReleasedAlways, TypeCorrect, PTL DEF Spec

-----------------------------------------------------------------------------
(***************************************************************************)
(* TestRestore has looked at the same tree, list and copies as the restore *)
(* that follows it, but for the motd, which is never asked about.          *)
(***************************************************************************)
LEMMA TestForesees ==
    ASSUME NEW t, NEW s, NEW l \in SUBSET Path, TestRestore(t, s, l),
           NEW u, \A f \in File : u[f] = t[f]
    PROVE  Asked(u, s, l) = {}
  BY DEF TestRestore, Asked, IsDiff

NobodyAsked == pc = "choose" /\ auto => Asked(flash, saved, list) = {}

LEMMA NobodyAskedStep ==
    ASSUME IInv, NobodyAsked, [Next]_vars
    PROVE  NobodyAsked'
  <1>1. CASE UNCHANGED vars
    BY <1>1 DEF NobodyAsked, auto, vars, cmdVars, Asked
  <1>2. CASE PowerOn
    <2>1. pc' = "setup" \/ UNCHANGED <<pc, cmd, flash, saved, list>>
      BY <1>2 DEF PowerOn
    <2> QED
      BY <2>1 DEF NobodyAsked, auto, Asked
  <1>3. CASE RestoreTest
    <2>1. UNCHANGED <<cmd, list>> /\ list \in SUBSET Path /\ Tree(flash)
      BY <1>3 DEF RestoreTest, IInv, TypeOK
    <2>2. CASE Step("umount")
      BY <2>2 DEF NobodyAsked
    <2>3. CASE /\ ~(auto /\ ~TestRestore(flash, saved, list))
               /\ flash' = [flash EXCEPT !["motd"] = None] /\ UNCHANGED saved
      <3>1. \A f \in File : flash'[f] = flash[f]
        BY <2>1, <2>3, ConfAssumption DEF Tree
      <3>2. TestRestore(flash, saved, list) => Asked(flash', saved, list) = {}
        BY <2>1, <3>1, TestForesees
      <3>3. auto' = auto
        BY <2>1 DEF auto
      <3>4. Asked(flash, saved, list)' = Asked(flash', saved, list)
        BY <2>1, <2>3
      <3> QED
        BY <2>3, <3>2, <3>3, <3>4 DEF NobodyAsked
    <2> QED
      BY <1>3, <2>2, <2>3 DEF RestoreTest
  <1>4. CASE SysconfOnly /\ ~RestoreTest
    <2>1. pc' # "choose"
      <3>1. CASE \/ PowerOff \/ Edit \/ RmSysconf \/ StartWriteSysconf
                 \/ WriteSysconf \/ InitReload \/ Reload
        BY <3>1 DEF PowerOff, Edit, RmSysconf, StartWriteSysconf, WriteSysconf,
                    InitReload, Reload, Begin
      <3>2. CASE StartSave \/ SaveStep \/ SetupStep
        BY <3>2 DEF StartSave, SaveStep, SaveMount, SaveCopy, SaveRefused,
                    SaveWrite, SaveWritten, SaveWrittenShort, SetupStep,
                    SetupSkip, SetupRead,
                    SetupDefault, SetupReload, Begin
      <3>3. CASE \/ StartRestore \/ RestoreInvalid \/ RestoreMount \/ RestoreRead
                 \/ RestoreReadDone \/ RestoreReload \/ RestoreExtract
        BY <3>3 DEF StartRestore, RestoreInvalid, RestoreMount, RestoreRead,
                    RestoreReadDone, RestoreReload, RestoreExtract, Begin
      <3> QED
        BY <1>4, <3>1, <3>2, <3>3 DEF SysconfOnly
    <2> QED
      BY <2>1 DEF NobodyAsked
  <1>5. CASE Copying
    BY <1>5, CopySteps DEF NobodyAsked
  <1>6. CASE ReflashStep
    BY <1>6, ReflashSteps DEF NobodyAsked, auto, ReflashNames
  <1> QED
    BY <1>1, <1>2, <1>3, <1>4, <1>5, <1>6, Steps

(***************************************************************************)
(* NeverAsks: when a restore at boot comes to the files, none of them      *)
(* needs an answer from a user, who is not there.                          *)
(***************************************************************************)
THEOREM NobodyIsAsked == Spec => []NeverAsks
  <1>1. Init => NobodyAsked
    BY DEF Init, NobodyAsked
  <1>2. NobodyAsked => NeverAsks
    BY DEF NobodyAsked, NeverAsks
  <1> QED
    BY <1>1, <1>2, NobodyAskedStep, TypeCorrect, PTL DEF Spec

-----------------------------------------------------------------------------
(***************************************************************************)
(* From the write of the root on, the root partition holds the image; a    *)
(* reflash that could not write it has ended with another status than 0.   *)
(***************************************************************************)
Flashed ==
    /\ pc \in {"w_kernel", "writing_kernel", "written"}
       /\ "rootfs" \in cmd.parts => rootfs = image
    /\ pc \in CopyPCs /\ cmd.name = "reflash" => rootfs = image
    /\ pc = "idle" /\ cmd.name \in {"reflash", "reflash_n"} /\ exit = 0
       /\ "rootfs" \in cmd.parts => rootfs = image

LEMMA FlashedStep ==
    ASSUME IInv, Flashed, [Next]_vars
    PROVE  Flashed'
  <1>1. CASE UNCHANGED vars
    BY <1>1 DEF Flashed, vars, cmdVars
  <1>2. CASE PowerOn
    <2>1. pc' = "setup" \/ UNCHANGED <<pc, cmd, rootfs, image, exit>>
      BY <1>2 DEF PowerOn
    <2>2. UNCHANGED <<rootfs, image, exit>>
      BY <1>2 DEF PowerOn
    <2> QED
      BY <2>1, <2>2 DEF Flashed
  <1>3. CASE SysconfOnly
    BY <1>3, NotReflash DEF Flashed, ReflashNames
  <1>4. CASE Copying
    BY <1>4, CopySteps DEF Flashed, IInv, Named
  <1>5. CASE StartReflash
    <2>1. pc' \in {"f_mount", "w_usr"}
      BY <1>5, ReflashBegins DEF Begin
    <2> QED
      BY <2>1 DEF Flashed
  <1>6. CASE FlashMount
    <2>1. pc' \in {"f_save", "w_usr"} \/ (pc' = "idle" /\ exit' = 1)
      BY <1>6 DEF FlashMount
    <2> QED
      BY <2>1 DEF Flashed
  <1>7. CASE FlashSave
    BY <1>7 DEF FlashSave, Flashed
  <1>8. CASE FlashUmount
    BY <1>8 DEF FlashUmount, Flashed
  <1>9. ASSUME NEW p \in Parts, WriteStep(p)
        PROVE  Flashed'
    <2>1. CASE SkipWrite(p)
      BY <1>9, <2>1, WritePCs DEF SkipWrite, Flashed, wanted, Parts
    <2>2. CASE NothingWritten(p)
      BY <1>9, <2>2, WritePCs DEF NothingWritten, Flashed, Parts
    <2>3. CASE BeginWrite(p)
      BY <1>9, <2>3, WritePCs DEF BeginWrite, Holds, Flashed, Parts
    <2>4. CASE PartlyWritten(p)
      BY <1>9, <2>4, WritePCs DEF PartlyWritten, Flashed, Parts
    <2>5. CASE Written(p)
      BY <1>9, <2>5, WritePCs DEF Written, Holds, Flashed, Parts
    <2> QED
      BY <1>9, <2>1, <2>2, <2>3, <2>4, <2>5 DEF WriteStep
  <1>10. CASE NoRestore
    BY <1>10 DEF NoRestore, Flashed
  <1>11. CASE Remount
    BY <1>11 DEF Remount, Flashed, wanted
  <1> QED
    BY <1>1, <1>2, <1>3, <1>4, <1>5, <1>6, <1>7, <1>8, <1>9, <1>10, <1>11, Steps
       DEF ReflashStep, Parts

(***************************************************************************)
(* RootComplete: a reflash that exits with 0 has written the whole root.   *)
(***************************************************************************)
THEOREM RootIsComplete == Spec => []RootComplete
  <1>1. Init => Flashed
    BY DEF Init, Flashed, NoCommand
  <1>2. Flashed => RootComplete
    BY DEF Flashed, RootComplete, Ended, wanted
  <1> QED
    BY <1>1, <1>2, FlashedStep, TypeCorrect, PTL DEF Spec

-----------------------------------------------------------------------------
(***************************************************************************)
(* Where no write fails, this is so of the kernel and of usr as well.  The *)
(* failure of a write is the only way past one of them.                    *)
(***************************************************************************)
NoWriteFails == {"io", "partial"} \cap Faults = {}

UsrPast    == {"w_rootfs", "writing_rootfs", "w_kernel", "writing_kernel", "written"}
KernelPast == {"written"}

Whole ==
    /\ pc \in UsrPast /\ "usr" \in cmd.parts => usr = image
    /\ pc \in KernelPast /\ "kernel" \in cmd.parts => kernel = image
    /\ \/ pc \in CopyPCs /\ cmd.name = "reflash"
       \/ pc = "idle" /\ cmd.name \in ReflashNames /\ exit = 0
       => /\ "usr" \in cmd.parts => usr = image
          /\ "rootfs" \in cmd.parts => rootfs = image
          /\ "kernel" \in cmd.parts => kernel = image

LEMMA WholeStep ==
    ASSUME NoWriteFails, IInv, Flashed, Whole, [Next]_vars
    PROVE  Whole'
  <1>1. CASE UNCHANGED vars
    BY <1>1 DEF Whole, vars, cmdVars
  <1>2. CASE PowerOn
    <2>1. pc' = "setup" \/ UNCHANGED <<pc, cmd>>
      BY <1>2 DEF PowerOn
    <2>2. UNCHANGED <<usr, kernel, rootfs, image, exit>>
      BY <1>2 DEF PowerOn
    <2> QED
      BY <2>1, <2>2 DEF Whole, UsrPast, KernelPast
  <1>3. CASE SysconfOnly
    BY <1>3, NotReflash DEF Whole, ReflashNames, UsrPast, KernelPast, Writes
  <1>4. CASE Copying
    BY <1>4, CopySteps DEF Whole, IInv, Named, UsrPast, KernelPast, ReflashNames
  <1>5. CASE StartReflash
    <2>1. pc' \in {"f_mount", "w_usr"}
      BY <1>5, ReflashBegins DEF Begin
    <2> QED
      BY <2>1 DEF Whole, UsrPast, KernelPast
  <1>6. CASE FlashMount \/ FlashSave \/ FlashUmount
    <2>1. pc' \in {"f_save", "f_umount", "w_usr"} \/ (pc' = "idle" /\ exit' = 1)
      BY <1>6 DEF FlashMount, FlashSave, FlashUmount
    <2> QED
      BY <2>1 DEF Whole, UsrPast, KernelPast
  <1>7. ASSUME NEW p \in Parts, WriteStep(p)
        PROVE  Whole'
    <2> USE DEF Whole, UsrPast, KernelPast, Parts
    <2>1. CASE SkipWrite(p)
      BY <1>7, <2>1, WritePCs DEF SkipWrite, wanted
    <2>2. CASE BeginWrite(p)
      BY <1>7, <2>2, WritePCs DEF BeginWrite, Holds
    <2>3. CASE Written(p)
      BY <1>7, <2>3, WritePCs DEF Written, Holds
    <2>4. ~NothingWritten(p) /\ ~PartlyWritten(p)
      BY DEF NothingWritten, PartlyWritten, NoWriteFails
    <2> QED
      BY <1>7, <2>1, <2>2, <2>3, <2>4 DEF WriteStep
  <1>8. CASE NoRestore \/ Remount
    BY <1>8 DEF NoRestore, Remount, Whole, Flashed, UsrPast, KernelPast
  <1> QED
    BY <1>1, <1>2, <1>3, <1>4, <1>5, <1>6, <1>7, <1>8, Steps
       DEF ReflashStep, Parts

(***************************************************************************)
(* AllComplete: a reflash that exits with 0 has left a partition torn, or  *)
(* as it was, only if a write failed.                                      *)
(***************************************************************************)
THEOREM EverythingWritten ==
    ASSUME NoWriteFails
    PROVE  Spec => []AllComplete
  <1>1. Init => Whole
    BY DEF Init, Whole, NoCommand, ReflashNames
  <1>2. Whole => AllComplete
    BY DEF Whole, AllComplete, Ended, wanted, ReflashNames
  <1>3. Init => Flashed
    BY DEF Init, Flashed, NoCommand
  <1> QED
    BY <1>1, <1>2, <1>3, WholeStep, FlashedStep, TypeCorrect, PTL DEF Spec

-----------------------------------------------------------------------------
(***************************************************************************)
(* The files in flash.  Most steps leave those of File as they are.        *)
(***************************************************************************)
LEMMA HereFiles ==
    ASSUME NEW t, Here(t), \A f \in File : t[f] = here[f]
    PROVE  \A f \in File : flash'[f] = flash[f]
  BY DEF Here, here

LEMMA ReloadFiles ==
    ASSUME NEW t, Tree(t)
    PROVE  \A f \in File : sysconf_reload(t)[f] = t[f]
  BY ConfAssumption DEF Tree, sysconf_reload, Path

LEMMA SpecialFiles ==
    ASSUME NEW t, Tree(t), NEW p \in {"sysconf", "system", "motd"}, NEW c
    PROVE  \A f \in File : [t EXCEPT ![p] = c][f] = t[f]
  BY ConfAssumption DEF Tree, Path

LEMMA FilesKept ==
    ASSUME IInv, SysconfOnly, ~Edit
    PROVE  newer' = newer /\ \A f \in File : flash'[f] = flash[f]
  <1>0. Tree(here) /\ Tree(flash)
    BY DEF here, IInv, TypeOK
  <1>1. CASE PowerOff \/ StartSave \/ SaveStep
    BY <1>1 DEF PowerOff, StartSave, SaveStep, SaveMount, SaveCopy, SaveRefused,
                SaveWrite, SaveWritten, SaveWrittenShort
  <1>2. CASE RmSysconf \/ StartWriteSysconf \/ WriteSysconf
    <2>1. PICK c : Here([here EXCEPT !["sysconf"] = c]) /\ newer' = newer
      BY <1>2 DEF RmSysconf, StartWriteSysconf, WriteSysconf
    <2> QED
      BY <1>0, <2>1, SpecialFiles, HereFiles
  <1>3. CASE InitReload \/ Reload \/ SetupReload
    <2>1. /\ newer' = newer
          /\ \/ Here(sysconf_reload(here))
             \/ Here([sysconf_reload(here) EXCEPT !["motd"] = None])
      BY <1>3 DEF InitReload, Reload, SetupReload
    <2> DEFINE r == sysconf_reload(here)
    <2>2. Tree(r) /\ \A f \in File : r[f] = here[f]
      BY <1>0, ReloadTree, ReloadFiles
    <2> HIDE DEF r
    <2>3. \A f \in File : [r EXCEPT !["motd"] = None][f] = r[f]
      BY <2>2, SpecialFiles
    <2>4. CASE Here(r)
      BY <2>1, <2>2, <2>4, HereFiles
    <2>5. CASE Here([r EXCEPT !["motd"] = None])
      BY <2>1, <2>2, <2>3, <2>5, HereFiles
    <2> QED
      BY <2>1, <2>4, <2>5 DEF r
  <1>4. CASE SetupSkip \/ SetupRead \/ SetupDefault
    <2>1. /\ newer' = newer
          /\ \/ flash' = flash
             \/ \E c : Here([here EXCEPT !["sysconf"] = c])
      BY <1>4 DEF SetupSkip, SetupRead, SetupDefault
    <2> QED
      BY <1>0, <2>1, SpecialFiles, HereFiles
  <1>5. CASE StartRestore \/ RestoreInvalid \/ RestoreMount
    BY <1>5 DEF StartRestore, RestoreInvalid, RestoreMount
  <1>6. CASE \/ RestoreRead \/ RestoreReadDone \/ RestoreReload
             \/ RestoreExtract \/ RestoreTest
    <2>1. /\ newer' = newer
          /\ \/ flash' = flash
             \/ \E p \in {"sysconf", "system", "motd"} : \E c :
                   flash' = [flash EXCEPT ![p] = c]
             \/ flash' = sysconf_reload(flash)
      BY <1>6 DEF RestoreRead, RestoreReadDone, RestoreReload, RestoreExtract,
                  RestoreTest, warning
    <2>2. ASSUME NEW p \in {"sysconf", "system", "motd"}, NEW c,
                 flash' = [flash EXCEPT ![p] = c]
          PROVE  \A f \in File : flash'[f] = flash[f]
      <3>1. \A f \in File : [flash EXCEPT ![p] = c][f] = flash[f]
        BY <1>0, SpecialFiles
      <3> QED
        BY <2>2, <3>1
    <2>3. \A f \in File : sysconf_reload(flash)[f] = flash[f]
      BY <1>0, ReloadFiles
    <2> QED
      BY <2>1, <2>2, <2>3
  <1> QED
    BY <1>1, <1>2, <1>3, <1>4, <1>5, <1>6 DEF SysconfOnly, SetupStep

LEMMA CopyFiles ==
    ASSUME IInv, Copying, ~CopyOne
    PROVE  \A f \in File : flash'[f] = flash[f]
  <1>0. Tree(flash)
    BY DEF IInv, TypeOK
  <1>1. flash' = flash \/ flash' = [flash EXCEPT !["motd"] = "warning"]
    BY DEF Copying, Choose, CopyFail, CopyDone, Left, Umount, warning
  <1>2. \A f \in File : [flash EXCEPT !["motd"] = "warning"][f] = flash[f]
    BY <1>0, SpecialFiles
  <1> QED
    BY <1>1, <1>2

\* The files of the user in the flash count as modified.
NewerThanImage == \A f \in File : flash[f] = "user" => f \in newer
NoUserFile     == \A f \in File : flash[f] # "user"

(***************************************************************************)
(* Where the files that the user had changed are while reflash runs: in    *)
(* the flash until the root is written, and in $saved from before that     *)
(* until sysconf_restore_conffiles has copied them.                        *)
(***************************************************************************)
AllSaved ==
    \A f \in File : orig[f] = "user" => saved[f] = "user" /\ f \in list

BackOrSaved ==
    \A f \in File : orig[f] = "user" =>
        \/ f \in declined
        \/ saved[f] = "user" /\ (f \in list => f \in pending \/ flash[f] = "user")

Somewhere ==
    \A f \in File : orig[f] = "user" =>
        flash[f] = "user" \/ saved[f] = "user" \/ f \in declined

Carried ==
    cmd.name = "reflash" =>
        /\ pc \in {"f_mount", "f_save"} => flash = orig
        /\ pc \in {"f_umount", "w_usr", "writing_usr", "w_rootfs"} =>
              flash = orig /\ AllSaved
        /\ pc \in {"writing_rootfs", "w_kernel", "writing_kernel", "written",
                   "choose"} => NoUserFile /\ AllSaved
        /\ pc = "copy" => BackOrSaved
        /\ pc \in {"left", "umount", "idle"} => Somewhere

KInv == NewerThanImage /\ Carried

LEMMA HoldsNoUser ==
    ASSUME IInv, NEW c \in Image \cup {"torn"}, Holds("rootfs", c)
    PROVE  \A f \in File : flash'[f] # "user"
  <1>1. "user" \notin Image /\ None # "user"
    BY ConfStateAssumption
  <1> QED
    BY <1>1, ConfAssumption DEF Holds, NoFiles, ImageTree, Path

LEMMA HandledOrBack ==
    ASSUME NEW t, NEW s, NEW l, NEW keep \in SUBSET Asked(t, s, l),
           NEW p \in Handled(t, s, l, keep)
    PROVE  p \in l /\ (p \in ToCopy(t, s, l, keep) \/ t[p] = s[p])
  BY DEF Handled, ToCopy, Asked, IsDiff

LEMMA NewerStep ==
    ASSUME IInv, KInv, [Next]_vars
    PROVE  NewerThanImage'
  <1>0. "user" \notin Image /\ None # "user" /\ Tree(flash)
    BY ConfStateAssumption DEF IInv, TypeOK
  <1>1. CASE UNCHANGED vars \/ PowerOn
    BY <1>1 DEF PowerOn, KInv, NewerThanImage, vars
  <1>2. CASE Edit
    BY <1>0, <1>2 DEF Edit, KInv, NewerThanImage, Tree
  <1>3. CASE SysconfOnly /\ ~Edit
    BY <1>3, FilesKept DEF KInv, NewerThanImage
  <1>4. CASE CopyOne
    <2>1. PICK p \in pending :
          /\ flash' = [flash EXCEPT ![p] = IF saved[p] = None THEN @ ELSE saved[p]]
          /\ newer' = newer \cup ({p} \cap File)
      BY <1>4 DEF CopyOne
    <2> QED
      BY <1>0, <2>1 DEF KInv, NewerThanImage, Tree
  <1>5. CASE Copying /\ ~CopyOne
    <2>1. newer' \in {newer, File}
      BY <1>5 DEF Copying, Choose, CopyFail, CopyDone, Left, Umount
    <2> QED
      BY <1>5, <2>1, CopyFiles DEF KInv, NewerThanImage
  <1>6. CASE \/ StartReflash \/ FlashMount \/ FlashSave \/ FlashUmount
             \/ NoRestore
    <2>1. UNCHANGED treeVars
      BY <1>6 DEF StartReflash, FlashMount, FlashSave, FlashUmount, NoRestore
    <2> QED
      BY <2>1 DEF KInv, NewerThanImage
  <1>7. ASSUME NEW p \in Parts, WriteStep(p)
        PROVE  NewerThanImage'
    <2>1. CASE UNCHANGED treeVars
      BY <2>1 DEF KInv, NewerThanImage
    <2>2. CASE p = "rootfs" /\ Holds(p, "torn")
      BY <2>2, HoldsNoUser DEF NewerThanImage
    <2>3. CASE p = "rootfs" /\ Holds(p, image) /\ image \in Image
      BY <2>3, HoldsNoUser DEF NewerThanImage
    <2>4. pc \in Writes => image \in Image
      BY DEF IInv, Named
    <2> QED
      BY <1>7, <2>1, <2>2, <2>3, <2>4, WritePCs
         DEF WriteStep, SkipWrite, NothingWritten, BeginWrite, PartlyWritten,
             Written, Holds
  <1>8. CASE Remount
    <2>1. CASE UNCHANGED newer
      BY <1>8, <2>1 DEF Remount, KInv, NewerThanImage
    <2>2. NoUserFile /\ flash' = flash
      BY <1>8 DEF Remount, KInv, Carried, preserving
    <2> QED
      BY <1>8, <2>1, <2>2 DEF Remount, NewerThanImage, NoUserFile
  <1> QED
    BY <1>1, <1>2, <1>3, <1>4, <1>5, <1>6, <1>7, <1>8, Steps
       DEF Copying, ReflashStep, Parts

\* The steps of the copy, when reflash runs it.
LEMMA CarriedCopy ==
    ASSUME IInv, KInv, Copying, cmd.name = "reflash"
    PROVE  Carried'
  <1>0. Tree(flash) /\ Tree(saved) /\ None # "user"
    BY ConfStateAssumption DEF IInv, TypeOK
  <1>1. CASE Choose
    <2>1. PICK keep \in SUBSET Asked(flash, saved, list),
               upgrade \in SUBSET Asked(flash, saved, list) :
          /\ pending' = ToCopy(flash, saved, list, keep)
          /\ list' = Handled(flash, saved, list, keep)
          /\ saved' = [p \in Path |-> IF p \in upgrade THEN None ELSE saved[p]]
          /\ declined' = upgrade
      BY <1>1 DEF Choose
    <2>2. pc = "choose" /\ pc' = "copy" /\ UNCHANGED <<cmd, orig, flash>>
      BY <1>1 DEF Choose
    <2>3. AllSaved
      BY <2>2 DEF KInv, Carried
    <2>4. ASSUME NEW f \in File, orig[f] = "user", f \notin declined'
          PROVE  /\ saved'[f] = "user"
                 /\ f \in list' => f \in pending' \/ flash[f] = "user"
      <3>1. saved[f] = "user" /\ f \in Path
        BY <2>3, <2>4 DEF AllSaved, Path
      <3>2. saved'[f] = "user"
        BY <2>1, <2>4, <3>1
      <3>3. ASSUME f \in list'
            PROVE  f \in pending' \/ flash[f] = "user"
        BY <2>1, <3>1, <3>3, HandledOrBack
      <3> QED
        BY <3>2, <3>3
    <2>5. BackOrSaved'
      BY <2>2, <2>4 DEF BackOrSaved
    <2> QED
      BY <2>2, <2>5 DEF Carried
  <1>2. CASE CopyOne
    <2>1. PICK p \in pending :
          /\ flash' = [flash EXCEPT ![p] = IF saved[p] = None THEN @ ELSE saved[p]]
          /\ pending' = pending \ {p}
      BY <1>2 DEF CopyOne
    <2>2. pc = "copy" /\ UNCHANGED <<pc, cmd, orig, saved, list, declined>>
      BY <1>2 DEF CopyOne
    <2>3. BackOrSaved
      BY <1>2, <2>2 DEF KInv, Carried
    <2>4. BackOrSaved'
      BY <1>0, <2>1, <2>2, <2>3 DEF BackOrSaved, Tree, Path
    <2> QED
      BY <2>2, <2>4 DEF Carried
  <1>3. CASE CopyFail
    <2>1. /\ pc = "copy" /\ pc' = "idle"
          /\ UNCHANGED <<cmd, orig, flash, saved, declined>>
      BY <1>3 DEF CopyFail
    <2> QED
      BY <2>1 DEF KInv, Carried, BackOrSaved, Somewhere
  <1>4. CASE CopyDone
    <2>1. /\ pc = "copy" /\ pc' = "left" /\ pending = {}
          /\ UNCHANGED <<cmd, orig, flash, declined>>
          /\ saved' = [p \in Path |-> IF p \in list THEN None ELSE saved[p]]
      BY <1>4 DEF CopyDone
    <2>2. BackOrSaved
      BY <2>1 DEF KInv, Carried
    <2>3. Somewhere'
      BY <2>1, <2>2 DEF BackOrSaved, Somewhere, Path
    <2> QED
      BY <2>1, <2>3 DEF Carried
  <1>5. CASE Left \/ Umount
    <2>1. /\ pc \in {"left", "umount"} /\ pc' \in {"umount", "idle"}
          /\ UNCHANGED <<cmd, orig, saved, declined>>
      BY <1>5 DEF Left, Umount
    <2>2. \A f \in File : flash'[f] = flash[f]
      BY <1>5, CopyFiles DEF Copying, Left, Umount, CopyOne
    <2>3. Somewhere'
      BY <2>1, <2>2 DEF KInv, Carried, Somewhere
    <2> QED
      BY <2>1, <2>3 DEF Carried
  <1> QED
    BY <1>1, <1>2, <1>3, <1>4, <1>5 DEF Copying

\* The steps of reflash itself.
LEMMA CarriedReflash ==
    ASSUME IInv, KInv, ReflashStep, cmd'.name = "reflash"
    PROVE  Carried'
  <1>0. None # "user" /\ Tree(flash)
    BY ConfStateAssumption DEF IInv, TypeOK
  <1>1. CASE StartReflash
    <2>1. PICK c \in ReflashNames, i \in Image, parts \in SUBSET Parts :
              /\ Begin(c, parts, IF "rootfs" \in parts THEN "f_mount" ELSE "w_usr")
              /\ UNCHANGED flash
              /\ c = "kernel" <=> "rootfs" \notin parts
      BY <1>1, ReflashBegins DEF ReflashNames
    <2>2. /\ cmd' = [name |-> c, parts |-> parts]
          /\ pc' = IF "rootfs" \in parts THEN "f_mount" ELSE "w_usr"
          /\ orig' = IF c = "reflash" THEN flash ELSE NoFiles
      BY <2>1 DEF Begin
    <2>3. c = "reflash"
      BY <2>2
    <2> QED
      BY <2>1, <2>2, <2>3 DEF Carried
  <1>2. CASE FlashMount
    <2>1. /\ pc = "f_mount" /\ pc' \in {"f_save", "idle"}
          /\ UNCHANGED <<cmd, orig, flash>>
      BY <1>2 DEF FlashMount, preserving
    <2> QED
      BY <2>1 DEF KInv, Carried, Somewhere
  <1>3. CASE FlashSave
    <2>1. pc = "f_save" /\ UNCHANGED <<cmd, orig, flash>>
      BY <1>3 DEF FlashSave
    <2>2. CASE /\ pc' = "f_umount" /\ list' = ToSave(flash, newer)
               /\ saved' = SavedFiles(flash, list')
      <3>1. flash = orig
        BY <1>3, <2>1 DEF KInv, Carried
      <3>2. AllSaved'
        BY <1>0, <2>1, <2>2, <3>1
           DEF AllSaved, ToSave, SavedFiles, KInv, NewerThanImage, Path
      <3> QED
        BY <2>1, <2>2, <3>1, <3>2 DEF Carried
    <2>3. CASE pc' = "idle"
      BY <2>1, <2>3 DEF KInv, Carried, Somewhere
    <2> QED
      BY <1>3, <2>2, <2>3 DEF FlashSave
  <1>4. CASE FlashUmount
    <2>1. /\ pc = "f_umount" /\ UNCHANGED <<cmd, orig, flash>>
          /\ \/ pc' = "w_usr" /\ UNCHANGED <<saved, list>>
             \/ pc' = "idle"
      BY <1>4 DEF FlashUmount
    <2> QED
      BY <2>1 DEF KInv, Carried, AllSaved, Somewhere
  <1>5. ASSUME NEW p \in Parts, WriteStep(p)
        PROVE  Carried'
    <2>1. UNCHANGED <<cmd, orig, declined>> /\ wanted("rootfs")
      BY <1>5 DEF WriteStep, SkipWrite, NothingWritten, BeginWrite, PartlyWritten,
                  Written, IInv, Named, wanted
    <2>2. image \in Image /\ pc \in Writes
      BY <1>5, WritePCs DEF WriteStep, SkipWrite, NothingWritten, BeginWrite,
                            PartlyWritten, Written, IInv, Named
    <2>3. CASE SkipWrite(p)
      <3>1. /\ pc = toWrite[p] /\ pc' = nextWrite[p] /\ p # "rootfs"
            /\ UNCHANGED <<flash, saved, list>>
        BY <2>1, <2>3 DEF SkipWrite
      <3> QED
        BY <2>1, <3>1, WritePCs DEF KInv, Carried, AllSaved, NoUserFile, Parts
    <2>4. CASE NothingWritten(p)
      <3>1. /\ pc = toWrite[p] /\ UNCHANGED flash
            /\ \/ p = "rootfs" /\ pc' = "idle"
               \/ /\ p # "rootfs" /\ pc' = nextWrite[p]
                  /\ UNCHANGED <<saved, list>>
        BY <2>4 DEF NothingWritten
      <3> QED
        BY <2>1, <3>1, WritePCs
           DEF KInv, Carried, AllSaved, NoUserFile, Somewhere, Parts
    <2>5. CASE BeginWrite(p)
      <3>1. /\ pc = toWrite[p] /\ pc' = writing[p] /\ UNCHANGED <<saved, list>>
            /\ Holds(p, "torn")
        BY <2>5 DEF BeginWrite
      <3>2. p # "rootfs" => UNCHANGED flash
        BY <3>1 DEF Holds
      <3>3. p = "rootfs" => NoUserFile'
        BY <3>1, HoldsNoUser DEF NoUserFile
      <3> QED
        BY <2>1, <3>1, <3>2, <3>3, WritePCs
           DEF KInv, Carried, AllSaved, NoUserFile, Parts
    <2>6. CASE PartlyWritten(p)
      <3>1. /\ pc = writing[p] /\ UNCHANGED <<flash, saved, list>>
            /\ \/ pc' = "idle"
               \/ p # "rootfs" /\ pc' = nextWrite[p]
        BY <2>6 DEF PartlyWritten
      <3> QED
        BY <2>1, <3>1, WritePCs
           DEF KInv, Carried, AllSaved, NoUserFile, Somewhere, Parts
    <2>7. CASE Written(p)
      <3>1. /\ pc = writing[p] /\ pc' = nextWrite[p] /\ UNCHANGED <<saved, list>>
            /\ Holds(p, image)
        BY <2>7 DEF Written
      <3>2. p # "rootfs" => UNCHANGED flash
        BY <3>1 DEF Holds
      <3>3. p = "rootfs" => NoUserFile'
        BY <2>2, <3>1, HoldsNoUser DEF NoUserFile
      <3> QED
        BY <2>1, <3>1, <3>2, <3>3, WritePCs
           DEF KInv, Carried, AllSaved, NoUserFile, Parts
    <2> QED
      BY <1>5, <2>3, <2>4, <2>5, <2>6, <2>7 DEF WriteStep
  <1>6. CASE NoRestore
    BY <1>6 DEF NoRestore, IInv, Named, preserving, wanted
  <1>7. CASE Remount
    <2>1. /\ pc = "written" /\ pc' \in {"choose", "idle"}
          /\ UNCHANGED <<cmd, orig, flash, saved, declined>>
          /\ pc' = "choose" => list' = list
      BY <1>7 DEF Remount
    <2> QED
      BY <2>1 DEF KInv, Carried, AllSaved, NoUserFile, Somewhere
  <1> QED
    BY <1>1, <1>2, <1>3, <1>4, <1>5, <1>6, <1>7 DEF ReflashStep, Parts

LEMMA CarriedStep ==
    ASSUME IInv, KInv, [Next]_vars
    PROVE  KInv'
  <1>1. CASE UNCHANGED vars
    BY <1>1 DEF KInv, Carried, NewerThanImage, AllSaved, NoUserFile, BackOrSaved,
                Somewhere, vars, cmdVars
  <1>2. CASE PowerOn
    <2>1. pc' = "setup" \/ UNCHANGED <<pc, cmd>>
      BY <1>2 DEF PowerOn
    <2>2. UNCHANGED <<flash, saved, list, pending, orig, declined>>
      BY <1>2 DEF PowerOn
    <2>3. pc' = "setup" => cmd'.name = "boot"
      BY <1>2, <2>1 DEF PowerOn, IInv, Named
    <2> QED
      BY <2>1, <2>2, <2>3, NewerStep
         DEF KInv, Carried, AllSaved, NoUserFile, BackOrSaved, Somewhere
  <1>3. CASE SysconfOnly
    BY <1>3, NotReflash, NewerStep DEF KInv, Carried, ReflashNames
  <1>4. CASE Copying
    <2>1. CASE cmd.name = "reflash"
      BY <1>4, <2>1, CarriedCopy, NewerStep DEF KInv
    <2>2. CASE cmd.name # "reflash"
      BY <1>4, <2>2, CopySteps, NewerStep DEF KInv, Carried
    <2> QED
      BY <2>1, <2>2
  <1>5. CASE ReflashStep
    <2>1. CASE cmd'.name = "reflash"
      BY <1>5, <2>1, CarriedReflash, NewerStep DEF KInv
    <2>2. CASE cmd'.name # "reflash"
      BY <2>2, NewerStep DEF KInv, Carried
    <2> QED
      BY <2>1, <2>2
  <1> QED
    BY <1>1, <1>2, <1>3, <1>4, <1>5, Steps

(***************************************************************************)
(* ConfigKept: however a preserving reflash ends, each file the user had   *)
(* changed is in the flash, or saved, or was declined.                     *)
(***************************************************************************)
THEOREM ConfigIsKept == Spec => []ConfigKept
  <1>1. Init => KInv
    <2>1. Image0 # "user"
      BY ImageAssumption, ConfStateAssumption
    <2>2. ASSUME Init PROVE NewerThanImage
      BY <2>1, <2>2, ConfAssumption
         DEF Init, NewerThanImage, ImageTree, Path
    <2>3. ASSUME Init PROVE Carried
      BY <2>3 DEF Init, Carried, NoCommand
    <2> QED
      BY <2>2, <2>3 DEF KInv
  <1>2. KInv => ConfigKept
    BY DEF KInv, Carried, Somewhere, ConfigKept, Ended
  <1> QED
    BY <1>1, <1>2, CarriedStep, TypeCorrect, PTL DEF Spec

-----------------------------------------------------------------------------
(***************************************************************************)
(* A restore by the user.  $saved is the archive until the user has        *)
(* chosen; then each file that he did not decline is in $saved, and once   *)
(* it is removed from there, in the flash.  Which list the restore goes by *)
(* does not matter: it may be a part of the one in the partition.          *)
(***************************************************************************)
ToRestore == {p \in Path : archive[p] # None /\ p \notin declined}

InSaved ==
    \A p \in ToRestore :
        saved[p] = archive[p]
        /\ (p \in list => p \in pending \/ flash[p] = archive[p])

SavedOrBack == \A p \in ToRestore : saved[p] # None \/ flash[p] = archive[p]

AllBack ==
    list # {} => archive # None /\ \A p \in ToRestore : flash[p] = archive[p]

Restoring ==
    cmd.name = "restore" =>
        /\ pc \in {"test", "choose", "copy", "left"} => archive # None
        /\ pc \in {"test", "choose"} => saved = archive
        /\ pc = "copy" => InSaved
        /\ pc = "left" => SavedOrBack
        /\ pc = "umount" => AllBack
        /\ pc = "idle" /\ exit = 0 => AllBack

LEMMA RestoringCopy ==
    ASSUME IInv, Restoring, Copying, cmd.name = "restore"
    PROVE  Restoring'
  <1>0. Tree(flash) /\ Tree(saved)
    BY DEF IInv, TypeOK
  <1>1. CASE Choose
    <2>1. PICK keep \in SUBSET Asked(flash, saved, list),
               upgrade \in SUBSET Asked(flash, saved, list) :
          /\ pending' = ToCopy(flash, saved, list, keep)
          /\ list' = Handled(flash, saved, list, keep)
          /\ saved' = [p \in Path |-> IF p \in upgrade THEN None ELSE saved[p]]
          /\ declined' = upgrade
      BY <1>1 DEF Choose
    <2>2. /\ pc = "choose" /\ pc' = "copy"
          /\ UNCHANGED <<cmd, flash, text, archive>>
      BY <1>1 DEF Choose
    <2>3. archive # None /\ saved = archive
      BY <2>2 DEF Restoring
    <2>4. ASSUME NEW p \in Path, archive[p] # None, p \notin upgrade
          PROVE  /\ saved'[p] = archive[p]
                 /\ p \in list' => p \in pending' \/ flash[p] = archive[p]
      <3>1. saved'[p] = archive[p]
        BY <1>0, <2>1, <2>3, <2>4
      <3>2. ASSUME p \in list'
            PROVE  p \in pending' \/ flash[p] = archive[p]
        BY <2>1, <2>3, <3>2, HandledOrBack
      <3> QED
        BY <3>1, <3>2
    <2>5. InSaved'
      BY <2>1, <2>2, <2>4 DEF InSaved, ToRestore
    <2> QED
      BY <2>2, <2>3, <2>5 DEF Restoring
  <1>2. CASE CopyOne
    <2>1. PICK p \in pending :
          /\ flash' = [flash EXCEPT ![p] = IF saved[p] = None THEN @ ELSE saved[p]]
          /\ pending' = pending \ {p}
      BY <1>2 DEF CopyOne
    <2>2. /\ pc = "copy"
          /\ UNCHANGED <<pc, cmd, saved, list, declined, text, archive>>
      BY <1>2 DEF CopyOne
    <2>3. InSaved
      BY <2>2 DEF Restoring
    <2>4. ToRestore' = ToRestore /\ ToRestore \subseteq Path
      BY <1>0, <2>2 DEF ToRestore
    <2>5. ASSUME NEW q \in ToRestore
          PROVE  /\ saved'[q] = archive'[q]
                 /\ q \in list' => q \in pending' \/ flash'[q] = archive'[q]
      BY <1>0, <2>1, <2>2, <2>3, <2>4 DEF InSaved, ToRestore, Tree
    <2>6. InSaved'
      BY <2>4, <2>5 DEF InSaved
    <2> QED
      BY <2>2, <2>6 DEF Restoring
  <1>3. CASE CopyFail
    <2>1. pc' = "idle" /\ exit' = 1
      BY <1>3 DEF CopyFail
    <2> QED
      BY <2>1 DEF Restoring
  <1>4. CASE CopyDone
    <2>1. /\ pc = "copy" /\ pc' = "left" /\ pending = {}
          /\ UNCHANGED <<flash, declined, text, archive>>
          /\ saved' = [p \in Path |-> IF p \in list THEN None ELSE saved[p]]
      BY <1>4 DEF CopyDone
    <2>2. InSaved
      BY <2>1 DEF Restoring
    <2>3. ToRestore' = ToRestore /\ ToRestore \subseteq Path
      BY <1>0, <2>1 DEF ToRestore
    <2>4. SavedOrBack'
      BY <2>1, <2>2, <2>3 DEF InSaved, SavedOrBack, ToRestore
    <2> QED
      BY <2>1, <2>4 DEF Restoring
  <1>5. CASE Left
    <2>1. CASE pc' = "idle" /\ exit' = 1
      BY <2>1 DEF Restoring
    <2>2. CASE saved = NoFiles /\ pc' = "umount" /\ flash' = flash
               /\ UNCHANGED declined
      <3>1. pc = "left" /\ UNCHANGED <<text, archive>>
        BY <1>5 DEF Left
      <3>2. \A p \in Path : saved[p] = None
        BY <2>2 DEF NoFiles
      <3>3. SavedOrBack /\ archive # None
        BY <3>1 DEF Restoring
      <3>4. ToRestore' = ToRestore /\ ToRestore \subseteq Path
        BY <1>0, <2>2, <3>1 DEF ToRestore
      <3>5. AllBack'
        BY <2>2, <3>1, <3>2, <3>3, <3>4 DEF SavedOrBack, AllBack
      <3> QED
        BY <2>2, <3>5 DEF Restoring
    <2> QED
      BY <1>5, <2>1, <2>2 DEF Left
  <1>6. CASE Umount
    <2>1. /\ pc = "umount" /\ pc' = "idle"
          /\ UNCHANGED <<cmd, flash, list, declined, archive>>
      BY <1>6 DEF Umount
    <2> QED
      BY <2>1 DEF Restoring, AllBack, ToRestore
  <1> QED
    BY <1>1, <1>2, <1>3, <1>4, <1>5, <1>6 DEF Copying

LEMMA RestoringSysconf ==
    ASSUME IInv, Restoring, SysconfOnly, cmd'.name = "restore"
    PROVE  Restoring'
  <1>1. CASE PowerOff \/ Edit \/ RmSysconf
    BY <1>1 DEF PowerOff, Edit, RmSysconf, NoCommand
  <1>2. CASE StartWriteSysconf \/ Reload \/ StartSave
    BY <1>2 DEF StartWriteSysconf, Reload, StartSave, Begin
  <1>3. CASE WriteSysconf \/ InitReload \/ SaveStep \/ SetupStep
    <2>1. UNCHANGED cmd /\ pc \in {"write_sysconf", "init_reload", "setup",
                                   "setup_reload"} \cup SavePCs
      BY <1>3 DEF WriteSysconf, InitReload, SaveStep, SaveMount, SaveCopy,
                  SaveRefused, SaveWrite, SaveWritten, SaveWrittenShort,
                  SetupStep, SetupSkip,
                  SetupRead, SetupDefault, SetupReload
    <2> QED
      BY <2>1 DEF IInv, Named
  <1>4. CASE StartRestore
    <2>1. pc' \in {"mount", "invalid"}
      BY <1>4 DEF StartRestore, Begin
    <2> QED
      BY <2>1 DEF Restoring
  <1>5. CASE RestoreInvalid
    BY <1>5 DEF RestoreInvalid, Restoring
  <1>6. CASE RestoreMount
    <2>1. CASE Step("read")
      BY <2>1 DEF Restoring
    <2>2. CASE Leave(1)
      BY <2>2 DEF Restoring
    <2> QED
      BY <1>6, <2>1, <2>2 DEF RestoreMount
  <1>7. CASE RestoreRead \/ RestoreReadDone
    BY <1>7 DEF RestoreRead, RestoreReadDone, Restoring
  <1>8. CASE RestoreReload
    <2>1. (pc' = "umount" /\ list' = {}) \/ pc' = "extract"
      BY <1>8 DEF RestoreReload
    <2> QED
      BY <2>1 DEF Restoring, AllBack
  <1>9. CASE RestoreExtract
    <2>1. /\ pc = "extract" /\ UNCHANGED <<cmd, archive>>
          /\ \/ pc' = "test" /\ archive # None /\ saved' = archive
             \/ pc' = "idle" /\ exit' = 1
      BY <1>9 DEF RestoreExtract
    <2> QED
      BY <2>1 DEF Restoring
  <1>10. CASE RestoreTest
    <2>1. /\ pc = "test" /\ UNCHANGED <<cmd, text, archive, list>>
      BY <1>10 DEF RestoreTest
    <2>2. pc' = "choose" /\ saved' = saved
      BY <1>10, <2>1 DEF RestoreTest, auto
    <2> QED
      BY <2>1, <2>2 DEF Restoring
  <1> QED
    BY <1>1, <1>2, <1>3, <1>4, <1>5, <1>6, <1>7, <1>8, <1>9, <1>10 DEF SysconfOnly

LEMMA RestoringStep ==
    ASSUME IInv, Restoring, [Next]_vars
    PROVE  Restoring'
  <1>1. CASE UNCHANGED vars
    BY <1>1 DEF Restoring, InSaved, SavedOrBack, AllBack, ToRestore, vars, cmdVars
  <1>2. CASE PowerOn
    <2>1. pc' = "setup" \/ UNCHANGED <<pc, cmd>>
      BY <1>2 DEF PowerOn
    <2>2. UNCHANGED <<flash, text, archive, saved, list, pending, declined, exit>>
      BY <1>2 DEF PowerOn
    <2> QED
      BY <2>1, <2>2 DEF Restoring, InSaved, SavedOrBack, AllBack, ToRestore
  <1>3. CASE SysconfOnly
    BY <1>3, RestoringSysconf DEF Restoring
  <1>4. CASE Copying
    <2>1. CASE cmd.name = "restore"
      BY <1>4, <2>1, RestoringCopy
    <2>2. CASE cmd.name # "restore"
      BY <1>4, <2>2, CopySteps DEF Restoring
    <2> QED
      BY <2>1, <2>2
  <1>5. CASE ReflashStep
    BY <1>5, ReflashSteps DEF Restoring, ReflashNames
  <1> QED
    BY <1>1, <1>2, <1>3, <1>4, <1>5, Steps

(***************************************************************************)
(* RestoreExact: a restore by the user that puts any file back and exits   *)
(* with 0 has brought back each file of the archive but those that the     *)
(* user declined, whatever failed on the way.                              *)
(***************************************************************************)
THEOREM RestoreIsExact == Spec => []RestoreExact
  <1>1. Init => Restoring
    BY DEF Init, Restoring, NoCommand
  <1>2. Restoring => RestoreExact
    BY DEF Restoring, AllBack, ToRestore, RestoreExact, Ended
  <1> QED
    BY <1>1, <1>2, RestoringStep, TypeCorrect, PTL DEF Spec

-----------------------------------------------------------------------------
(***************************************************************************)
(* What a save has in hand: a copy of each file of its list, and a text    *)
(* that fits.  Where only one list fits it is the list of this save.       *)
(***************************************************************************)
OneList == Room <= 1

Writing == {"s_write", "s_writing"}

Bundled ==
    /\ pc \in Writing => \A p \in list : saved[p] # None
    /\ pc = "s_writing" => Len(SavedText.lists) <= Room
    /\ archive # None => \A p \in syssection(text) : archive[p] # None

LEMMA OnlyList ==
    ASSUME OneList, IInv, Len(SavedText.lists) <= Room
    PROVE  syssection(SavedText) = list
  <1> DEFINE ls == IF here["sysconf"] = None THEN <<>> ELSE here["sysconf"].lists
  <1>1. ls \in Seq(SUBSET Path) /\ list \in SUBSET Path
    BY DEF IInv, TypeOK, here, Tree, Text
  <1>2. SavedText.lists = Append(ls, list)
    BY DEF SavedText
  <1> HIDE DEF ls
  <1>3. Len(ls) = 0
    BY <1>1, <1>2, ConfStateAssumption DEF OneList
  <1>4. SavedText.lists = <<list>>
    BY <1>1, <1>2, <1>3
  <1>5. {j \in DOMAIN SavedText.lists : j % 2 = 1} = {1}
    BY <1>4
  <1> QED
    BY <1>4, <1>5 DEF syssection

LEMMA BundledSave ==
    ASSUME OneList, IInv, Bundled, SaveStep
    PROVE  Bundled'
  <1> USE DEF Bundled, Writing
  <1>1. CASE SaveMount
    BY <1>1 DEF SaveMount, sysVars
  <1>2. CASE SaveCopy
    <2>1. list' \subseteq Path /\ UNCHANGED sysVars
      BY <1>2, ToSaveTyped DEF SaveCopy, IInv, TypeOK
    <2>2. CASE /\ list' = ToSave(flash, newer)
               /\ saved' = SavedFiles(flash, list') /\ pc' = "s_write"
      <3>1. \A p \in list' : saved'[p] # None
        BY <2>1, <2>2 DEF ToSave, SavedFiles
      <3> QED
        BY <2>1, <2>2, <3>1 DEF sysVars
    <2>3. CASE pc' = "idle"
      BY <2>1, <2>3 DEF sysVars
    <2> QED
      BY <1>2, <2>2, <2>3 DEF SaveCopy
  <1>3. CASE SaveRefused
    BY <1>3 DEF SaveRefused, sysVars
  <1>4. CASE SaveWrite
    <2>1. UNCHANGED <<here, list, saved>> /\ pc = "s_write"
      BY <1>4 DEF SaveWrite, here, treeVars, powerVars, tmpVars
    <2>2. SavedText' = SavedText
      BY <2>1 DEF SavedText
    <2> QED
      BY <1>4, <2>1, <2>2 DEF SaveWrite
  <1>5. CASE SaveWritten
    <2>1. pc = "s_writing" /\ pc' = "idle"
      BY <1>5 DEF SaveWritten
    <2>2. CASE text' = SavedText /\ archive' = saved
      BY <2>1, <2>2, OnlyList
    <2>3. CASE UNCHANGED sysVars
      BY <2>1, <2>3 DEF sysVars
    <2> QED
      BY <1>5, <2>2, <2>3 DEF SaveWritten
  <1>6. CASE SaveWrittenShort
    BY <1>6 DEF SaveWrittenShort
  <1> QED
    BY <1>1, <1>2, <1>3, <1>4, <1>5, <1>6 DEF SaveStep

LEMMA BundledStep ==
    ASSUME OneList, IInv, Bundled, [Next]_vars
    PROVE  Bundled'
  <1>1. CASE UNCHANGED vars
    BY <1>1 DEF Bundled, Writing, SavedText, here, vars, sysVars, treeVars,
                powerVars, cmdVars, tmpVars
  <1>2. CASE PowerOn
    <2>1. UNCHANGED sysVars /\ UNCHANGED tmpVars
      BY <1>2 DEF PowerOn
    <2>2. pc' = "setup" \/ (UNCHANGED <<pc, root, ram, flash>>)
      BY <1>2 DEF PowerOn, treeVars
    <2> QED
      BY <2>1, <2>2 DEF Bundled, Writing, SavedText, here, sysVars, tmpVars
  <1>3. CASE SaveStep
    BY <1>3, BundledSave
  <1>4. CASE SysconfOnly /\ ~SaveStep
    <2>1. UNCHANGED sysVars
      BY <1>4 DEF SysconfOnly, PowerOff, Edit, RmSysconf, StartWriteSysconf,
                  WriteSysconf, InitReload, Reload, StartSave, SetupStep, SetupSkip,
                  SetupRead, SetupDefault, SetupReload, StartRestore,
                  RestoreInvalid, RestoreMount, RestoreRead, RestoreReadDone,
                  RestoreReload, RestoreExtract, RestoreTest
    <2>2. pc' \notin Writing
      BY <1>4 DEF SysconfOnly, PowerOff, Edit, RmSysconf, StartWriteSysconf,
                  WriteSysconf, InitReload, Reload, StartSave, SetupStep, SetupSkip,
                  SetupRead, SetupDefault, SetupReload, StartRestore, Begin,
                  RestoreInvalid, RestoreMount, RestoreRead, RestoreReadDone,
                  RestoreReload, RestoreExtract, RestoreTest, Writing
    <2> QED
      BY <2>1, <2>2 DEF Bundled, sysVars, Writing
  <1>5. CASE Copying
    BY <1>5, CopySteps DEF Bundled, sysVars, Writing
  <1>6. CASE ReflashStep
    <2>1. UNCHANGED sysVars
      BY <1>6 DEF ReflashStep, StartReflash, FlashMount, FlashSave, FlashUmount,
                  WriteStep, SkipWrite, NothingWritten, BeginWrite, PartlyWritten,
                  Written, NoRestore, Remount
    <2>2. cmd'.name \in ReflashNames /\ IInv'
      BY <1>6, ReflashSteps, Inductive
    <2>3. pc' \notin Writing
      BY <2>2 DEF IInv, Named, ReflashNames, Writing, SavePCs
    <2> QED
      BY <2>1, <2>3 DEF Bundled, sysVars, Writing
  <1> QED
    BY <1>1, <1>2, <1>3, <1>4, <1>5, <1>6, Steps DEF SysconfOnly

(***************************************************************************)
(* SavedTogether: where one list fits, the list and the archive in the     *)
(* partition are of one save, whatever fails and wherever the power does.  *)
(***************************************************************************)
THEOREM SavedAsOne ==
    ASSUME OneList
    PROVE  Spec => []SavedTogether
  <1>1. Init => Bundled
    BY DEF Init, Bundled, Writing
  <1>2. Bundled => SavedTogether
    BY DEF Bundled, SavedTogether
  <1> QED
    BY <1>1, <1>2, BundledStep, TypeCorrect, PTL DEF Spec

-----------------------------------------------------------------------------
(***************************************************************************)
(* What a save leaves behind, for any number of lists.  A file is in       *)
(* $saved if and only if it is in the list, and the list is the last of    *)
(* the text; the command that ended last remembers its list, too.          *)
(***************************************************************************)
Packed ==
    /\ pc \in Writing => \A p \in Path : saved[p] # None <=> p \in list
    /\ pc = "s_writing" => Len(SavedText.lists) <= Room
    /\ ArchiveIsLast

\* /tmp has always room for the text and the archive of a save.
TmpHasRoom == "io" \notin Faults

SavedWell ==
    pc = "idle" /\ cmd.name = "save" /\ exit = 0 =>
        /\ text.lists # <<>> /\ LastList(text) = list
        /\ OneList => syssection(text) = list
        /\ Room <= ValidRoom => valid

LEMMA LastOfSaved ==
    ASSUME IInv
    PROVE  SavedText.lists # <<>> /\ LastList(SavedText) = list
  <1> DEFINE ls == IF here["sysconf"] = None THEN <<>> ELSE here["sysconf"].lists
  <1>1. ls \in Seq(SUBSET Path) /\ list \in SUBSET Path
    BY DEF IInv, TypeOK, here, Tree, Text
  <1>2. SavedText.lists = Append(ls, list)
    BY DEF SavedText
  <1> HIDE DEF ls
  <1> QED
    BY <1>1, <1>2 DEF LastList

LEMMA PackedSave ==
    ASSUME IInv, Packed, SaveStep
    PROVE  Packed'
  <1> USE DEF Packed, Writing
  <1>1. CASE SaveMount
    BY <1>1 DEF SaveMount, sysVars, ArchiveIsLast
  <1>2. CASE SaveCopy
    <2>1. ArchiveIsLast'
      BY <1>2 DEF SaveCopy, sysVars, ArchiveIsLast
    <2>2. CASE /\ list' = ToSave(flash, newer)
               /\ saved' = SavedFiles(flash, list') /\ pc' = "s_write"
      <3>1. \A p \in Path : saved'[p] # None <=> p \in list'
        BY <2>2 DEF ToSave, SavedFiles
      <3> QED
        BY <2>1, <2>2, <3>1
    <2>3. CASE pc' = "idle"
      BY <2>1, <2>3
    <2> QED
      BY <1>2, <2>2, <2>3 DEF SaveCopy
  <1>3. CASE SaveRefused
    BY <1>3 DEF SaveRefused, sysVars, ArchiveIsLast
  <1>4. CASE SaveWrite
    <2>1. UNCHANGED <<here, list, saved>> /\ pc = "s_write"
      BY <1>4 DEF SaveWrite, here, treeVars, powerVars, tmpVars
    <2>2. SavedText' = SavedText
      BY <2>1 DEF SavedText
    <2> QED
      BY <1>4, <2>1, <2>2 DEF SaveWrite, ArchiveIsLast
  <1>5. CASE SaveWritten
    <2>1. pc = "s_writing" /\ pc' = "idle"
      BY <1>5 DEF SaveWritten
    <2>2. CASE text' = SavedText /\ archive' = saved
      BY <2>1, <2>2, LastOfSaved DEF ArchiveIsLast, LastList
    <2>3. CASE UNCHANGED sysVars
      BY <2>1, <2>3 DEF sysVars, ArchiveIsLast
    <2> QED
      BY <1>5, <2>2, <2>3 DEF SaveWritten
  <1>6. CASE SaveWrittenShort
    BY <1>6 DEF SaveWrittenShort, ArchiveIsLast
  <1> QED
    BY <1>1, <1>2, <1>3, <1>4, <1>5, <1>6 DEF SaveStep

\* All steps but those of a save leave the partition alone, and no save begun.
LEMMA OtherSteps ==
    ASSUME IInv, Next, ~SaveStep, ~PowerOn
    PROVE  /\ UNCHANGED sysVars /\ pc' \notin Writing
           /\ pc' = "idle" /\ cmd'.name = "save" =>
                 UNCHANGED <<pc, cmd, exit, list>>
  <1>1. CASE PowerOff \/ Edit \/ RmSysconf
    BY <1>1 DEF PowerOff, Edit, RmSysconf, NoCommand, Writing
  <1>2. CASE StartSave
    BY <1>2 DEF StartSave, Begin, Writing
  <1>3. CASE StartWriteSysconf \/ Reload \/ StartRestore
    BY <1>3 DEF StartWriteSysconf, Reload, StartRestore, Begin, Writing
  <1>4. CASE \/ WriteSysconf \/ InitReload \/ SetupStep
    <2>1. /\ UNCHANGED sysVars /\ UNCHANGED cmd
          /\ pc \in {"write_sysconf", "init_reload", "setup", "setup_reload"}
          /\ pc' \in {"idle", "init_reload", "setup_reload", "mount"}
      BY <1>4 DEF WriteSysconf, InitReload, SetupStep, SetupSkip, SetupRead,
                  SetupDefault, SetupReload
    <2> QED
      BY <2>1 DEF IInv, Named, Writing
  <1>5. CASE \/ RestoreInvalid \/ RestoreMount \/ RestoreRead \/ RestoreReadDone
             \/ RestoreReload \/ RestoreExtract \/ RestoreTest
    <2>1. /\ UNCHANGED sysVars /\ UNCHANGED cmd
          /\ pc \in {"invalid"} \cup RestorePCs
          /\ pc' \in {"idle", "choose", "umount"} \cup RestorePCs
      BY <1>5 DEF RestoreInvalid, RestoreMount, RestoreRead, RestoreReadDone,
                  RestoreReload, RestoreExtract, RestoreTest
    <2> QED
      BY <2>1 DEF IInv, Named, Writing, RestorePCs
  <1>6. CASE Copying
    BY <1>6, CopySteps DEF IInv, Named, Writing
  <1>7. CASE ReflashStep
    <2>1. UNCHANGED sysVars
      BY <1>7 DEF ReflashStep, StartReflash, FlashMount, FlashSave, FlashUmount,
                  WriteStep, SkipWrite, NothingWritten, BeginWrite, PartlyWritten,
                  Written, NoRestore, Remount
    <2>2. cmd'.name \in ReflashNames /\ IInv'
      BY <1>7, ReflashSteps, Inductive
    <2> QED
      BY <2>1, <2>2 DEF IInv, Named, ReflashNames, Writing, SavePCs
  <1> QED
    BY <1>1, <1>2, <1>3, <1>4, <1>5, <1>6, <1>7, Steps DEF SysconfOnly

LEMMA PackedStep ==
    ASSUME IInv, Packed, [Next]_vars
    PROVE  Packed'
  <1>1. CASE UNCHANGED vars
    BY <1>1 DEF Packed, Writing, SavedText, here, vars, sysVars, treeVars,
                powerVars, cmdVars, tmpVars, ArchiveIsLast, LastList
  <1>2. CASE PowerOn
    <2>1. UNCHANGED sysVars /\ UNCHANGED tmpVars
      BY <1>2 DEF PowerOn
    <2>2. pc' = "setup" \/ (UNCHANGED <<pc, root, ram, flash>>)
      BY <1>2 DEF PowerOn, treeVars
    <2> QED
      BY <2>1, <2>2 DEF Packed, Writing, SavedText, here, sysVars, tmpVars,
                        ArchiveIsLast, LastList
  <1>3. CASE SaveStep
    BY <1>3, PackedSave
  <1>4. CASE Next /\ ~SaveStep /\ ~PowerOn
    BY <1>4, OtherSteps DEF Packed, sysVars, Writing, ArchiveIsLast, LastList
  <1> QED
    BY <1>1, <1>2, <1>3, <1>4

LEMMA SavesPacked == Spec => []Packed
  <1>1. Init => Packed
    BY DEF Init, Packed, Writing, ArchiveIsLast
  <1> QED
    BY <1>1, PackedStep, TypeCorrect, PTL DEF Spec

LEMMA SavedWellStep ==
    ASSUME TmpHasRoom, IInv, Packed, SavedWell, [Next]_vars
    PROVE  SavedWell'
  <1>1. CASE UNCHANGED vars
    BY <1>1 DEF SavedWell, vars, sysVars, cmdVars, tmpVars, LastList, syssection
  <1>2. CASE PowerOn
    BY <1>2 DEF PowerOn, SavedWell, sysVars, tmpVars, LastList, syssection, IInv
  <1>3. CASE SaveMount \/ SaveCopy \/ SaveRefused \/ SaveWrite
    BY <1>3 DEF SaveMount, SaveCopy, SaveRefused, SaveWrite, SavedWell
  <1>4. CASE SaveWritten
    <2>1. CASE exit' = 1
      BY <2>1 DEF SavedWell
    <2>2. CASE /\ valid' = (Len(SavedText.lists) <= ValidRoom)
               /\ text' = SavedText
      <3>1. Len(SavedText.lists) <= Room /\ UNCHANGED list
        BY <1>4 DEF Packed, SaveWritten
      <3>2. OneList => syssection(text') = list'
        BY <2>2, <3>1, OnlyList
      <3>3. Len(SavedText.lists) \in Nat
        <4>1. SavedText \in Text
          BY SavedTextTyped DEF IInv, TypeOK, here
        <4> QED
          BY <4>1 DEF Text
      <3>4. Room <= ValidRoom => valid'
        <4>1. Room <= ValidRoom => Len(SavedText.lists) <= ValidRoom
          BY <3>1, <3>3, ConfStateAssumption
        <4> QED
          BY <2>2, <4>1
      <3>5. text'.lists # <<>> /\ LastList(text') = list'
        BY <2>2, <3>1, LastOfSaved
      <3> QED
        BY <3>2, <3>4, <3>5 DEF SavedWell, LastList, syssection
    <2> QED
      BY <1>4, <2>1, <2>2 DEF SaveWritten
  <1>5. CASE Next /\ ~SaveStep /\ ~PowerOn
    BY <1>5, OtherSteps DEF SavedWell, sysVars, LastList, syssection
  <1>6. ~SaveWrittenShort
    BY DEF SaveWrittenShort, TmpHasRoom
  <1> QED
    BY <1>1, <1>2, <1>3, <1>4, <1>5, <1>6 DEF SaveStep

LEMMA SavesWell ==
    ASSUME TmpHasRoom
    PROVE  Spec => []SavedWell
  <1>1. Init => SavedWell
    BY DEF Init, SavedWell, NoCommand
  <1> QED
    BY <1>1, SavedWellStep, SavesPacked, TypeCorrect, PTL DEF Spec

(***************************************************************************)
(* ArchiveIsLast: for any number of lists, the archive in the partition    *)
(* holds the files of the last list, whatever fails.                       *)
(***************************************************************************)
THEOREM ArchiveOfLast == Spec => []ArchiveIsLast
  <1>1. Packed => ArchiveIsLast
    BY DEF Packed
  <1> QED
    BY <1>1, SavesPacked, PTL

(***************************************************************************)
(* SavedListCounts: only a second list, kept from an earlier save, or a    *)
(* full /tmp makes a restore follow another list than the last save's.     *)
(***************************************************************************)
THEOREM LastListCounts ==
    ASSUME OneList, TmpHasRoom
    PROVE  Spec => []SavedListCounts
  <1>1. SavedWell => SavedListCounts
    BY DEF SavedWell, SavedListCounts, Ended
  <1> QED
    BY <1>1, SavesWell, PTL

(***************************************************************************)
(* SavedIsValid: a save that exits with 0 is refused by a restore only     *)
(* when the partition has room for a longer text than sysconf accepts, or  *)
(* /tmp had none.                                                          *)
(***************************************************************************)
THEOREM SavedAccepted ==
    ASSUME Room <= ValidRoom, TmpHasRoom
    PROVE  Spec => []SavedIsValid
  <1>1. SavedWell => SavedIsValid
    BY DEF SavedWell, SavedIsValid, Ended
  <1> QED
    BY <1>1, SavesWell, PTL

-----------------------------------------------------------------------------
(***************************************************************************)
(* The restore of a first boot that nothing interrupts, on a machine where *)
(* the user edits files, saves them, writes /etc/default/sysconf anew and  *)
(* writes new images; a reinit restores like a first boot.  Each file that *)
(* the archive has from the user is in the flash when cpio has copied it,  *)
(* and there is a sysconf file from the moment the boot has looked for it. *)
(***************************************************************************)
FirstNames == {"save", "reinit", "read", "default", "reflash_n", "kernel"}

FirstBoots ==
    /\ Commands \subseteq FirstNames \cup {"edit"}
    /\ {"power", "io"} \cap Faults = {}

RestoreSteps == RestorePCs \cup {"choose", "copy"}

Users(tree, f) == f \in File /\ tree[f] = "user"

Back ==
    \A f \in syssection(text) :
        Users(archive, f) => Users(flash, f) \/ flash["motd"] = "warning"

BackOrPending ==
    \A f \in syssection(text) :
        Users(archive, f) => Users(saved, f) /\ (Users(flash, f) \/ f \in pending)

\* Which commands run, and what they may rely on.
Orderly ==
    /\ cmd.name \in FirstNames \cup {"none", "boot"}
    /\ power # "up" => pc = "idle"
    /\ pc = "write_sysconf" => saved["sysconf"] # None
    /\ pc = "setup_reload" => ~valid
    /\ pc \in Writes /\ "rootfs" \in cmd.parts => root # "flash"
    /\ pc = "writing_rootfs" => "rootfs" \in cmd.parts

\* A root that runs from flash has been configured, unless it is booting.
Configured ==
    power = "up" /\ root = "flash" /\ pc # "setup" => flash["sysconf"] # None

Returned ==
    /\ pc \in Writing => \A f \in File : saved[f] = "user" => flash[f] = "user"
    /\ pc = "reload" => flash["sysconf"] = text
    /\ pc \in {"extract", "test", "choose"} => list = syssection(text)
    /\ pc \in {"test", "choose"} => saved = archive
    /\ pc = "copy" => BackOrPending
    /\ pc \notin RestoreSteps /\ valid /\ archive # None
       /\ flash["sysconf"] # None => Back

BInv == Orderly /\ Configured /\ Returned

\* The steps of sysconf that this leaves.
Texts == StartWriteSysconf \/ WriteSysconf
Begins == StartSave \/ StartRestore \/ RestoreInvalid
Extracts ==
    \/ RestoreMount \/ RestoreRead \/ RestoreReadDone \/ RestoreReload
    \/ RestoreExtract \/ RestoreTest

LEMMA FirstBootSteps ==
    ASSUME FirstBoots, IInv, BInv, SysconfOnly
    PROVE  \/ PowerOff \/ Edit \/ Texts \/ Begins \/ SaveStep \/ SetupStep
           \/ Extracts
  <1>1. ~RmSysconf /\ ~Reload
    BY DEF FirstBoots, FirstNames, RmSysconf, Reload, Begin
  <1>2. ~InitReload
    BY DEF InitReload, IInv, Named, BInv, Orderly, FirstNames
  <1> QED
    BY <1>1, <1>2 DEF SysconfOnly, Texts, Begins, Extracts

\* The new text is put in place whole, and nothing else of the tree changes.
LEMMA TextSteps ==
    ASSUME FirstBoots, IInv, BInv, Texts
    PROVE  /\ UNCHANGED <<valid, text, archive, power, root>> /\ power = "up"
           /\ pc \in {"idle", "write_sysconf"} /\ pc' \in {"idle", "write_sysconf"}
           /\ cmd'.name \in FirstNames
           /\ pc' = "write_sysconf" => saved'["sysconf"] # None
           /\ \/ flash' = flash
              \/ root = "flash" /\ flash'["sysconf"] # None
                 /\ \A p \in Path \ {"sysconf"} : flash'[p] = flash[p]
  <1>0. Tree(flash) /\ Tree(here)
    BY DEF IInv, TypeOK, here
  <1>1. ASSUME NEW c, c # None, flash' = [flash EXCEPT !["sysconf"] = c]
        PROVE  /\ flash'["sysconf"] # None
               /\ \A p \in Path \ {"sysconf"} : flash'[p] = flash[p]
    BY <1>0, <1>1 DEF Tree, Path
  <1>2. CASE StartWriteSysconf
    <2>1. PICK c \in {"read", "default", "init"} :
              /\ c \in Commands /\ cmd' = [name |-> c, parts |-> {}]
              /\ saved' = [NoFiles EXCEPT !["sysconf"] = NewText(c)]
              /\ Here([here EXCEPT !["sysconf"] = Torn])
      BY <1>2 DEF StartWriteSysconf
    <2>2. c \in {"read", "default"} /\ cmd'.name = c
      BY <2>1 DEF FirstBoots, FirstNames
    <2>3. NewText(c) \in Text
      BY <1>0, <2>2, DefaultTyped DEF NewText, IInv, TypeOK
    <2>4. saved'["sysconf"] # None
      BY <2>1, <2>3, NoFilesTree, TextAssumption DEF Tree, Path
    <2>5. Torn # None
      BY SomeTexts, TextAssumption DEF Torn, Nets
    <2>6. flash' = flash \/ (root = "flash" /\ flash' = [flash EXCEPT !["sysconf"] = Torn])
      BY <2>1 DEF Here, here
    <2>7. /\ UNCHANGED <<valid, text, archive, power, root>> /\ power = "up"
          /\ pc = "idle" /\ pc' = "write_sysconf"
      BY <1>2 DEF StartWriteSysconf
    <2>8. flash' = flash \/ (root = "flash" /\ flash'["sysconf"] # None
                               /\ \A p \in Path \ {"sysconf"} : flash'[p] = flash[p])
      BY <1>1, <2>5, <2>6, Zenon
    <2> QED
      BY <2>2, <2>4, <2>7, <2>8 DEF FirstNames
  <1>3. CASE WriteSysconf
    <2>1. saved["sysconf"] # None /\ cmd.name \in FirstNames /\ cmd.name # "init"
      BY <1>3 DEF WriteSysconf, BInv, Orderly, IInv, Named, FirstNames
    <2>2. \/ flash' = flash
          \/ root = "flash" /\ flash' = [flash EXCEPT !["sysconf"] = saved["sysconf"]]
      BY <1>3 DEF WriteSysconf, Here, here
    <2>3. /\ UNCHANGED <<valid, text, archive, power, root, cmd>> /\ power = "up"
          /\ pc = "write_sysconf" /\ pc' = "idle"
      BY <1>3, <2>1 DEF WriteSysconf
    <2>4. flash' = flash \/ (root = "flash" /\ flash'["sysconf"] # None
                               /\ \A p \in Path \ {"sysconf"} : flash'[p] = flash[p])
      BY <1>1, <2>1, <2>2, Zenon
    <2> QED
      BY <2>1, <2>3, <2>4
  <1> QED
    BY <1>2, <1>3 DEF Texts

\* A save or a restore begins, or ends at once, with nothing changed.
LEMMA BeginSteps ==
    ASSUME FirstBoots, IInv, BInv, Begins
    PROVE  /\ UNCHANGED <<flash, valid, text, archive, power, root>> /\ power = "up"
           /\ pc \in {"idle", "invalid"} /\ pc' \in {"idle", "s_mount", "mount", "invalid"}
           /\ cmd'.name \in FirstNames
  <1>1. CASE StartSave
    BY <1>1 DEF StartSave, Begin, FirstNames
  <1>2. CASE StartRestore
    <2>1. PICK c \in {"restore", "reinit"} :
              Begin(c, {}, IF valid THEN "mount" ELSE "invalid")
      BY <1>2 DEF StartRestore
    <2>2. c = "reinit"
      BY <2>1 DEF Begin, FirstBoots, FirstNames
    <2> QED
      BY <1>2, <2>1, <2>2 DEF StartRestore, Begin, FirstNames
  <1>3. CASE RestoreInvalid
    BY <1>3 DEF RestoreInvalid, IInv, Named, BInv, Orderly, FirstNames
  <1> QED
    BY <1>1, <1>2, <1>3 DEF Begins

LEMMA OrderlyStep ==
    ASSUME FirstBoots, IInv, BInv, Next
    PROVE  Orderly'
  <1> USE DEF Orderly
  <1>0. Orderly
    BY DEF BInv
  <1>1. CASE PowerOn
    BY <1>0, <1>1 DEF PowerOn
  <1>2. CASE PowerOff \/ Edit
    BY <1>0, <1>2 DEF PowerOff, Edit, NoCommand
  <1>3. CASE Texts \/ Begins
    BY <1>0, <1>3, TextSteps, BeginSteps
  <1>4. CASE SaveStep
    <2>1. pc' \in SavePCs \cup {"idle"} /\ power' = "up" /\ cmd' = cmd
      BY <1>4 DEF SaveStep, SaveMount, SaveCopy, SaveRefused, SaveWrite, SaveWritten,
                SaveWrittenShort
    <2> QED
      BY <1>0, <2>1
  <1>5. CASE SetupStep
    <2>1. /\ pc' \in {"idle", "mount", "setup_reload"} /\ power' = "up" /\ cmd' = cmd
          /\ pc' = "setup_reload" => ~valid'
      BY <1>5 DEF SetupStep, SetupSkip, SetupRead, SetupDefault, SetupReload, FirstBoots
    <2> QED
      BY <1>0, <2>1
  <1>6. CASE Extracts
    <2>1. /\ pc' \in {"idle", "choose", "umount"} \cup RestorePCs
          /\ power' = "up" /\ cmd' = cmd
      BY <1>6 DEF Extracts, RestoreMount, RestoreRead, RestoreReadDone, RestoreReload,
                  RestoreExtract, RestoreTest
    <2> QED
      BY <1>0, <2>1
  <1>7. CASE Copying
    <2>1. power = "up"
      BY <1>7 DEF Copying, Choose, CopyOne, CopyFail, CopyDone, Left, Umount
    <2> QED
      BY <1>0, <1>7, <2>1, CopySteps
  <1>8. CASE StartReflash
    <2>1. PICK c \in ReflashNames, i \in Image, parts \in SUBSET Parts :
              Begin(c, parts, IF "rootfs" \in parts THEN "f_mount" ELSE "w_usr")
      BY <1>8, ReflashBegins DEF ReflashNames
    <2>2. /\ cmd' = [name |-> c, parts |-> parts] /\ c \in Commands
          /\ pc' = IF "rootfs" \in parts THEN "f_mount" ELSE "w_usr"
      BY <2>1 DEF Begin
    <2>3. cmd'.name \in {"reflash_n", "kernel"} /\ cmd'.parts = parts
      BY <2>1, <2>2 DEF FirstBoots, FirstNames, ReflashNames
    <2>4. power' = "up"
      BY <1>8, <2>1 DEF StartReflash, Begin
    <2> QED
      BY <2>2, <2>3, <2>4 DEF FirstNames
  <1>9. CASE FlashMount \/ FlashSave \/ FlashUmount
    <2>1. FlashMount
      BY <1>0, <1>9 DEF FlashSave, FlashUmount, IInv, Named, FirstNames
    <2> QED
      BY <1>0, <2>1 DEF FlashMount, preserving, FirstNames
  <1>10. ASSUME NEW p \in Parts, WriteStep(p)
         PROVE  Orderly'
    <2>1. UNCHANGED <<cmd, root>> /\ pc \in Writes /\ power' = "up"
      BY <1>10, WritePCs DEF WriteStep, SkipWrite, NothingWritten, BeginWrite,
                             PartlyWritten, Written
    <2>2. pc' \in Writes \cup {"written", "idle"}
      BY <1>10, WritePCs DEF WriteStep, SkipWrite, NothingWritten, BeginWrite,
                             PartlyWritten, Written
    <2>3. pc' = "writing_rootfs" => "rootfs" \in cmd.parts
      BY <1>10, WritePCs DEF WriteStep, SkipWrite, NothingWritten, BeginWrite,
                             PartlyWritten, Written, wanted, Parts
    <2> QED
      BY <1>0, <2>1, <2>2, <2>3
  <1>11. CASE NoRestore \/ Remount
    BY <1>0, <1>11 DEF NoRestore, Remount, preserving, FirstNames
  <1> QED
    BY <1>1, <1>2, <1>3, <1>4, <1>5, <1>6, <1>7, <1>8, <1>9, <1>10, <1>11, Steps,
       FirstBootSteps DEF ReflashStep, Parts

\* No step but those of reflash removes the sysconf file from the flash.
LEMMA SysconfStays ==
    ASSUME FirstBoots, IInv, BInv, PowerOff \/ SysconfOnly \/ Copying,
           flash["sysconf"] # None
    PROVE  flash'["sysconf"] # None
  <1>0. Tree(flash) /\ Tree(here) /\ Tree(saved) /\ text \in Text
    BY DEF IInv, TypeOK, here
  <1>1. \A c, p \in Path \ {"sysconf"} :
            [flash EXCEPT ![p] = c]["sysconf"] = flash["sysconf"]
    BY <1>0 DEF Tree
  <1>2. \A c : [flash EXCEPT !["sysconf"] = c]["sysconf"] = c
    BY <1>0 DEF Tree, Path
  <1>3. /\ sysconf_reload(flash)["sysconf"] = flash["sysconf"]
        /\ warning(flash)["sysconf"] = flash["sysconf"]
    BY <1>0 DEF Tree, Path, sysconf_reload, warning
  <1>4. CASE PowerOff \/ SaveStep \/ RestoreMount \/ SetupSkip
    BY <1>4 DEF PowerOff, SaveStep, SaveMount, SaveCopy, SaveRefused,
                SaveWrite, SaveWritten, SaveWrittenShort, RestoreMount, SetupSkip
  <1>5. CASE Edit
    <2>1. PICK f \in File : flash' = [flash EXCEPT ![f] = "user"]
      BY <1>5 DEF Edit
    <2>2. f \in Path \ {"sysconf"}
      BY ConfAssumption DEF Path
    <2> QED
      BY <1>1, <2>1, <2>2
  <1>6. CASE SetupRead \/ SetupDefault
    <2>1. PICK t \in Text : Here([here EXCEPT !["sysconf"] = t])
      BY <1>0, <1>6, DefaultTyped DEF SetupRead, SetupDefault
    <2>2. flash' = flash \/ flash' = [flash EXCEPT !["sysconf"] = t]
      BY <2>1 DEF Here, here
    <2> QED
      BY <1>2, <2>2, TextAssumption
  <1>7. CASE SetupReload
    BY <1>3, <1>7 DEF SetupReload, Here, here
  <1>8. CASE RestoreRead \/ RestoreReadDone
    <2>1. PICK t \in Text : flash' = [flash EXCEPT !["sysconf"] = t]
      BY <1>0, <1>8, SomeTexts DEF RestoreRead, RestoreReadDone, FirstBoots
    <2> QED
      BY <1>2, <2>1, TextAssumption
  <1>9. CASE RestoreReload \/ RestoreExtract
    BY <1>3, <1>9 DEF RestoreReload, RestoreExtract, FirstBoots
  <1>10. CASE RestoreTest
    <2>1. [flash EXCEPT !["motd"] = None]["sysconf"] = flash["sysconf"]
      BY <1>0 DEF Tree, Path
    <2> QED
      BY <1>3, <1>10, <2>1 DEF RestoreTest
  <1>11. CASE CopyOne
    <2>1. PICK p \in pending :
              flash' = [flash EXCEPT ![p] = IF saved[p] = None THEN @ ELSE saved[p]]
      BY <1>11 DEF CopyOne
    <2>2. pending \subseteq Path
      BY DEF IInv, TypeOK
    <2> QED
      BY <1>0, <2>1, <2>2 DEF Tree
  <1>12. CASE Copying /\ ~CopyOne
    BY <1>3, <1>12 DEF Copying, Choose, CopyFail, CopyDone, Left, Umount
  <1> QED
    BY <1>4, <1>5, <1>6, <1>7, <1>8, <1>9, <1>10, <1>11, <1>12, FirstBootSteps,
       TextSteps, BeginSteps DEF SetupStep, Extracts

LEMMA RunningStep ==
    ASSUME FirstBoots, IInv, BInv, SysconfOnly \/ Copying, ~PowerOff
    PROVE  /\ power = "up" /\ UNCHANGED <<power, root>>
           /\ pc = "setup" => SetupSkip \/ SetupRead \/ SetupDefault
  <1>1. CASE Edit \/ Texts \/ Begins
    BY <1>1, TextSteps, BeginSteps DEF Edit
  <1>2. CASE SaveStep
    BY <1>2 DEF SaveStep, SaveMount, SaveCopy, SaveRefused, SaveWrite, SaveWritten,
                SaveWrittenShort
  <1>3. CASE SetupStep
    BY <1>3 DEF SetupStep, SetupSkip, SetupRead, SetupDefault, SetupReload
  <1>4. CASE Extracts
    BY <1>4 DEF Extracts, RestoreMount, RestoreRead, RestoreReadDone, RestoreReload,
                RestoreExtract, RestoreTest
  <1>5. CASE Copying
    BY <1>5 DEF Copying, Choose, CopyOne, CopyFail, CopyDone, Left, Umount
  <1> QED
    BY <1>1, <1>2, <1>3, <1>4, <1>5, FirstBootSteps

LEMMA ConfiguredStep ==
    ASSUME FirstBoots, IInv, BInv, Next
    PROVE  Configured'
  <1>0. Configured /\ Orderly
    BY DEF BInv
  <1>1. CASE PowerOn
    BY <1>1 DEF PowerOn, Configured
  <1>2. CASE PowerOff
    BY <1>2 DEF PowerOff, Configured
  <1>3. CASE (SysconfOnly \/ Copying) /\ ~PowerOff
    <2>1. CASE root # "flash"
      BY <1>3, <2>1, RunningStep DEF Configured
    <2>2. CASE pc # "setup" /\ root = "flash"
      BY <1>0, <1>3, <2>2, RunningStep, SysconfStays DEF Configured
    <2>3. CASE SetupSkip /\ root = "flash"
      BY <2>3 DEF SetupSkip, here, Configured
    <2>4. CASE (SetupRead \/ SetupDefault) /\ root = "flash"
      <3>1. PICK t \in Text : flash' = [flash EXCEPT !["sysconf"] = t]
        BY <2>4, DefaultTyped
           DEF SetupRead, SetupDefault, Here, here, IInv, TypeOK
      <3>2. flash'["sysconf"] = t
        BY <3>1 DEF IInv, TypeOK, Tree, Path
      <3> QED
        BY <3>2, TextAssumption DEF Configured
    <2> QED
      BY <1>3, <2>1, <2>2, <2>3, <2>4, RunningStep
  <1>4. CASE StartReflash \/ FlashMount \/ FlashSave \/ FlashUmount
    <2>1. UNCHANGED <<flash, power, root>> /\ pc # "setup" /\ power = "up"
      BY <1>4 DEF StartReflash, Begin, FlashMount, FlashSave, FlashUmount
    <2> QED
      BY <1>0, <2>1 DEF Configured
  <1>5. ASSUME NEW p \in Parts, WriteStep(p)
        PROVE  Configured'
    <2>1. UNCHANGED <<power, root>> /\ pc \in Writes /\ power = "up"
      BY <1>5, WritePCs DEF WriteStep, SkipWrite, NothingWritten, BeginWrite,
                            PartlyWritten, Written
    <2>2. flash' = flash \/ "rootfs" \in cmd.parts
      <3>1. CASE SkipWrite(p) \/ NothingWritten(p) \/ PartlyWritten(p)
        BY <3>1 DEF SkipWrite, NothingWritten, PartlyWritten
      <3>2. CASE BeginWrite(p) \/ Written(p)
        <4>1. p # "rootfs" => flash' = flash
          BY <3>2 DEF BeginWrite, Written, Holds
        <4>2. p = "rootfs" => "rootfs" \in cmd.parts
          BY <1>0, <3>2, WritePCs DEF BeginWrite, Written, wanted, Orderly
        <4> QED
          BY <4>1, <4>2
      <3> QED
        BY <1>5, <3>1, <3>2 DEF WriteStep
    <2> QED
      BY <1>0, <2>1, <2>2 DEF Configured, Orderly
  <1>6. CASE NoRestore \/ Remount
    BY <1>0, <1>6 DEF NoRestore, Remount, Configured
  <1> QED
    BY <1>1, <1>2, <1>3, <1>4, <1>5, <1>6, Steps DEF ReflashStep, Parts

LEMMA ReturnedSave ==
    ASSUME FirstBoots, IInv, BInv, SaveStep
    PROVE  Returned'
  <1> USE DEF Returned, Writing, RestoreSteps
  <1>0. Returned /\ Tree(flash)
    BY DEF BInv, IInv, TypeOK
  <1>2. CASE SaveMount \/ SaveRefused
    <2>1. /\ pc \in SavePCs /\ pc' \in {"s_copy", "idle"}
          /\ UNCHANGED <<flash, valid, text, archive>>
      BY <1>2 DEF SaveMount, SaveRefused
    <2> QED
      BY <1>0, <2>1 DEF Back, Users
  <1>3. CASE SaveCopy
    <2>1. /\ pc = "s_copy" /\ pc' \in {"s_write", "idle"}
          /\ UNCHANGED <<flash, valid, text, archive>>
      BY <1>3 DEF SaveCopy
    <2>2. pc' = "s_write" => \A f \in File : saved'[f] = "user" => flash'[f] = "user"
      BY <1>3, <2>1, ConfStateAssumption DEF SaveCopy, SavedFiles, Path
    <2> QED
      BY <1>0, <2>1, <2>2 DEF Back, Users
  <1>4. CASE SaveWrite
    <2>1. /\ pc = "s_write" /\ pc' = "s_writing" /\ archive' = None
          /\ UNCHANGED <<flash, saved>>
      BY <1>4 DEF SaveWrite
    <2> QED
      BY <1>0, <2>1
  <1>5. CASE SaveWritten
    <2>1. /\ pc = "s_writing" /\ pc' = "idle" /\ UNCHANGED flash
          /\ archive' = saved \/ UNCHANGED <<valid, text, archive>>
      BY <1>5 DEF SaveWritten
    <2> QED
      BY <1>0, <2>1 DEF Back, Users
  <1>6. ~SaveWrittenShort
    BY DEF SaveWrittenShort, FirstBoots
  <1> QED
    BY <1>2, <1>3, <1>4, <1>5, <1>6 DEF SaveStep

LEMMA ReturnedExtract ==
    ASSUME FirstBoots, IInv, BInv, Extracts
    PROVE  Returned'
  <1> USE DEF Returned, Writing, RestoreSteps
  <1>0. Returned /\ Tree(flash)
    BY DEF BInv, IInv, TypeOK
  <1>1. CASE RestoreMount \/ RestoreRead
    BY <1>1 DEF RestoreMount, RestoreRead, FirstBoots
  <1>2. CASE RestoreReadDone
    <2>1. flash' = [flash EXCEPT !["sysconf"] = text] /\ UNCHANGED text /\ pc' = "reload"
      BY <1>2 DEF RestoreReadDone, FirstBoots
    <2>2. flash'["sysconf"] = text
      BY <1>0, <2>1 DEF Tree, Path
    <2> QED
      BY <2>1, <2>2
  <1>5. CASE RestoreReload
    <2>1. flash["sysconf"] = text /\ text # None
      BY <1>0, <1>5, TextAssumption DEF RestoreReload, IInv, TypeOK
    <2>2. /\ list' = syssection(text) /\ UNCHANGED text
          /\ pc' = IF list' = {} THEN "umount" ELSE "extract"
      BY <1>5, <2>1 DEF RestoreReload, preserved
    <2> QED
      BY <2>2 DEF Back
  <1>3. CASE RestoreExtract
    <2>1. /\ pc = "extract" /\ UNCHANGED <<text, archive>>
          /\ \/ pc' = "test" /\ saved' = archive /\ UNCHANGED list
             \/ pc' = "idle" /\ archive = None
      BY <1>3 DEF RestoreExtract, FirstBoots
    <2> QED
      BY <1>0, <2>1
  <1>4. CASE RestoreTest
    <2>1. pc = "test" /\ UNCHANGED <<text, archive, list>>
      BY <1>4 DEF RestoreTest
    <2>2. CASE pc' = "umount" /\ flash' = warning(flash)
      <3>1. flash'["motd"] = "warning"
        BY <1>0, <2>2 DEF warning, Tree, Path
      <3> QED
        BY <2>2, <3>1 DEF Back
    <2>3. CASE pc' = "choose" /\ UNCHANGED saved
      BY <1>0, <2>1, <2>3
    <2> QED
      BY <1>4, <2>2, <2>3 DEF RestoreTest
  <1> QED
    BY <1>1, <1>2, <1>3, <1>4, <1>5 DEF Extracts

LEMMA ReturnedSysconf ==
    ASSUME FirstBoots, IInv, BInv, SysconfOnly
    PROVE  Returned'
  <1> USE DEF Returned, Writing, RestoreSteps
  <1>0. Returned /\ Orderly /\ Tree(flash)
    BY DEF BInv, IInv, TypeOK
  <1>1. CASE PowerOff
    <2>1. pc = "idle" /\ pc' = "idle" /\ UNCHANGED <<flash, valid, text, archive>>
      BY <1>1 DEF PowerOff, FirstBoots
    <2> QED
      BY <1>0, <2>1 DEF Back, Users
  <1>2. CASE Edit
    <2>1. PICK f \in File : flash' = [flash EXCEPT ![f] = "user"]
      BY <1>2 DEF Edit
    <2>2. pc = "idle" /\ pc' = "idle" /\ UNCHANGED <<valid, text, archive>>
      BY <1>2 DEF Edit
    <2>3. /\ flash'["motd"] = flash["motd"] /\ flash'["sysconf"] = flash["sysconf"]
          /\ \A g \in File : flash[g] = "user" => flash'[g] = "user"
      BY <1>0, <2>1, ConfAssumption DEF Tree, Path
    <2> QED
      BY <1>0, <2>2, <2>3 DEF Back, Users
  <1>3. CASE SetupSkip
    <2>1. /\ pc = "setup" /\ pc' = "idle"
          /\ UNCHANGED <<flash, valid, text, archive>>
      BY <1>3 DEF SetupSkip
    <2> QED
      BY <1>0, <2>1 DEF Back, Users
  <1>4. CASE SetupRead
    BY <1>4 DEF SetupRead
  <1>5. CASE SetupDefault \/ SetupReload
    <2>1. pc' \in {"setup_reload", "idle"} /\ ~valid'
      BY <1>0, <1>5 DEF SetupDefault, SetupReload, Orderly, FirstBoots
    <2> QED
      BY <2>1
  <1>6. CASE Begins
    <2>1. /\ pc \in {"idle", "invalid"}
          /\ pc' \in {"idle", "s_mount", "mount", "invalid"}
          /\ UNCHANGED <<flash, valid, text, archive>>
      BY <1>6, BeginSteps
    <2> QED
      BY <1>0, <2>1 DEF Back, Users
  <1>7. CASE Texts
    <2>1. /\ UNCHANGED <<valid, text, archive, root>> /\ power = "up"
          /\ pc \in {"idle", "write_sysconf"} /\ pc' \in {"idle", "write_sysconf"}
      BY <1>7, TextSteps
    <2>2. CASE flash' = flash
      BY <1>0, <2>1, <2>2 DEF Back, Users
    <2>3. CASE root = "flash" /\ \A p \in Path \ {"sysconf"} : flash'[p] = flash[p]
      <3>1. flash["sysconf"] # None
        BY <2>1, <2>3 DEF BInv, Configured
      <3>2. flash'["motd"] = flash["motd"] /\ \A f \in File : flash'[f] = flash[f]
        BY <2>3, ConfAssumption DEF Path
      <3> QED
        BY <1>0, <2>1, <3>1, <3>2 DEF Back, Users
    <2> QED
      BY <1>7, <2>2, <2>3, TextSteps
  <1> QED
    BY <1>1, <1>2, <1>3, <1>4, <1>5, <1>6, <1>7, ReturnedSave, ReturnedExtract,
       FirstBootSteps DEF SetupStep

LEMMA ReturnedCopy ==
    ASSUME FirstBoots, IInv, BInv, NobodyAsked, Copying
    PROVE  Returned'
  <1> USE DEF Returned, Writing, RestoreSteps
  <1>0. /\ Returned /\ Tree(flash) /\ syssection(text) \subseteq Path
        /\ auto
    BY SectionTyped, CopySteps DEF BInv, Orderly, FirstNames, IInv, TypeOK, Named, auto
  <1>1. CASE Choose
    <2>1. PICK keep \in SUBSET Asked(flash, saved, list),
               upgrade \in SUBSET Asked(flash, saved, list) :
          /\ pending' = ToCopy(flash, saved, list, keep)
          /\ saved' = [p \in Path |-> IF p \in upgrade THEN None ELSE saved[p]]
      BY <1>1 DEF Choose
    <2>2. /\ pc = "choose" /\ pc' = "copy" /\ UNCHANGED <<flash, text, archive>>
      BY <1>1 DEF Choose
    <2>3. keep = {} /\ upgrade = {}
      BY <1>0, <2>2 DEF NobodyAsked
    <2>4. list = syssection(text) /\ saved = archive
      BY <1>0, <2>2
    <2>5. ASSUME NEW f \in syssection(text), Users(archive, f)
          PROVE  Users(saved', f) /\ (Users(flash, f) \/ f \in pending')
      <3>1. Users(saved', f)
        BY <1>0, <2>1, <2>3, <2>4, <2>5 DEF Users
      <3>2. f \in list /\ f \notin Asked(flash, saved, list)
        BY <1>0, <2>2, <2>4 DEF NobodyAsked
      <3>3. f \in Handled(flash, saved, list, keep)
        BY <3>2 DEF Handled
      <3>4. f \in pending' \/ flash[f] = saved[f]
        BY <2>1, <3>3, HandledOrBack
      <3> QED
        BY <2>4, <2>5, <3>1, <3>4 DEF Users
    <2>6. BackOrPending'
      BY <2>2, <2>5 DEF BackOrPending, Users
    <2> QED
      BY <2>2, <2>6
  <1>2. CASE CopyOne
    <2>1. PICK p \in pending :
          /\ flash' = [flash EXCEPT ![p] = IF saved[p] = None THEN @ ELSE saved[p]]
          /\ pending' = pending \ {p}
      BY <1>2 DEF CopyOne
    <2>2. pc = "copy" /\ UNCHANGED <<pc, saved, text, archive>>
      BY <1>2 DEF CopyOne
    <2>3. ASSUME NEW f \in syssection(text), Users(archive, f)
          PROVE  Users(saved, f) /\ (Users(flash', f) \/ f \in pending')
      <3>1. Users(saved, f) /\ (Users(flash, f) \/ f \in pending)
        BY <1>0, <2>2, <2>3 DEF BackOrPending
      <3>2. saved[f] # None
        BY <3>1, ConfStateAssumption DEF Users
      <3>3. p = f => flash'[f] = "user"
        BY <1>0, <2>1, <3>1, <3>2 DEF Users, Tree
      <3>4. p # f => flash'[f] = flash[f]
        BY <1>0, <2>1 DEF Tree
      <3> QED
        BY <2>1, <3>1, <3>3, <3>4 DEF Users
    <2>4. BackOrPending'
      BY <2>2, <2>3 DEF BackOrPending, Users
    <2> QED
      BY <2>2, <2>4
  <1>3. CASE CopyFail
    <2>1. pc' = "idle" /\ flash' = warning(flash)
      BY <1>0, <1>3 DEF CopyFail, auto
    <2>2. flash'["motd"] = "warning"
      BY <1>0, <2>1 DEF warning, Tree, Path
    <2> QED
      BY <2>1, <2>2 DEF Back
  <1>4. CASE CopyDone
    <2>1. /\ pc = "copy" /\ pc' = "left" /\ pending = {}
          /\ UNCHANGED <<flash, text, archive>>
      BY <1>4 DEF CopyDone
    <2>2. Back'
      BY <1>0, <2>1 DEF BackOrPending, Back, Users
    <2> QED
      BY <2>1, <2>2
  <1>5. CASE Left
    <2>1. pc = "left" /\ pc' \in {"idle", "umount"} /\ UNCHANGED <<valid, text, archive>>
      BY <1>5 DEF Left
    <2>2. CASE flash' = warning(flash)
      <3>1. flash'["motd"] = "warning"
        BY <1>0, <2>2 DEF warning, Tree, Path
      <3> QED
        BY <2>1, <3>1 DEF Back
    <2>3. CASE UNCHANGED flash
      BY <1>0, <2>1, <2>3 DEF Back, Users
    <2> QED
      BY <1>5, <2>2, <2>3 DEF Left
  <1>6. CASE Umount
    <2>1. /\ pc = "umount" /\ pc' = "idle"
          /\ UNCHANGED <<flash, valid, text, archive>>
      BY <1>6 DEF Umount
    <2> QED
      BY <1>0, <2>1 DEF Back, Users
  <1> QED
    BY <1>1, <1>2, <1>3, <1>4, <1>5, <1>6 DEF Copying

LEMMA ReturnedReflash ==
    ASSUME FirstBoots, IInv, BInv, ReflashStep
    PROVE  Returned'
  <1> USE DEF Returned, Writing, RestoreSteps
  <1>0. Returned
    BY DEF BInv
  <1>1. /\ UNCHANGED <<valid, text, archive>>
        /\ pc \in {"idle", "f_mount", "written"} \cup FlashPCs \cup Writes
    <2>1. CASE StartReflash \/ FlashMount \/ FlashSave \/ FlashUmount
      BY <2>1 DEF StartReflash, Begin, FlashMount, FlashSave, FlashUmount
    <2>2. ASSUME NEW p \in Parts, WriteStep(p)
          PROVE  UNCHANGED <<valid, text, archive>> /\ pc \in Writes
      BY <2>2, WritePCs DEF WriteStep, SkipWrite, NothingWritten, BeginWrite,
                            PartlyWritten, Written
    <2>3. CASE NoRestore \/ Remount
      BY <2>3 DEF NoRestore, Remount
    <2> QED
      BY <2>1, <2>2, <2>3 DEF ReflashStep, Parts
  <1>2. pc' \notin RestoreSteps \cup Writing
    <2>1. cmd'.name \in {"reflash_n", "kernel"}
      BY OrderlyStep, ReflashSteps DEF Next, Orderly, FirstNames, ReflashNames
    <2>2. IInv'
      BY Inductive DEF Next
    <2> QED
      BY <2>1, <2>2 DEF IInv, Named
  <1>3. flash' = flash \/ flash'["sysconf"] = None
    <2>1. CASE StartReflash \/ FlashMount \/ FlashSave \/ FlashUmount
      BY <2>1 DEF StartReflash, FlashMount, FlashSave, FlashUmount
    <2>2. ASSUME NEW p \in Parts, WriteStep(p)
          PROVE  flash' = flash \/ flash'["sysconf"] = None
      <3>1. CASE SkipWrite(p) \/ NothingWritten(p) \/ PartlyWritten(p)
        BY <3>1 DEF SkipWrite, NothingWritten, PartlyWritten
      <3>2. CASE \E c : Holds(p, c)
        BY <3>2 DEF Holds, NoFiles, ImageTree, Path
      <3> QED
        BY <2>2, <3>1, <3>2 DEF WriteStep, BeginWrite, Written
    <2>3. CASE NoRestore \/ Remount
      BY <2>3 DEF NoRestore, Remount
    <2> QED
      BY <2>1, <2>2, <2>3 DEF ReflashStep, Parts
  <1> QED
    BY <1>0, <1>1, <1>2, <1>3 DEF Back, Users

LEMMA ReturnedStep ==
    ASSUME FirstBoots, IInv, BInv, NobodyAsked, [Next]_vars
    PROVE  BInv'
  <1>1. CASE UNCHANGED vars
    BY <1>1 DEF BInv, Orderly, Configured, Returned, Writing, Back, BackOrPending,
                Users, vars, cmdVars
  <1>2. CASE PowerOn
    <2>1. /\ pc = "idle" /\ pc' \in {"idle", "setup"}
          /\ UNCHANGED <<flash, valid, text, archive>>
      BY <1>2 DEF PowerOn, BInv, Orderly
    <2>2. Returned'
      BY <2>1 DEF BInv, Returned, Writing, RestoreSteps, Back, Users
    <2> QED
      BY <1>2, <2>2, OrderlyStep, ConfiguredStep DEF BInv, Next
  <1>3. CASE Next /\ ~PowerOn
    <2>1. Returned'
      BY <1>3, Steps, ReturnedSysconf, ReturnedCopy, ReturnedReflash
    <2> QED
      BY <1>3, <2>1, OrderlyStep, ConfiguredStep DEF BInv
  <1> QED
    BY <1>1, <1>2, <1>3

(***************************************************************************)
(* SavedIsBack: after a first boot each saved file of the user is in the   *)
(* flash again, or the motd says otherwise, if nothing interrupts the      *)
(* restore and no command of the user takes the files or the motd away.    *)
(***************************************************************************)
THEOREM RestoredOrTold ==
    ASSUME FirstBoots
    PROVE  Spec => []SavedIsBack
  <1>1. Init => NobodyAsked
    BY DEF Init, NobodyAsked
  <1>2. Init => BInv
    BY DEF Init, BInv, Orderly, Configured, Returned, Writing, NoCommand
  <1>3. BInv => SavedIsBack
    BY DEF BInv, Configured, Returned, RestoreSteps, Back, Users, SavedIsBack
  <1> QED
    BY <1>1, <1>2, <1>3, NobodyAskedStep, ReturnedStep, TypeCorrect, PTL DEF Spec
=============================================================================
