--------------------------- MODULE SlugBootProofs ---------------------------
(***************************************************************************)
(* What SlugBoot guarantees for every number of volumes and devices.       *)
(***************************************************************************)
EXTENDS SlugBoot, TLAPS

USE SlugAssumption

(***************************************************************************)
(* The strengthening: what holds of the command line while a command runs, *)
(* of the volume mounted on $new, and of /linuxrc.new when it is about to  *)
(* become /linuxrc.                                                        *)
(***************************************************************************)
VolumePCs == {"mount", "remount", "probe", "probed", "check", "copy", "copying",
              "setup_rootfs", "setup_fstab", "umount_new"}
MountedPCs == {"probe", "probed", "check", "copy", "copying", "setup_rootfs",
               "setup_fstab", "umount_new"}
ReadyPCs == {"rm_sav", "ln_sav", "mv_new"}

CommandOK ==
    /\ pc # "idle" => power = "up" /\ cmd \in Commands
    /\ pc # "idle" /\ cmd.name \notin {"disk", "memstick"} => uuid = None
    /\ pc \in VolumePCs => ~IsReset
    /\ pc \in MountedPCs => newmnt \in Vol

NewReady ==
    /\ pc \in ReadyPCs => linuxrc_new \in Script
    /\ Booting("ram_mv") => linuxrc_new = FlashScript

BootOK ==
    /\ power # "booting" => bpc = "kernel"
    /\ bpc \in {"boot_nfs", "boot_disk", "check", "swivel"} =>
          script.type \in {"disk", "nfs"}
    /\ bpc \in {"check", "swivel"} => mnt \in Vol

IInv == TypeOK /\ LinuxrcIntact /\ CommandOK /\ NewReady /\ BootOK

-----------------------------------------------------------------------------
LEMMA InitIInv == Init => IInv
BY DEF Init, IInv, TypeOK, FlashType, VolumeType, CommandType,
            MachineType, LinuxrcIntact, CommandOK, NewReady, BootOK, TurnupInit,
       BootInit, Script, FlashScript, RamScript, Absent, Content, RootLine,
       TurnupPCs, NoCommand, BootPCs, VolumePCs, MountedPCs, ReadyPCs, Booting,
       IsReset

\* The script boot_rootfs writes is one of the four kinds.
LEMMA NewScriptOK ==
    ASSUME cmd \in Commands, uuid \in HasUuid \cup {None},
           cmd.name \notin {"disk", "memstick"} => uuid = None
    PROVE  NewScript \in Script
BY DEF Commands, NewScript, Script, IsReset, BootType, FlashScript, RamScript

-----------------------------------------------------------------------------
\* Starting a command preserves the invariant.
LEMMA StartIInv == IInv /\ StartCommand => IInv'
<1> SUFFICES ASSUME IInv, StartCommand PROVE IInv'
  OBVIOUS
<1> USE DEF IInv, TypeOK, FlashType, VolumeType, CommandType,
            MachineType, LinuxrcIntact, CommandOK, NewReady, BootOK, Begin, At, Goto,
            Gone, Exit, TurnupPCs, VolumePCs, MountedPCs, ReadyPCs, Booting,
            IsReset, Commands, Options, flashVars, volumeVars, cableVars, machineVars
<1>1. ASSUME NEW type \in Kinds \cap {"flash", "ram"}, StartReset(type)
      PROVE  IInv'
  <2>1. FlashType' /\ VolumeType' /\ MachineType' /\ LinuxrcIntact' /\ BootOK'
    BY <1>1 DEF StartReset
  <2>2. CommandType' /\ CommandOK' /\ NewReady'
    BY <1>1 DEF StartReset
  <2> QED BY <2>1, <2>2
<1>2. ASSUME NEW d \in Dev, NEW i \in BOOLEAN, NEW f \in BOOLEAN,
             NEW name \in {"disk", "memstick"}, StartDisk(name, d, i, f)
      PROVE  IInv'
  <2>1. FlashType' /\ VolumeType' /\ MachineType' /\ LinuxrcIntact' /\ BootOK'
    BY <1>2 DEF StartDisk, Name
  <2>2. CommandType' /\ CommandOK' /\ NewReady'
    BY <1>2 DEF StartDisk, Name
  <2> QED BY <2>1, <2>2
<1>3. ASSUME NEW d \in Dev, NEW i \in BOOLEAN, NEW f \in BOOLEAN,
             NEW name \in {"disk", "memstick"}, Refuse(name, d, i, f)
      PROVE  IInv'
  <2>1. FlashType' /\ VolumeType' /\ MachineType' /\ LinuxrcIntact' /\ BootOK'
    BY <1>3 DEF Refuse, Name
  <2>2. CommandType' /\ CommandOK' /\ NewReady'
    BY <1>3 DEF Refuse, Name
  <2> QED BY <2>1, <2>2
<1>4. ASSUME NEW n \in Nfs, NEW i \in BOOLEAN, NEW f \in BOOLEAN,
             StartNfs(n, i, f)
      PROVE  IInv'
  <2>1. FlashType' /\ VolumeType' /\ MachineType' /\ LinuxrcIntact' /\ BootOK'
    BY <1>4 DEF StartNfs
  <2>2. CommandType' /\ CommandOK' /\ NewReady'
    BY <1>4 DEF StartNfs
  <2> QED BY <2>1, <2>2
<1> HIDE DEF IInv
<1> QED
  BY <1>1, <1>2, <1>3, <1>4 DEF StartCommand

\* Every step of a running command preserves the invariant.
LEMMA TurnupIInv == IInv /\ TurnupStep => IInv'
<1> SUFFICES ASSUME IInv, TurnupStep PROVE IInv'
  OBVIOUS
<1> USE DEF IInv, TypeOK, FlashType, VolumeType, CommandType,
            MachineType, LinuxrcIntact, CommandOK, NewReady, BootOK, At, Goto, Keep,
            Gone, Exit, TurnupPCs, VolumePCs, MountedPCs, ReadyPCs, Booting,
            IsReset, flashVars, volumeVars, cableVars, machineVars
<1>1. CASE GetFlash
  <2>1. FlashType' /\ VolumeType' /\ MachineType' /\ LinuxrcIntact' /\ BootOK'
    BY <1>1 DEF GetFlash
  <2>2. CommandType' /\ CommandOK' /\ NewReady'
    BY <1>1 DEF GetFlash
  <2> QED BY <2>1, <2>2
<1>2. CASE FirstMount
  <2>1. target \in Vol \cup {None}
    BY <1>2 DEF FirstMount, target, Commands, Name
  <2>2. FlashType' /\ VolumeType' /\ MachineType' /\ LinuxrcIntact' /\ BootOK'
    BY <1>2 DEF FirstMount
  <2>3. CommandType' /\ CommandOK' /\ NewReady'
    BY <1>2, <2>1 DEF FirstMount
  <2> QED BY <2>2, <2>3
<1>3. CASE Remount
  <2>1. target \in Vol \cup {None}
    BY <1>3 DEF Remount, target, Commands, Name
  <2>2. FlashType' /\ VolumeType' /\ MachineType' /\ LinuxrcIntact' /\ BootOK'
    BY <1>3 DEF Remount
  <2>3. CommandType' /\ CommandOK' /\ NewReady'
    BY <1>3, <2>1 DEF Remount
  <2> QED BY <2>2, <2>3
<1>4. CASE Probe
  <2>1. FlashType' /\ VolumeType' /\ MachineType' /\ LinuxrcIntact' /\ BootOK'
    BY <1>4 DEF Probe
  <2>2. CommandType' /\ CommandOK' /\ NewReady'
    BY <1>4 DEF Probe
  <2> QED BY <2>1, <2>2
<1>5. CASE Probed
  <2>1. FlashType' /\ VolumeType' /\ MachineType' /\ LinuxrcIntact' /\ BootOK'
    BY <1>5 DEF Probed
  <2>2. CommandType' /\ CommandOK' /\ NewReady'
    BY <1>5 DEF Probed
  <2> QED BY <2>1, <2>2
<1>6. CASE Check
  <2>1. FlashType' /\ VolumeType' /\ MachineType' /\ LinuxrcIntact' /\ BootOK'
    BY <1>6 DEF Check
  <2>2. CommandType' /\ CommandOK' /\ NewReady'
    BY <1>6 DEF Check
  <2> QED BY <2>1, <2>2
<1>7. CASE CopyStart
  <2>1. FlashType' /\ VolumeType' /\ MachineType' /\ LinuxrcIntact' /\ BootOK'
    BY <1>7 DEF CopyStart, Content, Unfinished
  <2>2. CommandType' /\ CommandOK' /\ NewReady'
    BY <1>7 DEF CopyStart, Content, Unfinished
  <2> QED BY <2>1, <2>2
<1>8. CASE CopyEnd
  <2>1. FlashType' /\ VolumeType' /\ MachineType' /\ LinuxrcIntact' /\ BootOK'
    BY <1>8 DEF CopyEnd, Content, FlashTree, RootLine
  <2>2. CommandType' /\ CommandOK' /\ NewReady'
    BY <1>8 DEF CopyEnd, Content, FlashTree, RootLine
  <2> QED BY <2>1, <2>2
<1>9. CASE SetupRootfs
  <2>1. FlashType' /\ VolumeType' /\ MachineType' /\ LinuxrcIntact' /\ BootOK'
    BY <1>9 DEF SetupRootfs
  <2>2. CommandType' /\ CommandOK' /\ NewReady'
    BY <1>9 DEF SetupRootfs
  <2> QED BY <2>1, <2>2
<1>10. CASE SetupFstab
  <2>1. cmd.target \in RootLine
    BY <1>10 DEF SetupFstab, RootLine, Name, Commands
  <2>2. FlashType' /\ MachineType' /\ LinuxrcIntact' /\ BootOK'
    BY <1>10 DEF SetupFstab
  <2>3. VolumeType'
    BY <1>10, <2>1 DEF SetupFstab
  <2>4. CommandType' /\ CommandOK' /\ NewReady'
    BY <1>10 DEF SetupFstab
  <2> QED BY <2>2, <2>3, <2>4
<1>11. CASE UmountNew
  <2>1. FlashType' /\ VolumeType' /\ MachineType' /\ LinuxrcIntact' /\ BootOK'
    BY <1>11 DEF UmountNew
  <2>2. CommandType' /\ CommandOK' /\ NewReady'
    BY <1>11 DEF UmountNew
  <2> QED BY <2>1, <2>2
<1>12. CASE BootRootfs
  <2>1. FlashType' /\ VolumeType' /\ MachineType' /\ LinuxrcIntact' /\ BootOK'
    BY <1>12 DEF BootRootfs, Return
  <2>2. CommandType' /\ CommandOK' /\ NewReady'
    BY <1>12 DEF BootRootfs, Return
  <2> QED BY <2>1, <2>2
<1>13. CASE RmNew
  <2>1. FlashType' /\ VolumeType' /\ MachineType' /\ LinuxrcIntact' /\ BootOK'
    BY <1>13 DEF RmNew, Return
  <2>2. CommandType' /\ CommandOK' /\ NewReady'
    BY <1>13 DEF RmNew, Return
  <2> QED BY <2>1, <2>2
<1>14. CASE WriteNew
  <2>1. FlashType' /\ VolumeType' /\ MachineType' /\ LinuxrcIntact' /\ BootOK'
    BY <1>14, NewScriptOK DEF WriteNew, Return
  <2>2. CommandType' /\ CommandOK' /\ NewReady'
    BY <1>14, NewScriptOK DEF WriteNew, Return
  <2> QED BY <2>1, <2>2
<1>15. CASE WrittenNew
  <2>1. FlashType' /\ VolumeType' /\ MachineType' /\ LinuxrcIntact' /\ BootOK'
    BY <1>15, NewScriptOK DEF WrittenNew, Return
  <2>2. CommandType' /\ CommandOK' /\ NewReady'
    BY <1>15, NewScriptOK DEF WrittenNew, Return
  <2> QED BY <2>1, <2>2
<1>16. CASE RmSav
  <2>1. FlashType' /\ VolumeType' /\ MachineType' /\ LinuxrcIntact' /\ BootOK'
    BY <1>16 DEF RmSav, Return
  <2>2. CommandType' /\ CommandOK' /\ NewReady'
    BY <1>16 DEF RmSav, Return
  <2> QED BY <2>1, <2>2
<1>17. CASE LnSav
  <2>1. FlashType' /\ VolumeType' /\ MachineType' /\ LinuxrcIntact' /\ BootOK'
    BY <1>17 DEF LnSav, Return
  <2>2. CommandType' /\ CommandOK' /\ NewReady'
    BY <1>17 DEF LnSav, Return
  <2> QED BY <2>1, <2>2
<1>18. CASE MvNew
  <2>1. cmd.init \in BOOLEAN
    BY <1>18 DEF MvNew, Commands
  <2>2. copied' \in BOOLEAN
    BY <1>18, <2>1 DEF MvNew
  <2>3. linuxrc' \in Script /\ linuxrc_new' \in Script \cup {Absent, Partial}
        /\ linuxrc_sav' \in Script \cup {Absent, Partial}
    BY <1>18 DEF MvNew
  <2>4. FlashType' /\ LinuxrcIntact'
    BY <2>2, <2>3
  <2>5. VolumeType' /\ MachineType' /\ BootOK'
    BY <1>18 DEF MvNew, Return
  <2>6. CommandType' /\ CommandOK' /\ NewReady'
    BY <1>18 DEF MvNew, Return
  <2> QED BY <2>4, <2>5, <2>6
<1>19. CASE Cleanup
  <2>1. FlashType' /\ VolumeType' /\ MachineType' /\ LinuxrcIntact' /\ BootOK'
    BY <1>19 DEF Cleanup
  <2>2. CommandType' /\ CommandOK' /\ NewReady'
    BY <1>19 DEF Cleanup
  <2> QED BY <2>1, <2>2
<1> HIDE DEF IInv
<1> QED
  BY <1>1, <1>2, <1>3, <1>4, <1>5, <1>6, <1>7, <1>8, <1>9, <1>10, <1>11,
     <1>12, <1>13, <1>14, <1>15, <1>16, <1>17, <1>18, <1>19 DEF TurnupStep

\* Every step of a boot preserves the invariant.
LEMMA BootIInv == IInv /\ BootStep => IInv'
<1> SUFFICES ASSUME IInv, BootStep PROVE IInv'
  OBVIOUS
<1> USE DEF IInv, TypeOK, FlashType, VolumeType, CommandType, MachineType,
            LinuxrcIntact, CommandOK, NewReady, BootOK, Proceed, Ends, Unaffected,
            BootPCs, VolumePCs, MountedPCs, ReadyPCs, Booting, IsReset,
            flashVars, volumeVars, cableVars, turnupVars
<1>1. CASE Kernel
  <2>1. FlashType' /\ VolumeType' /\ LinuxrcIntact' /\ CommandType' /\ CommandOK'
    BY <1>1 DEF Kernel
  <2>2. linuxrc.type \in {"flash", "ram", "disk", "nfs"}
    BY DEF Script, FlashScript, RamScript
  <2>3. MachineType'
    BY <1>1, <2>2 DEF Kernel
  <2>4. NewReady' /\ BootOK'
    BY <1>1, <2>2 DEF Kernel
  <2> QED BY <2>1, <2>3, <2>4
<1>2. CASE RamRm
  BY <1>2 DEF RamRm
<1>3. CASE RamLn
  BY <1>3 DEF RamLn, Script
<1>4. CASE RamMv
  BY <1>4 DEF RamMv, Script
<1>5. CASE BootRam
  BY <1>5 DEF BootRam
<1>6. CASE BootNfs
  BY <1>6 DEF BootNfs
<1>7. CASE BootDisk
  <2>1. FlashType' /\ VolumeType' /\ LinuxrcIntact' /\ CommandType' /\ CommandOK'
    BY <1>7 DEF BootDisk
  <2>2. /\ script.uuid \in Vol \cup {None}
        /\ script.device \in Name
    BY <1>7 DEF BootDisk, Script, FlashScript, RamScript, Name
  <2>3. MachineType'
    BY <1>7, <2>2 DEF BootDisk, UuidReady
  <2>4. NewReady' /\ BootOK'
    BY <1>7, <2>2 DEF BootDisk, UuidReady
  <2> QED BY <2>1, <2>3, <2>4
<1>8. CASE CheckRoot
  BY <1>8 DEF CheckRoot
<1>9. CASE Swivel
  <2>1. FlashType' /\ VolumeType' /\ LinuxrcIntact' /\ CommandType' /\ CommandOK'
    BY <1>9 DEF Swivel
  <2>2. MachineType' /\ NewReady' /\ BootOK'
    BY <1>9 DEF Swivel
  <2> QED BY <2>1, <2>2
<1>10. CASE BootFlash
  BY <1>10 DEF BootFlash
<1> HIDE DEF IInv
<1> QED
  BY <1>1, <1>2, <1>3, <1>4, <1>5, <1>6, <1>7, <1>8, <1>9, <1>10 DEF BootStep

\* So do power, cables and the user.
LEMMA WorldIInv ==
    IInv /\ (PowerOn \/ PowerOff \/ Recable \/ Edit \/ RemoveInit \/ Export)
    => IInv'
<1> SUFFICES ASSUME IInv,
                    PowerOn \/ PowerOff \/ Recable \/ Edit \/ RemoveInit \/ Export
             PROVE  IInv'
  OBVIOUS
<1> USE DEF IInv, TypeOK, FlashType, VolumeType, CommandType, MachineType,
            LinuxrcIntact, CommandOK, NewReady, BootOK, Ends, Exit, Gone, At,
            TurnupPCs, BootPCs, VolumePCs, MountedPCs, ReadyPCs, Booting,
            IsReset, flashVars, volumeVars, cableVars, turnupVars, machineVars
<1>1. CASE PowerOn
  <2>1. FlashType' /\ VolumeType' /\ MachineType' /\ LinuxrcIntact'
    BY <1>1 DEF PowerOn
  <2>2. CommandType' /\ CommandOK' /\ NewReady' /\ BootOK'
    BY <1>1 DEF PowerOn
  <2> QED BY <2>1, <2>2
<1>2. CASE PowerOff
  <2>1. FlashType' /\ LinuxrcIntact' /\ CommandOK' /\ NewReady' /\ CommandType'
    BY <1>2 DEF PowerOff, Script
  <2>2. VolumeType'
    BY <1>2 DEF PowerOff, LostWrites, Content, Unfinished
  <2>3. MachineType' /\ BootOK'
    BY <1>2 DEF PowerOff, Script
  <2> QED BY <2>1, <2>2, <2>3
<1>3. CASE Recable
  BY <1>3 DEF Recable
<1>4. CASE Edit
  BY <1>4 DEF Edit, EditKinds, Content
<1>5. CASE RemoveInit
  <2>1. FlashType' /\ VolumeType' /\ MachineType' /\ LinuxrcIntact'
    BY <1>5 DEF RemoveInit
  <2>2. CommandType' /\ CommandOK' /\ NewReady' /\ BootOK'
    BY <1>5 DEF RemoveInit
  <2> QED BY <2>1, <2>2
<1>6. CASE Export
  BY <1>6 DEF Export
<1> QED
  BY <1>1, <1>2, <1>3, <1>4, <1>5, <1>6

LEMMA StutterIInv == IInv /\ UNCHANGED vars => IInv'
BY DEF IInv, TypeOK, FlashType, VolumeType, CommandType, MachineType,
       LinuxrcIntact, CommandOK, NewReady, BootOK, vars, flashVars, volumeVars,
       cableVars, turnupVars, machineVars, IsReset, Booting

LEMMA NextIInv == IInv /\ [Next]_vars => IInv'
BY StartIInv, TurnupIInv, BootIInv, WorldIInv, StutterIInv DEF Next

(***************************************************************************)
(* Every variable keeps its type, and /linuxrc is at every moment one      *)
(* complete boot script, whatever fails and wherever the power does.       *)
(***************************************************************************)
THEOREM Invariance == Spec => []IInv
BY InitIInv, NextIInv, PTL DEF Spec

THEOREM TypeCorrect == Spec => []TypeOK
BY Invariance, PTL DEF IInv

THEOREM BootScriptIntact == Spec => []LinuxrcIntact
BY Invariance, PTL DEF IInv

-----------------------------------------------------------------------------
(***************************************************************************)
(* Second invariant: what a running command still owes.  Until the mv the  *)
(* boot choice is the one the command found; at the mv it has been saved;  *)
(* and a status of 0 is carried to the exit only past the mv, or, for disk *)
(* and nfs, from the moment the new root is ready.                         *)
(***************************************************************************)
LinuxrcPCs == {"boot_rootfs", "rm_new", "write_new", "writing_new", "rm_sav",
               "ln_sav", "mv_new"}

ChoiceOK ==
    /\ power # "up" => exit = None
    /\ pc \in LinuxrcPCs /\ ~IsReset => status = 0
    /\ pc # "idle" /\ ~(pc = "cleanup" /\ status = 0) => linuxrc = before
    /\ pc = "idle" /\ exit = 1 => linuxrc = before
    /\ pc = "mv_new" => linuxrc_sav = linuxrc

\* What a command has installed when it reports success.
InstallOK ==
    /\ pc \in ReadyPCs => linuxrc_new = NewScript
    /\ pc \in LinuxrcPCs \cup {"get_flash"} /\ IsReset => status = 1
    /\ pc = "cleanup" /\ status = 0 =>
          linuxrc = NewScript \/ (~IsReset /\ linuxrc = before)
    /\ pc = "idle" /\ exit = 0 => Installed \/ (~IsReset /\ linuxrc = before)

Owed == ChoiceOK /\ InstallOK

LEMMA InitOwed == Init => Owed
BY DEF Init, Owed, ChoiceOK, InstallOK, TurnupInit, BootInit, LinuxrcPCs,
       ReadyPCs, IsReset, NoCommand

LEMMA NewScriptInstalls ==
    ASSUME cmd \in Commands, linuxrc = NewScript
    PROVE  Installed
BY DEF Commands, NewScript, IsReset, BootType, Installed

\* A command begins owing everything.
LEMMA StartOwed == IInv /\ Owed /\ StartCommand => Owed'
<1> USE DEF Owed, ChoiceOK, InstallOK, Begin, At, Goto, Gone, Exit, LinuxrcPCs,
            ReadyPCs, IsReset, flashVars, machineVars
<1>1. ASSUME Owed, NEW type \in Kinds \cap {"flash", "ram"}, StartReset(type)
      PROVE  Owed'
  BY <1>1 DEF StartReset
<1>2. ASSUME Owed, NEW d \in Dev, NEW i \in BOOLEAN, NEW f \in BOOLEAN,
             NEW name \in {"disk", "memstick"}, StartDisk(name, d, i, f)
      PROVE  Owed'
  BY <1>2 DEF StartDisk
<1>3. ASSUME Owed, NEW d \in Dev, NEW i \in BOOLEAN, NEW f \in BOOLEAN,
             NEW name \in {"disk", "memstick"}, Refuse(name, d, i, f)
      PROVE  Owed'
  BY <1>3 DEF Refuse
<1>4. ASSUME Owed, NEW n \in Nfs, NEW i \in BOOLEAN, NEW f \in BOOLEAN,
             StartNfs(n, i, f)
      PROVE  Owed'
  BY <1>4 DEF StartNfs
<1> HIDE DEF Owed
<1> QED
  BY <1>1, <1>2, <1>3, <1>4 DEF StartCommand, Options

\* Every step of a command keeps to what it owes.
LEMMA TurnupOwed == IInv /\ Owed /\ TurnupStep => Owed'
<1> SUFFICES ASSUME CommandType, CommandOK, Owed, TurnupStep PROVE Owed'
  BY DEF IInv, TypeOK
<1> USE DEF CommandType, CommandOK, Owed, ChoiceOK, InstallOK, At, Goto, Keep,
            Gone, Exit, LinuxrcPCs, ReadyPCs, VolumePCs, IsReset, flashVars,
            machineVars
<1>1. CASE GetFlash
  BY <1>1 DEF GetFlash
<1>2. CASE FirstMount
  BY <1>2 DEF FirstMount
<1>3. CASE Remount
  BY <1>3 DEF Remount
<1>4. CASE Probe
  BY <1>4 DEF Probe
<1>5. CASE Probed
  BY <1>5 DEF Probed
<1>6. CASE Check
  BY <1>6 DEF Check
<1>7. CASE CopyStart
  BY <1>7 DEF CopyStart
<1>8. CASE CopyEnd
  BY <1>8 DEF CopyEnd
<1>9. CASE SetupRootfs
  BY <1>9 DEF SetupRootfs
<1>10. CASE SetupFstab
  BY <1>10 DEF SetupFstab
<1>11. CASE UmountNew
  BY <1>11 DEF UmountNew
<1>12. CASE BootRootfs
  BY <1>12 DEF BootRootfs, Return, NewScript, BootType
<1>13. CASE RmNew
  BY <1>13 DEF RmNew, Return, NewScript, BootType
<1>14. CASE WriteNew
  BY <1>14 DEF WriteNew, Return, NewScript, BootType
<1>15. CASE WrittenNew
  BY <1>15 DEF WrittenNew, Return, NewScript, BootType
<1>16. CASE RmSav
  BY <1>16 DEF RmSav, Return, NewScript, BootType
<1>17. CASE LnSav
  BY <1>17 DEF LnSav, Return, NewScript, BootType
<1>18. CASE MvNew
  BY <1>18 DEF MvNew, Return, NewScript, BootType
<1>19. CASE Cleanup
  <2>1. linuxrc = NewScript => Installed
    BY <1>19, NewScriptInstalls DEF Cleanup
  <2>2. Installed' = Installed
    BY <1>19 DEF Cleanup, Installed, BootType
  <2> QED
    BY <1>19, <2>1, <2>2 DEF Cleanup
<1> HIDE DEF Owed
<1> QED
  BY <1>1, <1>2, <1>3, <1>4, <1>5, <1>6, <1>7, <1>8, <1>9, <1>10, <1>11,
     <1>12, <1>13, <1>14, <1>15, <1>16, <1>17, <1>18, <1>19 DEF TurnupStep

\* A boot changes /linuxrc only when no command runs or has ended.
LEMMA BootOwed == IInv /\ Owed /\ BootStep => Owed'
<1> SUFFICES ASSUME CommandOK, Owed, BootStep PROVE Owed'
  BY DEF IInv
<1>1. power = "booting" /\ pc = "idle" /\ exit = None
  BY DEF BootStep, Kernel, RamRm, RamLn, RamMv, BootRam, BootNfs, BootDisk,
         CheckRoot, Swivel, BootFlash, Booting, CommandOK, Owed, ChoiceOK
<1>2. UNCHANGED turnupVars
  BY DEF BootStep, Kernel, RamRm, RamLn, RamMv, BootRam, BootNfs, BootDisk,
         CheckRoot, Swivel, BootFlash, Unaffected
<1> QED
  BY <1>1, <1>2 DEF Owed, ChoiceOK, InstallOK, turnupVars, LinuxrcPCs, ReadyPCs,
                    IsReset

LEMMA WorldOwed ==
    IInv /\ Owed /\ (PowerOn \/ PowerOff \/ Recable \/ Edit \/ RemoveInit \/ Export)
    => Owed'
<1> USE DEF Owed, ChoiceOK, InstallOK, LinuxrcPCs, ReadyPCs, IsReset, flashVars,
            turnupVars, machineVars, Installed
<1>1. ASSUME Owed, CommandOK, PowerOn PROVE Owed'
  BY <1>1 DEF PowerOn, CommandOK
<1>2. ASSUME PowerOff PROVE Owed'
  BY <1>2 DEF PowerOff, Ends, Exit, Gone, NoCommand
<1>3. ASSUME Owed, Recable \/ Edit \/ RemoveInit \/ Export PROVE Owed'
  BY <1>3 DEF Recable, Edit, RemoveInit, Export, NewScript,
              BootType
<1> HIDE DEF Owed
<1> QED
  BY <1>1, <1>2, <1>3 DEF IInv

LEMMA NextOwed == IInv /\ Owed /\ [Next]_vars => Owed'
<1>1. Owed /\ UNCHANGED vars => Owed'
  BY DEF Owed, ChoiceOK, InstallOK, vars, flashVars, turnupVars, machineVars,
         NewScript, IsReset, BootType, Installed
<1> QED
  BY <1>1, StartOwed, TurnupOwed, BootOwed, WorldOwed DEF Next

LEMMA OwedInvariance == Spec => []Owed
BY InitOwed, NextOwed, Invariance, PTL DEF Spec

(***************************************************************************)
(* ExitTells: after an exit with 1 /linuxrc is the one there was, after an *)
(* exit with 0 the new one, or for disk and nfs the one there was: nothing *)
(* in between, for any of the steps that fail.                             *)
(***************************************************************************)
THEOREM ExitTruthful == Spec => []ExitTells
<1>1. Owed => ExitTells
  BY DEF Owed, ChoiceOK, InstallOK, ExitTells
<1> QED
  BY <1>1, OwedInvariance, PTL

(***************************************************************************)
(* A running system replaces /linuxrc only by the mv of boot_rootfs, and   *)
(* the script it replaces is then /linuxrc.sav.                            *)
(***************************************************************************)
THEOREM ReplacedIsKept == Spec => KeepsReplaced
<1> DEFINE Kept == power = "up" /\ linuxrc' # linuxrc => linuxrc_sav' = linuxrc
<1>1. Owed /\ [Next]_vars => [Kept]_vars
  <2> SUFFICES ASSUME Owed, Next PROVE Kept
    OBVIOUS
  <2>1. CASE StartCommand
    BY <2>1 DEF StartCommand, StartReset, StartDisk, Refuse, StartNfs, Begin,
                flashVars
  <2>2. CASE TurnupStep /\ ~MvNew
    BY <2>2 DEF TurnupStep, GetFlash, FirstMount, Remount, Probe, Probed, Check,
                CopyStart, CopyEnd, SetupRootfs, SetupFstab, UmountNew,
                BootRootfs, RmNew, WriteNew, WrittenNew, RmSav, LnSav, Cleanup,
                flashVars
  <2>3. CASE MvNew
    BY <2>3 DEF MvNew, At, Owed, ChoiceOK
  <2>4. CASE BootStep
    BY <2>4 DEF BootStep, Kernel, RamRm, RamLn, RamMv, BootRam, BootNfs,
                BootDisk, CheckRoot, Swivel, BootFlash, Booting
  <2>5. CASE PowerOn \/ PowerOff \/ Recable \/ Edit \/ RemoveInit \/ Export
    BY <2>5 DEF PowerOn, PowerOff, Recable, Edit, RemoveInit, Export, flashVars
  <2> QED
    BY <2>1, <2>2, <2>3, <2>4, <2>5 DEF Next
<1> QED
  BY <1>1, OwedInvariance, PTL DEF Spec, KeepsReplaced

-----------------------------------------------------------------------------
(***************************************************************************)
(* Third invariant: how far the taking of a boot choice is.  The script    *)
(* for ram runs until its mv with /linuxrc still in place.                 *)
(***************************************************************************)
NoBootWrite == "boot_write" \notin Faults

RamPCs == {"ram_rm", "ram_ln", "ram_mv"}

Taking ==
    /\ power = "booting" /\ bpc \in RamPCs => linuxrc = RamScript /\ script = RamScript
    /\ power = "booting" /\ bpc = "boot_ram" => script = RamScript
    /\ RamOnce

LEMMA ScriptTypes ==
    ASSUME NEW s \in Script
    PROVE  /\ s.type \in {"flash", "ram", "disk", "nfs"}
           /\ s.type = "flash" <=> s = FlashScript
           /\ s.type = "ram" <=> s = RamScript
BY DEF Script, FlashScript, RamScript

\* While the machine boots no command runs, so only the boot itself matters.
LEMMA NextTaking ==
    ASSUME NoBootWrite, IInv, Taking, [Next]_vars
    PROVE  Taking'
<1> USE DEF Taking, RamOnce, Booting, RamPCs
<1>1. CASE UNCHANGED vars
  BY <1>1 DEF vars, flashVars, machineVars
<1>2. CASE StartCommand
  BY <1>2 DEF StartCommand, StartReset, StartDisk, Refuse, StartNfs, Begin, At,
              machineVars
<1>3. CASE TurnupStep
  <2>1. power = "up"
    BY <1>3 DEF TurnupStep, GetFlash, FirstMount, Remount, Probe, Probed, Check,
                CopyStart, CopyEnd, SetupRootfs, SetupFstab, UmountNew,
                BootRootfs, RmNew, WriteNew, WrittenNew, RmSav, LnSav, MvNew,
                Cleanup, At
  <2>2. UNCHANGED machineVars
    BY <1>3 DEF TurnupStep, GetFlash, FirstMount, Remount, Probe, Probed, Check,
                CopyStart, CopyEnd, SetupRootfs, SetupFstab, UmountNew,
                BootRootfs, RmNew, WriteNew, WrittenNew, RmSav, LnSav, MvNew,
                Cleanup, Keep
  <2> QED BY <2>1, <2>2 DEF machineVars
<1>4. CASE PowerOn
  BY <1>4 DEF PowerOn, IInv, BootOK
<1>5. CASE PowerOff
  BY <1>5 DEF PowerOff, Ends
<1>6. CASE Recable \/ Edit \/ RemoveInit \/ Export
  BY <1>6 DEF Recable, Edit, RemoveInit, Export, flashVars, machineVars
<1>7. CASE Kernel
  BY <1>7, ScriptTypes DEF Kernel, Proceed, flashVars
<1>8. CASE RamRm \/ RamLn
  BY <1>8 DEF RamRm, RamLn, Proceed, NoBootWrite
<1>9. CASE RamMv
  BY <1>9 DEF RamMv, Proceed, NoBootWrite, IInv, NewReady, FlashScript
<1>10. CASE BootRam
  BY <1>10 DEF BootRam, Proceed, Ends, flashVars
<1>11. CASE BootNfs \/ BootDisk \/ CheckRoot \/ Swivel \/ BootFlash
  BY <1>11 DEF BootNfs, BootDisk, CheckRoot, Swivel, BootFlash, Proceed, Ends,
               flashVars
<1> QED
  BY <1>1, <1>2, <1>3, <1>4, <1>5, <1>6, <1>7, <1>8, <1>9, <1>10, <1>11
     DEF Next, BootStep

LEMMA InitTaking == Init => Taking
BY DEF Init, BootInit, Taking, RamOnce, Booting

(***************************************************************************)
(* On a flash that can be written, the choice of ram is for one boot: when *)
(* boot/ram runs, /linuxrc is already another script.                      *)
(***************************************************************************)
THEOREM RamIsForOnce ==
    ASSUME NoBootWrite
    PROVE  Spec => []RamOnce
<1>1. Taking => RamOnce
  BY DEF Taking
<1> QED
  BY <1>1, InitTaking, NextTaking, Invariance, PTL DEF Spec

(***************************************************************************)
(* A step of the machine is a step of BootChoice, or none.                 *)
(***************************************************************************)
Taken == IF System = "booting" THEN script ELSE FlashScript
Mapped == <<linuxrc, System, Taken>>

LEMMA StepImplements ==
    ASSUME NoBootWrite, IInv, Taking, [Next]_vars
    PROVE  [BC!Next]_Mapped
<1> USE DEF Mapped, Taken, System
<1>1. CASE UNCHANGED vars
  BY <1>1 DEF vars, flashVars, machineVars
<1>2. CASE StartCommand \/ Recable \/ Edit \/ RemoveInit \/ Export
  <2>1. UNCHANGED <<linuxrc, machineVars>>
    BY <1>2 DEF StartCommand, StartReset, StartDisk, Refuse, StartNfs, Begin,
                Recable, Edit, RemoveInit, Export, flashVars
  <2> QED BY <2>1 DEF machineVars
<1>3. CASE TurnupStep /\ ~MvNew
  <2>1. UNCHANGED <<linuxrc, machineVars>>
    BY <1>3 DEF TurnupStep, GetFlash, FirstMount, Remount, Probe, Probed, Check,
                CopyStart, CopyEnd, SetupRootfs, SetupFstab, UmountNew,
                BootRootfs, RmNew, WriteNew, WrittenNew, RmSav, LnSav, Cleanup,
                Keep, flashVars
  <2> QED BY <2>1 DEF machineVars
<1>4. CASE MvNew
  <2>1. power = "up" /\ UNCHANGED machineVars
        /\ (UNCHANGED linuxrc \/ linuxrc' \in Script)
    BY <1>4 DEF MvNew, At, Keep, IInv, NewReady, ReadyPCs
  <2>2. root \notin BC!Down
    BY <2>1 DEF BC!Down, IInv, TypeOK, MachineType
  <2>3. UNCHANGED <<System, Taken>> /\ System = root
    BY <2>1 DEF machineVars
  <2>4. CASE linuxrc' \in Script
    <3>1. BC!Select(linuxrc')
      BY <2>2, <2>3 DEF BC!Select
    <3> QED BY <2>4, <3>1 DEF BC!Next
  <2>5. CASE UNCHANGED linuxrc
    BY <2>3, <2>5
  <2> QED BY <2>1, <2>4, <2>5
<1>5. CASE PowerOn
  BY <1>5 DEF PowerOn, IInv, BootOK, flashVars
<1>6. CASE PowerOff
  <2>1. UNCHANGED linuxrc /\ System' = "off" /\ Taken' = FlashScript
    BY <1>6 DEF PowerOff, Ends, flashVars
  <2>2. CASE System = "off"
    BY <2>1, <2>2
  <2>3. CASE System # "off"
    BY <2>1, <2>3 DEF BC!PowerOff, BC!Next
  <2> QED BY <2>2, <2>3
<1>7. CASE Kernel
  <2>1. /\ linuxrc \in Script /\ UNCHANGED linuxrc /\ script' = linuxrc
        /\ power = "booting" /\ power' = "booting" /\ bpc = "kernel"
    BY <1>7 DEF Kernel, Proceed, Booting, flashVars
  <2>2. System = "off" /\ Taken = FlashScript
    BY <2>1
  <2>3. CASE linuxrc = RamScript
    BY <1>7, <2>1, <2>2, <2>3 DEF Kernel, Proceed, RamScript
  <2>4. CASE linuxrc # RamScript
    <3>1. bpc' \in {"boot_flash", "boot_disk", "boot_nfs"}
      BY <1>7, <2>1, <2>4, ScriptTypes DEF Kernel, Proceed
    <3>2. System' = "booting" /\ Taken' = linuxrc
      BY <2>1, <3>1
    <3> QED BY <2>1, <2>2, <2>4, <3>2 DEF BC!Take, BC!Next
  <2> QED BY <2>3, <2>4
<1>8. CASE RamRm \/ RamLn
  BY <1>8 DEF RamRm, RamLn, Proceed, Booting, NoBootWrite
<1>9. CASE RamMv
  <2>1. linuxrc = RamScript /\ script = RamScript /\ System = "off"
        /\ linuxrc' = FlashScript
    BY <1>9 DEF RamMv, Booting, NoBootWrite, IInv, NewReady, Taking, RamPCs
  <2>2. System' = "booting" /\ Taken' = RamScript
    BY <1>9, <2>1 DEF RamMv, Proceed, Booting
  <2> QED BY <2>1, <2>2 DEF BC!Take, BC!Next
<1>10. CASE BootRam \/ BootNfs \/ BootDisk \/ CheckRoot \/ Swivel \/ BootFlash
  <2>1. UNCHANGED <<linuxrc, script>> /\ power = "booting"
        /\ bpc \in {"boot_ram", "boot_nfs", "boot_disk", "check", "swivel",
                    "boot_flash"}
    BY <1>10 DEF BootRam, BootNfs, BootDisk, CheckRoot, Swivel, BootFlash,
                 Booting, flashVars
  <2>2. System = "booting" /\ Taken = script
    BY <2>1
  <2>3. CASE power' = "booting"
             /\ bpc' \in {"boot_disk", "check", "swivel", "boot_flash"}
    BY <2>1, <2>2, <2>3
  <2>4. CASE power' \in {"up", "shell", "dead"} /\ System' \in BC!Outcome(script)
    <3>1. "booting" \notin BC!Outcome(script)
      BY DEF BC!Outcome
    <3>2. Taken' = FlashScript
      BY <2>4, <3>1
    <3> QED BY <2>1, <2>2, <2>4, <3>2 DEF BC!Finish, BC!Next
  <2>5. CASE BootRam
    <3>1. script = RamScript
      BY <2>5 DEF BootRam, Booting, Taking
    <3>2. {"ram", "dead"} \subseteq BC!Outcome(script)
      BY <3>1 DEF BC!Outcome, RamScript, FlashScript
    <3>3. CASE Proceed("boot_flash")
      BY <2>1, <2>3, <3>3 DEF Proceed
    <3>4. CASE Ends("up", "ram")
      <4>1. power' = "up" /\ root' = "ram"
        BY <3>4 DEF Ends
      <4>2. System' = "ram"
        BY <4>1
      <4> QED BY <2>4, <3>2, <4>1, <4>2
    <3>5. CASE Ends("dead", "none")
      <4>1. power' = "dead"
        BY <3>5 DEF Ends
      <4>2. System' = "dead"
        BY <4>1
      <4> QED BY <2>4, <3>2, <4>1, <4>2
    <3> QED BY <2>5, <3>3, <3>4, <3>5 DEF BootRam
  <2>6. CASE Swivel
    <3>1. script.type \in {"disk", "nfs"} /\ mnt \in Vol
      BY <2>6 DEF Swivel, Booting, IInv, BootOK
    <3>2. script # FlashScript /\ script # RamScript
      BY <3>1 DEF FlashScript, RamScript
    <3>3. Vol \cup {"dead"} \subseteq BC!Outcome(script)
      BY <3>2 DEF BC!Outcome
    <3>4. CASE Ends("up", mnt)
      <4>1. power' = "up" /\ root' = mnt
        BY <3>4 DEF Ends
      <4>2. System' = mnt
        BY <4>1
      <4> QED BY <2>4, <3>1, <3>3, <4>1, <4>2
    <3>5. CASE Ends("dead", "none")
      <4>1. power' = "dead"
        BY <3>5 DEF Ends
      <4>2. System' = "dead"
        BY <4>1
      <4> QED BY <2>4, <3>3, <4>1, <4>2
    <3>6. CASE Proceed("boot_flash")
      BY <2>1, <2>3, <3>6 DEF Proceed
    <3> QED BY <2>6, <3>4, <3>5, <3>6 DEF Swivel
  <2>7. CASE BootFlash
    BY <2>4, <2>7 DEF BootFlash, Ends, BC!Outcome
  <2>8. CASE BootNfs \/ BootDisk \/ CheckRoot
    BY <2>1, <2>3, <2>8 DEF BootNfs, BootDisk, CheckRoot, Proceed
  <2> QED BY <1>10, <2>5, <2>6, <2>7, <2>8
<1> QED
  BY <1>1, <1>2, <1>3, <1>4, <1>5, <1>6, <1>7, <1>8, <1>9, <1>10
     DEF Next, BootStep

(***************************************************************************)
(* turnup and the boot scripts implement the abstract boot choice, for any *)
(* volumes and devices, on a flash that can be written.                    *)
(***************************************************************************)
THEOREM ChoiceImplemented ==
    ASSUME NoBootWrite
    PROVE  Spec => ImplementsBootChoice
<1>1. Init => BC!Init
  BY DEF Init, BootInit, BC!Init, System, Script
<1>2. IInv /\ Taking /\ [Next]_vars => [BC!Next]_Mapped
  BY StepImplements
<1>3. Init => Taking
  BY InitTaking
<1>4. IInv /\ Taking /\ [Next]_vars => Taking'
  BY NextTaking
<1> QED
  BY <1>1, <1>2, <1>3, <1>4, Invariance, PTL
     DEF Spec, ImplementsBootChoice, BC!Spec, Mapped, Taken

-----------------------------------------------------------------------------
(***************************************************************************)
(* Fourth invariant: what -i and -f allow.  cpio runs only with -i, and    *)
(* without -f only on a volume that had no file when it was checked.       *)
(***************************************************************************)
Licensed ==
    pc \in {"copy", "copying"} =>
        cmd.init /\ (cmd.force \/ content[newmnt] \in {"empty"} \cup Unfinished)

\* A command comes to copy only through Check, and to copying from there.
LEMMA NextLicensed == IInv /\ Licensed /\ [Next]_vars => Licensed'
<1> SUFFICES ASSUME IInv, Licensed, [Next]_vars PROVE Licensed'
  OBVIOUS
<1> USE DEF Licensed, At, Goto
<1>1. CASE UNCHANGED vars
  BY <1>1 DEF vars, volumeVars, turnupVars
<1>2. CASE StartCommand
  BY <1>2 DEF StartCommand, StartReset, StartDisk, Refuse, StartNfs, Begin, Exit,
              Gone
<1>3. CASE Check
  BY <1>3 DEF Check, check_rootfs, Keep, volumeVars
<1>4. CASE CopyStart
  <2>1. newmnt \in Vol /\ content \in [Vol -> Content]
    BY <1>4 DEF CopyStart, IInv, TypeOK, VolumeType, CommandOK, MountedPCs
  <2> QED BY <1>4, <2>1 DEF CopyStart, Keep
<1>5. CASE GetFlash \/ FirstMount \/ Remount \/ Probe \/ Probed \/ CopyEnd
          \/ SetupRootfs \/ SetupFstab \/ UmountNew \/ BootRootfs \/ RmNew
          \/ WriteNew \/ WrittenNew \/ RmSav \/ LnSav \/ MvNew \/ Cleanup
  <2>1. pc' \notin {"copy", "copying"}
    BY <1>5 DEF GetFlash, FirstMount, Remount, Probe, Probed, CopyEnd,
                SetupRootfs, SetupFstab, UmountNew, BootRootfs, RmNew, WriteNew,
                WrittenNew, RmSav, LnSav, MvNew, Cleanup, Return, Exit, Gone
  <2> QED BY <2>1
<1>6. CASE BootStep
  BY <1>6 DEF BootStep, Kernel, RamRm, RamLn, RamMv, BootRam, BootNfs, BootDisk,
              CheckRoot, Swivel, BootFlash, Unaffected, volumeVars, turnupVars
<1>7. CASE PowerOn
  BY <1>7 DEF PowerOn, volumeVars, turnupVars
<1>8. CASE PowerOff
  BY <1>8 DEF PowerOff, Exit, Gone
<1>9. CASE Recable \/ Edit \/ RemoveInit \/ Export
  BY <1>9 DEF Recable, Edit, RemoveInit, Export, volumeVars, turnupVars
<1> QED
  BY <1>1, <1>2, <1>3, <1>4, <1>5, <1>6, <1>7, <1>8, <1>9 DEF Next, TurnupStep

(***************************************************************************)
(* turnup writes over files, or over a root file system, only when -i and  *)
(* -f were both given, and only on the volume the command names.           *)
(***************************************************************************)
THEOREM NothingOverwritten == Spec => NoOverwrite
<1> DEFINE Kept ==
      \A v \in Vol :
          /\ content[v] \in {"files", "root", "dangling"}
          /\ content'[v] \in Unfinished /\ power' = "up"
          => cmd.force /\ cmd.init /\ newmnt = v
<1>1. Init => Licensed
  BY DEF Init, TurnupInit, Licensed
<1>2. IInv /\ Licensed /\ [Next]_vars => [Kept]_vars
  <2> SUFFICES ASSUME IInv, Licensed, Next,
                      NEW v \in Vol, content[v] \in {"files", "root", "dangling"},
                      content'[v] \in Unfinished, power' = "up"
               PROVE  cmd.force /\ cmd.init /\ newmnt = v
    OBVIOUS
  <2>1. content \in [Vol -> Content] /\ content'[v] # content[v]
    BY DEF IInv, TypeOK, VolumeType, Unfinished
  <2>2. CASE CopyStart \/ CopyEnd
    <3>1. \E c : content' = [content EXCEPT ![newmnt] = c]
          \/ content' = content
      BY <2>2 DEF CopyStart, CopyEnd
    <3>2. newmnt = v
      BY <2>1, <3>1
    <3> QED BY <2>2, <3>2 DEF CopyStart, CopyEnd, Licensed, At, Unfinished
  <2>3. CASE StartCommand
    BY <2>1, <2>3 DEF StartCommand, StartReset, StartDisk, Refuse, StartNfs, Begin,
                volumeVars
  <2>4. CASE TurnupStep /\ ~CopyStart /\ ~CopyEnd
    BY <2>1, <2>4 DEF TurnupStep, GetFlash, FirstMount, Remount, Probe, Probed, Check,
                SetupRootfs, SetupFstab, UmountNew, BootRootfs, RmNew, WriteNew,
                WrittenNew, RmSav, LnSav, MvNew, Cleanup, volumeVars
  <2>5. CASE BootStep
    BY <2>1, <2>5 DEF BootStep, Kernel, RamRm, RamLn, RamMv, BootRam, BootNfs,
                BootDisk, CheckRoot, Swivel, BootFlash, Unaffected, volumeVars
  <2>6. CASE Edit
    BY <2>1, <2>6 DEF Edit, EditKinds, Unfinished
  <2>7. CASE PowerOff
    BY <2>7 DEF PowerOff, Ends
  <2>8. CASE PowerOn \/ Recable \/ RemoveInit \/ Export
    BY <2>1, <2>8 DEF PowerOn, Recable, RemoveInit, Export, volumeVars
  <2> QED
    BY <2>2, <2>3, <2>4, <2>5, <2>6, <2>7, <2>8 DEF Next
<1> QED
  BY <1>1, <1>2, NextLicensed, Invariance, PTL DEF Spec, NoOverwrite

-----------------------------------------------------------------------------
(***************************************************************************)
(* Fifth invariant: a disk that is there is mounted by its UUID, and the   *)
(* cables do not change between that mount and the end of the boot.        *)
(***************************************************************************)
DisksReady == "flaky" \notin Faults

Followed ==
    /\ bpc \in {"check", "swivel"} /\ script.uuid # None /\ Attached(script.uuid)
       => mnt = script.uuid
    /\ RootFollowsUuid

LEMMA NextFollowed ==
    ASSUME DisksReady, IInv, Followed, [Next]_vars
    PROVE  Followed'
<1> USE DEF Followed, RootFollowsUuid, Attached
<1>1. CASE UNCHANGED vars
  BY <1>1 DEF vars, cableVars, machineVars
<1>2. CASE StartCommand
  BY <1>2 DEF StartCommand, StartReset, StartDisk, Refuse, StartNfs, Begin,
              cableVars, machineVars
<1>3. CASE TurnupStep
  <2>1. UNCHANGED <<cableVars, machineVars>>
    BY <1>3 DEF TurnupStep, GetFlash, FirstMount, Remount, Probe, Probed, Check,
                CopyStart, CopyEnd, SetupRootfs, SetupFstab, UmountNew,
                BootRootfs, RmNew, WriteNew, WrittenNew, RmSav, LnSav, MvNew,
                Cleanup, Keep
  <2> QED BY <2>1 DEF cableVars, machineVars
<1>4. CASE Edit \/ RemoveInit \/ Export
  BY <1>4 DEF Edit, RemoveInit, Export, cableVars, machineVars
<1>5. CASE PowerOn \/ PowerOff \/ Recable
  BY <1>5 DEF PowerOn, PowerOff, Recable, Ends, machineVars, IInv, BootOK
<1>6. CASE BootDisk
  <2>1. script.type = "nfs" => script.uuid = None
    BY DEF IInv, TypeOK, MachineType, Script, FlashScript, RamScript
  <2>2. UuidReady => mnt' = script.uuid
    BY <1>6, <2>1 DEF BootDisk, MountMayFail, DisksReady, UuidReady
  <2> QED
    BY <1>6, <2>2 DEF BootDisk, UuidReady, Proceed, Booting, Unaffected, cableVars
<1>7. CASE Swivel
  BY <1>7 DEF Swivel, Proceed, Ends, Booting, Unaffected, cableVars
<1>8. CASE Kernel \/ RamRm \/ RamLn \/ RamMv \/ BootRam \/ BootNfs \/ CheckRoot
          \/ BootFlash
  <2>1. power = "booting" /\ UNCHANGED at
    BY <1>8 DEF Kernel, RamRm, RamLn, RamMv, BootRam, BootNfs, CheckRoot,
                BootFlash, Booting, Unaffected, cableVars
  <2>2. CASE CheckRoot
    BY <2>1, <2>2 DEF CheckRoot, Proceed, Booting
  <2>3. CASE ~CheckRoot
    <3>1. bpc' \notin {"check", "swivel"}
      BY <1>8, <2>3, ScriptTypes
         DEF Kernel, RamRm, RamLn, RamMv, BootRam, BootNfs, BootFlash, Proceed,
             Ends
    <3>2. power' = "up" => root' \notin Vol
      BY <1>8, <2>1, <2>3 DEF Kernel, RamRm, RamLn, RamMv, BootRam, BootNfs,
                              BootFlash, Proceed, Ends
    <3> QED BY <3>1, <3>2
  <2> QED BY <2>2, <2>3
<1> QED
  BY <1>1, <1>2, <1>3, <1>4, <1>5, <1>6, <1>7, <1>8 DEF Next, BootStep

(***************************************************************************)
(* With disks that are ready when they are mounted, the machine runs on    *)
(* the volume whose UUID /linuxrc gave, whatever cables were changed.      *)
(***************************************************************************)
THEOREM UuidFollowed ==
    ASSUME DisksReady
    PROVE  Spec => []RootFollowsUuid
<1>1. Init => Followed
  BY DEF Init, BootInit, Followed, RootFollowsUuid
<1>2. Followed => RootFollowsUuid
  BY DEF Followed
<1> QED
  BY <1>1, <1>2, NextFollowed, Invariance, PTL DEF Spec

-----------------------------------------------------------------------------
(***************************************************************************)
(* Sixth invariant: the root that /linuxrc names, or will name at the end  *)
(* of the running command, passes the check and has no write outstanding,  *)
(* and is whole if turnup copied it.  The faults left out are those that   *)
(* spoil a root behind the back of turnup, a copy that ends early without  *)
(* a word, and -f.                                                         *)
(***************************************************************************)
NobodyMeddles == Faults \subseteq {"recable", "flaky", "boot_write"}

Good(v) == v \in Vol /\ checkmount(content[v]) /\ v \notin dirty
Fixed(s) == s.uuid # None \/ "recable" \notin Faults

ChoiceGood ==
    linuxrc.type \in {"disk", "nfs"} /\ Fixed(linuxrc) =>
        /\ Good(Selected(linuxrc))
        /\ copied => content[Selected(linuxrc)] = "root"

\* What the running command may choose: without -i, whatever passes the check.
Chosen(v) == checkmount(content[v]) /\ (cmd.init => content[v] = "root")

\* What a command knows of its volume by UUID, mount and script is one thing.
Named ==
    /\ pc # "idle" /\ ~IsReset /\ uuid # None => uuid = target
    /\ pc \in MountedPCs => newmnt = target
    /\ pc \in ReadyPCs => linuxrc_new = NewScript

\* How good that volume is at each step, and that status is not 0 too early.
Earned ==
    /\ pc = "copy" => content[newmnt] = "empty"
    /\ pc \in {"setup_rootfs", "setup_fstab"} => Chosen(newmnt)
    /\ pc \in {"get_flash"} \cup VolumePCs /\ pc # "umount_new" => status = 1
    /\ pc = "umount_new" /\ status = 0 => Chosen(newmnt)
    /\ pc \in LinuxrcPCs /\ ~IsReset => Good(target) /\ Chosen(target)

Plain == ~cmd.force /\ flashinit

RootGood == ChoiceGood /\ Named /\ Earned /\ Plain

LEMMA InitRootGood == Init => RootGood
BY DEF Init, TurnupInit, RootGood, ChoiceGood, Named, Earned, Plain, FlashScript,
       NoCommand, MountedPCs, VolumePCs, ReadyPCs, LinuxrcPCs

\* A command that starts knows its volume, and owes everything else.
LEMMA StartRootGood ==
    ASSUME NobodyMeddles, IInv, RootGood, StartCommand
    PROVE  RootGood'
<1> USE DEF RootGood, ChoiceGood, Named, Earned, Plain, Begin, At, Goto, Gone,
            Exit, MountedPCs, VolumePCs, ReadyPCs, LinuxrcPCs, IsReset, Good, Chosen,
            Selected, Fixed, target, flashVars, volumeVars, cableVars
<1>1. ASSUME NEW type \in Kinds \cap {"flash", "ram"}, StartReset(type)
      PROVE  RootGood'
  BY <1>1 DEF StartReset
<1>2. ASSUME NEW d \in Dev, NEW i \in BOOLEAN, NEW f \in Options,
             NEW name \in {"disk", "memstick"}, StartDisk(name, d, i, f)
      PROVE  RootGood'
  <2>1. f = FALSE
    BY DEF Options, NobodyMeddles
  <2> QED BY <1>2, <2>1 DEF StartDisk
<1>3. ASSUME NEW d \in Dev, NEW i \in BOOLEAN, NEW f \in Options,
             NEW name \in {"disk", "memstick"}, Refuse(name, d, i, f)
      PROVE  RootGood'
  <2>1. f = FALSE
    BY DEF Options, NobodyMeddles
  <2> QED BY <1>3, <2>1 DEF Refuse
<1>4. ASSUME NEW n \in Nfs, NEW i \in BOOLEAN, NEW f \in Options,
             StartNfs(n, i, f)
      PROVE  RootGood'
  <2>1. f = FALSE
    BY DEF Options, NobodyMeddles
  <2> QED BY <1>4, <2>1 DEF StartNfs
<1> HIDE DEF RootGood
<1> QED
  BY <1>1, <1>2, <1>3, <1>4 DEF StartCommand

\* Only CopyStart, CopyEnd and UmountNew touch a volume, and never the chosen.
LEMMA TurnupRootGood ==
    ASSUME NobodyMeddles, IInv, RootGood, TurnupStep
    PROVE  RootGood'
<1> USE DEF RootGood, ChoiceGood, Named, Earned, Plain, At, Goto, Keep, Gone, Exit,
            MountedPCs, VolumePCs, ReadyPCs, LinuxrcPCs, IsReset, Good, Chosen,
            Selected, Fixed, target, NewScript, BootType, flashVars, volumeVars, cableVars
<1>t. /\ CommandOK /\ newmnt \in Vol \cup {None} /\ dirty \subseteq Vol
      /\ content \in [Vol -> Content] /\ status \in {0, 1}
  BY DEF IInv, TypeOK, VolumeType, CommandType
<1>1. CASE GetFlash
  BY <1>1 DEF GetFlash
<1>2. CASE FirstMount
  BY <1>2 DEF FirstMount
<1>3. CASE Remount
  BY <1>3 DEF Remount
<1>4. CASE Probe
  BY <1>4 DEF Probe
<1>5. CASE Probed
  BY <1>5 DEF Probed
<1>6. CASE Check
  BY <1>6 DEF Check, check_rootfs
<1>7. CASE CopyStart
  <2>1. newmnt \in Vol /\ content[newmnt] = "empty" /\ ~checkmount("empty")
    BY <1>t, <1>7 DEF CopyStart, CommandOK, checkmount
  <2>2. \A v : Good(v) => v # newmnt
    BY <2>1
  <2>3. dirty' = dirty \cup {newmnt}
        /\ \A v \in Vol : v # newmnt => content'[v] = content[v]
    BY <1>7, <1>t, <2>1 DEF CopyStart
  <2>4. \A v : Good(v) => Good(v)' /\ content'[v] = content[v]
    BY <1>t, <2>2, <2>3
  <2>5. ChoiceGood'
    BY <1>7, <2>4 DEF CopyStart
  <2> QED BY <1>7, <2>5 DEF CopyStart
<1>8. CASE CopyEnd
  <2>1. newmnt \in Vol
    BY <1>t, <1>8 DEF CopyEnd, CommandOK
  <2>2. pc' = "setup_rootfs" => content'[newmnt] = "root"
    BY <1>8, <1>t, <2>1 DEF CopyEnd, FlashTree, NobodyMeddles
  <2>3. \A v : Good(v) => Good(v)' /\ (content[v] = "root" => content'[v] = "root")
    BY <1>8, <1>t, <2>1 DEF CopyEnd, FlashTree, NobodyMeddles, checkmount
  <2>4. ChoiceGood'
    BY <1>8, <2>3 DEF CopyEnd
  <2> QED BY <1>8, <2>2, <2>4 DEF CopyEnd, checkmount
<1>9. CASE SetupRootfs
  BY <1>9 DEF SetupRootfs
<1>10. CASE SetupFstab
  BY <1>10 DEF SetupFstab
<1>11. CASE UmountNew
  <2>1. newmnt \in Vol
    BY <1>t, <1>11 DEF UmountNew, CommandOK
  <2>2. \A v : Good(v) => Good(v)'
    BY <1>11 DEF UmountNew
  <2>3. status' = 0 => (Good(target) /\ Chosen(target))'
    BY <1>11, <2>1 DEF UmountNew
  <2> QED BY <1>11, <2>2, <2>3 DEF UmountNew
<1>12. CASE BootRootfs
  BY <1>12 DEF BootRootfs, Return
<1>13. CASE RmNew
  BY <1>13 DEF RmNew, Return
<1>14. CASE WriteNew
  BY <1>14 DEF WriteNew, Return
<1>15. CASE WrittenNew
  BY <1>15 DEF WrittenNew, Return
<1>16. CASE RmSav
  BY <1>16 DEF RmSav, Return
<1>17. CASE LnSav
  BY <1>17 DEF LnSav, Return
<1>18. CASE MvNew
  <2>1. pc' = "cleanup" /\ UNCHANGED <<volumeVars, at, cmd, flashinit>>
    BY <1>18 DEF MvNew, Return
  <2>2. ChoiceGood'
    BY <1>18, <1>t, <2>1 DEF MvNew, CommandOK
  <2> QED BY <2>1, <2>2, <1>18 DEF MvNew
<1>19. CASE Cleanup
  BY <1>19 DEF Cleanup
<1> HIDE DEF RootGood
<1> QED
  BY <1>1, <1>2, <1>3, <1>4, <1>5, <1>6, <1>7, <1>8, <1>9, <1>10, <1>11,
     <1>12, <1>13, <1>14, <1>15, <1>16, <1>17, <1>18, <1>19 DEF TurnupStep

\* A boot changes /linuxrc only to the link to boot/flash.
LEMMA BootRootGood ==
    ASSUME IInv, RootGood, BootStep
    PROVE  RootGood'
<1> USE DEF RootGood, ChoiceGood, Named, Earned, Plain, MountedPCs, VolumePCs,
            ReadyPCs, LinuxrcPCs
<1>1. pc = "idle" /\ UNCHANGED <<volumeVars, cableVars, turnupVars>>
  BY DEF BootStep, Kernel, RamRm, RamLn, RamMv, BootRam, BootNfs, BootDisk,
         CheckRoot, Swivel, BootFlash, Booting, Unaffected, IInv, CommandOK
<1>2. UNCHANGED copied /\ (linuxrc' = FlashScript \/ UNCHANGED linuxrc)
  BY DEF BootStep, Kernel, RamRm, RamLn, RamMv, BootRam, BootNfs, BootDisk,
         CheckRoot, Swivel, BootFlash, IInv, NewReady, flashVars
<1> QED
  BY <1>1, <1>2 DEF volumeVars, cableVars, turnupVars, FlashScript, Good, Selected,
                    Fixed

\* A power failure loses only writes to volumes that are not good yet.
LEMMA WorldRootGood ==
    ASSUME NobodyMeddles, IInv, RootGood,
           PowerOn \/ PowerOff \/ Recable \/ Edit \/ RemoveInit \/ Export
    PROVE  RootGood'
<1> USE DEF RootGood, ChoiceGood, Named, Earned, Plain, MountedPCs, VolumePCs,
            ReadyPCs, LinuxrcPCs, Good, Chosen, Selected, Fixed
<1>1. CASE PowerOn
  BY <1>1 DEF PowerOn, flashVars, volumeVars, cableVars, turnupVars, IsReset,
              target, NewScript, BootType
<1>2. CASE PowerOff
  <2>1. \A v \in Vol : v \notin dirty => content'[v] = content[v]
    BY <1>2 DEF PowerOff, LostWrites, IInv, TypeOK, VolumeType
  <2>2. ChoiceGood'
    BY <1>2, <2>1 DEF PowerOff, LostWrites, flashVars, cableVars
  <2>3. pc' = "idle" /\ cmd' = NoCommand /\ UNCHANGED flashinit
    BY <1>2 DEF PowerOff, LostWrites, Exit, Gone
  <2> QED BY <2>2, <2>3 DEF NoCommand
<1>3. CASE Recable
  <2>1. pc = "idle" /\ "recable" \in Faults
    BY <1>3 DEF Recable, IInv, CommandOK
  <2> QED BY <1>3, <2>1 DEF Recable, flashVars, volumeVars, turnupVars
<1>4. CASE Export
  BY <1>4 DEF Export, At, flashVars, volumeVars, turnupVars
<1>5. CASE Edit \/ RemoveInit
  BY <1>5 DEF Edit, RemoveInit, NobodyMeddles
<1> QED
  BY <1>1, <1>2, <1>3, <1>4, <1>5

LEMMA NextRootGood ==
    ASSUME NobodyMeddles, IInv, RootGood, [Next]_vars
    PROVE  RootGood'
<1>1. CASE UNCHANGED vars
  BY <1>1 DEF RootGood, ChoiceGood, Named, Earned, Plain, Good, Chosen, Selected,
              Fixed, vars, flashVars, volumeVars, cableVars, turnupVars, IsReset, target,
              NewScript, BootType
<1> QED
  BY <1>1, StartRootGood, TurnupRootGood, BootRootGood, WorldRootGood DEF Next

(***************************************************************************)
(* While nobody edits the volumes, -f is not used and a copy that fails    *)
(* says so, the root file system that /linuxrc names is at every moment    *)
(* one the boot will accept, and a whole one if turnup copied it, through  *)
(* any failure of a step and of the power.                                 *)
(***************************************************************************)
THEOREM SelectionSound ==
    ASSUME NobodyMeddles
    PROVE  Spec => []SelectedRootSound
<1>1. RootGood => SelectedRootSound
  BY DEF RootGood, ChoiceGood, Good, Fixed, SelectedRootSound
<1> QED
  BY <1>1, InitRootGood, NextRootGood, Invariance, PTL DEF Spec

-----------------------------------------------------------------------------
(***************************************************************************)
(* Seventh invariant: a boot from a volume mounts the one /linuxrc names.  *)
(* The cables stay, so the name and the UUID lead to the same volume, and  *)
(* a boot that falls from the one to the other comes to no other root.     *)
(***************************************************************************)
NothingElseMoves == Faults \subseteq {"flaky", "boot_write"}

VolumeBoot == {"boot_nfs", "boot_disk", "check", "swivel"}

Followup ==
    /\ linuxrc.type \in {"disk", "nfs"} /\ linuxrc.uuid # None =>
          linuxrc.uuid = at[linuxrc.device]
    /\ bpc \in VolumeBoot => script = linuxrc
    /\ bpc \in {"check", "swivel"} => mnt = at[linuxrc.device]
    /\ DiesAsFound

LEMMA InitFollowup == Init => Followup
BY DEF Init, BootInit, Followup, VolumeBoot, DiesAsFound, FlashScript

\* A running system may change the choice, and no boot is then under way.
LEMMA UpFollowup ==
    ASSUME IInv, RootGood, Followup, StartCommand \/ TurnupStep \/ Export
    PROVE  Followup'
<1> USE DEF Followup, DiesAsFound, VolumeBoot
<1>1. UNCHANGED <<machineVars, at>> /\ power = "up"
  BY DEF StartCommand, StartReset, StartDisk, Refuse, StartNfs, Begin, TurnupStep,
         GetFlash, FirstMount, Remount, Probe, Probed, Check, CopyStart, CopyEnd,
         SetupRootfs, SetupFstab, UmountNew, BootRootfs, RmNew, WriteNew,
         WrittenNew, RmSav, LnSav, MvNew, Cleanup, Keep, Export, At, cableVars
<1>2. bpc = "kernel" /\ bpc' = "kernel" /\ power' = "up"
  BY <1>1 DEF machineVars, IInv, BootOK
<1>3. CASE MvNew
  <2>1. linuxrc' = linuxrc \/ linuxrc' = NewScript
    BY <1>3 DEF MvNew, At, RootGood, Named, ReadyPCs
  <2>2. NewScript.type \in {"disk", "nfs"} /\ NewScript.uuid # None =>
            NewScript.uuid = at[NewScript.device]
    BY <1>3 DEF MvNew, At, RootGood, Named, NewScript, BootType, IsReset, target
  <2> QED BY <1>1, <1>2, <2>1, <2>2
<1>4. CASE ~MvNew
  <2>1. UNCHANGED linuxrc
    BY <1>4 DEF StartCommand, StartReset, StartDisk, Refuse, StartNfs, Begin,
                TurnupStep, GetFlash, FirstMount, Remount, Probe, Probed, Check,
                CopyStart, CopyEnd, SetupRootfs, SetupFstab, UmountNew,
                BootRootfs, RmNew, WriteNew, WrittenNew, RmSav, LnSav, Cleanup,
                Export, flashVars
  <2> QED BY <1>1, <1>2, <2>1
<1> QED BY <1>3, <1>4

\* What was checked is what the machine swivels to.
LEMMA BootFollowup ==
    ASSUME NothingElseMoves, IInv, RootGood, Followup, BootStep
    PROVE  Followup'
<1> USE DEF Followup, DiesAsFound, VolumeBoot
<1>1. power = "booting" /\ UNCHANGED <<at, content, copied>>
  BY DEF BootStep, Kernel, RamRm, RamLn, RamMv, BootRam, BootNfs, BootDisk,
         CheckRoot, Swivel, BootFlash, Unaffected, volumeVars, cableVars, flashVars,
         Booting
<1>2. CASE Kernel
  BY <1>1, <1>2, ScriptTypes DEF Kernel, Proceed, flashVars
<1>3. CASE RamRm \/ RamLn \/ RamMv
  <2>1. bpc' \notin VolumeBoot /\ power' = "booting"
    BY <1>1, <1>3 DEF RamRm, RamLn, RamMv, Proceed
  <2>2. linuxrc' = FlashScript \/ UNCHANGED linuxrc
    BY <1>3 DEF RamRm, RamLn, RamMv, IInv, NewReady
  <2> QED BY <1>1, <2>1, <2>2 DEF FlashScript
<1>4. CASE BootRam \/ BootFlash
  <2>1. bpc' \notin VolumeBoot /\ power' # "dead" /\ UNCHANGED linuxrc
    BY <1>1, <1>4 DEF BootRam, BootFlash, Proceed, Ends, NothingElseMoves,
                      flashVars
  <2> QED BY <1>1, <2>1
<1>5. CASE BootNfs \/ CheckRoot
  BY <1>1, <1>5 DEF BootNfs, CheckRoot, Proceed, Booting, flashVars
<1>6. CASE BootDisk
  <2>1. script = linuxrc /\ UNCHANGED <<linuxrc, script>> /\ power' = power
        /\ bpc' \in {"check", "boot_flash"} /\ linuxrc.type \in {"disk", "nfs"}
    BY <1>6 DEF BootDisk, Booting, Proceed, flashVars, IInv, BootOK
  <2>2. bpc' = "check" => mnt' = at[linuxrc.device]
    BY <1>6, <2>1 DEF BootDisk, UuidReady, Proceed
  <2> QED BY <1>1, <2>1, <2>2
<1>7. CASE Swivel
  <2>1. /\ script = linuxrc /\ UNCHANGED linuxrc /\ mnt = at[linuxrc.device]
        /\ linuxrc.type \in {"disk", "nfs"} /\ bpc' \notin VolumeBoot
    BY <1>7 DEF Swivel, Booting, Proceed, Ends, flashVars, IInv, BootOK
  <2>2. Selected(linuxrc) = mnt
    BY <2>1 DEF Selected
  <2>3. copied => content[mnt] = "root"
    BY <2>1, <2>2 DEF RootGood, ChoiceGood, Fixed, NothingElseMoves
  <2>4. power' = "dead" => ~copied
    BY <1>1, <1>7, <2>3 DEF Swivel, Ends, Proceed
  <2> QED BY <1>1, <2>1, <2>4
<1> QED
  BY <1>2, <1>3, <1>4, <1>5, <1>6, <1>7 DEF BootStep

LEMMA NextFollowup ==
    ASSUME NothingElseMoves, IInv, RootGood, Followup, [Next]_vars
    PROVE  Followup'
<1> USE DEF Followup, DiesAsFound, VolumeBoot
<1>1. CASE UNCHANGED vars
  BY <1>1 DEF vars, flashVars, cableVars, machineVars
<1>2. CASE PowerOn \/ PowerOff
  BY <1>2 DEF PowerOn, PowerOff, Ends, IInv, BootOK, flashVars, cableVars
<1>3. CASE Recable \/ Edit \/ RemoveInit
  BY <1>3 DEF Recable, Edit, RemoveInit, NothingElseMoves
<1> HIDE DEF Followup
<1> QED
  BY <1>1, <1>2, <1>3, UpFollowup, BootFollowup DEF Next

(***************************************************************************)
(* While nobody edits the volumes or changes the cables, -f is not used,   *)
(* no copy ends early without a word and the flash keeps its init, no boot *)
(* dies on a root that turnup copied, whatever step of the copying or of a *)
(* boot fails, disks that are not ready included.                          *)
(***************************************************************************)
THEOREM BootDiesAsFound ==
    ASSUME NothingElseMoves
    PROVE  Spec => []DiesAsFound
<1>1. NobodyMeddles
  BY DEF NothingElseMoves, NobodyMeddles
<1>2. RootGood /\ IInv /\ [Next]_vars => RootGood'
  BY <1>1, NextRootGood
<1>3. RootGood /\ IInv /\ Followup /\ [Next]_vars => Followup'
  BY NextFollowup
<1>4. Followup => DiesAsFound
  BY DEF Followup
<1> QED
  BY <1>2, <1>3, <1>4, InitRootGood, InitFollowup, Invariance, PTL DEF Spec

-----------------------------------------------------------------------------
(***************************************************************************)
(* What a command or a boot has still to do, at most, in steps.  The       *)
(* scripts have no loop and retry nothing.                                 *)
(***************************************************************************)
TurnupLeft(p) ==
    CASE p = "get_flash"    -> 19 [] p = "mount"       -> 18
      [] p = "remount"      -> 17 [] p = "probe"       -> 16
      [] p = "probed"       -> 15 [] p = "check"       -> 14
      [] p = "copy"         -> 13 [] p = "copying"     -> 12
      [] p = "setup_rootfs" -> 11 [] p = "setup_fstab" -> 10
      [] p = "umount_new"   ->  9 [] p = "boot_rootfs" ->  8
      [] p = "rm_new"       ->  7 [] p = "write_new"   ->  6
      [] p = "writing_new"  ->  5 [] p = "rm_sav"      ->  4
      [] p = "ln_sav"       ->  3 [] p = "mv_new"      ->  2
      [] p = "cleanup"      ->  1 [] p = "idle"        ->  0

BootLeft(b) ==
    CASE b = "kernel"   -> 8 [] b = "ram_rm"    -> 7 [] b = "ram_ln"   -> 6
      [] b = "ram_mv"   -> 5 [] b = "boot_ram"  -> 4 [] b = "boot_nfs" -> 5
      [] b = "boot_disk" -> 4 [] b = "check"    -> 3 [] b = "swivel"   -> 2
      [] b = "boot_flash" -> 1

ToDo(pow, b) == IF pow = "booting" THEN BootLeft(b) ELSE 0

(***************************************************************************)
(* Each step of turnup leaves less of the command to do, and each step of  *)
(* a boot less of the boot.  No other step leaves more, but the start of a *)
(* command and the power coming on.                                        *)
(***************************************************************************)
CommandOnward ==
    /\ TurnupStep => TurnupLeft(pc') < TurnupLeft(pc)
    /\ pc # "idle" => TurnupLeft(pc') <= TurnupLeft(pc)

BootOnward ==
    /\ BootStep => ToDo(power', bpc') < ToDo(power, bpc)
    /\ power # "off" => ToDo(power', bpc') <= ToDo(power, bpc)

GetsOn == [][CommandOnward /\ BootOnward]_vars

LEMMA LeftIsNat ==
    /\ \A p \in TurnupPCs : TurnupLeft(p) \in 0 .. 19
    /\ \A b \in BootPCs : BootLeft(b) \in 1 .. 8
BY DEF TurnupPCs, TurnupLeft, BootPCs, BootLeft

LEMMA TurnupGetsOn ==
    ASSUME TurnupStep
    PROVE  TurnupLeft(pc') < TurnupLeft(pc) /\ UNCHANGED machineVars
<1> USE DEF TurnupLeft, At, Goto, Keep
<1>1. CASE GetFlash \/ FirstMount \/ Remount \/ Probe \/ Probed
  BY <1>1 DEF GetFlash, FirstMount, Remount, Probe, Probed, Exit, Gone
<1>2. CASE Check \/ CopyStart \/ CopyEnd \/ SetupRootfs \/ SetupFstab
  BY <1>2 DEF Check, CopyStart, CopyEnd, SetupRootfs, SetupFstab
<1>3. CASE UmountNew \/ BootRootfs \/ RmNew \/ WriteNew \/ WrittenNew
  BY <1>3 DEF UmountNew, BootRootfs, RmNew, WriteNew, WrittenNew, Return
<1>4. CASE RmSav \/ LnSav \/ MvNew \/ Cleanup
  BY <1>4 DEF RmSav, LnSav, MvNew, Cleanup, Return, Exit, Gone
<1> QED BY <1>1, <1>2, <1>3, <1>4 DEF TurnupStep

LEMMA BootGetsOn ==
    ASSUME IInv, BootStep
    PROVE  ToDo(power', bpc') < ToDo(power, bpc) /\ UNCHANGED turnupVars
<1> USE DEF ToDo, BootLeft, Booting, Proceed, Ends, Unaffected
<1>1. CASE Kernel
  BY <1>1, ScriptTypes DEF Kernel
<1>2. CASE RamRm \/ RamLn \/ RamMv \/ BootRam \/ BootNfs
  BY <1>2 DEF RamRm, RamLn, RamMv, BootRam, BootNfs
<1>3. CASE BootDisk \/ CheckRoot \/ Swivel \/ BootFlash
  BY <1>3 DEF BootDisk, CheckRoot, Swivel, BootFlash
<1> QED BY <1>1, <1>2, <1>3 DEF BootStep

LEMMA NextOnward ==
    ASSUME IInv, [Next]_vars
    PROVE  CommandOnward /\ BootOnward
<1>1. TurnupLeft(pc) \in 0 .. 19 /\ TurnupLeft("idle") = 0
  BY LeftIsNat DEF IInv, TypeOK, CommandType, TurnupLeft
<1>2. ToDo(power, bpc) \in 0 .. 8 /\ \A b : ToDo("off", b) = 0
  BY LeftIsNat DEF IInv, TypeOK, MachineType, ToDo
<1>3. TurnupStep => power = "up"
  BY DEF TurnupStep, GetFlash, FirstMount, Remount, Probe, Probed, Check,
         CopyStart, CopyEnd, SetupRootfs, SetupFstab, UmountNew, BootRootfs,
         RmNew, WriteNew, WrittenNew, RmSav, LnSav, MvNew, Cleanup, At
<1>4. BootStep => power = "booting"
  BY DEF BootStep, Kernel, RamRm, RamLn, RamMv, BootRam, BootNfs, BootDisk,
         CheckRoot, Swivel, BootFlash, Booting
<1>5. CASE TurnupStep
  <2>1. TurnupLeft(pc') \in 0 .. 19
    BY <1>5, TurnupIInv, LeftIsNat DEF IInv, TypeOK, CommandType
  <2>2. TurnupLeft(pc') < TurnupLeft(pc) /\ UNCHANGED <<power, bpc>>
    BY <1>5, TurnupGetsOn DEF machineVars
  <2> QED
    BY <1>1, <1>2, <1>3, <1>4, <1>5, <2>1, <2>2 DEF CommandOnward, BootOnward
<1>6. CASE BootStep
  <2>1. ToDo(power', bpc') \in 0 .. 8
    BY <1>6, BootIInv, LeftIsNat DEF IInv, TypeOK, MachineType, ToDo
  <2>2. ToDo(power', bpc') < ToDo(power, bpc) /\ UNCHANGED pc
    BY <1>6, BootGetsOn DEF turnupVars
  <2> QED
    BY <1>1, <1>2, <1>3, <1>4, <1>6, <2>1, <2>2 DEF CommandOnward, BootOnward
<1>7. CASE ~TurnupStep /\ ~BootStep
  <2>1. pc # "idle" => pc' \in {pc, "idle"}
    BY <1>7 DEF Next, StartCommand, StartReset, StartDisk, Refuse, StartNfs,
                Begin, At, PowerOn, PowerOff, Exit, Gone, Recable, Edit,
                RemoveInit, Export, turnupVars, vars
  <2>2. power # "off" => power' = "off" \/ UNCHANGED <<power, bpc>>
    BY <1>7 DEF Next, StartCommand, StartReset, StartDisk, Refuse, StartNfs,
                Begin, PowerOn, PowerOff, Ends, Recable, Edit, RemoveInit,
                Export, machineVars, vars
  <2> QED
    BY <1>1, <1>2, <1>7, <2>1, <2>2 DEF CommandOnward, BootOnward
<1> QED BY <1>5, <1>6, <1>7

(***************************************************************************)
(* A command of turnup ends after at most 19 of its steps and a boot after *)
(* at most 8, for any volumes and faults: what TurnupEnds and BootEnds add *)
(* is that the next step is taken.                                         *)
(***************************************************************************)
THEOREM NothingIsRetried == Spec => GetsOn
<1>1. IInv /\ [Next]_vars => CommandOnward /\ BootOnward
  BY NextOnward
<1> QED
  BY <1>1, Invariance, PTL DEF Spec, GetsOn
=============================================================================
