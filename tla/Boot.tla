-------------------------------- MODULE Boot --------------------------------
(***************************************************************************)
(* From power on to a running init: the kernel mounts the flash as / and   *)
(* runs /linuxrc, which runs one of /boot/flash, /boot/ram, /boot/disk and *)
(* /boot/nfs.  These replace the root with pivot_root and exec init there, *)
(* or fall back to /boot/flash.                                            *)
(***************************************************************************)
EXTENDS SlugState

Booting(l) == power = "booting" /\ bpc = l
Proceed(l) == bpc' = l /\ UNCHANGED <<power, root>>
Ends(p, r) == power' = p /\ root' = r /\ bpc' = "kernel" /\ mnt' = None

BootPCs == {"kernel", "ram_rm", "ram_ln", "ram_mv", "boot_ram", "boot_nfs",
            "boot_disk", "check", "swivel", "boot_flash"}

BootInit ==
    /\ power = "off" /\ root = "none" /\ bpc = "kernel"
    /\ script = FlashScript /\ mnt = None

Unaffected == UNCHANGED <<volumeVars, cableVars, turnupVars>>

-----------------------------------------------------------------------------
(***************************************************************************)
(* The kernel executes /linuxrc.  The shell goes on reading the script it  *)
(* opened even after the name has been moved.  Nothing is said here of an  *)
(* absent or unfinished /linuxrc: LinuxrcIntact shows there is none.       *)
(***************************************************************************)
Kernel ==
    /\ Booting("kernel")
    /\ linuxrc \in Script
    /\ script' = linuxrc
    /\ Proceed(CASE linuxrc.type = "flash" -> "boot_flash"
               [] linuxrc.type = "ram"   -> "ram_rm"
               [] linuxrc.type = "disk"  -> "boot_disk"
               [] linuxrc.type = "nfs"   -> "boot_nfs")
    /\ UNCHANGED <<flashVars, mnt>> /\ Unaffected

(***************************************************************************)
(* The script of 'turnup ram' puts the link to boot/flash back before it   *)
(* boots the ram disk.  Its commands are not tested: where one fails (the  *)
(* flash is read-only, or full) those after it have no effect either.      *)
(***************************************************************************)
RamRm ==
    /\ Booting("ram_rm")
    /\ \/ linuxrc_new' = Absent /\ Proceed("ram_ln")
       \/ /\ "boot_write" \in Faults
          /\ UNCHANGED linuxrc_new /\ Proceed("boot_ram")
    /\ UNCHANGED <<linuxrc, linuxrc_sav, copied, script, mnt>> /\ Unaffected

\* Mutation: the mv is forgotten.
RamLnOnly ==
    /\ Booting("ram_ln")
    /\ linuxrc_new' = FlashScript /\ Proceed("boot_ram")
    /\ UNCHANGED <<linuxrc, linuxrc_sav, copied, script, mnt>> /\ Unaffected

RamLn ==
    /\ Booting("ram_ln")
    /\ \/ linuxrc_new' = FlashScript /\ Proceed("ram_mv")
       \/ /\ "boot_write" \in Faults
          /\ UNCHANGED linuxrc_new /\ Proceed("boot_ram")
    /\ UNCHANGED <<linuxrc, linuxrc_sav, copied, script, mnt>> /\ Unaffected

RamMv ==
    /\ Booting("ram_mv")
    /\ \/ linuxrc' = linuxrc_new /\ linuxrc_new' = Absent
       \/ "boot_write" \in Faults /\ UNCHANGED <<linuxrc, linuxrc_new>>
    /\ Proceed("boot_ram")
    /\ UNCHANGED <<linuxrc_sav, copied, script, mnt>> /\ Unaffected

(***************************************************************************)
(* boot/ram: copy the flash root to a tmpfs, check the copy and swivel to  *)
(* it.  The status of the copy is not tested, so one cut short is booted   *)
(* too if it has what checkmount looks for.                                *)
(***************************************************************************)
BootRam ==
    /\ Booting("boot_ram")
    /\ \/ flashinit /\ Ends("up", "ram")
       \/ "short_copy" \in Faults /\ flashinit /\ Ends("dead", "none")
       \/ Proceed("boot_flash") /\ UNCHANGED mnt
    /\ UNCHANGED <<flashVars, script>> /\ Unaffected

\* boot/nfs: bring the network up, then continue as boot/disk.
BootNfs ==
    /\ Booting("boot_nfs")
    /\ Proceed("boot_disk") \/ Proceed("boot_flash")
    /\ UNCHANGED <<flashVars, script, mnt>> /\ Unaffected

(***************************************************************************)
(* boot/disk: mount by UUID if /linuxrc gave one; should that fail, mount  *)
(* whatever is at the device name.                                         *)
(***************************************************************************)
UuidReady == script.uuid # None /\ Attached(script.uuid)
MountMayFail(ready) == ready => "flaky" \in Faults \/ script.type = "nfs"

\* Mutation: the device name is tried before the UUID.
BootDiskByName ==
    /\ Booting("boot_disk")
    /\ \/ /\ at[script.device] # None
          /\ mnt' = at[script.device] /\ Proceed("check")
       \/ /\ at[script.device] = None /\ UuidReady
          /\ mnt' = script.uuid /\ Proceed("check")
       \/ /\ at[script.device] = None /\ ~UuidReady
          /\ UNCHANGED mnt /\ Proceed("boot_flash")
    /\ UNCHANGED <<flashVars, script>> /\ Unaffected

BootDisk ==
    /\ Booting("boot_disk")
    /\ \/ /\ UuidReady
          /\ mnt' = script.uuid /\ Proceed("check")
       \/ /\ MountMayFail(UuidReady)
          /\ at[script.device] # None
          /\ mnt' = at[script.device] /\ Proceed("check")
       \/ /\ MountMayFail(UuidReady) /\ MountMayFail(at[script.device] # None)
          /\ UNCHANGED mnt /\ Proceed("boot_flash")
    /\ UNCHANGED <<flashVars, script>> /\ Unaffected

\* Mutation: a root that fails the check is mounted again.
CheckRootRetried ==
    /\ Booting("check")
    /\ \/ checkmount(content[mnt]) /\ Proceed("swivel") /\ UNCHANGED mnt
       \/ Proceed("boot_disk") /\ mnt' = None
    /\ UNCHANGED <<flashVars, script>> /\ Unaffected

\* checkmount && minimaldevnodes; on failure umount /mnt and fall back.
CheckRoot ==
    /\ Booting("check")
    /\ \/ checkmount(content[mnt]) /\ Proceed("swivel") /\ UNCHANGED mnt
       \/ Proceed("boot_flash") /\ mnt' = None
    /\ UNCHANGED <<flashVars, script>> /\ Unaffected

(***************************************************************************)
(* swivel: pivot_root, then exec a shell in the new root that execs init.  *)
(* If pivot_root fails the script goes on and falls back to flash; if the  *)
(* exec fails there is no way back: process 1 blinks the LEDs and exits.   *)
(* A half copied root may or may not have what its init needs.             *)
(***************************************************************************)
Swivel ==
    /\ Booting("swivel")
    /\ \/ content[mnt] \in {"root", "half"} /\ Ends("up", mnt)
       \/ content[mnt] # "root" /\ Ends("dead", "none")
       \/ Proceed("boot_flash") /\ mnt' = None
    /\ UNCHANGED <<flashVars, script>> /\ Unaffected

\* boot/flash: exec init, or a login shell on the console without one.
BootFlash ==
    /\ Booting("boot_flash")
    /\ \/ flashinit /\ Ends("up", "flash")
       \/ ~flashinit /\ Ends("shell", "none")
    /\ UNCHANGED <<flashVars, script>> /\ Unaffected

BootStep ==
    \/ Kernel \/ RamRm \/ RamLn \/ RamMv \/ BootRam \/ BootNfs
    \/ BootDisk \/ CheckRoot \/ Swivel \/ BootFlash
=============================================================================
