# SlugOS, modelled in TLA+

SlugOS is a Linux distribution for small network storage boxes, among them the
NSLU2 ("slug"), whose firmware sits in a few megabytes of flash. The repository
is an OpenEmbedded tree: more than 17000 of its files say how third-party
programs are fetched, patched and built. The logic that the tree itself brings is
in

- `packages/slugos-init`: shell scripts that choose the boot device, boot, save
  and restore the configuration, and write new firmware;
- `packages/sccd`: a daemon in C that controls the LED, the fan and the power of
  an Iomega StorCenter, and its client;
- `packages/nandlogical`: a program in C that keeps logical blocks in NAND flash;
- `packages/robostix-module` and `robostix-cmdline`: a kernel driver for the pins
  between a gumstix and an AVR, with its start script and its command.

They keep state that has to survive power failures, other cables, users who edit
files, and each other. That is what these modules are about. Paths below are
relative to `src/slugos/openembedded/`, and those without a directory to
`packages/slugos-init/files/`.

## Contents

1. Components
2. Modules, and how they correspond to the code
3. Runs
4. Proofs
5. What the checks found
6. What is only model-checked, and what is left out
7. Plan

## 1. Components

| Component | State it keeps | Operations | Modules |
|---|---|---|---|
| boot choice: `turnup` | `/linuxrc`, `/linuxrc.new`, `/linuxrc.sav` in flash; a root file system on a disk or an NFS export, with its fstab and device files | `turnup flash, ram, disk, memstick, nfs` with `-i`, `-f` | SlugState, Turnup |
| boot: `boot/*`, `functions` | what is mounted on `/mnt`, the root | `/linuxrc` to `pivot_root` and init, with a fall back to flash | Boot |
| both, with power failures and users | | | SlugBoot; BootChoice is their abstract specification |
| saved configuration: `sysconf`, `initscripts/sysconfsetup` | the SysConf partition (text and archive), `/etc/default/sysconf`, the configuration files | `sysconf read, default, reload, save, restore`; `sysconfsetup start, reinit` | ConfFiles, ConfState, Sysconf |
| upgrade: `reflash` | the kernel, root and usr partitions | `reflash` with and without `-n`, `-k`, `-j` | Reflash |
| both, with boots and users | | | SlugConf |
| moved disks: `initscripts/fixfstab` | `/etc/fstab`, `/etc/uuid_by_partition` | at each boot, rename the devices that moved | FixFstab |
| StorCenter daemon: `packages/sccd` `sccd`, `scc` | two words of wanted state, the saved blink rate, sockets, the serial line, the controller | merge a client's packet, blink, refresh the controller, start a shutdown | Sccd |
| one daemon: `scc_daemonize` | `/var/run/sccd.pid` and its lock | start, stop | SccdLock |
| logical blocks: `packages/nandlogical` | the spare bytes and pages of each block of a NAND flash; the table from logical to physical blocks | `nandlogical READ, WRITE` | NandTag, NandLogical |
| AVR pins: `packages/robostix-module`, `packages/robostix-cmdline` | modes and levels of nine pins; the saved configuration of two of them; what the driver has registered | load, unload, each ioctl; `robostix.init start, stop, restart` | Robostix |
| LEDs, early network, `boot/kexec`, small init scripts, run-parts | none that lasts | | not modelled |
| build classes, build reports, recipes, contrib | of the build host | | not modelled |

How they interact. `turnup` writes the file that the next boot executes, and the
volume that it will use as root; nothing but the flash and the volume connects
the two, so an order of writes is all there is to protect them. `sysconf` and
`reflash` share the flash: `reflash` calls the functions of `sysconf` to carry
the configuration over a new image, and `sysconfsetup`, at the first boot, calls
`sysconf restore auto`. `fixfstab` runs at each boot, on the fstab that `turnup`
and the user wrote. `sccd` runs an endless loop over one socket and one serial
line; `scc` connects to the socket, or opens the same serial line. `nandlogical`
has the flash to itself while it runs, and meets what an earlier run, or a power
failure in it, left there. The robostix driver is called by the `robostix`
command and by `avrdude`, which takes it for a parallel port, and shares its
pins with the script that loads it and with a serial line.

What is hard about them:

- a power failure between any two commands of a script (`turnup`, the `/linuxrc`
  of `turnup ram`, `sysconf save`, `reflash`, `fixfstab`), or in the middle of a
  page or of the spare bytes that `nandlogical` writes;
- commands whose status nobody looks at, or which fail half way (`cpio`, `devio`,
  `mount`, `mv`, `fork`, the writes of a pipeline into a full `/tmp`);
- data from an earlier run taken for the current one: the probe file on an NFS
  export, the lists in the SysConf partition, the partition list of the last
  boot, the saved blink rate, the checksum;
- disks that change device names or are not there;
- two processes on one serial line, clients that die, answers that come late;
- one global in a driver for any number of callers, an ioctl that sleeps without
  its lock, a load that fails half way;
- what must eventually happen: the shutdown after the power switch, the refresh
  that follows a lost packet.

The properties that make each component correct are those of section 3. The
complete list of hazards, with the line where each bites and the properties
about it, is in `PROJECT.json`.

## 2. Modules, and how they correspond to the code

Every action stands for a command (or a few that nothing can come between) of a
script, or for a stretch of C between two system calls at which something else
may happen. `pc` names the place in the script. `PROJECT.json` maps each
definition to its lines. Definitions whose comment begins with "Mutation:" are
bugs on purpose: no specification uses them; each is put in the place of the
definition that follows it to make sure that a property would notice.

### Boot

**SlugState** declares what the scripts share. A boot script is its type, its
device and its UUID: `boot_rootfs` generates the text from these. A volume is
empty, holds files, a copy cut short before (`partial`) or after (`half`) the
five files that `checkmount` looks for, a root file system, or a root whose init
is a broken link. `checkmount` accepts the last three: half a copy passes for a
root, and its init may come up or die. `at` is the cabling, from device names to
volumes. `copied` is a history variable: turnup itself copied the root that it
chose last.

**Turnup**: one action per step of `turnup`: the first mount and `blkid`, the
remount of the new root, the probe of an NFS export by a file `ttt`, the check
for files, `copy_rootfs` (which may end early, or with the power, before or
after the files of `checkmount` are there), `setup_rootfs`
and `setup_fstab`, the umount, then `boot_rootfs`: write `/linuxrc.new`, keep
`/linuxrc` as `/linuxrc.sav`, and move. The exit status is computed as the
script does, dropped statuses included.

**Boot**: the kernel executes `/linuxrc`; `boot/flash`, `boot/ram`, `boot/disk`
(by UUID, then by name) and `boot/nfs`; `checkmount`; `swivel` with `pivot_root`
and exec. The script of `turnup ram` first puts back the link to `boot/flash`
with three commands that are not tested, and nor is the copy that `boot/ram`
makes: one cut short may be booted too.

**SlugBoot** composes them with power failures at any step, other cables, a user
who changes volumes, and an export whose options change. A copy that was not
umounted before a power failure may be lost in part (`dirty`), and what is left
may pass `checkmount` or not.

**BootChoice** is what the two promise together: at each moment one boot choice;
a running system may replace it in one step; a boot takes it, a choice of the ram
disk once; the boot ends in the chosen root, in flash, in a shell or, where the
root or the copy in RAM cannot start its init, in nothing. `ImplementsBootChoice` maps `linuxrc`
to the choice. The linearization point of a boot is the start of `/linuxrc`,
except for the ram script, which takes the choice by its `mv`.

### Configuration

**ConfFiles** has the pure part: which files are saved (`sysconf_save_conffiles`),
which are put back and which the user is asked about
(`sysconf_restore_conffiles`), whether it will ask (`sysconf_test_restore`), and
how `syssection` reads lists out of a text. A tree is a function from paths to
contents. One path, `system`, stands for the files that `sysconf reload` makes
from `/etc/default/sysconf` (host name, resolv.conf, interfaces and so on).

**ConfState**, **Sysconf**, **Reflash** and **SlugConf**: the partitions, the tree
in flash and that of a ram disk, and the commands. The SysConf partition is a
text (the network section and lists of files) and an archive, written one after
the other. A flash write has a moment at which the partition is torn. With the
fault `io` the text that a restore reads into the flash may fail to come there,
be replaced by the defaults, or be cut short in a full `/tmp` (`Unread`), and so
may what a save makes there (`SaveWrittenShort`); neither is noticed. `Roots` are
the roots that a boot of the instance may choose.

**FixFstab**: compare, edit, write. `/tmp` is part of the root file system, so
the `mv` of the new fstab is a rename, in one step; the `echo` into
`/etc/uuid_by_partition` is not, and leaves some of its lines when the power
fails.

### The StorCenter daemon

**Sccd** has the daemon's loop (`pc`: send, wait, read, loop, recv, blink), any
number of `scc` processes, the packets on the way in both directions, and the
controller. The two words are kept as their six fields (power, LED, rate, fan,
hot, cold), their ID and their checksum, since a refresh sends the ID and the
checksum that are in the second word and not those of the bytes. Bytes
are numbers, validation and checksum are computed. `saverate` is -1 before it is
first set; the code leaves it uninitialised, and `Junk` gives the bits that such
a value may put into the first word when `scc_setval` xors it in.
`stage` tells which `sendrecv` the daemon is in: the reset before it listens, the
first packet of `work_loop`, or a refresh. The answer to the first packet becomes
the daemon's words, whole (`ReadEnter`), and is sent back until a client changes
them; that to a refresh is only looked at (`Read`). `asked` (that answer, with
what clients asked for since), `inherited` (it reported a stop, restart or reset)
and `execs` are history variables. SIGTERM interrupts a `select` that waits for
an answer. The controller is external; it is modelled from the README of the
package. There, a checksum error and a foreign ID have no described effect, so
the model's controller takes such a packet or not; a packet it does not
understand changes nothing, and each is answered with the whole state, after a
reset with the power alone. That the switch leads to a power cut some 20 seconds later is
from there, too; time is not modelled, so the cut may come at any moment after
the switch.

**SccdLock**: the pid file as an inode with a name that can be removed while
processes have it open. `sccd -f` takes no lock and is not part of it.

### Logical blocks in NAND flash

**NandTag** is the code of the spare bytes: a logical number in a 16-bit word with
a parity bit, in three copies, of which two have to agree. Words are pairs of
bytes and are computed bit by bit: which half written words pass for a number is
the question.

**NandLogical** has one action per step of `main`: the scan, the look into the
table, the search of `add_logical` for a free block, and for a page the erase,
the spare bytes and the transfer. Addresses count pages. Flash bits go from 1 to
0 only: `Program` and `Programmed` say what a second write into the same place
leaves. A page is blank, part of the file of some command, of an older one, or
junk. The power may fail before a step and in the middle of an erase, of the
spare bytes (`TornTags`) or of a page. `failed` is a history variable: something
failed that the program reports. A flash on which two blocks have one number, or
a bad block has a valid one, is not an initial state; `OneCopy` says that none
comes about.

**LogicalFlash** is what the program promises: an array of logical blocks, some of
which are there; a WRITE alters none but those it was given, a READ none; what is
told good is in the array, or was read from it, to the last page; and a power
failure ends a command at any moment. `ImplementsStore` maps the array to what a
scan would find now (`View`), and a command is told good or bad when `main` comes
to `closeall`. A READ is atomic there though it takes many steps here, since only
it runs.

### The pins of the robostix

**Robostix**: the driver's start pin by pin, its registrations, its exit; each
ioctl that changes a pin; `robostix.init`, which writes `/proc/gpio` before and
after it loads the driver; the `robostix` command, one ioctl each; and `avrdude`
(external), which opens, claims, reads the data register once, flips bits of its
copy, and releases. An ioctl holds the big kernel lock and is one action, except
that turning the '245 on sleeps in the middle (`Warn245`, `Wake245`). A pin has a
mode (GAFR, GPDR, edges) and a latch (GPSR, GPCR); what GPLR reads of a pin that
nobody drives is any bit.

## 3. Runs

Every run passes. Bounds are the constants of the cfg.

| Run | Question | Instance |
|---|---|---|
| boot_nfs | `/linuxrc` is whole at all times (`LinuxrcIntact`), is saved before it is replaced (`KeepsReplaced`), names a root that passes `checkmount` and, if turnup copied it for this choice, one that was complete and umounted (`SelectedRootSound`); the exit status says what became of it (`ExitTells`); ram boots once (`RamOnce`); the whole implements `BootChoice` | `turnup nfs, flash, ram`, one export whose options change, any former content, power failures anywhere |
| boot_moving | the root is the volume with the UUID the user chose, wherever it is plugged in (`RootFollowsUuid`) | `turnup disk`, two disks, two names, one disk without a UUID, both with roots on them at first, a flash that may lose its init, power failures anywhere |
| boot_user | `TypeOK`; no file is overwritten unless `-i -f` (`NoOverwrite`); commands and boots end (`TurnupEnds`, `BootEnds`) | `turnup memstick, ram`; users who edit, force, break links; copies that end early, in RAM too; disks that are not ready; a flash that cannot be written |
| conf_boot | the first boot of a new image restores what `sysconf save` kept or reports it (`SavedIsBack`), and needs no terminal (`NeverAsks`) | three files, one of each kind, three images, one of the manufacturer |
| conf_keep | list and archive in the partition are of one save (`SavedTogether`); a restore that put any file back and exits with 0 has put back each file of the archive but those the user declined (`RestoreExact`); `TypeOK` | `save`, `restore`, `reload`, `reinit`, edits of one file and a removed `/etc/default/sysconf`, with the root in flash; power failures at any step, and any mount, copy, flash write and write of a save or restore into `/tmp` that fails, also half way |
| conf_upgrade | a preserving `reflash` keeps the user's files (`ConfigKept`), never writes a mounted partition (`WrittenUnmounted`), and its 0 means a whole root (`RootComplete`) | two files, an image of the root and of the kernel, with `init`, `read`, `default` and edits before and between; every mount, umount, copy and flash write may fail |
| fstab_moves | `TypeOK`; the fstab follows the partitions (`FstabFollows`), and right lines stay (`RightStays`) | three disks, three names (so swaps and cycles), two lines, edits that fail |
| sccd_service | `TypeOK`; the settings are those of the controller's first answer with what the clients asked for since, rejected packets included (`SettingsKept`); one shutdown (`OneShutdown`), for a reason and of the right kind (`ShutdownCaused`); no power cut nobody commanded, but for a stop in the first answer (`NoSuddenOff`) | two clients, one on the line directly, two starts of the daemon, one fault: a late answer, a lost packet, a killed client, a failed fork or a SIGTERM |
| sccd_power | the switch leads to a shutdown (`SoftPowerSeen`), the controller comes to do what the daemon wants (`Enacted`) | two clients through the daemon, two faults: late answers, lost packets, failed forks |
| lock_apart | `TypeOK`; at most one daemon (`OneDaemon`), and the file has its number (`PidNames`) | three processes, four inodes, deaths at any point, but no stop of a daemon while another is between its open and its lock |
| nand_blocks | `TypeOK`; no number is given to two blocks (`OneCopy`); the program is an array of logical blocks (`ImplementsStore`), so that no block changes that a WRITE was not asked for; what a WRITE wrote without complaint is what the next scan finds (`WrittenReads`); what READ reads is that, in order and without holes (`ReadExact`) | three blocks of two pages, one bad; spare bytes that are erased, spoilt, or a number in two of the three copies; a WRITE of two whole blocks whose file is a page short, a WRITE of the end of one block and the whole of the next, a READ of pages of three blocks, in any order; power failures, failing ioctls and pages |
| robo_programming | when nobody programs, the serial line is a serial line (`SerialBack`); who opens the node meets a whole driver that does not go away (`Served`); the start puts no pulse on a pin (`NoGlitch`) | one `robostix` command and one `avrdude` at a time with the script, reloads and loads that fail; pins as the boot loader may leave them |

Why the bounds are enough. The scripts handle one device, one export and one list
at a time; a second volume matters only to cabling, which boot_moving has.
A memstick differs from a disk in the name of the command alone; between them the
three boot runs give all five. Files
differ to the code by three marks, and conf_boot has one of each. Two clients are
the least with which one can come between what the daemon does with the other;
the daemon serves them one after the other, and a third only adds waiting. Two
faults let the second hit the recovery from the first. `Fds = 1` stands for the
thousand descriptors of a process: the daemon behaves the same up to the last,
and the leak is one for each dead client. `Room` and `ValidRoom` stand for the
bytes of the SysConf partition and for the 32768 that `sysconf_valid` accepts,
counted in lists. All conf runs have `Room = 1`: a second list is refused, as a
text that is too long is. With room for more the lists of earlier saves break
`SavedTogether`, which is the finding about `sysconf:540` in other words.
`MaxFiles` bounds the inodes: two are enough for two daemons.
In sccd_service and sccd_power `Junk` sets the rate only; what other bits do is
a finding (section 5). `Ctlr = 18` is the ID of a board 3.x; the theorems are for
both. sccd_power has one start of the daemon and no SIGTERM, so that the words it
enacts are those of one daemon. The commands of the sccd runs include one that is
rejected with a valid field beside the invalid one, an "advise" that the
controller turns into a request to restart, and a change of LED and rate.
Three blocks let a WRITE of two of them need a third, meet the bad one and run out
of free ones, and two pages are the least with a border inside a block and one
between blocks; the numbers above 2 and the bits of the words are the subject of
proved lemmas. `Flips` lets `avrdude` flip two of the four data bits: the one that
also switches the '245, and the one that is on a pin of the serial line; the other
two behave as the first without the '245. `BootPins` has the two extremes, all
pins inputs and all outputs with their latches high.

Deadlock is checked in all runs but those of the daemon (the sccd runs and
lock_apart). Those stop by design:
the machine goes off, all clients have had their turn, and bounds end the starts
and inodes.

Symmetry is used for the processes of SccdLock, which are interchangeable, and
only for invariants.

Fairness. `SlugBoot!FairSpec` has weak fairness of a running command and of a
boot, each one process that the kernel schedules, and of switching the power on
again; none of users, cables or failures. `Sccd!FairSpec` has weak fairness of
the daemon's next step, of each `scc` that has started, and of the controller's
taking the next packet; nobody has to press the switch or start anything, and
faults are not fair but bounded. The daemon's steps are enabled only where the
system call returns: `Read` waits for an answer without limit, as the code does.
`SoftPowerSeen` and `Enacted` are excused by a machine that is off or a daemon
that ended.

Each property of a passing run has a mutant in `PROJECT.json`: a change to a
mapped definition that a slip in the code could make, under which TLC finds the
property violated.

## 4. Proofs

TLAPS checks the following for all values of the constants that satisfy the
named assumptions (disjoint names, subsets of the known faults, bytes that are
bytes). There is a proof module for each component, two for the NAND blocks. They
hold nothing that TLC does not check on small instances first, except the
strengthenings. The type invariant of every component is proved without further
conditions.

**SlugBootProofs.** `Invariance` is the inductive invariant `IInv`: types;
`/linuxrc` is a script; what the command line must be at each `pc` (`CommandOK`);
`/linuxrc.new` is a whole script at each `pc` at which it may still be moved over
`/linuxrc`, in `turnup` and in the ram script (`NewReady`); and what is mounted
in a boot (`BootOK`). Without `NewReady` the step that moves cannot be shown to
preserve `LinuxrcIntact`. From it follow `TypeCorrect`, `BootScriptIntact`
(`LinuxrcIntact`) and `ReplacedIsKept` (`KeepsReplaced`). With a second
invariant about what a command still owes (`/linuxrc` is as before until the
move, and is the new script after it) follows `ExitTruthful` (`ExitTells`): an exit
with 1 has left the choice alone, an exit with 0 of `turnup flash` or `ram` has made
it. `NothingOverwritten`
(`NoOverwrite`) follows from `Licensed`: without `-f` there is nothing but a
beginning of the copy on a volume that `cpio` writes. `NothingIsRetried` counts
what is left of a command and of a boot (`TurnupLeft`, `BootLeft`): each of their
steps leaves less, and no other step leaves more of one that has begun. It is the
part of `TurnupEnds` and `BootEnds` that needs no fairness. All faults are allowed in
these. The others name the faults they leave out:

- `Taking` (the ram script runs with `/linuxrc` in place until its mv) gives
  `RamIsForOnce` (`RamOnce`) and `ChoiceImplemented`, the refinement of BootChoice,
  on a flash that can be written (`NoBootWrite`). `StepImplements` maps each step
  to a step of BootChoice or to none: the choice is taken by the kernel, or for ram
  by the mv; every later step of the boot ends it or leaves it.
- `Followed` gives `UuidFollowed` (`RootFollowsUuid`) for disks that are ready when
  they are mounted (`DisksReady`): for a disk that is not, `boot/disk` tries the
  device name. Cables change only while the power is off.
- `RootGood` gives `SelectionSound` (`SelectedRootSound`) while nobody edits
  volumes, forces, or spoils the flash root, and no copy ends early without a word
  (`NobodyMeddles`): the volume is good (it passes `checkmount`, with no write
  outstanding) from the umount on, and whole where `-i` was given; a status of 0 is
  not had before, and neither a copy nor a power failure touches a good volume. It
  needs all three parts: that UUID, mount and script mean one volume (`Named`), how
  good it is at each `pc` (`Earned`), and the same of the one `/linuxrc` names.
- `Followup`, with `RootGood`, gives `BootDiesAsFound` (`DiesAsFound`) where the
  cables stay too (`NothingElseMoves`): a boot that dies does so on a root that was
  on its volume before turnup chose it, half a copy or a link that leads nowhere,
  never on one that turnup copied for this choice. Disks may be not ready.

The refinement and `UuidFollowed` tell volumes from the other roots, so
`SlugAssumption` says that no volume is called "flash", "ram" and so on.

**SlugConfProofs.** `TypeCorrect` is the inductive invariant `IInv`: types, and
`Named`, which command can be at which `pc`. The first five theorems about commands each
have an invariant that says, `pc` by `pc`, what has been achieved so far:
`Released` (when `reflash` comes to a partition, the temporary mount is gone) for
`NeverWrittenMounted` (`WrittenUnmounted`), which assumes that `reflash -n` is not
given, and the finding shows that it must; `Flashed` (a root partition that was
passed is the image) for `RootIsComplete` (`RootComplete`); `NobodyAsked` (after
`sysconf_test_restore` an automatic restore has no file to ask about) for
`NobodyIsAsked` (`NeverAsks`); `KInv` for `ConfigIsKept` (`ConfigKept`): each file
that the user had changed is in the flash until the root is written, is in `$saved`
from before that until `cpio` has copied it, and a changed file always counts as
newer than the image, which is what makes the save find it; and `Restoring`
(once there is a list, each file of the archive is in `$saved` until it is in the
flash, or is among those reported as left) for `RestoreIsExact` (`RestoreExact`):
all or nothing, whatever fails. That it is nothing when the list cannot be read is
a finding (`RestoreDone`). `Released` also gives `RunningRootStays`
(`RunningRootKept`), with `-n` or without: what `-n` may write while it is mounted is
never the root that runs. All faults are allowed, and any number of
files, images and lists. `SavedAsOne` (`SavedTogether`) assumes that one list fits
(`OneList`), as in the runs: with two, a restore follows the older, which is a
finding. Its invariant `Bundled` is that a save has a copy of each file of its
list and does not write before the text is known to fit. `Packed`, which follows
the lists of the text through a save, gives `ArchiveOfLast` (`ArchiveIsLast`) for any
number of lists: the archive always belongs to the last of them. `RestoredOrTold` (`SavedIsBack`) assumes
`FirstBoots`: neither the power nor an input or output fails, and the user edits,
saves, reads the network section, takes the defaults, runs `sysconfsetup reinit` and
`reflash -n`, or writes a kernel (`reload` would remove the warning, in a `restore`
the user may decline a file, and a `reflash` that preserves restores what it saved
itself). Partial writes are
allowed. `BInv` says that a running flash root has a sysconf file (`Configured`:
this is what makes the guard of `sysconfsetup` right) and, for each `pc`, that the
user's files of the archive are in the flash, or in `$saved` and still to be
copied (`Returned`). It uses `NobodyAsked`: a file nobody could be asked about
would be left out silently.

**FixFstabProofs.** Of which list the fstab is a picture (`current`): of the one
in the file until the edit, of the new one after it. `FstabIsRight`
(`FstabFollows`) and `NothingSpoiled` (`RightStays`) hold for any number of
disks, names and lines if no disk is missing and the power does not fail in the
script (`OnlyFail`); both exceptions are findings. `TypeCorrect` needs neither.

**SccdLockProofs.** An inode is locked by one process at a time, and every process
that is past the open has the inode that the path names, unless it is ending.
`OnlyOne` (`OneDaemon`) and `StopFindsIt` (`PidNames`) follow if daemons are not
stopped while others start (`~Overlap`); the exception is a finding.

**SccdProofs.** `TypeCorrect` (the count of leaked descriptors stays in bounds
because the daemon accepts only with one to spare). `PowerStays` (`NoSuddenOff`):
a hard power command in the daemon's words, in a packet on the line or executed
by the controller goes back to a client's command, which a client keeps, or to a
first answer that reported it (`inherited`).
It assumes `JunkRate`: an uninitialised rate spoils only the rate.
`SettingsStay` (`SettingsKept`), whose invariant is the property itself with the
types: the words and `asked` start from one answer, they differ in what the
blinking changes only, so a merged packet is valid for both or for neither, and a
rejected one leaves no trace.
It assumes `JunkRate` and that nobody asks for a 0 (`NonZero`). Both assumptions
are necessary, as the findings show. `SumsRight` (`ChecksumRight`) follows the ID
and the checksum through the answers too: what the daemon inherits from the first
is signed by the controller. `ShutdownOnce` (`OneShutdown`).
`ShutdownForCause` (`ShutdownCaused`) assumes `JunkRate`. Its invariant `CInv` is about
two sets of power bytes, those that end in a halt and those that end in a reboot:
unless the switch or a client is a cause for one of a set, none of that set is in the
words, on the line either way, or in the controller, and no program was started for
it. So an answer may be as late as it likes. `NothingHoldsIt` (`NeverStuck`) is the
part of `SoftPowerSeen` and `Enacted` that needs no fairness: where all clients ask
the daemon and none is killed (`NobodyKilled`), a `read` finds what `select` saw, the
client whose packet is awaited will send it, and no descriptor is lost.

**NandProofs.** About the code of the numbers: `TagRoundTrip` (a number up to 447 is
read as it was written, and the partition has 448 blocks at most) and
`TornTagHarmless` (half written spare bytes are nobody's number or the right one).
The invariant `IInv` of the program adds to the types and `OneCopy`: where `main` is
(`Where`), that the table has every block with a number (`Found`), and that it is
right for the blocks still ahead of `main` (`Ahead`). Without `Found` the search for
a free block could not be shown to miss nobody's number; `Ahead` holds only for
what is ahead, because a WRITE that did not start with a block leaves the block it
added without one. `OneCopyHolds` (`OneCopy`) and `NeighboursAreKept`
(`NeighboursKept`) follow, for scans that leave no block out (`NoScanFault`); what
happens otherwise is at the end of section 5.

**NandWriteProofs.** `WrittenIsRead` (`WrittenReads`), from `WInv`: the pages that a
WRITE has passed are there (`Filled`), and the rest of the block in hand is blank
and the block has its number (`Rest`). `ReadIsExact`
(`ReadExact`), from `Reading`: a READ changes nothing, so its table is at every
step the scan of the flash as it is. `StoreImplemented` is the refinement of
LogicalFlash (`ImplementsStore`), step by step: a step that alters the flash alters at
most the block that `main` is at (`StepAlters`, from `NeighboursAreKept`), the step to
`closeall` gives the answer, for a WRITE with `Filled` and for a READ with `Reading`
(`WriteEnds`, `ReadEnds`), and all others are steps of `Work` or none (`StepStores`).
`NoScanFault` is assumed for these three, and for the last two that the file of a
READ takes what is written to it (`FileHasRoom`): the code does not ask.

**RobostixProofs.** `Typed`; `AlwaysServed` (`Served`) from `Loading`: what is
registered at each point of a load, and that a file is open only while the driver
is loaded; `NeverGlitches` (`NoGlitch`) from `Ready` and the fact that nobody else
does anything while the driver starts (`AloneInInit`). `SerialIsBack`
(`SerialBack`) is the one that needs an argument: what is saved is a serial
configuration while somebody has the pins, and the pins have it while nobody has
(`Lent`). It assumes one `avrdude` (`OneProgrammer`) that nobody kills
(`NotKilled`), both of which are findings, and that `/proc/gpio` takes what
`robostix.init` writes (`GpioWritten`), which the script does not ask.

**Causes.** For some of the properties that section 5 shows violated, a theorem
says that what is named there is the only way to violate them: take it away, and the
property holds for any instance and all other faults.

| Property | The cause taken away | Theorem |
|---|---|---|
| `DiskFallsBack` | a root that turnup did not copy for this choice (`NothingElseMoves`) | `BootDiesAsFound` |
| `SelectedRootSound` | edits, `-f`, copies that end early without a word (`NobodyMeddles`) | `SelectionSound` |
| `RamOnce` | a flash that cannot be written in a boot (`NoBootWrite`) | `RamIsForOnce` |
| `AllComplete` | a write that fails (`NoWriteFails`) | `EverythingWritten` |
| `SavedListCounts` | room for the list of another save (`OneList`), a full `/tmp` (`TmpHasRoom`) | `LastListCounts` |
| `SavedIsValid` | room for more than a restore accepts (`Room <= ValidRoom`), a full `/tmp` (`TmpHasRoom`) | `SavedAccepted` |
| `FstabFollows`, `RightStays` | power failures, missing disks, a list that is not written whole (`OnlyFail`) | `FstabIsRight`, `NothingSpoiled` |
| `ChecksumRight` | a blue LED, which blinks (`NoBlue`) | `SumsRight` |
| `ResetIsReset` | a client on the serial line (`ThroughDaemon`) | `ResetsRight` |
| `NoSuddenOff` | a saved rate that spoils the power byte (`JunkRate`) | `PowerStays` |
| `SettingsKept` | the same, and a 0 in a packet (`NonZero`) | `SettingsStay` |
| `OneDaemon` | a stop while another daemon starts (`~Overlap`) | `OnlyOne` |
| `OnlyUsersCommand` | a first answer with a stop (`inherited`), and the same rate (`JunkRate`) | `PowerStays` |
| `SerialBack` | two claims, a killed `avrdude`, a pin not written (`GpioWritten`) | `SerialIsBack` |

## 5. What the checks found

In each of these the code contradicts a text of the repository, which
`PROJECT.json` quotes. The instance is a cfg of the module its name begins with,
kept to reproduce the finding, or the cfg of a run with one or two constants
changed; the property has to be put in the place of the run's own. `tlc -config
<cfg> <module>` ends with the violation, and the counterexample is the argument.

| Instance | Property | What happens |
|---|---|---|
| MCSlugBoot_v_success | `SuccessInstalls` | `turnup disk` exits with 0 though `boot_rootfs` failed and `/linuxrc` is the old one (`turnup:650`) |
| MCSlugBoot_v_fstab | `FstabNamesRoot` | it exits with 0 for a root whose fstab has no line for `/` (`turnup:629`) |
| run boot_nfs as it is | `RefusalTruthful` | a probe file left by a refused attempt makes every later one be refused (`turnup:760`) |
| run boot_nfs, `Faults <- WriteFaults` | `RamOnce` | on a flash that cannot be written, "boot once" boots the ram disk for ever (`turnup:502`) |
| MCSlugBoot_v_falls | `DiskFallsBack` | a root whose init is a broken link passes `checkmount`, and the boot dies (`functions:180`) |
| run boot_nfs as it is | `FoundRootWhole` | half a copy, cut short by the power, passes `checkmount`: a later turnup without `-i` selects it with 0 (`functions:172`) |
| run boot_nfs, `Faults <- ShortCopy` | `SelectedRootSound` | a `find` that dies in the pipeline of the copy goes unseen: turnup selects the partial copy with 0 (`turnup:246`) |
| run conf_boot, `Faults <- Power` | `SavedIsBack` | a power failure in the first boot's restore: no later boot restores, and none says so (`initscripts/sysconfsetup:25`) |
| run conf_boot, `Commands <- MinusN` | `WrittenUnmounted` | `reflash -n` writes the root partition while it is mounted (`reflash:376`) |
| MCSlugConf_v_complete | `AllComplete` | `reflash` ends with 0 after half a kernel (`reflash:504`) |
| MCSlugConf_v_lists | `SavedListCounts` | `sysconf save` keeps the lists of earlier saves, and a restore follows the oldest (`sysconf:540`) |
| MCSlugConf_v_valid | `SavedIsValid` | `sysconf save` reports success for a text that a restore refuses (`sysconf:553`) |
| run conf_keep as it is | `RestoreDone` | a restore that cannot read the list into the flash, or through a full `/tmp`, restores no file and exits with 0 (`sysconf:650`) |
| MCFixFstab_v_power | `FstabFollows` | a power failure between the fstab and the list: the next boot renames again (`initscripts/fixfstab:89`) |
| MCFixFstab_v_absent | `RightStays` | a disk that was away comes back to a line that was right, and the line is renamed (`initscripts/fixfstab:46`) |
| MCSccd_v_early | `SoftPowerSeen` | an `scc` that runs before the daemon listens takes its answer, and the daemon blocks for ever (`sccd.c:111`) |
| run sccd_power, `Faults <- Kill`, `MaxFaults = 1` | `SoftPowerSeen` | clients that die before they send use up the descriptors; then the controller is not refreshed any more (`sccd.c:227`) |
| run sccd_power as it is | `OnlyUsersCommand` | the first answer of the controller becomes the daemon's words: a switch pressed while the daemon starts goes back as a command, and the power goes before the halt (`sccd.c:327`) |
| MCSccd_v_sum | `ChecksumRight` | blinking changes the first word after the checksum was computed (`sccd.c:374`) |
| MCSccd_v_rate | `RateRestored` | a rate set while the LED blinks is lost when it stops (`sccd.c:375`) |
| MCSccd_v_junk | `NoSuddenOff` | `scc -l blueflash` as the first command: a rate that was never saved goes into the word with the power byte (`sccd.c:375`) |
| MCSccd_v_zero | `SettingsKept` | a temperature or rate of 0 is taken for "not sent" (`sccd.c:250`) |
| MCSccd_v_reset | `ResetIsReset` | `scc` on the line sends a reset with a wrong third byte (`scc.c:230`) |
| run lock_apart, `Overlap = TRUE` | `OneDaemon` | the pid file is unlinked under a process that is about to lock it: two daemons (`sccd.c:520`) |
| run nand_blocks, `Faults <- NoFaults` | `AnyWriteReads` | a WRITE that starts inside a block nobody has written yet ends with 0, and no READ finds its pages (`nandlogical.c:327`) |
| run robo_programming, `Faults <- NoFaults` | `LevelBack` | PPRELEASE sets a pin that was low and clears one that was high (`robostix.c:381`) |
| run robo_programming, `Programmers <- TwoAvrs`, `Faults <- NoFaults` | `SerialBack` | the second of two claims saves what the first has made, and the serial line is gone (`robostix.c:927`) |
| run robo_programming, `Faults <- Killed` | `SerialBack` | the close of a killed `avrdude` restores nothing (`robostix.c:995`) |
| run robo_programming, `Faults <- NoFaults` | `WarnedOff` | the warning before the '245 goes off is given when it goes on (`robostix.c:696`) |
| run robo_programming as it is | `NothingLeft` | a load that fails late leaves what it had registered (`robostix.c:542`) |

Run nand_blocks with `Bad <- NoBad` and `Faults <- ScanFault` violates `OneCopy` and
`WrittenReads`: a block whose spare bytes the scan cannot read is left out without a
word, and WRITE makes a second block with its number (`nandlogical.c:147`). No text
of the repository says otherwise, so it is listed as a hazard only.

Three more observations that no run states. Until a client's packet is accepted
the daemon's refreshes carry the controller's ID and checksum, and after an answer
to the reset that came late, whose other bytes are 0, a client's packet is rejected
unless it sets both the LED and the fan. The comment at `sccd.c:315` speaks of
a blue LED in runlevel 5; `runlevel()` is compiled out. And a restarted daemon
forgets all settings: they are in memory only.

## 6. What is only model-checked, and what is left out

Liveness (`TurnupEnds`, `BootEnds`, `SoftPowerSeen`, `Enacted`) stays with TLC:
the prover handles neither fairness nor ENABLED. Of each, the part that is safety is
proved: `NothingIsRetried`, that commands and boots have an end to come to, and
`NothingHoldsIt`, that the daemon is nowhere kept waiting. Every safety property of the runs
is proved, some under the assumptions that section 4 names; where a run leaves such
an assumption out, the property is checked on that instance only. Nothing here
needs induction over data or RECURSIVE operators.

Left out of the modelled components, with the reason:

- `turnup init` but for its network part: a dialogue; RAID assembly: its arrays
  are made by `mdadm`; `boot/kexec`: not installed by the recipe;
- `sysconfsetup reload`, which is a `read` or a `default` followed by a `reload`,
  all of which are modelled; symbolic links among configuration files, files
  marked `ignore`, a `mkdir` in `/tmp` that fails; a full `/tmp` or flash in `sysconf
  read`, `default` and `reload` run as commands, and in the `read` of the init
  script (in a save and a restore it is modelled). Run conf_keep boots from flash
  only; the theorems are for both roots;
- `reflash` before the first umount (arguments and sizes), its verify pass (only
  warns);
- in `sccd`: warnings, verbose output, the disk counters themselves (after its
  first call `disk_activity` may answer either way), failures of system calls
  other than accept, fork and the silence of the controller;
- in `nandlogical`: the checks of the arguments and of the sizes of the device,
  which come before anything is done; a last page that the file fills in part;
  the spare bytes of a block's later pages, which no scan reads; two processes on
  one flash; addresses past the partition;
- in no run, though modelled: the list of `fixfstab` that is not written whole
  (`list`), the file of a READ that is full (`file`), a `/proc/gpio` that cannot be
  written (`gpio`). Nobody looks at any of the three, and each breaks what the
  program is for at once: `FstabFollows`, `ReadExact`, `SerialBack`;
- in the robostix driver: the ioctls that only read a pin, that do nothing, or
  that are refused for their arguments; the `|=` with which the driver writes
  GPSR and GPCR, registers that read as 0, so that it sets what it says; `sertest`,
  which copies bytes; what `/proc/gpio` and `avrdude` do beyond their part here;
- time. The model has no clock: a timeout may come whenever no answer is there,
  and, as a fault, when one is on its way. `init-sccd restart`, which sleeps one
  second, is not modelled for that reason;
- two commands at once (two `turnup`, two `sysconf`): they share files in `/tmp`
  and take no lock, and what two interleaved `find`, `awk` and `cpio` would see of
  those depends on these programs. Users and scripts run them one at a time.

### Not modelled

- LEDs, `syslog`, `umountinitrd`, `rmrecovery`, `modules`: scripts of a few lines
  that write one pattern to sysfs, rewrite one file or call one program, and keep
  no state that another step depends on; a model would restate them.
- The network before the root is mounted (`boot/network`, `udhcpc.script`): what
  it does is done by `udhcpc` and `ifup`, which are not in the repository.
  boot_nfs takes the network as there or not, which is all `boot/nfs` asks of it.
- The build classes, the clients that report builds, and contrib are parts of the
  build host and depend on bitbake or web services, neither of which is here.
- Nearly all of the C, C++ and header lines of the tree lie beside recipes below
  `openembedded/packages`: drivers and headers of other projects, pictures and
  firmware as arrays, single files that replace one of a program whose source is
  fetched when it is built. They are no part of a system that can be run from this
  tree, and none of them has a specification in it. The recipes and patches are
  instructions to bitbake. What the models cover is the code with logic of its own
  that is here as a whole.

## 7. Plan

The order of the work, with the most important behaviour first:

1. the boot choice: SlugState, Turnup, Boot, SlugBoot, BootChoice, with proofs
   (done);
2. the configuration: ConfFiles, ConfState, Sysconf, Reflash, SlugConf, with proofs
   (done);
3. moved disks: FixFstab, with proofs (done);
4. the StorCenter daemon: Sccd, SccdLock, with proofs (done);
5. logical blocks in NAND flash: NandTag, NandLogical, with proofs (done);
6. the robostix driver: Robostix, with proofs (done);
7. theorems that the causes named in the findings are the only ones, the refinement
   of LogicalFlash, and the safety part of the liveness properties (done, section 4);
8. an abstract specification of what `sysconf save` and `restore` promise together,
   with its refinement, and `SavedIsBack` also for a `restore`, a `reload` and a
   `reflash` that preserves, with the cases that remove the warning named;
9. a second `turnup` and a second `sysconf` at the same time.
