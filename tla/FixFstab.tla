------------------------------ MODULE FixFstab ------------------------------
(***************************************************************************)
(* /etc/init.d/fixfstab.  Disks come up under other device names when they *)
(* are plugged in elsewhere.  At each boot the script compares the list of *)
(* partitions and UUIDs that blkid gives with the one it kept in           *)
(* /etc/uuid_by_partition at the boot before, renames in /etc/fstab the    *)
(* devices whose partition has moved, and keeps the new list.              *)
(*                                                                         *)
(* A list gives each UUID its device, or None.  Every partition has a UUID *)
(* of its own.                                                             *)
(***************************************************************************)
EXTENDS Naturals, FiniteSets

CONSTANTS
    Uuid,    \* the partitions, by UUID
    Dev,     \* device names
    Mount,   \* mount points that may have a line in /etc/fstab
    None,    \* no device, no UUID, no exit status
    Faults   \* the faults this instance may suffer

FaultKinds ==
    {"fail",     \* the awk that edits the fstab, or the mv, fails
     "list",     \* the echo of the list fails half way
     "absent",   \* a disk is not plugged in at some boot
     "power"}    \* the power fails during the script

ASSUME FstabAssumption ==
    /\ None \notin Dev \cup Uuid
    /\ None \notin {0, 1}
    /\ Faults \subseteq FaultKinds

VARIABLES
    where,    \* where[u]: the device name of u, or None if it is not there
    fstab,    \* fstab[m]: the device that the line of m names, or None
    pfile,    \* /etc/uuid_by_partition; without the file, no line
    newlist,  \* the list of the running script
    pc, exit, \* the running script
    power,
    wants     \* ghost: the partition the user wants at m, or None

vars == <<where, fstab, pfile, newlist, pc, exit, power, wants>>

List == [Uuid -> Dev \cup {None}]
NoList == [u \in Uuid |-> None]

Cabling(a) == \A u, v \in Uuid : a[u] = a[v] /\ a[u] # None => u = v

Init ==
    /\ where \in List /\ Cabling(where)
    /\ fstab = [m \in Mount |-> None] /\ wants = [m \in Mount |-> None]
    /\ pfile = NoList /\ newlist = NoList
    /\ pc = "idle" /\ exit = None /\ power = "off"

-----------------------------------------------------------------------------
\* The script starts, with the current list.
PowerOn ==
    /\ power = "off" /\ power' = "up"
    /\ newlist' = where
    /\ pc' = "compare" /\ exit' = None
    /\ UNCHANGED <<where, fstab, pfile, wants>>

PowerOff ==
    /\ power = "up" /\ power' = "off"
    /\ pc = "idle" \/ "power" \in Faults
    /\ pc' = "idle" /\ exit' = None /\ newlist' = NoList
    /\ UNCHANGED <<where, fstab, pfile, wants>>

\* Other cables, or a new disk, while the power is off.
Recable ==
    /\ power = "off"
    /\ \E a \in List :
          /\ Cabling(a)
          /\ \A u \in Uuid : where[u] # None => a[u] # None \/ "absent" \in Faults
          /\ where' = a
    /\ UNCHANGED <<fstab, pfile, newlist, pc, exit, power, wants>>

(***************************************************************************)
(* The user writes the line of m, or removes it.  A user who finds that    *)
(* fixfstab failed reboots before editing the file.                        *)
(***************************************************************************)
EditFstab ==
    /\ power = "up" /\ pc = "idle" /\ exit = 0
    /\ \E m \in Mount, u \in {v \in Uuid : where[v] # None} \cup {None} :
          /\ fstab' = [fstab EXCEPT ![m] = IF u = None THEN None ELSE where[u]]
          /\ wants' = [wants EXCEPT ![m] = u]
    /\ UNCHANGED <<where, pfile, newlist, pc, exit, power>>

-----------------------------------------------------------------------------
\* changedlist: the partitions that are in both lists, under two names.
changedlist(old, new) ==
    {u \in Uuid : old[u] # None /\ new[u] # None /\ old[u] # new[u]}

\* The two awk scripts: the new name of device d, if its partition moved.
NewName(old, new, d) ==
    IF \E u \in changedlist(old, new) : old[u] = d
    THEN new[CHOOSE u \in changedlist(old, new) : old[u] = d]
    ELSE d

Edited(old, new, tab) ==
    [m \in Mount |-> IF tab[m] = None THEN None ELSE NewName(old, new, tab[m])]

\* Mutation: a later list is kept only when the fstab was changed.
CompareKeepsList ==
    /\ power = "up" /\ pc = "compare"
    /\ \/ /\ newlist # pfile /\ pfile = NoList
          /\ pc' = "write" /\ UNCHANGED exit
       \/ /\ Edited(pfile, newlist, fstab) # fstab
          /\ pc' = "edit" /\ UNCHANGED exit
       \/ /\ newlist = pfile \/ pfile # NoList
          /\ Edited(pfile, newlist, fstab) = fstab
          /\ pc' = "idle" /\ exit' = 0
    /\ UNCHANGED <<where, fstab, pfile, newlist, power, wants>>

\* Equal lists end the script; if no line is to change, there is no edit.
Compare ==
    /\ power = "up" /\ pc = "compare"
    /\ \/ newlist = pfile /\ pc' = "idle" /\ exit' = 0
       \/ /\ newlist # pfile
          /\ pc' = (IF Edited(pfile, newlist, fstab) # fstab THEN "edit" ELSE "write")
          /\ UNCHANGED exit
    /\ UNCHANGED <<where, fstab, pfile, newlist, power, wants>>

\* Mutation: a failed edit does not end the script.
EditGoesOn ==
    /\ power = "up" /\ pc = "edit"
    /\ fstab' = Edited(pfile, newlist, fstab) \/ ("fail" \in Faults /\ fstab' = fstab)
    /\ pc' = "write"
    /\ UNCHANGED <<where, pfile, newlist, exit, power, wants>>

\* Mutation: the script exits with the status of awk.
EditKeepsStatus ==
    /\ power = "up" /\ pc = "edit"
    /\ \/ /\ fstab' = Edited(pfile, newlist, fstab)
          /\ pc' = "write" /\ UNCHANGED exit
       \/ /\ "fail" \in Faults
          /\ pc' = "idle" /\ exit' = 2 /\ UNCHANGED fstab
    /\ UNCHANGED <<where, pfile, newlist, power, wants>>

\* awk into /tmp, then mv, which replaces the fstab in one step; or exit 1
Edit ==
    /\ power = "up" /\ pc = "edit"
    /\ \/ /\ fstab' = Edited(pfile, newlist, fstab)
          /\ pc' = "write" /\ UNCHANGED exit
       \/ /\ "fail" \in Faults
          /\ pc' = "idle" /\ exit' = 1 /\ UNCHANGED fstab
    /\ UNCHANGED <<where, pfile, newlist, power, wants>>

\* echo "$newlist" >"$pfile": at first only some lines are in the file.
Write ==
    /\ power = "up" /\ pc = "write"
    /\ \E lines \in SUBSET Uuid :
          pfile' = [u \in Uuid |-> IF u \in lines THEN newlist[u] ELSE None]
    /\ pc' = "writing"
    /\ UNCHANGED <<where, fstab, newlist, exit, power, wants>>

\* Nobody asks whether the echo has failed.
Written ==
    /\ power = "up" /\ pc = "writing"
    /\ pfile' = newlist \/ ("list" \in Faults /\ pfile' = pfile)
    /\ pc' = "idle" /\ exit' = 0
    /\ UNCHANGED <<where, fstab, newlist, power, wants>>

Next ==
    \/ PowerOn \/ PowerOff \/ Recable \/ EditFstab
    \/ Compare \/ Edit \/ Write \/ Written

Spec == Init /\ [][Next]_vars

-----------------------------------------------------------------------------
\* Every variable keeps to its values, and no name is given to two disks.
TypeOK ==
    /\ where \in List /\ Cabling(where)
    /\ fstab \in [Mount -> Dev \cup {None}]
    /\ wants \in [Mount -> Uuid \cup {None}]
    /\ pfile \in List /\ newlist \in List
    /\ pc \in {"idle", "compare", "edit", "write", "writing"}
    /\ exit \in {None, 0, 1}
    /\ power \in {"off", "up"}

Right(m) == wants[m] # None => fstab[m] = where[wants[m]]

(***************************************************************************)
(* After a fixfstab that ended with 0, each line of the fstab names the    *)
(* partition the user wants there, if it is plugged in.                    *)
(***************************************************************************)
FstabFollows ==
    power = "up" /\ pc = "idle" /\ exit = 0 =>
        \A m \in Mount : wants[m] # None /\ where[wants[m]] # None => Right(m)

(***************************************************************************)
(* The script never renames the device of a line that is right.            *)
(***************************************************************************)
RightStays == [][pc = "edit" => \A m \in Mount : Right(m) => Right(m)']_vars
=============================================================================
