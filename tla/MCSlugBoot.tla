----------------------------- MODULE MCSlugBoot -----------------------------
(***************************************************************************)
(* Small instances of SlugBoot.  A disk partition v1 with a UUID, v2       *)
(* without one, and an NFS export v3.                                      *)
(***************************************************************************)
EXTENDS SlugBoot

CONSTANTS v1, v2, v3, d1, d2, n1

OneDisk == {v1}
TwoDisks == {v1, v2}
OneExport == {v3}
WithUuid == {v1}
NoUuids == {}

Name1 == {d1}
Names2 == {d1, d2}
Exports1 == {n1}
NoNames == {}

MemKinds == {"ram", "memstick"}
NfsKinds == {"flash", "ram", "nfs"}
PlainKinds == {"flash", "disk"}
DiskOnly == {"disk"}

JustEmpty == {"empty"}
AnyContent == {"empty", "files", "root"}
Ready == {"root"}

NoFaults == {}
MovingFaults == {"recable", "no_init"}
UserFaults == {"edit", "dangling", "force", "short_copy", "boot_write", "flaky"}
LinkFaults == {"edit", "dangling"}
WriteFaults == {"boot_write"}
ShortCopy == {"short_copy"}
=============================================================================
