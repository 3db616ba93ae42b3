----------------------------- MODULE MCFixFstab -----------------------------
(***************************************************************************)
(* Small instances of FixFstab.                                            *)
(***************************************************************************)
EXTENDS FixFstab

CONSTANTS u1, u2, u3, a, b, c, m1, m2

Uuids2 == {u1, u2}
Uuids3 == {u1, u2, u3}
Devs3 == {a, b, c}
Mounts1 == {m1}
Mounts2 == {m1, m2}

Fail == {"fail"}
AbsentDisk == {"absent"}
Power == {"power"}
=============================================================================
