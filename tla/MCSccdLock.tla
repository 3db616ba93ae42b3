----------------------------- MODULE MCSccdLock -----------------------------
(***************************************************************************)
(* Small instances of SccdLock.                                            *)
(***************************************************************************)
EXTENDS SccdLock, TLC

CONSTANTS p1, p2, p3

Procs3 == {p1, p2, p3}

\* The processes are alike.
Symmetry == Permutations(Procs3)
=============================================================================
