------------------------------ MODULE SccdLock ------------------------------
(***************************************************************************)
(* How sccd ensures that there is only one daemon: it opens and locks      *)
(* /var/run/sccd.pid, writes its process number there, and unlinks the     *)
(* file when a SIGTERM ends it.  The init script stops the process whose   *)
(* number is in the file.                                                  *)
(*                                                                         *)
(* The file is an inode, a number, which the path names; a process that    *)
(* has the file open keeps the inode after the path is gone.  The lock of  *)
(* an inode is freed when the process that has it ends.                    *)
(***************************************************************************)
EXTENDS Integers

CONSTANTS
    Proc,    \* the processes that run sccd
    None,    \* no process
    Overlap, \* whether a daemon may be stopped while another starts
    MaxFiles \* bound: the inodes

ASSUME LockAssumption == None \notin Proc /\ Overlap \in BOOLEAN /\ MaxFiles \in Nat

VARIABLES
    pc,    \* idle, open, locked, run or ending
    held,  \* held[p]: the inode p has open; 0 if none
    path,  \* the inode of /var/run/sccd.pid; 0 if there is no file
    pid,   \* the process number in that file
    fresh  \* the inodes made so far

vars == <<pc, held, path, pid, fresh>>

Init ==
    /\ pc = [p \in Proc |-> "idle"] /\ held = [p \in Proc |-> 0]
    /\ path = 0 /\ pid = None /\ fresh = 0

Goes(p, l) == pc' = [pc EXCEPT ![p] = l]

Locked(i) == \E p \in Proc : held[p] = i /\ pc[p] \in {"locked", "run", "ending"}

\* open with O_CREAT, without O_TRUNC
Open(p) ==
    /\ pc[p] = "idle" /\ Goes(p, "open")
    /\ \/ path # 0 /\ held' = [held EXCEPT ![p] = path] /\ UNCHANGED <<path, pid, fresh>>
       \/ /\ path = 0 /\ fresh < MaxFiles
          /\ fresh' = fresh + 1 /\ path' = fresh' /\ pid' = None
          /\ held' = [held EXCEPT ![p] = fresh']

\* Mutation: the result of lockf is not looked at.
LockAnyway(p) ==
    /\ pc[p] = "open" /\ Goes(p, "locked")
    /\ UNCHANGED <<held, path, pid, fresh>>

\* Mutation: a process that is not alone tries again, with the file closed.
LockRetries(p) ==
    /\ pc[p] = "open"
    /\ \/ ~Locked(held[p]) /\ Goes(p, "locked") /\ UNCHANGED held
       \/ Locked(held[p]) /\ UNCHANGED pc /\ held' = [held EXCEPT ![p] = 0]
    /\ UNCHANGED <<path, pid, fresh>>

\* lockf with F_TLOCK; a process that is not alone ends
Lock(p) ==
    /\ pc[p] = "open"
    /\ \/ ~Locked(held[p]) /\ Goes(p, "locked") /\ UNCHANGED held
       \/ Locked(held[p]) /\ Goes(p, "idle") /\ held' = [held EXCEPT ![p] = 0]
    /\ UNCHANGED <<path, pid, fresh>>

\* Mutation: only a new file is written.
WriteOnce(p) ==
    /\ pc[p] = "locked" /\ Goes(p, "run")
    /\ pid' = IF held[p] = path /\ pid = None THEN p ELSE pid
    /\ UNCHANGED <<held, path, fresh>>

Write(p) ==
    /\ pc[p] = "locked" /\ Goes(p, "run")
    /\ pid' = IF held[p] = path THEN p ELSE pid
    /\ UNCHANGED <<held, path, fresh>>

\* After a SIGTERM work_loop returns, and main unlinks whatever has the name.
Unlink(p) ==
    /\ pc[p] = "run" /\ Goes(p, "ending")
    /\ Overlap \/ \A q \in Proc : pc[q] # "open"
    /\ path' = 0 /\ pid' = None
    /\ UNCHANGED <<held, fresh>>

\* exit, or the death of the process at any point
End(p) ==
    /\ pc[p] # "idle" /\ Goes(p, "idle") /\ held' = [held EXCEPT ![p] = 0]
    /\ UNCHANGED <<path, pid, fresh>>

Next == \E p \in Proc : Open(p) \/ Lock(p) \/ Write(p) \/ Unlink(p) \/ End(p)

Spec == Init /\ [][Next]_vars

-----------------------------------------------------------------------------
\* Every variable keeps to its values.
TypeOK ==
    /\ pc \in [Proc -> {"idle", "open", "locked", "run", "ending"}]
    /\ held \in [Proc -> Nat]
    /\ \A p \in Proc : held[p] <= fresh /\ (held[p] # 0 <=> pc[p] # "idle")
    /\ path \in Nat /\ path <= fresh /\ fresh \in Nat
    /\ pid \in Proc \cup {None}

(***************************************************************************)
(* "Open and lock the pid file. Ensures only one daemon": no two processes *)
(* are past the lock, but for one that is ending.                          *)
(***************************************************************************)
OneDaemon ==
    \A p, q \in Proc : pc[p] \in {"locked", "run"} /\ pc[q] \in {"locked", "run"} => p = q

\* The init script stops the daemon that runs: its number is in the file.
PidNames == \A p \in Proc : pc[p] = "run" => pid = p
=============================================================================
