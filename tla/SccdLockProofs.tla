--------------------------- MODULE SccdLockProofs ---------------------------
(***************************************************************************)
(* There is only one sccd, whatever the processes that are started and     *)
(* killed, if none is stopped while another is starting.                   *)
(***************************************************************************)
EXTENDS SccdLock, TLAPS

Past == {"locked", "run", "ending"}

\* An inode is locked by one process.
Exclusive ==
    \A p, q \in Proc : pc[p] \in Past /\ pc[q] \in Past /\ held[p] = held[q] => p = q

\* No process that starts or runs has a file that lost its name.
Named == \A p \in Proc : pc[p] \in {"open", "locked", "run"} => held[p] = path

IInv == TypeOK /\ Exclusive /\ Named /\ PidNames

-----------------------------------------------------------------------------
(***************************************************************************)
(* Every variable keeps its type, and a process has an inode open from its *)
(* open to its end, also where stops and starts overlap.                   *)
(***************************************************************************)
THEOREM TypeCorrect == Spec => []TypeOK
  <1>1. Init => TypeOK
    BY LockAssumption DEF Init, TypeOK
  <1>2. TypeOK /\ [Next]_vars => TypeOK'
    <2> SUFFICES ASSUME TypeOK, [Next]_vars PROVE TypeOK'
      OBVIOUS
    <2> USE LockAssumption DEF TypeOK, Goes
    <2>1. ASSUME NEW p \in Proc, Open(p) PROVE TypeOK'
      BY <2>1 DEF Open
    <2>2. ASSUME NEW p \in Proc, Lock(p) PROVE TypeOK'
      BY <2>2 DEF Lock
    <2>3. ASSUME NEW p \in Proc, Write(p) PROVE TypeOK'
      BY <2>3 DEF Write
    <2>4. ASSUME NEW p \in Proc, Unlink(p) PROVE TypeOK'
      BY <2>4 DEF Unlink
    <2>5. ASSUME NEW p \in Proc, End(p) PROVE TypeOK'
      BY <2>5 DEF End
    <2>6. CASE UNCHANGED vars
      BY <2>6 DEF vars
    <2> QED
      BY <2>1, <2>2, <2>3, <2>4, <2>5, <2>6 DEF Next
  <1> QED
    BY <1>1, <1>2, PTL DEF Spec

-----------------------------------------------------------------------------
LEMMA InitHolds == Init => IInv
  BY LockAssumption DEF Init, IInv, TypeOK, Exclusive, Named, PidNames, Past

(***************************************************************************)
(* One step per action.  Unlink takes the name from the file of the one    *)
(* process that runs, while none is starting, so Named holds for no one    *)
(* else; Lock is where Exclusive could break.                              *)
(***************************************************************************)
LEMMA StepHolds == ASSUME ~Overlap, IInv, [Next]_vars PROVE IInv'
  <1> USE LockAssumption DEF IInv, TypeOK
  <1>1. ASSUME NEW p \in Proc, Open(p) PROVE IInv'
    <2>1. CASE path # 0 /\ held' = [held EXCEPT ![p] = path] /\ UNCHANGED <<path, pid, fresh>>
      BY <1>1, <2>1 DEF Open, Goes, Exclusive, Named, PidNames, Past
    <2>2. CASE path = 0 /\ fresh' = fresh + 1 /\ path' = fresh' /\ pid' = None
               /\ held' = [held EXCEPT ![p] = fresh']
      <3>1. \A q \in Proc : pc[q] \notin {"open", "locked", "run"}
        BY <2>2 DEF Named
      <3>2. TypeOK'
        BY <1>1, <2>2 DEF Open, Goes
      <3>3. Exclusive' /\ Named' /\ PidNames'
        BY <1>1, <2>2, <3>1 DEF Open, Goes, Exclusive, Named, PidNames, Past
      <3> QED
        BY <3>2, <3>3
    <2> QED
      BY <1>1, <2>1, <2>2 DEF Open
  <1>2. ASSUME NEW p \in Proc, Lock(p) PROVE IInv'
    <2>1. CASE ~Locked(held[p]) /\ Goes(p, "locked") /\ UNCHANGED held
      <3>1. TypeOK' /\ Named' /\ PidNames'
        BY <1>2, <2>1 DEF Lock, Goes, Named, PidNames
      <3>2. Exclusive'
        BY <1>2, <2>1 DEF Lock, Goes, Exclusive, Locked, Past
      <3> QED
        BY <3>1, <3>2
    <2>2. CASE Goes(p, "idle") /\ held' = [held EXCEPT ![p] = 0]
      BY <1>2, <2>2 DEF Lock, Goes, Exclusive, Named, PidNames, Past
    <2> QED
      BY <1>2, <2>1, <2>2 DEF Lock
  <1>3. ASSUME NEW p \in Proc, Write(p) PROVE IInv'
    <2>1. \A q \in Proc : pc[q] = "run" => q = p
      BY <1>3 DEF Write, Exclusive, Named, Past
    <2> QED
      BY <1>3, <2>1 DEF Write, Goes, Exclusive, Named, PidNames, Past
  <1>4. ASSUME ~Overlap, NEW p \in Proc, Unlink(p) PROVE IInv'
    <2>1. \A q \in Proc : pc[q] \in {"open", "locked", "run"} => q = p
      BY <1>4 DEF Unlink, Exclusive, Named, Past
    <2> QED
      BY <1>4, <2>1 DEF Unlink, Goes, Exclusive, Named, PidNames, Past
  <1>5. ASSUME NEW p \in Proc, End(p) PROVE IInv'
    BY <1>5 DEF End, Goes, Exclusive, Named, PidNames, Past
  <1>6. CASE UNCHANGED vars
    BY <1>6 DEF vars, Exclusive, Named, PidNames
  <1> QED
    BY <1>1, <1>2, <1>3, <1>4, <1>5, <1>6 DEF Next

(***************************************************************************)
(* The inductive invariant: a lock has one holder, the holder's file has   *)
(* the name, and the number in it is the holder's.                         *)
(***************************************************************************)
THEOREM Invariance == ASSUME ~Overlap PROVE Spec => []IInv
  BY InitHolds, StepHolds, PTL DEF Spec

\* At most one daemon is past the lock, of any number of processes.
THEOREM OnlyOne == ASSUME ~Overlap PROVE Spec => []OneDaemon
  <1>1. IInv => OneDaemon
    BY DEF IInv, Exclusive, Named, OneDaemon, Past
  <1> QED
    BY <1>1, Invariance, PTL

\* The pid file names the daemon that runs.
THEOREM StopFindsIt == ASSUME ~Overlap PROVE Spec => []PidNames
  <1>1. IInv => PidNames
    BY DEF IInv
  <1> QED
    BY <1>1, Invariance, PTL
=============================================================================
