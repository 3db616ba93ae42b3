--------------------------- MODULE FixFstabProofs ---------------------------
(***************************************************************************)
(* What fixfstab promises, proved for any partitions, device names and     *)
(* mount points, when every disk it has seen stays plugged in and the      *)
(* power does not fail during the script (MCFixFstab shows what happens    *)
(* otherwise).                                                             *)
(*                                                                         *)
(* The inductive invariant says of which list the fstab is a picture: of   *)
(* the one in the file until it is edited, then of the new one.            *)
(***************************************************************************)
EXTENDS FixFstab, TLAPS

OnlyFail == Faults \subseteq {"fail"}

\* The list the fstab agrees with.
current == IF pc \in {"write", "writing"} THEN newlist ELSE pfile

IInv ==
    /\ TypeOK
    /\ Cabling(pfile)
    /\ \A m \in Mount :
          wants[m] # None => /\ fstab[m] = current[wants[m]]
                             /\ current[wants[m]] # None
    /\ \A u \in Uuid : pfile[u] # None => where[u] # None
    /\ power = "up" => newlist = where
    /\ pc # "idle" => power = "up"
    /\ power = "up" /\ pc = "idle" /\ exit = 0 => pfile = where

-----------------------------------------------------------------------------
(***************************************************************************)
(* The awk scripts rename the device of a partition to the one it has now, *)
(* when no two partitions shared a name in the old list.                   *)
(***************************************************************************)
LEMMA NewNameFollows ==
    ASSUME NEW old \in List, NEW new \in List, Cabling(old),
           NEW u \in Uuid, old[u] # None, new[u] # None
    PROVE  NewName(old, new, old[u]) = new[u]
<1>1. \A v \in changedlist(old, new) : old[v] = old[u] => v = u
  BY DEF Cabling, changedlist
<1>2. CASE u \in changedlist(old, new)
  <2>1. \E v \in changedlist(old, new) : old[v] = old[u]
    BY <1>2
  <2>2. (CHOOSE v \in changedlist(old, new) : old[v] = old[u]) = u
    BY <1>1, <2>1
  <2> QED
    BY <2>1, <2>2 DEF NewName
<1>3. CASE u \notin changedlist(old, new)
  <2>1. ~ \E v \in changedlist(old, new) : old[v] = old[u]
    BY <1>1, <1>3
  <2>2. old[u] = new[u]
    BY <1>3 DEF changedlist
  <2> QED
    BY <2>1, <2>2 DEF NewName
<1> QED
  BY <1>2, <1>3

\* The new name is a device name.
LEMMA NewNameType ==
    ASSUME NEW old \in List, NEW new \in List, NEW d \in Dev
    PROVE  NewName(old, new, d) \in Dev
<1>1. CASE \E v \in changedlist(old, new) : old[v] = d
  <2> DEFINE v == CHOOSE w \in changedlist(old, new) : old[w] = d
  <2>1. v \in changedlist(old, new)
    BY <1>1
  <2>2. new[v] \in Dev
    BY <2>1 DEF changedlist, List
  <2> QED
    BY <1>1, <2>2 DEF NewName
<1>2. CASE ~ \E v \in changedlist(old, new) : old[v] = d
  BY <1>2 DEF NewName
<1> QED
  BY <1>1, <1>2

LEMMA EditedType ==
    ASSUME TypeOK
    PROVE  Edited(pfile, newlist, fstab) \in [Mount -> Dev \cup {None}]
<1>1. \A m \in Mount : fstab[m] # None => NewName(pfile, newlist, fstab[m]) \in Dev
  <2> SUFFICES ASSUME NEW m \in Mount, fstab[m] # None
               PROVE  NewName(pfile, newlist, fstab[m]) \in Dev
    OBVIOUS
  <2>1. fstab[m] \in Dev /\ pfile \in List /\ newlist \in List
    BY DEF TypeOK
  <2> QED
    BY <2>1, NewNameType
<1> QED
  BY <1>1 DEF Edited

\* The edited fstab agrees with the new list.
LEMMA EditedFollows ==
    ASSUME IInv, pc \in {"compare", "edit"}, NEW m \in Mount, wants[m] # None
    PROVE  /\ Edited(pfile, newlist, fstab)[m] = newlist[wants[m]]
           /\ newlist[wants[m]] # None
<1> DEFINE u == wants[m]
<1>1. u \in Uuid /\ pfile \in List /\ newlist \in List
  BY DEF IInv, TypeOK
<1>2. fstab[m] = pfile[u] /\ pfile[u] # None
  BY DEF IInv, current
<1>3. newlist[u] # None
  BY <1>1, <1>2 DEF IInv
<1>4. NewName(pfile, newlist, pfile[u]) = newlist[u]
  BY <1>1, <1>2, <1>3, NewNameFollows DEF IInv
<1> QED
  BY <1>2, <1>3, <1>4 DEF Edited

-----------------------------------------------------------------------------
(***************************************************************************)
(* Every variable keeps its type, whatever fails and whichever disk is     *)
(* away; and no two partitions have one device name.                       *)
(***************************************************************************)
THEOREM TypeCorrect == Spec => []TypeOK
<1>1. Init => TypeOK
  BY FstabAssumption DEF Init, TypeOK, List, NoList
<1>2. TypeOK /\ [Next]_vars => TypeOK'
  <2> SUFFICES ASSUME TypeOK, [Next]_vars PROVE TypeOK'
    OBVIOUS
  <2> USE DEF TypeOK, List
  <2>1. CASE PowerOn
    BY <2>1 DEF PowerOn
  <2>2. CASE PowerOff
    BY <2>2 DEF PowerOff, NoList
  <2>3. CASE Recable
    BY <2>3 DEF Recable
  <2>4. CASE EditFstab
    <3>1. PICK m \in Mount, u \in {v \in Uuid : where[v] # None} \cup {None} :
              /\ fstab' = [fstab EXCEPT ![m] = IF u = None THEN None ELSE where[u]]
              /\ wants' = [wants EXCEPT ![m] = u]
      BY <2>4 DEF EditFstab
    <3> QED
      BY <2>4, <3>1 DEF EditFstab
  <2>5. CASE Compare
    BY <2>5 DEF Compare
  <2>6. CASE Edit
    BY <2>6, EditedType DEF Edit
  <2>7. CASE Write
    <3>1. PICK lines \in SUBSET Uuid :
              pfile' = [u \in Uuid |-> IF u \in lines THEN newlist[u] ELSE None]
      BY <2>7 DEF Write
    <3> QED
      BY <2>7, <3>1 DEF Write
  <2>8. CASE Written
    BY <2>8 DEF Written
  <2>9. CASE UNCHANGED vars
    BY <2>9 DEF vars, Cabling
  <2> QED
    BY <2>1, <2>2, <2>3, <2>4, <2>5, <2>6, <2>7, <2>8, <2>9 DEF Next
<1> QED
  BY <1>1, <1>2, PTL DEF Spec

-----------------------------------------------------------------------------
LEMMA InitIInv == Init => IInv
  BY FstabAssumption DEF Init, IInv, TypeOK, Cabling, List, NoList, current

LEMMA StepIInv ==
    ASSUME OnlyFail, IInv, [Next]_vars
    PROVE  IInv'
<1>1. CASE PowerOn
  BY <1>1, FstabAssumption DEF PowerOn, IInv, TypeOK, Cabling, List, current
<1>2. CASE PowerOff
  <2>1. pc = "idle"
    BY <1>2 DEF PowerOff, OnlyFail
  <2> QED
    BY <1>2, <2>1, FstabAssumption
       DEF PowerOff, IInv, TypeOK, Cabling, List, NoList, current
<1>3. CASE Recable
  <2>1. PICK a \in List :
            /\ Cabling(a)
            /\ \A u \in Uuid : where[u] # None => a[u] # None \/ "absent" \in Faults
            /\ where' = a
    BY <1>3 DEF Recable
  <2>2. \A u \in Uuid : where[u] # None => where'[u] # None
    BY <2>1 DEF OnlyFail
  <2>3. TypeOK'
    BY <1>3, <2>1 DEF Recable, IInv, TypeOK, Cabling, List
  <2> QED
    BY <1>3, <2>2, <2>3 DEF Recable, IInv, Cabling, current
<1>4. CASE EditFstab
  <2>1. PICK m \in Mount, u \in {v \in Uuid : where[v] # None} \cup {None} :
            /\ fstab' = [fstab EXCEPT ![m] = IF u = None THEN None ELSE where[u]]
            /\ wants' = [wants EXCEPT ![m] = u]
    BY <1>4 DEF EditFstab
  <2>2. pfile = where /\ power = "up" /\ pc = "idle"
    BY <1>4 DEF EditFstab, IInv
  <2>3. TypeOK'
    BY <1>4, <2>1 DEF EditFstab, IInv, TypeOK, Cabling, List
  <2>4. \A n \in Mount : wants'[n] # None => /\ fstab'[n] = pfile[wants'[n]]
                                             /\ pfile[wants'[n]] # None
    BY <2>1, <2>2 DEF IInv, TypeOK, current
  <2> QED
    BY <1>4, <2>2, <2>3, <2>4 DEF EditFstab, IInv, Cabling, current
<1>5. CASE Compare
  <2>1. TypeOK'
    BY <1>5 DEF Compare, IInv, TypeOK, Cabling, List
  <2>2. CASE pc' = "idle" /\ exit' = 0 /\ newlist = pfile
    BY <1>5, <2>1, <2>2 DEF Compare, IInv, Cabling, current
  <2>3. CASE pc' = "edit"
    BY <1>5, <2>1, <2>3 DEF Compare, IInv, Cabling, current
  <2>4. CASE pc' = "write" /\ Edited(pfile, newlist, fstab) = fstab
    <3>1. \A m \in Mount : wants[m] # None => /\ fstab[m] = newlist[wants[m]]
                                              /\ newlist[wants[m]] # None
      BY <1>5, <2>4, EditedFollows DEF Compare
    <3> QED
      BY <1>5, <2>1, <2>4, <3>1 DEF Compare, IInv, Cabling, current
  <2> QED
    BY <1>5, <2>2, <2>3, <2>4 DEF Compare
<1>6. CASE Edit
  <2>1. CASE fstab' = Edited(pfile, newlist, fstab) /\ pc' = "write" /\ UNCHANGED exit
    <3>1. TypeOK'
      BY <1>6, <2>1, EditedType DEF Edit, IInv, TypeOK, Cabling, List
    <3>2. \A m \in Mount : wants[m] # None => /\ fstab'[m] = newlist[wants[m]]
                                              /\ newlist[wants[m]] # None
      BY <1>6, <2>1, EditedFollows DEF Edit
    <3> QED
      BY <1>6, <2>1, <3>1, <3>2 DEF Edit, IInv, Cabling, current
  <2>2. CASE pc' = "idle" /\ exit' = 1 /\ UNCHANGED fstab
    BY <1>6, <2>2 DEF Edit, IInv, TypeOK, Cabling, List, current
  <2> QED
    BY <1>6, <2>1, <2>2 DEF Edit
<1>7. CASE Write
  <2>1. PICK lines \in SUBSET Uuid :
            pfile' = [u \in Uuid |-> IF u \in lines THEN newlist[u] ELSE None]
    BY <1>7 DEF Write
  <2>2. TypeOK'
    BY <1>7, <2>1 DEF Write, IInv, TypeOK, Cabling, List
  <2>3. newlist = where /\ Cabling(newlist)
    BY <1>7 DEF Write, IInv, TypeOK, Cabling
  <2>4. Cabling(pfile')
    BY <2>1, <2>3 DEF Cabling
  <2>5. \A u \in Uuid : pfile'[u] # None => where[u] # None
    BY <2>1, <2>3
  <2> QED
    BY <1>7, <2>2, <2>4, <2>5 DEF Write, IInv, Cabling, current
<1>8. CASE Written
  <2>1. pfile' = newlist
    BY <1>8 DEF Written, OnlyFail
  <2> QED
    BY <1>8, <2>1 DEF Written, IInv, TypeOK, Cabling, List, current
<1>9. CASE UNCHANGED vars
  BY <1>9 DEF vars, IInv, TypeOK, Cabling, current
<1> QED
  BY <1>1, <1>2, <1>3, <1>4, <1>5, <1>6, <1>7, <1>8, <1>9 DEF Next

\* Every reachable state is one the invariant allows.
THEOREM Invariance ==
    ASSUME OnlyFail
    PROVE  Spec => []IInv
  BY InitIInv, StepIInv, PTL DEF Spec

-----------------------------------------------------------------------------
(***************************************************************************)
(* After a fixfstab that ended with 0 the fstab names the partitions the   *)
(* user wants.                                                             *)
(***************************************************************************)
THEOREM FstabIsRight ==
    ASSUME OnlyFail
    PROVE  Spec => []FstabFollows
<1>1. IInv => FstabFollows
  BY DEF IInv, FstabFollows, Right, current
<1> QED
  BY <1>1, Invariance, PTL

(***************************************************************************)
(* No line that is right is made wrong.                                    *)
(***************************************************************************)
THEOREM NothingSpoiled ==
    ASSUME OnlyFail
    PROVE  Spec => RightStays
<1>1. IInv /\ [Next]_vars
      => [pc = "edit" => \A m \in Mount : Right(m) => Right(m)']_vars
  <2> SUFFICES ASSUME IInv, Next, pc = "edit", NEW m \in Mount, Right(m)
               PROVE  Right(m)'
    OBVIOUS
  <2>1. CASE Edit
    <3>1. CASE fstab' = fstab
      BY <2>1, <3>1 DEF Edit, Right
    <3>2. CASE fstab' = Edited(pfile, newlist, fstab)
      <4>1. wants[m] # None => fstab'[m] = newlist[wants[m]]
        BY <3>2, EditedFollows
      <4>2. newlist = where
        BY <2>1 DEF Edit, IInv
      <4> QED
        BY <2>1, <4>1, <4>2 DEF Edit, Right
    <3> QED
      BY <2>1, <3>1, <3>2 DEF Edit
  <2>2. CASE ~Edit
    <3>1. PowerOff \/ Recable
      BY <2>2 DEF Next, PowerOn, EditFstab, Compare, Write, Written, IInv
    <3>2. power = "up" /\ "power" \notin Faults
      BY DEF IInv, OnlyFail
    <3> QED
      BY <3>1, <3>2 DEF PowerOff, Recable
  <2> QED
    BY <2>1, <2>2
<1> QED
  BY <1>1, Invariance, PTL DEF Spec, RightStays
=============================================================================
