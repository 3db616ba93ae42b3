---------------------------- MODULE LogicalFlash ----------------------------
(***************************************************************************)
(* What nandlogical promises.  The flash is an array of logical blocks,    *)
(* some of which are there.  A command is told good or bad in the end,     *)
(* unless the power fails before.  Until then a READ alters nothing and a  *)
(* WRITE no block but those it was given.  A good WRITE from the start of  *)
(* a block has its file in the array, and a good READ has made a file of   *)
(* all it asked for, a bad one of the first of these pages.                *)
(***************************************************************************)
EXTENDS Integers

CONSTANTS
    Blocks, Pages,  \* how many blocks there are, and pages in a block
    Content,        \* what a page may hold
    Hole,           \* a block that is not there
    Commands, NoCommand

VARIABLES array, task, told, made

Array == [0 .. Blocks - 1 -> [0 .. Pages - 1 -> Content] \cup {Hole}]

Init ==
    /\ array \in Array
    /\ task = NoCommand /\ told = "nothing" /\ made = <<>>

Begin ==
    /\ task = NoCommand /\ task' \in Commands
    /\ UNCHANGED <<array, told, made>>

-----------------------------------------------------------------------------
Busy == task # NoCommand /\ told = "nothing"

\* The blocks in which the pages are that a WRITE was given.
Given ==
    IF task.op = "READ" THEN {} ELSE {a \div Pages : a \in task.start .. task.end - 1}

Alters ==
    /\ array' \in Array
    /\ \A n \in 0 .. Blocks - 1 : array'[n] # array[n] => n \in Given

Work == Busy /\ Alters /\ UNCHANGED <<task, told, made>>

Present(a) == array[a \div Pages] # Hole
PageAt(a) == array[a \div Pages][a % Pages]

Stored ==
    \A a \in task.start .. task.start + task.size - 1 :
        Present(a)' /\ PageAt(a)' = [file |-> task.file, page |-> a]

EndWrite ==
    /\ Busy /\ task.op = "WRITE"
    /\ told' \in {"good", "bad"}
    /\ Alters
    /\ told' = "good" /\ task.start % Pages = 0 => Stored
    /\ UNCHANGED <<task, made>>

EndRead ==
    /\ Busy /\ task.op = "READ"
    /\ \E n \in 0 .. task.end - task.start :
          /\ told' \in IF n = task.end - task.start THEN {"good", "bad"} ELSE {"bad"}
          /\ \A a \in task.start .. task.start + n - 1 : Present(a)
          /\ made' = [i \in 1 .. n |-> PageAt(task.start + i - 1)]
    /\ UNCHANGED <<array, task>>

-----------------------------------------------------------------------------
\* The command is over, and what it was told.
Over == task' = NoCommand /\ told' = "nothing" /\ made' = <<>>

Leave == task # NoCommand /\ ~Busy /\ Over /\ UNCHANGED array

PowerFails == Busy /\ Alters /\ Over

Next == Begin \/ Work \/ EndWrite \/ EndRead \/ Leave \/ PowerFails

Spec == Init /\ [][Next]_<<array, task, told, made>>
=============================================================================
