---------------------------- MODULE NandLogical -----------------------------
(***************************************************************************)
(* packages/nandlogical: nandlogical <mtd> READ|WRITE <start> <length>     *)
(* <file>.  A logical block is kept in any physical block; the spare bytes *)
(* of the physical block say in which.  Addresses count pages.             *)
(***************************************************************************)
EXTENDS NandTag, Sequences

CONSTANTS
    Blocks,    \* NAND_LOGICAL_SIZE / erasesize, at most 448
    Pages,     \* erasesize / writesize
    Bad,       \* the physical blocks that are marked bad
    Files,     \* what the user writes
    Commands,  \* what the user asks for
    Oob0,      \* the spare bytes that may be found at the start
    Faults     \* what may fail

Block == 0 .. Blocks - 1
Page == 0 .. Pages - 1
Address == 0 .. Blocks * Pages

AllFaults ==
    {"power",      \* the power, between two steps or within one
     "ioctl",      \* MEMREADOOB, MEMGETBADBLOCK, MEMERASE or MEMWRITEOOB
     "page",       \* pread or pwrite
     "file",       \* the write to the file of READ, which says nothing then
     "scan"}       \* MEMREADOOB in scan_logical, which says nothing then

Command ==
    {c \in [op : {"READ", "WRITE"}, start : Address, end : Address,
            file : Files, size : Address] :
        /\ c.start < c.end
        /\ c.size <= c.end - c.start
        /\ c.op = "READ" => c.size = 0}

ASSUME NandAssumption ==
    /\ Blocks \in 1 .. 448 /\ Pages \in Nat \ {0}
    /\ Bad \subseteq Block
    /\ Commands \subseteq Command
    /\ Oob0 \subseteq [Block -> Copies]
    /\ Faults \subseteq AllFaults
    /\ Files \cap {"blank", "junk", "old"} = {}

Nowhere == -1

\* What a page holds: part of a file, nothing, or something else.
Blank == [file |-> "blank", page |-> 0]
Junk == [file |-> "junk", page |-> 0]
Content == [file : Files \cup {"old"}, page : Address] \cup {Blank, Junk}

NoCommand == [op |-> "none"]

VARIABLES
    oob,       \* the spare bytes 8..13 of each block's first page
    data,      \* the pages of each block
    cmd,       \* the command line
    pc,        \* where main is
    log2phy,   \* the table that scan_logical makes
    ofs,       \* the page main is at
    phy,       \* the physical block it, or add_logical, is at
    out,       \* what READ wrote to its file
    failed     \* something failed that WRITE or READ cannot make good

flashVars == <<oob, data>>
vars == <<oob, data, cmd, pc, log2phy, ofs, phy, out, failed>>

Spare(b) == nand_get_logical_no(oob[b])
ErasedTag == [c \in 0 .. 2 |-> Ones]
BlankPages == [i \in Page |-> Blank]

\* The last block of those with the number l.
LastOf(S) == IF S = {} THEN Nowhere ELSE CHOOSE b \in S : \A c \in S : c <= b

Init ==
    /\ oob \in Oob0
    /\ \A b \in Bad : Spare(b) \notin Block
    /\ \A b, c \in Block : Spare(b) \in Block /\ Spare(b) = Spare(c) => b = c
    /\ data = [b \in Block |-> [i \in Page |->
                  IF Spare(b) \in Block
                  THEN [file |-> "old", page |-> Spare(b) * Pages + i]
                  ELSE IF oob[b] = ErasedTag THEN Blank ELSE Junk]]
    /\ cmd = NoCommand /\ pc = "idle"
    /\ log2phy = [l \in Block |-> Nowhere]
    /\ ofs = 0 /\ phy = Nowhere /\ out = <<>> /\ failed = FALSE

-----------------------------------------------------------------------------
At(p) == pc = p
Fault(f) == f \in Faults
l == ofs \div Pages      \* the logical block that main is at

Start ==
    /\ At("idle") /\ pc' = "scan"
    /\ cmd' \in Commands /\ ofs' = cmd'.start
    /\ UNCHANGED <<flashVars, log2phy, phy, out, failed>>

\* Mutation: the scan stops before the last block.
scanShort ==
    /\ At("scan") /\ pc' = "loop"
    /\ log2phy' = [n \in Block |->
                       LastOf({b \in 0 .. Blocks - 2 : Spare(b) = n})]
    /\ UNCHANGED <<flashVars, cmd, ofs, phy, out, failed>>

(***************************************************************************)
(* The table, from the spare bytes of each block.  A block that cannot be  *)
(* read is left out, and of two with one number the last counts.           *)
(***************************************************************************)
scan_logical ==
    /\ At("scan") /\ pc' = "loop"
    /\ \E unread \in IF Fault("scan") THEN SUBSET Block ELSE {{}} :
          log2phy' = [n \in Block |->
                         LastOf({b \in Block \ unread : Spare(b) = n})]
    /\ UNCHANGED <<flashVars, cmd, ofs, phy, out, failed>>

\* Where main goes once it has a physical block: at the end of the file, out.
Transfer ==
    IF cmd.op = "READ" THEN "pread"
    ELSE IF ofs - cmd.start >= cmd.size THEN "closeall"
    ELSE IF ofs % Pages = 0 THEN "erase" ELSE "pwrite"

Finished ==
    /\ At("loop") /\ ofs >= cmd.end
    /\ pc' = "closeall"
    /\ UNCHANGED <<flashVars, cmd, log2phy, ofs, phy, out, failed>>

Mapped ==
    /\ At("loop") /\ ofs < cmd.end /\ log2phy[l] # Nowhere
    /\ phy' = log2phy[l] /\ pc' = Transfer
    /\ UNCHANGED <<flashVars, cmd, log2phy, ofs, out, failed>>

\* Mutation: READ goes on with the next page.
UnmappedSkipped ==
    /\ At("loop") /\ ofs < cmd.end /\ log2phy[l] = Nowhere
    /\ IF cmd.op = "WRITE"
       THEN pc' = "add" /\ phy' = 0 /\ ofs' = ofs
       ELSE pc' = "loop" /\ phy' = phy /\ ofs' = ofs + 1
    /\ UNCHANGED <<flashVars, cmd, log2phy, out, failed>>

Unmapped ==
    /\ At("loop") /\ ofs < cmd.end /\ log2phy[l] = Nowhere
    /\ IF cmd.op = "WRITE"
       THEN pc' = "add" /\ phy' = 0 /\ failed' = failed
       ELSE pc' = "closeall" /\ failed' = TRUE /\ phy' = phy
    /\ UNCHANGED <<flashVars, cmd, log2phy, ofs, out>>

-----------------------------------------------------------------------------
\* Mutation: the test for an erased block forgets that -1 is one of two.
FreeNotOurs(b) == Spare(b) # l

\* (short)log_no == -1: erased, or no two copies agree.
Free(b) == Spare(b) \in {NoMajority, Erased}

\* add_logical, one block after the other, with erase.
AddSkip ==
    /\ At("add") /\ phy < Blocks
    /\ ~Free(phy) \/ phy \in Bad \/ Fault("ioctl")
    /\ phy' = phy + 1
    /\ UNCHANGED <<flashVars, cmd, pc, log2phy, ofs, out, failed>>

Erase(b) ==
    /\ oob' = [oob EXCEPT ![b] = ErasedTag]
    /\ data' = [data EXCEPT ![b] = BlankPages]

AddFound ==
    /\ At("add") /\ phy < Blocks /\ Free(phy) /\ phy \notin Bad
    /\ Erase(phy)
    /\ log2phy' = [log2phy EXCEPT ![l] = phy]
    /\ pc' = Transfer
    /\ UNCHANGED <<cmd, ofs, phy, out, failed>>

\* Mutation: nobody looks whether a block was found.
AddNoneUnseen ==
    /\ At("add") /\ phy = Blocks
    /\ pc' = Transfer
    /\ UNCHANGED <<flashVars, cmd, log2phy, ofs, phy, out, failed>>

\* No block is free, or MEMGETBADBLOCK fails.
AddNone ==
    /\ At("add")
    /\ phy = Blocks \/ Fault("ioctl")
    /\ pc' = "closeall" /\ failed' = TRUE
    /\ UNCHANGED <<flashVars, cmd, log2phy, ofs, phy, out>>

-----------------------------------------------------------------------------
(***************************************************************************)
(* At the start of a block: erase it (again, if it is new), and write its  *)
(* number.  A failed erase is reported, and the rest goes on.              *)
(***************************************************************************)
EraseBlock ==
    /\ At("erase") /\ pc' = "oob"
    /\ \/ Erase(phy) /\ failed' = failed
       \/ Fault("ioctl") /\ UNCHANGED flashVars /\ failed' = TRUE
    /\ UNCHANGED <<cmd, log2phy, ofs, phy, out>>

(***************************************************************************)
(* Flash bits only go from 1 to 0.  Over an erased word the number is      *)
(* written; over the same number with other unused bits it stays, or the   *)
(* parity becomes wrong.                                                   *)
(***************************************************************************)
Spoilt == [c \in 0 .. 2 |-> [lo |-> 1, hi |-> 0]]
Programmed(b) ==
    IF oob[b] = ErasedTag THEN {nand_set_logical_no(l)} ELSE {oob[b], Spoilt}

WriteOob ==
    /\ At("oob") /\ pc' = "pwrite"
    /\ \E t \in Programmed(phy) : oob' = [oob EXCEPT ![phy] = t]
    /\ UNCHANGED <<data, cmd, log2phy, ofs, phy, out, failed>>

\* On this page or a later one of the block, or when it is read again.
WriteOobFails ==
    /\ At("oob") /\ Fault("ioctl")
    /\ \E t \in Programmed(phy) \cup {oob[phy]} :
          oob' = [oob EXCEPT ![phy] = t]
    /\ pc' = "closeall" /\ failed' = TRUE
    /\ UNCHANGED <<data, cmd, log2phy, ofs, phy, out>>

Program(old, new) == IF old \in {Blank, new} THEN new ELSE Junk

pwrite ==
    /\ At("pwrite")
    /\ data' = [data EXCEPT ![phy][ofs % Pages] =
                    Program(@, [file |-> cmd.file, page |-> ofs])]
    /\ ofs' = ofs + 1 /\ pc' = "loop"
    /\ UNCHANGED <<oob, cmd, log2phy, phy, out, failed>>

pwriteFails ==
    /\ At("pwrite") /\ Fault("page")
    /\ \/ data' = [data EXCEPT ![phy][ofs % Pages] = Junk]
       \/ data' = data
    /\ pc' = "closeall" /\ failed' = TRUE
    /\ UNCHANGED <<oob, cmd, log2phy, ofs, phy, out>>

pread ==
    /\ At("pread")
    /\ out' = Append(out, data[phy][ofs % Pages]) \/ (Fault("file") /\ out' = out)
    /\ ofs' = ofs + 1 /\ pc' = "loop"
    /\ UNCHANGED <<flashVars, cmd, log2phy, phy, failed>>

preadFails ==
    /\ At("pread") /\ Fault("page")
    /\ pc' = "closeall" /\ failed' = TRUE
    /\ UNCHANGED <<flashVars, cmd, log2phy, ofs, phy, out>>

-----------------------------------------------------------------------------
\* The process is gone, and with it all but the flash.
Gone ==
    /\ cmd' = NoCommand /\ pc' = "idle"
    /\ log2phy' = [n \in Block |-> Nowhere]
    /\ ofs' = 0 /\ phy' = Nowhere /\ out' = <<>> /\ failed' = FALSE

closeall == At("closeall") /\ Gone /\ UNCHANGED flashVars

\* Spare bytes that were half written.
TornTags(n) ==
    LET w == SetWord(n)
        low == [w EXCEPT !.hi = 255]   \* the high byte is still erased
    IN  {[c \in 0 .. 2 |-> IF c \in S THEN w ELSE Ones] :
             S \in SUBSET (0 .. 2)}
        \cup {[c \in 0 .. 2 |-> low],
              [c \in 0 .. 2 |-> IF c = 0 THEN w
                               ELSE IF c = 1 THEN low ELSE Ones]}

(***************************************************************************)
(* The power fails, before a step or in the middle of an erase or a write. *)
(***************************************************************************)
PowerFails ==
    /\ Fault("power") /\ pc # "idle" /\ Gone
    /\ \/ UNCHANGED flashVars
       \/ /\ \/ At("erase")
             \/ At("add") /\ phy < Blocks /\ Free(phy) /\ phy \notin Bad
          /\ data' = [data EXCEPT ![phy] = [i \in Page |-> Junk]]
          /\ oob' \in {oob, [oob EXCEPT ![phy] = ErasedTag]}
       \/ /\ At("oob") /\ oob[phy] = ErasedTag
          /\ \E t \in TornTags(l) : oob' = [oob EXCEPT ![phy] = t]
          /\ data' = data
       \/ /\ At("pwrite")
          /\ data' = [data EXCEPT ![phy][ofs % Pages] = Junk]
          /\ oob' = oob

Next ==
    \/ Start \/ scan_logical
    \/ Finished \/ Mapped \/ Unmapped
    \/ AddSkip \/ AddFound \/ AddNone
    \/ EraseBlock \/ WriteOob \/ WriteOobFails
    \/ pwrite \/ pwriteFails \/ pread \/ preadFails
    \/ closeall \/ PowerFails

Spec == Init /\ [][Next]_vars

-----------------------------------------------------------------------------
PCs == {"idle", "scan", "loop", "add", "erase", "oob", "pwrite", "pread",
        "closeall"}

TypeOK ==
    /\ oob \in [Block -> Copies]
    /\ data \in [Block -> [Page -> Content]]
    /\ cmd \in Commands \cup {NoCommand}
    /\ pc \in PCs /\ (pc = "idle" <=> cmd = NoCommand)
    /\ log2phy \in [Block -> Block \cup {Nowhere}]
    /\ ofs \in Address
    /\ phy \in Block \cup {Nowhere, Blocks}
    /\ pc \in {"erase", "oob", "pwrite", "pread"} => phy \in Block
    /\ out \in Seq(Content)
    /\ failed \in BOOLEAN

\* What is in the logical block n, to whoever scans the flash now.
Hole == <<>>
PhysicalOf(n) == LastOf({b \in Block : Spare(b) = n})
View(n) == LET b == PhysicalOf(n) IN IF b = Nowhere THEN Hole ELSE data[b]
PageAt(a) == LET b == PhysicalOf(a \div Pages)
             IN  IF b = Nowhere THEN Hole ELSE data[b][a % Pages]

Touched ==
    IF cmd = NoCommand \/ cmd.op = "READ" THEN {}
    ELSE {a \div Pages : a \in cmd.start .. cmd.end - 1}

(***************************************************************************)
(* No logical block changes but those that a running WRITE was asked to    *)
(* write, whatever fails: a block that looks free holds nobody's data, and *)
(* half written spare bytes never pass for another block's.                *)
(***************************************************************************)
NeighboursKept ==
    [][\A n \in Block : View(n)' # View(n) => n \in Touched]_vars

\* Two physical blocks never have one number: the other's data would be lost.
OneCopy ==
    \A b, c \in Block : Spare(b) \in Block /\ Spare(b) = Spare(c) => b = c

(***************************************************************************)
(* What a WRITE from the start of a block wrote without complaint is found *)
(* by the next scan, page by page, up to the end of the file.              *)
(***************************************************************************)
Written ==
    \A a \in cmd.start .. cmd.start + cmd.size - 1 :
        PageAt(a) = [file |-> cmd.file, page |-> a]

WrittenReads ==
    At("closeall") /\ ~failed /\ cmd.op = "WRITE" /\ cmd.start % Pages = 0
    => Written

\* The same of any start, as the usage has it.
AnyWriteReads ==
    At("closeall") /\ ~failed /\ cmd.op = "WRITE" => Written

(***************************************************************************)
(* The file that READ makes is the logical pages from the start on, in     *)
(* order and with no hole, and all of them unless READ complained.         *)
(***************************************************************************)
ReadExact ==
    At("closeall") /\ cmd.op = "READ" =>
        /\ \A i \in 1 .. Len(out) : out[i] = PageAt(cmd.start + i - 1)
        /\ failed \/ Len(out) = cmd.end - cmd.start

-----------------------------------------------------------------------------
(***************************************************************************)
(* To whoever scans it the flash is an array of blocks, and each command   *)
(* keeps the promises of LogicalFlash about it, whatever fails.            *)
(***************************************************************************)
Ended == IF failed THEN "bad" ELSE "good"

LF == INSTANCE LogicalFlash WITH
          array <- [n \in Block |-> View(n)],
          task <- cmd,
          told <- IF At("closeall") THEN Ended ELSE "nothing",
          made <- IF At("closeall") /\ cmd.op = "READ" THEN out ELSE <<>>

ImplementsStore == LF!Spec
=============================================================================
