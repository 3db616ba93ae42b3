-------------------------- MODULE NandWriteProofs ---------------------------
(***************************************************************************)
(* What WRITE wrote is found again, and READ reads what is there: the      *)
(* invariants of a WRITE that starts with a block and of a READ.           *)
(***************************************************************************)
EXTENDS NandProofs

\* A WRITE from the start of a block, nothing of which has failed.
Aligned == cmd.op = "WRITE" /\ cmd.start % Pages = 0 /\ ~failed

PageOf(a) == [file |-> cmd.file, page |-> a]

\* The pages that main has passed are there.
Filled == Aligned => \A a \in cmd.start .. ofs - 1 : PageAt(a) = PageOf(a)

\* b has the number of the block in hand, and its pages from ofs on are blank.
Open(b) ==
    /\ b \in Block /\ Spare(b) = l
    /\ \A i \in ofs % Pages .. Pages - 1 : data[b][i] = Blank

Rest == Aligned =>
    /\ pc # "pread"
    /\ pc = "scan" => ofs = cmd.start
    /\ pc \in {"add", "erase", "oob"} => ofs % Pages = 0
    /\ pc = "oob" => oob[phy] = ErasedTag /\ data[phy] = BlankPages
    /\ pc = "pwrite" => Open(phy)
    /\ pc = "loop" /\ ofs % Pages # 0 => Open(log2phy[l])
    /\ pc = "closeall" => ofs >= cmd.start + cmd.size

WInv == IInv /\ Filled /\ Rest

LEMMA DivMod ==
    ASSUME NEW a \in Nat, NEW P \in Nat \ {0}
    PROVE  IF (a + 1) % P = 0 THEN (a + 1) \div P = a \div P + 1
           ELSE (a + 1) \div P = a \div P /\ (a + 1) % P = (a % P) + 1
  BY SMT

LEMMA DivBefore ==
    ASSUME NEW a \in Nat, NEW b \in Nat, a < b, NEW P \in Nat \ {0}, b % P = 0
    PROVE  a \div P # b \div P
  BY SMT

LEMMA DivSame ==
    ASSUME NEW a \in Nat, NEW b \in Nat, a < b, NEW P \in Nat \ {0},
           a \div P = b \div P
    PROVE  a % P # b % P
  BY SMT

\* Numbers of a WRITE in progress.
LEMMA InProgress ==
    ASSUME TypeOK, Where, Aligned
    PROVE  /\ pc # "idle" /\ ofs \in Nat /\ Pages \in Nat \ {0}
           /\ cmd.start \in Nat /\ cmd.end \in Nat /\ cmd.size \in Nat
           /\ cmd.file \in Files /\ cmd.start <= ofs
           /\ cmd.size <= cmd.end - cmd.start
<1>1. pc # "idle"
  BY DEF Aligned, TypeOK, NoCommand
<1> QED BY <1>1, Asked, AddressNat, NandAssumption DEF TypeOK, Where

\* The pages before ofs lie in other blocks when ofs is the first of its own.
LEMMA BeforeFirst ==
    ASSUME TypeOK, Where, Aligned, ofs % Pages = 0, NEW a \in cmd.start .. ofs - 1
    PROVE  a \div Pages # l
<1>1. a \in Nat /\ a < ofs /\ ofs \in Nat /\ Pages \in Nat \ {0}
  BY InProgress
<1> QED BY <1>1, DivBefore DEF l

\* A page whose block keeps its place and data.
LEMMA PageStays ==
    ASSUME NEW a, PhysicalOf(a \div Pages)' = PhysicalOf(a \div Pages),
           PhysicalOf(a \div Pages) # Nowhere
               => data'[PhysicalOf(a \div Pages)] = data[PhysicalOf(a \div Pages)]
    PROVE  PageAt(a)' = PageAt(a)
  BY DEF PageAt

LEMMA FlashSame ==
    ASSUME oob' = oob, data' = data
    PROVE  \A a : PageAt(a)' = PageAt(a)
  BY DEF PageAt, PhysicalOf, Spare

\* Steps that leave the flash and the command alone.
LEMMA FilledSame ==
    ASSUME Filled, oob' = oob, data' = data, cmd' = cmd, ofs' = ofs,
           failed' = failed
    PROVE  Filled'
<1>1. \A a : PageAt(a)' = PageAt(a)
  BY FlashSame
<1> QED BY <1>1 DEF Filled, Aligned, PageOf

\* Steps at the first page of a block: what was written lies in others.
LEMMA FirstFilled ==
    ASSUME IInv, Filled, Aligned, ofs % Pages = 0, phy \in Block, l \in Block,
           OnlyPhy, Spare(phy) = l \/ Spare(phy) \notin Block,
           \A b \in Block : b # phy => data'[b] = data[b],
           cmd' = cmd, ofs' = ofs
    PROVE  Filled'
<1>1. ASSUME NEW a \in cmd.start .. ofs - 1
      PROVE  PageAt(a)' = PageAt(a)
  <2>1. a \in Nat /\ a < ofs /\ ofs \in Address
    BY InProgress DEF IInv, TypeOK
  <2>2. a \div Pages \in Block
    BY <2>1, AtAPage
  <2>3. a \div Pages # l
    BY BeforeFirst DEF IInv
  <2>4. Spare(phy) # a \div Pages
    BY <2>2, <2>3
  <2> DEFINE n == a \div Pages
  <2> HIDE DEF n
  <2>5. n \in Block /\ n # l /\ Spare(phy) # n
    BY <2>2, <2>3, <2>4 DEF n
  <2>6. /\ PhysicalOf(n)' = PhysicalOf(n)
        /\ PhysicalOf(n) # Nowhere => data'[PhysicalOf(n)] = data[PhysicalOf(n)]
    BY <2>5, BlockKept DEF IInv
  <2> QED BY <2>6, PageStays DEF n
<1>2. \A a \in cmd.start .. ofs - 1 : PageAt(a) = PageOf(a)
  BY DEF Filled
<1> QED BY <1>1, <1>2 DEF Filled, PageOf

\* The block in hand is where its number is found.
LEMMA HandFound ==
    ASSUME TypeOK, OneCopy, phy \in Block, l \in Block, Spare(phy) = l
    PROVE  PhysicalOf(l) = phy
<1>1. {b \in Block : Spare(b) = l} = {phy}
  BY DEF OneCopy
<1>2. phy # Nowhere
  BY DEF Block, Nowhere
<1>3. LastOf({phy}) \in {phy}
  <2>1. {phy} \in SUBSET Block
    OBVIOUS
  <2> QED BY <2>1, LastIsOne
<1>4. PhysicalOf(l) = LastOf({phy})
  BY <1>1 DEF PhysicalOf
<1> QED BY <1>3, <1>4

\* pwrite adds the page at ofs to those that are there.
LEMMA PageFilled ==
    ASSUME IInv, Filled, Aligned, pwrite, Open(phy)
    PROVE  Filled'
<1> DEFINE i == ofs % Pages
<1>1. /\ phy \in Block /\ l \in Block /\ i \in Page /\ Spare(phy) = l
      /\ ofs \in Nat /\ cmd.start \in Nat /\ Pages \in Nat \ {0}
  <2>1. pc # "idle" /\ ofs < cmd.end
    BY DEF pwrite, At, Where, AtBlock, IInv
  <2> QED BY <2>1, AtABlock, InProgress DEF Open, IInv
<1>2. data[phy][i] = Blank
  <2>1. i \in i .. Pages - 1
    BY <1>1 DEF Page
  <2> QED BY <2>1 DEF Open
<1>3. data' = [data EXCEPT ![phy][i] = PageOf(ofs)]
  BY <1>1, <1>2 DEF pwrite, Program, PageOf
<1>4. oob' = oob /\ cmd' = cmd /\ ofs' = ofs + 1 /\ failed' = failed
  BY DEF pwrite
<1>5. PhysicalOf(l) = phy
  BY <1>1, HandFound DEF IInv
<1>6. \A n : PhysicalOf(n)' = PhysicalOf(n)
  BY <1>4 DEF PhysicalOf, Spare
<1>7. /\ data'[phy] = [data[phy] EXCEPT ![i] = PageOf(ofs)]
      /\ \A b \in Block : b # phy => data'[b] = data[b]
      /\ DOMAIN data[phy] = Page
  BY <1>1, <1>3 DEF IInv, TypeOK
<1>8. \A a : PageAt(a)' = IF PhysicalOf(a \div Pages) = Nowhere THEN Hole
                          ELSE data'[PhysicalOf(a \div Pages)][a % Pages]
  BY <1>6 DEF PageAt
<1>9. ASSUME NEW a, a = ofs PROVE PageAt(a)' = PageOf(a)
  <2>1. phy # Nowhere
    BY <1>1 DEF Block, Nowhere
  <2>2. data'[phy][a % Pages] = PageOf(a)
    BY <1>1, <1>7, <1>9
  <2>3. PhysicalOf(a \div Pages) = phy
    BY <1>5, <1>9 DEF l
  <2> QED BY <1>8, <2>1, <2>2, <2>3
<1>10. ASSUME NEW a \in cmd.start .. ofs - 1
       PROVE  PageAt(a)' = PageAt(a)
  <2>1. a \in Nat /\ a < ofs
    BY <1>1
  <2>2. CASE a \div Pages = l
    <3>1. a % Pages # i
      BY <1>1, <2>1, <2>2, DivSame DEF l
    <3>2. a % Pages \in Page
      BY <1>1, <2>1 DEF Page
    <3>3. data'[phy][a % Pages] = data[phy][a % Pages]
      BY <1>7, <3>1, <3>2
    <3> QED BY <1>5, <1>8, <2>2, <3>3 DEF PageAt
  <2>3. CASE a \div Pages # l
    <3> DEFINE n == a \div Pages
    <3>1. n \in Block
      BY <2>1, AtAPage DEF IInv, TypeOK
    <3> HIDE DEF n
    <3>2. PhysicalOf(n) # phy
      <4>1. PhysicalOf(n) \in {b \in Block : Spare(b) = n} \cup {Nowhere}
        BY LastIsOne DEF PhysicalOf
      <4>2. n # l /\ phy # Nowhere
        BY <1>1, <2>3 DEF n, Block, Nowhere
      <4> QED BY <1>1, <4>1, <4>2
    <3>3. PhysicalOf(n) \in Block \cup {Nowhere}
      BY LastIsOne DEF PhysicalOf
    <3>4. PhysicalOf(n) # Nowhere => data'[PhysicalOf(n)] = data[PhysicalOf(n)]
      BY <1>7, <3>2, <3>3
    <3> QED BY <1>6, <3>4, PageStays DEF n
  <2> QED BY <2>2, <2>3
<1>11. \A a \in cmd.start .. ofs - 1 : PageAt(a) = PageOf(a)
  BY DEF Filled
<1>12. ASSUME NEW a \in cmd.start .. ofs' - 1 PROVE PageAt(a)' = PageOf(a)
  <2>1. a = ofs \/ a \in cmd.start .. ofs - 1
    BY <1>1, <1>4
  <2> QED BY <1>9, <1>10, <1>11, <2>1
<1> QED BY <1>4, <1>12 DEF Filled, PageOf

LEMMA StepSearch ==
    ASSUME WInv, Start \/ scan_logical \/ Finished \/ Mapped \/ Unmapped
    PROVE  Filled' /\ Rest'
<1> USE DEF flashVars
<1>1. CASE Start
  <2>1. cmd' \in Command /\ pc' = "scan" /\ ofs' = cmd'.start
    BY <1>1, NandAssumption DEF Start
  <2>2. cmd'.start \in Nat
    BY <2>1, AddressNat DEF Command
  <2>3. cmd'.start .. ofs' - 1 = {}
    BY <2>1, <2>2
  <2>4. Filled'
    BY <2>3 DEF Filled
  <2> QED BY <2>1, <2>4 DEF Rest
<1>2. CASE ~Start
  <2> SUFFICES ASSUME Aligned' PROVE Filled' /\ Rest'
    BY DEF Filled, Rest
  <2>0. oob' = oob /\ data' = data /\ cmd' = cmd /\ ofs' = ofs
        /\ (failed' = failed \/ failed')
    BY <1>2 DEF scan_logical, Finished, Mapped, Unmapped
  <2>1. Aligned /\ failed' = failed
    BY <2>0 DEF Aligned, WInv, IInv, TypeOK
  <2>2. Filled'
    BY <2>0, <2>1, FilledSame DEF WInv
  <2>3. /\ ofs \in Nat /\ cmd.start \in Nat /\ cmd.end \in Nat /\ cmd.size \in Nat
        /\ cmd.size <= cmd.end - cmd.start /\ pc # "idle"
    BY <2>1, InProgress DEF WInv, IInv
  <2>4. CASE scan_logical
    <3>1. pc' = "loop" /\ ofs' % Pages = 0
      BY <2>0, <2>1, <2>4 DEF scan_logical, At, WInv, Rest, Aligned
    <3> QED BY <2>2, <3>1 DEF Rest
  <2>5. CASE Finished
    <3>1. pc' = "closeall" /\ ofs >= cmd.end
      BY <2>5 DEF Finished
    <3>2. ofs' >= cmd'.start + cmd'.size
      BY <2>0, <2>3, <3>1
    <3> QED BY <2>2, <3>1, <3>2 DEF Rest
  <2>6. CASE Mapped
    <3>1. pc' = Transfer /\ pc = "loop" /\ phy' = log2phy[l]
      BY <2>6 DEF Mapped, At
    <3>2. \/ pc' = "closeall" /\ ofs - cmd.start >= cmd.size
          \/ pc' = "erase" /\ ofs % Pages = 0
          \/ pc' = "pwrite" /\ ofs % Pages # 0
      BY <2>1, <3>1 DEF Transfer, Aligned
    <3>3. CASE pc' = "closeall" /\ ofs - cmd.start >= cmd.size
      <4>1. ofs' >= cmd'.start + cmd'.size
        BY <2>0, <2>3, <3>3
      <4> QED BY <2>2, <3>3, <4>1 DEF Rest
    <3>4. CASE pc' = "erase" /\ ofs % Pages = 0
      BY <2>0, <2>2, <3>4 DEF Rest
    <3>5. CASE pc' = "pwrite" /\ ofs % Pages # 0
      <4>1. Open(log2phy[l])
        BY <2>1, <3>1, <3>5 DEF WInv, Rest
      <4>3. Open(phy)'
        BY <2>0, <3>1, <4>1 DEF Open, Spare, l
      <4> QED BY <2>2, <3>5, <4>3 DEF Rest
    <3> QED BY <3>2, <3>3, <3>4, <3>5
  <2>7. CASE Unmapped
    <3>1. pc = "loop" /\ pc' = "add" /\ log2phy[l] = Nowhere
      BY <2>1, <2>7 DEF Unmapped, At, Aligned
    <3>2. ~Open(log2phy[l])
      BY <3>1 DEF Open, Block, Nowhere
    <3>3. ofs % Pages = 0
      BY <2>1, <3>1, <3>2 DEF WInv, Rest
    <3> QED BY <2>0, <2>2, <3>1, <3>3 DEF Rest
  <2> QED BY <1>2, <2>4, <2>5, <2>6, <2>7
<1> QED BY <1>1, <1>2

LEMMA StepAdd ==
    ASSUME WInv, AddSkip \/ AddFound \/ AddNone
    PROVE  Filled' /\ Rest'
<1> USE DEF flashVars
<1> SUFFICES ASSUME Aligned' PROVE Filled' /\ Rest'
  BY DEF Filled, Rest
<1>1. pc = "add" /\ cmd' = cmd /\ ofs' = ofs /\ (failed' = failed \/ failed')
  BY DEF AddSkip, AddFound, AddNone, At
<1>2. Aligned /\ failed' = failed /\ ofs % Pages = 0
  BY <1>1 DEF Aligned, WInv, Rest, IInv, TypeOK
<1>3. CASE AddSkip
  <2>1. Filled'
    BY <1>1, <1>2, <1>3, FilledSame DEF AddSkip, WInv
  <2>2. pc' = "add"
    BY <1>1, <1>3 DEF AddSkip
  <2> QED BY <1>1, <1>2, <2>1, <2>2 DEF Rest
<1>4. CASE AddFound
  <2>1. phy \in Block /\ Spare(phy) \notin Block /\ l \in Block
    <3>1. phy \in Block
      BY <1>4, PowerPhy DEF AddFound, At, WInv, IInv
    <3> QED BY <1>1, <1>4, <3>1, FreeNone, PowerAt DEF AddFound, WInv, IInv
  <2>2. oob' = [oob EXCEPT ![phy] = ErasedTag] /\ data' = [data EXCEPT ![phy] = BlankPages]
    BY <1>4 DEF AddFound, Erase
  <2>3. OwnOrNone(ErasedTag)
    BY <2>1, OwnTags DEF OwnOrNone
  <2>4. OnlyPhy
    BY <2>1, <2>2, <2>3, OneTag DEF WInv, IInv
  <2>5. \A b \in Block : b # phy => data'[b] = data[b]
    BY <2>1, <2>2 DEF WInv, IInv, TypeOK
  <2>6. Filled'
    BY <1>1, <1>2, <2>1, <2>4, <2>5, FirstFilled DEF WInv
  <2>7. \/ pc' = "closeall" /\ ofs - cmd.start >= cmd.size
        \/ pc' = "erase"
    BY <1>2, <1>4 DEF AddFound, Transfer, Aligned
  <2>8. ofs - cmd.start >= cmd.size => ofs' >= cmd'.start + cmd'.size
    BY <1>1, <1>2, InProgress DEF WInv, IInv
  <2> QED BY <1>1, <1>2, <2>6, <2>7, <2>8 DEF Rest
<1>5. CASE AddNone
  BY <1>2, <1>5 DEF AddNone, Aligned
<1> QED BY <1>3, <1>4, <1>5

LEMMA StepPages ==
    ASSUME WInv, \/ EraseBlock \/ WriteOob \/ WriteOobFails
                 \/ pwrite \/ pwriteFails \/ pread \/ preadFails
    PROVE  Filled' /\ Rest'
<1> USE DEF flashVars
<1> SUFFICES ASSUME Aligned' PROVE Filled' /\ Rest'
  BY DEF Filled, Rest
<1>1. /\ pc \in AtBlock /\ cmd' = cmd /\ (failed' = failed \/ failed')
      /\ (ofs' = ofs \/ ofs' = ofs + 1)
  BY DEF EraseBlock, WriteOob, WriteOobFails, pwrite, pwriteFails, pread,
         preadFails, At, AtBlock
<1>2. Aligned /\ failed' = failed
  BY <1>1 DEF Aligned, WInv, IInv, TypeOK
<1>3. ~WriteOobFails /\ ~pwriteFails /\ ~pread /\ ~preadFails
  BY <1>2 DEF WriteOobFails, pwriteFails, pread, preadFails, Aligned, At, WInv, Rest
<1>4. /\ phy \in Block /\ l \in Block /\ log2phy[l] = phy /\ phy # Nowhere
      /\ ofs % Pages \in Page /\ Scanned
  <2>1. pc # "idle" /\ ofs < cmd.end /\ phy \in Block /\ log2phy[l] = phy
    BY <1>1 DEF WInv, IInv, Where, TypeOK, AtBlock
  <2> QED BY <1>1, <2>1, AtABlock DEF WInv, IInv, AtBlock, Scanned, Block, Nowhere
<1>5. Spare(phy) = l \/ Spare(phy) \notin Block
  BY <1>4 DEF WInv, IInv, Ahead
<1>6. CASE EraseBlock
  <2>1. Erase(phy) /\ pc' = "oob" /\ phy' = phy /\ ofs' = ofs /\ ofs % Pages = 0
    BY <1>2, <1>6 DEF EraseBlock, Aligned, At, WInv, Rest
  <2>2. OnlyPhy
    BY <1>6, PageSteps DEF WInv, IInv
  <2>3. \A b \in Block : b # phy => data'[b] = data[b]
    BY <1>4, <2>1 DEF Erase, WInv, IInv, TypeOK
  <2>4. Filled'
    BY <1>1, <1>2, <1>4, <1>5, <2>1, <2>2, <2>3, FirstFilled DEF WInv
  <2>5. oob'[phy] = ErasedTag /\ data'[phy] = BlankPages
    BY <1>4, <2>1 DEF Erase, WInv, IInv, TypeOK
  <2>6. BlankPages' = BlankPages /\ ErasedTag' = ErasedTag
    BY DEF BlankPages, ErasedTag
  <2> QED BY <2>1, <2>4, <2>5, <2>6 DEF Rest
<1>7. CASE WriteOob
  <2>1. /\ ofs' = ofs /\ ofs % Pages = 0 /\ oob[phy] = ErasedTag
        /\ data[phy] = BlankPages /\ data' = data /\ pc' = "pwrite" /\ phy' = phy
    BY <1>2, <1>7 DEF WriteOob, At, WInv, Rest
  <2>2. OnlyPhy
    BY <1>7, PageSteps DEF WInv, IInv
  <2>3. Filled'
    BY <1>1, <1>2, <1>4, <1>5, <2>1, <2>2, FirstFilled DEF WInv
  <2>4. oob' = [oob EXCEPT ![phy] = nand_set_logical_no(l)]
    BY <1>7, <2>1 DEF WriteOob, Programmed
  <2>5. oob'[phy] = nand_set_logical_no(l)
    BY <1>4, <2>4 DEF WInv, IInv, TypeOK
  <2>6. l \in 0 .. 1023
    BY <1>4, BlockSmall
  <2>7. nand_get_logical_no(oob'[phy]) = l
    BY <2>5, <2>6, TagRoundTrip
  <2>8. \A i \in Page : data[phy][i] = Blank
    BY <2>1 DEF BlankPages
  <2>9. ofs % Pages .. Pages - 1 \subseteq Page
    BY <1>4, NandAssumption DEF Page
  <2>10. Open(phy)'
    BY <1>4, <2>1, <2>7, <2>8, <2>9 DEF Open, Spare, l
  <2> QED BY <2>1, <2>3, <2>10 DEF Rest
<1>8. CASE pwrite
  <2>1. Open(phy) /\ pc' = "loop" /\ oob' = oob /\ log2phy' = log2phy /\ ofs' = ofs + 1
    BY <1>2, <1>8 DEF pwrite, At, WInv, Rest
  <2>2. Filled'
    BY <1>2, <1>8, <2>1, PageFilled DEF WInv
  <2>3. ASSUME ofs' % Pages # 0 PROVE Open(log2phy[l])'
    <3>1. /\ (ofs + 1) \div Pages = ofs \div Pages
          /\ (ofs + 1) % Pages = (ofs % Pages) + 1
      BY <1>2, <2>1, <2>3, DivMod, InProgress DEF WInv, IInv
    <3>2. l' = l /\ ofs' % Pages = (ofs % Pages) + 1
      BY <2>1, <3>1 DEF l
    <3>3. data'[phy] = [data[phy] EXCEPT ![ofs % Pages] = data'[phy][ofs % Pages]]
      <4> DEFINE c == Program(data[phy][ofs % Pages],
                              [file |-> cmd.file, page |-> ofs])
      <4>1. data' = [data EXCEPT ![phy][ofs % Pages] = c]
        BY <1>8 DEF pwrite
      <4> HIDE DEF c
      <4> QED BY <1>4, <4>1 DEF WInv, IInv, TypeOK
    <3>4. ASSUME NEW i \in ofs' % Pages .. Pages - 1
          PROVE  data'[phy][i] = Blank
      <4>1. i \in ofs % Pages .. Pages - 1 /\ i # ofs % Pages /\ i \in Page
        BY <1>4, <3>2, <3>4, NandAssumption DEF Page
      <4>2. data'[phy][i] = data[phy][i]
        BY <1>4, <3>3, <4>1 DEF WInv, IInv, TypeOK
      <4> QED BY <2>1, <4>1, <4>2 DEF Open
    <3>5. log2phy'[l'] = phy
      BY <1>4, <2>1, <3>2
    <3> QED BY <2>1, <3>2, <3>4, <3>5 DEF Open, Spare
  <2> QED BY <2>1, <2>2, <2>3 DEF Rest
<1> QED BY <1>3, <1>6, <1>7, <1>8

LEMMA StepWritten == NoScanFault /\ WInv /\ [Next]_vars => WInv'
<1> SUFFICES ASSUME NoScanFault, WInv, [Next]_vars PROVE WInv'
  OBVIOUS
<1>1. IInv'
  BY StepInv DEF WInv
<1>2. CASE UNCHANGED vars
  <2>1. \A a : PageAt(a)' = PageAt(a)
    BY <1>2, FlashSame DEF vars
  <2> QED BY <1>1, <1>2, <2>1 DEF vars, WInv, Filled, Rest, Aligned, PageOf, Open,
             Spare, l
<1>3. CASE closeall \/ PowerFails
  <2>1. cmd' = NoCommand
    BY <1>3 DEF closeall, PowerFails, Gone
  <2>2. ~Aligned'
    BY <2>1 DEF Aligned, NoCommand
  <2> QED BY <1>1, <2>2 DEF WInv, Filled, Rest
<1>4. CASE Start \/ scan_logical \/ Finished \/ Mapped \/ Unmapped
  BY <1>1, <1>4, StepSearch DEF WInv
<1>5. CASE AddSkip \/ AddFound \/ AddNone
  BY <1>1, <1>5, StepAdd DEF WInv
<1>6. CASE \/ EraseBlock \/ WriteOob \/ WriteOobFails
           \/ pwrite \/ pwriteFails \/ pread \/ preadFails
  BY <1>1, <1>6, StepPages DEF WInv
<1> QED BY <1>2, <1>3, <1>4, <1>5, <1>6, Zenon DEF Next

(***************************************************************************)
(* A WRITE from the start of a block that reported nothing can be read     *)
(* back: the next scan finds each of its pages, for any flash and file.    *)
(***************************************************************************)
THEOREM WrittenIsRead ==
    ASSUME NoScanFault
    PROVE  Spec => []WrittenReads
<1>1. Init => WInv
  <2> SUFFICES ASSUME Init PROVE WInv
    OBVIOUS
  <2>1. ~Aligned
    BY DEF Init, Aligned, NoCommand
  <2> QED BY <2>1, InitNumbers DEF WInv, Filled, Rest
<1>2. WInv /\ [Next]_vars => WInv'
  BY StepWritten
<1>3. WInv => WrittenReads
  <2> SUFFICES ASSUME WInv, pc = "closeall", Aligned PROVE Written
    BY DEF WrittenReads, Aligned, At
  <2>1. /\ ofs >= cmd.start + cmd.size
        /\ \A a \in cmd.start .. ofs - 1 : PageAt(a) = PageOf(a)
    BY DEF WInv, Filled, Rest
  <2>2. ofs \in Nat /\ cmd.start \in Nat /\ cmd.size \in Nat
    BY InProgress DEF WInv, IInv
  <2>3. cmd.start .. cmd.start + cmd.size - 1 \subseteq cmd.start .. ofs - 1
    BY <2>1, <2>2
  <2> QED BY <2>1, <2>3 DEF Written, PageOf
<1> QED BY <1>1, <1>2, <1>3, PTL DEF Spec

-----------------------------------------------------------------------------
(***************************************************************************)
(* READ: the file has the pages that main has passed, by a table that is   *)
(* the scan of the flash as it still is.                                   *)
(***************************************************************************)
Copied ==
    /\ Len(out) = ofs - cmd.start /\ ofs <= cmd.end
    /\ \A i \in 1 .. Len(out) : out[i] = PageAt(cmd.start + i - 1)

TableTrue == Scanned => \A n \in Block : log2phy[n] = PhysicalOf(n)

Reading ==
    /\ pc = "idle" => out = <<>>
    /\ pc # "idle" /\ cmd.op = "READ" =>
          /\ Copied /\ TableTrue
          /\ pc = "closeall" => failed \/ ofs = cmd.end

\* The file of READ has room for what is written to it.
FileHasRoom == "file" \notin Faults

\* A READ neither erases nor writes.
LEMMA ReadSteps ==
    ASSUME NoScanFault, FileHasRoom, TypeOK, Where, Reading, Next,
           pc # "idle", pc' # "idle", cmd.op = "READ"
    PROVE  Reading'
<1>0. /\ ofs \in Nat /\ cmd.start \in Nat /\ cmd.end \in Nat
      /\ cmd.start <= ofs /\ out \in Seq(Content)
  BY Asked, AddressNat DEF TypeOK, Where
<1>1. Copied /\ TableTrue /\ (pc = "closeall" => failed \/ ofs = cmd.end)
  BY DEF Reading
<1>2. \/ scan_logical \/ Finished \/ Mapped \/ Unmapped \/ pread \/ preadFails
  BY DEF Next, Where, AtBlock, Start, AddSkip, AddFound, AddNone, EraseBlock,
         WriteOob, WriteOobFails, pwrite, pwriteFails, closeall, PowerFails, Gone,
         At
<1>3. UNCHANGED <<oob, data, cmd>>
  BY <1>2 DEF scan_logical, Finished, Mapped, Unmapped, pread, preadFails, flashVars
<1>4. /\ \A a : PageAt(a)' = PageAt(a)
      /\ \A n : PhysicalOf(n)' = PhysicalOf(n)
  BY <1>3, FlashSame DEF PhysicalOf, Spare
<1>5. CASE scan_logical
  <2>1. log2phy' = [n \in Block |-> LastOf({b \in Block : Spare(b) = n})]
    BY <1>5 DEF scan_logical, NoScanFault, Fault
  <2>2. TableTrue'
    BY <1>4, <2>1 DEF TableTrue, PhysicalOf
  <2>3. Copied'
    BY <1>1, <1>3, <1>4, <1>5 DEF Copied, scan_logical
  <2> QED BY <1>3, <1>5, <2>2, <2>3 DEF Reading, scan_logical
<1>6. CASE Finished \/ Mapped \/ Unmapped \/ preadFails
  <2>1. UNCHANGED <<out, ofs, log2phy>> /\ Scanned
    BY <1>6 DEF Finished, Mapped, Unmapped, preadFails, Scanned, At
  <2>2. Copied' /\ TableTrue'
    BY <1>1, <1>3, <1>4, <2>1 DEF Copied, TableTrue
  <2>3. pc' = "closeall" => failed' \/ ofs' = cmd'.end
    BY <1>0, <1>1, <1>3, <1>6
       DEF Copied, Finished, Mapped, Unmapped, preadFails, Transfer
  <2> QED BY <2>2, <2>3 DEF Reading
<1>7. CASE pread
  <2>1. /\ pc = "pread" /\ pc' = "loop" /\ ofs' = ofs + 1
        /\ out' = Append(out, data[phy][ofs % Pages])
        /\ UNCHANGED log2phy
    BY <1>7 DEF pread, At, FileHasRoom, Fault
  <2>2. ofs < cmd.end /\ log2phy[l] = phy /\ phy \in Block /\ l \in Block
    BY <2>1, AtABlock DEF Where, AtBlock, TypeOK
  <2>3. PhysicalOf(l) = phy /\ phy # Nowhere
    BY <1>1, <2>1, <2>2 DEF TableTrue, Scanned, Block, Nowhere
  <2>4. data[phy][ofs % Pages] = PageAt(ofs)
    BY <2>3 DEF PageAt, l
  <2>5. /\ Len(out') = Len(out) + 1
        /\ \A i \in 1 .. Len(out) : out'[i] = out[i]
        /\ out'[Len(out) + 1] = PageAt(ofs)
    BY <1>0, <2>1, <2>4
  <2>6. Copied'
    <3>1. Len(out) \in Nat /\ Len(out) = ofs - cmd.start
      BY <1>0, <1>1 DEF Copied
    <3>2. cmd.start + (Len(out) + 1) - 1 = ofs
      BY <1>0, <3>1
    <3>3. \A i \in 1 .. Len(out) : out'[i] = PageAt(cmd.start + i - 1)
      BY <1>1, <2>5 DEF Copied
    <3>4. \A i \in 1 .. Len(out) + 1 : out'[i] = PageAt(cmd.start + i - 1)
      <4> TAKE i \in 1 .. Len(out) + 1
      <4>1. CASE i \in 1 .. Len(out)
        BY <3>3, <4>1
      <4>2. CASE i = Len(out) + 1
        BY <2>5, <3>2, <4>2
      <4> QED BY <3>1, <4>1, <4>2
    <3>5. \A i \in 1 .. Len(out') : out'[i] = PageAt(cmd.start + i - 1)'
      BY <1>3, <1>4, <2>5, <3>4
    <3>6. Len(out') = ofs' - cmd'.start /\ ofs' <= cmd'.end
      BY <1>0, <1>3, <2>1, <2>2, <2>5, <3>1
    <3> QED BY <3>5, <3>6 DEF Copied
  <2>7. TableTrue'
    BY <1>1, <1>4, <2>1 DEF TableTrue, Scanned
  <2> QED BY <2>1, <2>6, <2>7 DEF Reading
<1> QED BY <1>2, <1>5, <1>6, <1>7

LEMMA StepReading ==
    ASSUME NoScanFault, FileHasRoom, IInv, Reading, [Next]_vars
    PROVE  Reading'
<1>1. CASE UNCHANGED vars
  <2>1. \A a : PageAt(a)' = PageAt(a)
    BY <1>1, FlashSame DEF vars
  <2> QED BY <1>1, <2>1 DEF vars, Reading, Copied, TableTrue, Scanned, PhysicalOf,
                            Spare
<1>2. CASE Next /\ pc' = "idle"
  BY <1>2 DEF Next, Start, scan_logical, Finished, Mapped, Unmapped, Transfer,
              AddSkip, AddFound, AddNone, EraseBlock, WriteOob, WriteOobFails,
              pwrite, pwriteFails, pread, preadFails, closeall, PowerFails, Gone,
              At, Reading
<1>3. CASE Next /\ pc' # "idle" /\ pc = "idle"
  <2>1. Start
    BY <1>3 DEF Next, scan_logical, Finished, Mapped, Unmapped, AddSkip, AddFound,
                AddNone, EraseBlock, WriteOob, WriteOobFails, pwrite, pwriteFails,
                pread, preadFails, closeall, PowerFails, At
  <2>2. /\ pc' = "scan" /\ out' = <<>> /\ ofs' = cmd'.start
        /\ cmd'.start \in Nat /\ cmd'.end \in Nat /\ cmd'.start < cmd'.end
    <3>1. cmd' \in Command
      BY <2>1, NandAssumption DEF Start
    <3> QED BY <1>3, <2>1, <3>1, AddressNat DEF Start, Reading, Command
  <2> QED BY <2>2 DEF Reading, Copied, TableTrue, Scanned
<1>4. CASE Next /\ pc' # "idle" /\ pc # "idle" /\ cmd.op = "READ"
  BY <1>4, ReadSteps DEF IInv
<1>5. CASE Next /\ pc' # "idle" /\ pc # "idle" /\ cmd.op # "READ"
  <2>1. UNCHANGED cmd
    BY <1>5 DEF Next, Start, scan_logical, Finished, Mapped, Unmapped, AddSkip,
                AddFound, AddNone, EraseBlock, WriteOob, WriteOobFails, pwrite,
                pwriteFails, pread, preadFails, closeall, PowerFails, Gone, At
  <2> QED BY <1>5, <2>1 DEF Reading
<1> QED BY <1>1, <1>2, <1>3, <1>4, <1>5

(***************************************************************************)
(* The file of a READ is the pages it was asked for, in order, as the scan *)
(* finds them, and all of them if READ reported nothing and the file took  *)
(* them.                                                                   *)
(***************************************************************************)
THEOREM ReadIsExact ==
    ASSUME NoScanFault, FileHasRoom
    PROVE  Spec => []ReadExact
<1>1. Init => Reading
  BY DEF Init, Reading
<1>2. IInv /\ Reading => ReadExact
  <2> SUFFICES ASSUME IInv, Reading, pc = "closeall", cmd.op = "READ"
               PROVE  /\ \A i \in 1 .. Len(out) : out[i] = PageAt(cmd.start + i - 1)
                      /\ failed \/ Len(out) = cmd.end - cmd.start
    BY DEF ReadExact, At
  <2> QED BY DEF Reading, Copied
<1>3. IInv /\ [Next]_vars => IInv'
  BY StepInv
<1> QED BY <1>1, <1>2, <1>3, InitNumbers, StepReading, PTL DEF Spec

-----------------------------------------------------------------------------
(***************************************************************************)
(* The whole.  To whoever scans the flash, a command of nandlogical is one *)
(* of LogicalFlash: its steps alter blocks it was given, and the step to   *)
(* closeall is the one that tells what was done.                           *)
(***************************************************************************)
Disk == [n \in Block |-> View(n)]
Told == IF At("closeall") THEN Ended ELSE "nothing"
Made == IF At("closeall") /\ cmd.op = "READ" THEN out ELSE <<>>

\* A page is not a hole, nor is a block of pages.
LEMMA NoHole == Hole \notin Content /\ Hole \notin [Page -> Content]
<1>1. DOMAIN Hole = {}
  <2>1. DOMAIN <<>> = {}
    OBVIOUS
  <2> QED BY <2>1 DEF Hole
<1>2. 0 \in Page
  BY NandAssumption DEF Page
<1>3. Hole \notin [Page -> Content]
  BY <1>1, <1>2
<1>4. ASSUME NEW c \in Content PROVE c # Hole
  <2>1. DOMAIN c = {"file", "page"}
    BY DEF Content, Blank, Junk
  <2> QED BY <1>1, <2>1
<1> QED BY <1>3, <1>4

\* What the scan finds is an array of blocks.
LEMMA DiskTyped ==
    ASSUME TypeOK
    PROVE  Disk \in LF!Array
<1>1. ASSUME NEW n \in Block PROVE View(n) \in [Page -> Content] \cup {Hole}
  <2>1. PhysicalOf(n) \in Block \cup {Nowhere}
    BY LastIsOne DEF PhysicalOf
  <2> QED BY <2>1 DEF View, TypeOK
<1> QED BY <1>1 DEF Disk, LF!Array, Block, Page

\* The page at an address is that of the block, if it is there.
LEMMA PageOfDisk ==
    ASSUME TypeOK, NEW a, a \div Pages \in Block
    PROVE  IF PageAt(a) = Hole
           THEN a % Pages \in Page => Disk[a \div Pages] = Hole
           ELSE /\ Disk[a \div Pages] # Hole
                /\ Disk[a \div Pages][a % Pages] = PageAt(a)
<1> DEFINE n == a \div Pages
<1>1. Disk[n] = View(n)
  BY DEF Disk
<1>2. PhysicalOf(n) \in Block \cup {Nowhere}
  BY LastIsOne DEF PhysicalOf
<1>3. CASE PhysicalOf(n) = Nowhere
  BY <1>1, <1>3 DEF View, PageAt
<1>4. CASE PhysicalOf(n) \in Block
  <2>1. PhysicalOf(n) # Nowhere
    BY <1>4 DEF Block, Nowhere
  <2>2. View(n) = data[PhysicalOf(n)] /\ PageAt(a) = data[PhysicalOf(n)][a % Pages]
    BY <2>1 DEF View, PageAt
  <2>3. View(n) \in [Page -> Content]
    BY <1>4, <2>2 DEF TypeOK
  <2>4. View(n) # Hole
    BY <2>3, NoHole
  <2>5. a % Pages \in Page => PageAt(a) # Hole
    BY <2>2, <2>3, NoHole
  <2> QED BY <1>1, <2>2, <2>4, <2>5
<1> QED BY <1>2, <1>3, <1>4

\* Where a command begins, goes on and ends.
LEMMA Phases ==
    ASSUME TypeOK, Where, Next
    PROVE  /\ pc = "idle" => Start
           /\ pc # "idle" /\ pc' # "idle" => UNCHANGED cmd
           /\ pc # "idle" /\ pc' = "idle" => cmd' = NoCommand
           /\ pc = "closeall" => pc' = "idle" /\ UNCHANGED flashVars
           /\ cmd.op = "READ" /\ pc # "idle" => UNCHANGED flashVars
<1>1. pc = "idle" => Start
  BY DEF Next, scan_logical, Finished, Mapped, Unmapped, AddSkip, AddFound, AddNone,
         EraseBlock, WriteOob, WriteOobFails, pwrite, pwriteFails, pread, preadFails,
         closeall, PowerFails, At
<1>2. CASE Start
  BY <1>2 DEF Start, At
<1>3. CASE closeall \/ PowerFails
  <2>1. pc = "closeall" => UNCHANGED flashVars
    BY <1>3 DEF closeall, PowerFails, At
  <2>2. cmd.op = "READ" /\ pc # "idle" => UNCHANGED flashVars
    BY <1>3 DEF closeall, PowerFails, At, Where
  <2> QED BY <1>1, <1>3, <2>1, <2>2 DEF closeall, PowerFails, Gone
<1>4. CASE scan_logical \/ Finished \/ Mapped \/ Unmapped \/ AddSkip \/ AddNone
           \/ pread \/ preadFails
  <2>1. /\ pc \notin {"idle", "closeall"} /\ pc' # "idle"
        /\ UNCHANGED <<cmd, flashVars>>
    BY <1>4 DEF scan_logical, Finished, Mapped, Unmapped, AddSkip, AddNone, pread,
                preadFails, At, Transfer
  <2> QED BY <2>1
<1>5. CASE AddFound \/ EraseBlock \/ WriteOob \/ WriteOobFails \/ pwrite \/ pwriteFails
  <2>1. /\ pc \in {"add", "erase", "oob", "pwrite"} /\ pc' # "idle"
        /\ UNCHANGED cmd
    BY <1>5 DEF AddFound, EraseBlock, WriteOob, WriteOobFails, pwrite, pwriteFails,
                At, Transfer
  <2> QED BY <2>1 DEF Where
<1> QED BY <1>1, <1>2, <1>3, <1>4, <1>5 DEF Next

\* Each step alters no blocks but those given.
LEMMA StepAlters ==
    ASSUME NoScanFault, IInv, Next, pc # "idle"
    PROVE  LF!Alters
<1>1. Disk' \in LF!Array
  <2>1. TypeOK'
    BY StepInv DEF IInv
  <2>2. Disk' = [n \in Block |-> View(n)'] /\ LF!Array = [Block -> [Page -> Content] \cup {Hole}]
    BY DEF Disk, LF!Array, Block, Page
  <2>3. ASSUME NEW n \in Block PROVE View(n)' \in [Page -> Content] \cup {Hole}
    <3>1. PhysicalOf(n)' \in Block \cup {Nowhere}
      BY LastIsOne DEF PhysicalOf
    <3> QED BY <2>1, <3>1 DEF View, TypeOK
  <2> QED BY <2>2, <2>3
<1>2. Touched = LF!Given
  BY Asked DEF Touched, LF!Given, IInv, TypeOK
<1>3. \A n \in Block : Disk'[n] # Disk[n] => n \in Touched
  BY StepNeighbours DEF Disk
<1> QED BY <1>1, <1>2, <1>3 DEF LF!Alters, Disk, Block

\* The end of an interval moved down.
LEMMA Within ==
    ASSUME NEW i \in Nat, NEW k \in Nat, NEW m \in Nat,
           NEW a \in i .. i + k - 1, a < m
    PROVE  a \in i .. m - 1
  BY SMT

\* A WRITE tells the truth of its file.
LEMMA WriteEnds ==
    ASSUME NoScanFault, WInv, Next, pc \notin {"idle", "closeall"},
           pc' = "closeall", cmd.op = "WRITE"
    PROVE  LF!EndWrite
<1>1. TypeOK /\ TypeOK' /\ WInv' /\ UNCHANGED cmd /\ LF!Alters
  BY StepWritten, Phases, StepAlters DEF WInv, IInv
<1>2. Told' \in {"good", "bad"} /\ Told = "nothing" /\ Made = <<>> /\ Made' = <<>>
  BY <1>1 DEF Told, Made, Ended, At
<1>3. cmd # NoCommand
  BY <1>1 DEF TypeOK
<1>4. ASSUME Told' = "good", cmd.start % Pages = 0 PROVE LF!Stored
  <2>1. Aligned'
    BY <1>1, <1>4 DEF Told, Ended, At, Aligned
  <2>2. /\ ofs' >= cmd'.start + cmd'.size
        /\ \A a \in cmd'.start .. ofs' - 1 : PageAt(a)' = PageOf(a)'
    BY <1>1, <2>1 DEF WInv, Filled, Rest
  <2>3. /\ ofs' \in Address /\ cmd.start \in Nat /\ cmd.size \in Nat /\ cmd.file \in Files
    BY <1>1, Asked, AddressNat DEF TypeOK
  <2>4. ASSUME NEW a \in cmd.start .. cmd.start + cmd.size - 1
        PROVE  /\ Disk'[a \div Pages] # Hole
               /\ Disk'[a \div Pages][a % Pages] = [file |-> cmd.file, page |-> a]
    <3>1. a \in Nat /\ a < ofs' /\ ofs' \in Nat
      BY <1>1, <2>2, <2>3, AddressNat
    <3>2. PageAt(a)' = [file |-> cmd.file, page |-> a]
      <4>1. a \in cmd'.start .. ofs' - 1
        BY <1>1, <2>3, <3>1, Within
      <4>2. \A b \in cmd'.start .. ofs' - 1 : PageAt(b)' = PageOf(b)'
        BY <2>2
      <4>3. PageAt(a)' = PageOf(a)'
        BY <4>1, <4>2, Zenon
      <4> QED BY <1>1, <4>3 DEF PageOf
    <3>3. a \div Pages \in Block
      BY <2>3, <3>1, AtAPage
    <3>4. PageAt(a)' # Hole
      <4>1. DOMAIN [file |-> cmd.file, page |-> a] = {"file", "page"}
        OBVIOUS
      <4>2. DOMAIN Hole = {}
        <5>1. DOMAIN <<>> = {}
          OBVIOUS
        <5> QED BY <5>1 DEF Hole
      <4> QED BY <3>2, <4>1, <4>2
    <3>5. PhysicalOf(a \div Pages)' # Nowhere /\ PageAt(a)' = View(a \div Pages)'[a % Pages]
      BY <3>4 DEF PageAt, View
    <3>6. Disk'[a \div Pages] = View(a \div Pages)'
      BY <3>3 DEF Disk
    <3>7. View(a \div Pages)' # Hole
      <4>1. PhysicalOf(a \div Pages)' \in Block
        BY <3>5, LastIsOne DEF PhysicalOf
      <4>2. View(a \div Pages)' \in [Page -> Content]
        BY <1>1, <3>5, <4>1 DEF View, TypeOK
      <4> QED BY <4>2, NoHole
    <3> QED BY <3>2, <3>5, <3>6, <3>7
  <2> QED BY <2>4 DEF LF!Stored, LF!Present, LF!PageAt, Disk
<1> QED
  BY <1>1, <1>2, <1>3, <1>4 DEF LF!EndWrite, LF!Busy, Told, Made

\* A READ tells the truth of the file it made.
LEMMA ReadEnds ==
    ASSUME NoScanFault, FileHasRoom, IInv, Reading, Next, pc \notin {"idle", "closeall"},
           pc' = "closeall", cmd.op = "READ"
    PROVE  LF!EndRead
<1>1. TypeOK /\ TypeOK' /\ IInv' /\ Reading' /\ UNCHANGED <<cmd, oob, data>>
  BY StepInv, StepReading, Phases DEF IInv, flashVars
<1>2. Disk' = Disk /\ \A a : PageAt(a)' = PageAt(a)
  BY <1>1, FlashSame, SameView DEF Disk
<1>3. /\ cmd.start \in Nat /\ cmd.end \in Address /\ cmd.end \in Nat /\ out' \in Seq(Content)
      /\ cmd # NoCommand
  BY <1>1, Asked, AddressNat DEF TypeOK
<1>4. /\ Len(out') = ofs' - cmd.start /\ ofs' <= cmd.end /\ ofs' \in Nat
      /\ \A i \in 1 .. Len(out') : out'[i] = PageAt(cmd.start + i - 1)
      /\ failed' \/ ofs' = cmd.end
  BY <1>1, <1>2, AddressNat DEF Reading, Copied, TypeOK
<1> DEFINE n == Len(out')
<1>5. n \in 0 .. cmd.end - cmd.start /\ n \in Nat
  BY <1>3, <1>4
<1>6. Told' \in IF n = cmd.end - cmd.start THEN {"good", "bad"} ELSE {"bad"}
  BY <1>3, <1>4 DEF Told, Ended, At
<1>7. ASSUME NEW a \in cmd.start .. cmd.start + n - 1
      PROVE  /\ Disk[a \div Pages] # Hole
             /\ Disk[a \div Pages][a % Pages] = PageAt(a)
  <2>1. a - cmd.start + 1 \in 1 .. n /\ cmd.start + (a - cmd.start + 1) - 1 = a
    BY <1>3, <1>5
  <2>2. PageAt(a) \in Content
    <3>1. \A i \in 1 .. n : out'[i] \in Content
      BY <1>3
    <3>2. PICK i \in 1 .. n : cmd.start + i - 1 = a
      BY <2>1
    <3> QED BY <1>4, <3>1, <3>2
  <2>3. a \in Nat /\ a < cmd.end
    BY <1>3, <1>5
  <2>4. a \div Pages \in Block
    BY <1>3, <2>3, AtAPage
  <2> QED BY <1>1, <2>2, <2>4, NoHole, PageOfDisk
<1>8. out' = [i \in 1 .. n |-> Disk[(cmd.start + i - 1) \div Pages][(cmd.start + i - 1) % Pages]]
  <2>1. \A i \in 1 .. n : cmd.start + i - 1 \in cmd.start .. cmd.start + n - 1
    BY <1>3, <1>5
  <2>2. \A i \in 1 .. n : out'[i] = Disk[(cmd.start + i - 1) \div Pages][(cmd.start + i - 1) % Pages]
    BY <1>4, <1>7, <2>1
  <2>3. out' = [i \in 1 .. n |-> out'[i]]
    BY <1>3
  <2> QED BY <2>2, <2>3
<1>9. Made' = out' /\ Told = "nothing"
  BY <1>1 DEF Made, Told, At
<1> HIDE DEF n
<1> QED
  BY <1>1, <1>2, <1>3, <1>5, <1>6, <1>7, <1>8, <1>9
     DEF LF!EndRead, LF!Busy, LF!Present, LF!PageAt, Told, Made, Disk

\* Every step is one of LogicalFlash, or none.
LEMMA StepStores ==
    ASSUME NoScanFault, FileHasRoom, WInv, Reading, [Next]_vars
    PROVE  LF!Next \/ UNCHANGED <<Disk, cmd, Told, Made>>
<1>0. TypeOK /\ Where /\ IInv /\ TypeOK'
  BY StepWritten DEF WInv, IInv
<1>1. CASE UNCHANGED vars
  BY <1>1, SameView DEF vars, Disk, Told, Made, Ended, At
<1>2. CASE Next /\ pc = "idle"
  <2>1. Start /\ cmd = NoCommand
    BY <1>0, <1>2, Phases DEF TypeOK
  <2>2. Disk' = Disk /\ Told' = Told /\ Made' = Made
    BY <2>1, SameView DEF Start, flashVars, Disk, Told, Made, At
  <2> QED BY <2>1, <2>2 DEF LF!Next, LF!Begin, Start, Disk, Told, Made
<1>3. CASE Next /\ pc = "closeall"
  <2>1. pc' = "idle" /\ cmd' = NoCommand /\ UNCHANGED flashVars /\ cmd # NoCommand
    BY <1>0, <1>3, Phases DEF TypeOK
  <2>2. Disk' = Disk /\ Told' = "nothing" /\ Made' = <<>> /\ Told # "nothing"
    BY <1>3, <2>1, SameView DEF flashVars, Disk, Told, Made, Ended, At
  <2> QED BY <2>1, <2>2 DEF LF!Next, LF!Leave, LF!Busy, LF!Over, Disk, Told, Made
<1>4. CASE Next /\ pc \notin {"idle", "closeall"} /\ pc' = "idle"
  <2>1. cmd' = NoCommand /\ cmd # NoCommand /\ LF!Alters
    BY <1>0, <1>4, Phases, StepAlters DEF TypeOK
  <2>2. Told = "nothing" /\ Told' = "nothing" /\ Made' = <<>>
    BY <1>4 DEF Told, Made, At
  <2> QED BY <2>1, <2>2 DEF LF!Next, LF!PowerFails, LF!Busy, LF!Over, Told, Made
<1>5. CASE Next /\ pc \notin {"idle", "closeall"} /\ pc' \notin {"idle", "closeall"}
  <2>1. UNCHANGED cmd /\ cmd # NoCommand /\ LF!Alters
    BY <1>0, <1>5, Phases, StepAlters DEF TypeOK
  <2>2. Told = "nothing" /\ Told' = "nothing" /\ Made = <<>> /\ Made' = <<>>
    BY <1>5 DEF Told, Made, At
  <2> QED BY <2>1, <2>2 DEF LF!Next, LF!Work, LF!Busy, Told, Made
<1>6. CASE Next /\ pc \notin {"idle", "closeall"} /\ pc' = "closeall"
  <2>1. cmd.op \in {"READ", "WRITE"}
    BY <1>0, <1>6, Asked
  <2> QED BY <1>0, <1>6, <2>1, WriteEnds, ReadEnds DEF LF!Next
<1> QED BY <1>1, <1>2, <1>3, <1>4, <1>5, <1>6

(***************************************************************************)
(* nandlogical implements the array of logical blocks: for any flash, any  *)
(* files and commands, bad blocks, failing ioctls and pages, and a power   *)
(* failure at any moment, as long as the scan leaves no block out and the  *)
(* file of READ takes each page.                                           *)
(***************************************************************************)
THEOREM StoreImplemented ==
    ASSUME NoScanFault, FileHasRoom
    PROVE  Spec => ImplementsStore
<1>1. Init => WInv /\ Reading /\ LF!Init
  <2> SUFFICES ASSUME Init PROVE WInv /\ Reading /\ LF!Init
    OBVIOUS
  <2>1. IInv
    BY InitNumbers
  <2>2. ~Aligned
    BY DEF Init, Aligned, NoCommand
  <2>3. WInv /\ Reading
    BY <2>1, <2>2 DEF WInv, Filled, Rest, Init, Reading
  <2>4. Disk \in LF!Array
    BY <2>1, DiskTyped DEF IInv
  <2> QED BY <2>3, <2>4 DEF Init, LF!Init, Disk, At
<1>2. WInv /\ Reading /\ [Next]_vars => (WInv /\ Reading)'
  BY StepWritten, StepReading DEF WInv
<1>3. WInv /\ Reading /\ [Next]_vars
      => [LF!Next]_<<[n \in Block |-> View(n)], cmd,
                     IF At("closeall") THEN Ended ELSE "nothing",
                     IF At("closeall") /\ cmd.op = "READ" THEN out ELSE <<>>>>
  BY StepStores DEF Disk, Told, Made
<1> QED BY <1>1, <1>2, <1>3, PTL DEF Spec, ImplementsStore, LF!Spec
=============================================================================
