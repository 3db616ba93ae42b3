----------------------------- MODULE NandProofs -----------------------------
(***************************************************************************)
(* What NandTag and NandLogical promise for every flash, every number of   *)
(* pages and blocks, and every file.                                       *)
(***************************************************************************)
EXTENDS NandLogical, FiniteSetTheorems, WellFoundedInduction, TLAPS

LEMMA BitsFinite ==
    \A b \in Byte : IsFiniteSet(Bits(b)) /\ Cardinality(Bits(b)) \in Nat
<1>1. Masks \subseteq 0 .. 128
  BY DEF Masks
<1>2. \A top \in Int : IsFiniteSet(0 .. top)
  BY FS_Interval
<1>3. IsFiniteSet(Masks)
  <2> DEFINE top == 128
  <2>1. top \in Int
    OBVIOUS
  <2> HIDE DEF top
  <2>2. IsFiniteSet(0 .. top)
    BY <1>2, <2>1, Zenon
  <2>3. Masks \subseteq 0 .. top
    BY <1>1 DEF top
  <2> QED BY <2>2, <2>3, FS_Subset, Zenon
<1> QED BY <1>3, FS_Subset, FS_CardinalityType DEF Bits

\* One more than an even byte has one more bit.
LEMMA OddBits ==
    ASSUME NEW b \in Byte, b % 2 = 0
    PROVE  /\ b + 1 \in Byte
           /\ Bits(b + 1) = Bits(b) \cup {1}
           /\ 1 \notin Bits(b)
<1>1. b + 1 \in Byte
  BY SMT DEF Byte
<1>2. \A bit \in Masks : bit # 1 => (b + 1) \div bit = b \div bit
  BY SMT DEF Masks, Byte
<1>3. (b \div 1) % 2 = 0 /\ ((b + 1) \div 1) % 2 = 1
  BY SMT DEF Byte
<1>4. 1 \in Bits(b + 1) /\ 1 \notin Bits(b)
  BY <1>3, SMT DEF Bits, Masks
<1>5. \A bit \in Masks : bit # 1 => (bit \in Bits(b + 1) <=> bit \in Bits(b))
  BY <1>2, Zenon DEF Bits
<1>6. \A v : Bits(v) \subseteq Masks
  BY Zenon DEF Bits
<1> QED BY <1>1, <1>4, <1>5, <1>6, Zenon

LEMMA OddByte ==
    ASSUME NEW b \in Byte, b % 2 = 0
    PROVE  b + 1 \in OddBytes <=> b \notin OddBytes
<1>1. Cardinality(Bits(b + 1)) = Cardinality(Bits(b)) + 1
  BY OddBits, BitsFinite, FS_AddElement
<1>2. Cardinality(Bits(b)) \in Nat
  BY BitsFinite
<1> QED BY <1>1, <1>2, OddBits DEF OddBytes

LEMMA SetWordEven ==
    ASSUME NEW n \in 0 .. 1023
    PROVE  /\ SetWord(n) \in Word
           /\ SetWord(n).hi < 255
           /\ ~OddPar(SetWord(n))
           /\ (SetWord(n).lo \div 2) + 128 * (SetWord(n).hi % 8) = n
<1> DEFINE lo == (n % 128) * 2
           hi == ((n \div 128) % 8) + 16
<1>1. /\ lo \in Byte /\ hi \in 16 .. 23 /\ lo + 1 \in Byte
      /\ lo % 2 = 0 /\ lo \div 2 = n % 128 /\ (lo + 1) \div 2 = n % 128
      /\ hi % 8 = n \div 128
  BY SMT DEF Byte
<1>2. (n % 128) + 128 * (n \div 128) = n
  BY SMT
<1>3. SetWord(n) = IF OddPar([lo |-> lo, hi |-> hi])
                   THEN [lo |-> lo + 1, hi |-> hi] ELSE [lo |-> lo, hi |-> hi]
  BY DEF SetWord
<1>4. lo + 1 \in OddBytes <=> lo \notin OddBytes
  BY <1>1, OddByte
<1> HIDE DEF lo, hi
<1>5. OddPar([lo |-> lo, hi |-> hi]) => ~OddPar([lo |-> lo + 1, hi |-> hi])
  BY <1>4 DEF OddPar
<1> QED BY <1>1, <1>2, <1>3, <1>5 DEF Word, Byte

LEMMA SetWordNumber ==
    ASSUME NEW n \in 0 .. 1023
    PROVE  Number(SetWord(n)) = n
<1>1. /\ SetWord(n).hi < 255 /\ ~OddPar(SetWord(n))
      /\ (SetWord(n).lo \div 2) + 128 * (SetWord(n).hi % 8) = n
  BY SetWordEven
<1>2. SetWord(n) # Ones
  BY <1>1 DEF Ones
<1> QED BY <1>1, <1>2, Zenon DEF Number

(***************************************************************************)
(* The number that nand_set_logical_no writes is the one that              *)
(* nand_get_logical_no reads, for each of the 1024 that fit.               *)
(***************************************************************************)
THEOREM TagRoundTrip ==
    \A n \in 0 .. 1023 : nand_get_logical_no(nand_set_logical_no(n)) = n
<1> TAKE n \in 0 .. 1023
<1>1. nand_get_logical_no(nand_set_logical_no(n)) = Number(SetWord(n))
  BY DEF nand_get_logical_no, nand_set_logical_no
<1> QED BY <1>1, SetWordNumber, Zenon

LEMMA NoBlock ==
    /\ NoMajority \notin 0 .. 447 /\ ParityError \notin 0 .. 447
    /\ Erased \notin 0 .. 447
  BY DEF NoMajority, ParityError, Erased

LEMMA ErasedNumber == nand_get_logical_no(ErasedTag) \notin 0 .. 447
<1>1. nand_get_logical_no(ErasedTag) = Number(Ones)
  BY DEF nand_get_logical_no, ErasedTag
<1> QED BY <1>1, NoBlock DEF Number

LEMMA SpoiltNumber == nand_get_logical_no(Spoilt) \notin 0 .. 447
<1>1. Spoilt[0] = [lo |-> 1, hi |-> 0] /\ Spoilt[1] = Spoilt[0]
  BY DEF Spoilt
<1>0. nand_get_logical_no(Spoilt) = Number([lo |-> 1, hi |-> 0])
  BY <1>1, Zenon DEF nand_get_logical_no
<1>2. Bits(1) = {1} /\ Bits(0) = {}
  BY SMT DEF Bits, Masks
<1>4. Cardinality(Bits(1)) = 1 /\ Cardinality(Bits(0)) = 0
  BY <1>2, FS_Singleton, FS_EmptySet, Zenon
<1>3. 1 \in OddBytes /\ 0 \notin OddBytes
  BY <1>4, SMT DEF OddBytes, Byte
<1>5. OddPar([lo |-> 1, hi |-> 0])
  BY <1>3 DEF OddPar
<1> QED BY <1>0, <1>5, NoBlock, Zenon DEF Number

(***************************************************************************)
(* Spare bytes that a power failure left half written are those of the     *)
(* block they were meant for, or of none of the partition's.               *)
(***************************************************************************)
THEOREM TornTagHarmless ==
    \A n \in 0 .. 447 : \A t \in TornTags(n) :
        nand_get_logical_no(t) = n \/ nand_get_logical_no(t) \notin 0 .. 447
<1> SUFFICES ASSUME NEW n \in 0 .. 447, NEW t \in TornTags(n)
             PROVE  \/ nand_get_logical_no(t) = n
                    \/ nand_get_logical_no(t) \notin 0 .. 447
  OBVIOUS
<1> DEFINE w == SetWord(n)
           low == [w EXCEPT !.hi = 255]
<1>0. n \in 0 .. 1023
  OBVIOUS
<1>1. w \in Word
  BY <1>0, SetWordEven, Zenon
<1>2. Number(w) = n
  BY <1>0, SetWordNumber, Zenon
<1>3. Number(Ones) \notin 0 .. 447
  BY NoBlock DEF Number
<1>4. Number(low) \notin 0 .. 447
  <2>1. low.lo \in 0 .. 255 /\ low.hi = 255
    BY <1>1 DEF Word, Byte
  <2> HIDE DEF w, low
  <2>2. (low.lo \div 2) + 128 * (low.hi % 8) >= 448
    BY <2>1, SMT
  <2> QED BY <2>2, NoBlock DEF Number
<1>5. CASE \E S \in SUBSET (0 .. 2) :
               t = [c \in 0 .. 2 |-> IF c \in S THEN w ELSE Ones]
  <2> PICK S \in SUBSET (0 .. 2) :
               t = [c \in 0 .. 2 |-> IF c \in S THEN w ELSE Ones]
    BY <1>5
  <2>1. t[0] \in {w, Ones} /\ t[1] \in {w, Ones} /\ t[2] \in {w, Ones}
    OBVIOUS
  <2> HIDE DEF w
  <2> QED BY <2>1, <1>2, <1>3, NoBlock DEF nand_get_logical_no
<1>6. CASE t = [c \in 0 .. 2 |-> low]
  <2>1. t[0] = low /\ t[1] = low
    BY <1>6
  <2> HIDE DEF low
  <2> QED BY <2>1, <1>4 DEF nand_get_logical_no
<1>7. CASE t = [c \in 0 .. 2 |-> IF c = 0 THEN w
                                 ELSE IF c = 1 THEN low ELSE Ones]
  <2>1. t[0] = w /\ t[1] = low /\ t[2] = Ones
    BY <1>7
  <2> HIDE DEF low, w
  <2> QED BY <2>1, <1>2, <1>3, <1>4, NoBlock DEF nand_get_logical_no
<1> QED BY <1>5, <1>6, <1>7 DEF TornTags

-----------------------------------------------------------------------------
(***************************************************************************)
(* The invariant.  Where: the block and the table entry at each step.      *)
(* Found: the table knows every block with a number.  Ahead: its entries   *)
(* for blocks that main has not left are true; those behind may be stale.  *)
(***************************************************************************)
AtBlock == {"erase", "oob", "pwrite", "pread"}
Scanned == pc \notin {"idle", "scan"}

Where ==
    /\ pc # "idle" => cmd.start <= ofs
    /\ pc \in AtBlock \cup {"add"} => ofs < cmd.end
    /\ pc \in {"add", "erase", "oob", "pwrite"} => cmd.op = "WRITE"
    /\ pc = "add" => log2phy[l] = Nowhere /\ phy # Nowhere
    /\ pc \in AtBlock => log2phy[l] = phy

Found ==
    Scanned => \A b \in Block : Spare(b) \in Block => log2phy[Spare(b)] = b

Ahead ==
    Scanned => \A n \in Block : log2phy[n] # Nowhere =>
        /\ n > l => Spare(log2phy[n]) = n
        /\ n = l => (Spare(log2phy[n]) \in Block => Spare(log2phy[n]) = n)

IInv == TypeOK /\ OneCopy /\ Where /\ Found /\ Ahead

\* The scan says nothing of a block that it cannot read: not assumed away in
\* TypeOK, but in what follows about the numbers.
NoScanFault == "scan" \notin Faults

LEMMA DivBound ==
    ASSUME NEW a \in Nat, NEW P \in Nat \ {0}, NEW B \in Nat, a < B * P
    PROVE  a \div P \in 0 .. B - 1
  BY SMT

LEMMA DivSucc ==
    ASSUME NEW a \in Nat, NEW P \in Nat \ {0}
    PROVE  (a + 1) \div P \in {a \div P, a \div P + 1}
  BY SMT

\* The block that main is at is one of the partition's.
LEMMA AtAPage ==
    ASSUME NEW a \in Nat, NEW e \in Address, a < e
    PROVE  a \div Pages \in Block /\ a % Pages \in Page /\ a + 1 \in Address
<1>1. Blocks \in Nat /\ Pages \in Nat \ {0}
  BY NandAssumption
<1>2. e \in Int /\ e <= Blocks * Pages /\ Blocks * Pages \in Int
  BY <1>1 DEF Address
<1>3. a % Pages \in 0 .. Pages - 1
  BY <1>1
<1>4. a < Blocks * Pages /\ a + 1 <= Blocks * Pages
  BY <1>2
<1>5. a \div Pages \in Block
  BY <1>1, <1>4, DivBound DEF Block
<1> QED BY <1>2, <1>3, <1>4, <1>5 DEF Page, Address

LEMMA BlockSmall == Block \subseteq 0 .. 447
  BY NandAssumption DEF Block

\* A set of blocks that is not empty has a last one.
LEMMA LastIsOne ==
    ASSUME NEW S \in SUBSET Block
    PROVE  LastOf(S) \in S \cup {Nowhere} /\ (S # {} => LastOf(S) \in S)
<1>1. CASE S = {}
  BY <1>1 DEF LastOf
<1>2. CASE S # {}
  <2> DEFINE T == {Blocks - b : b \in S}
             R == {m \in Nat \X Nat : m[1] < m[2]}
  <2>1. T \subseteq Nat /\ T # {}
    BY <1>2, NandAssumption DEF Block
  <2>2. IsWellFoundedOn(R, Nat)
    <3>1. R = OpToRel(<, Nat)
      BY DEF OpToRel
    <3> QED BY <3>1, NatLessThanWellFounded
  <2>6. \A i, j \in Nat : i < j => <<i, j>> \in R
    <3> TAKE i, j \in Nat
    <3>1. <<i, j>> \in Nat \X Nat /\ <<i, j>>[1] = i /\ <<i, j>>[2] = j
      OBVIOUS
    <3> QED BY <3>1
  <2>3. PICK x \in T : \A y \in T : ~(<<y, x>> \in R)
    <3> HIDE DEF T, R
    <3> QED BY <2>1, <2>2, WFMin
  <2>4. PICK b \in S : x = Blocks - b
    OBVIOUS
  <2>5. \A c \in S : c <= b
    <3> TAKE c \in S
    <3>0. Blocks - c \in T /\ Blocks - c \in Nat /\ Blocks - b \in Nat
      BY <2>1, <2>4
    <3>1. <<Blocks - c, x>> \notin R
      BY <2>3, <3>0
    <3>2. ~(Blocks - c < Blocks - b)
      <4> HIDE DEF R, T
      <4> QED BY <2>4, <2>6, <3>0, <3>1
    <3>3. b \in Int /\ c \in Int /\ Blocks \in Int
      BY NandAssumption DEF Block
    <3> QED BY <3>2, <3>3
  <2> QED BY <1>2, <2>5 DEF LastOf
<1> QED BY <1>1, <1>2

-----------------------------------------------------------------------------
\* Types alone, whatever may fail; Where says which block main is at.
LEMMA InitTyped == Init => TypeOK /\ Where
<1> SUFFICES ASSUME Init PROVE TypeOK /\ Where
  OBVIOUS
<1>1. oob \in [Block -> Copies]
  BY NandAssumption DEF Init
<1>2. data \in [Block -> [Page -> Content]]
  <2>1. Blank \in Content /\ Junk \in Content
    BY DEF Content
  <2>2. ASSUME NEW b \in Block, NEW i \in Page, Spare(b) \in Block
        PROVE  [file |-> "old", page |-> Spare(b) * Pages + i] \in Content
    <3>1. Spare(b) * Pages + i \in Address
      <4>1. Pages \in Nat \ {0} /\ Blocks \in Nat
        BY NandAssumption
      <4> DEFINE n == Spare(b)
      <4>2. n \in 0 .. Blocks - 1 /\ i \in 0 .. Pages - 1
        BY <2>2 DEF Block, Page
      <4> HIDE DEF n
      <4>3. n * Pages + i \in Nat /\ n * Pages + i <= n * Pages + Pages
        BY <4>1, <4>2
      <4>4. (Blocks - 1 - n) * Pages \in Nat
        BY <4>1, <4>2
      <4>5. n * Pages + Pages <= Blocks * Pages
        BY <4>1, <4>2, <4>4
      <4> QED BY <4>1, <4>2, <4>3, <4>5 DEF Address, n
    <3> QED BY <3>1 DEF Content
  <2> QED BY <2>1, <2>2 DEF Init
<1>3. ofs \in Address
  BY NandAssumption DEF Init, Address
<1>4. pc = "idle" /\ cmd = NoCommand /\ phy = Nowhere /\ out = <<>>
      /\ failed = FALSE /\ log2phy = [n \in Block |-> Nowhere]
  BY DEF Init
<1>5. log2phy \in [Block -> Block \cup {Nowhere}]
  BY <1>4
<1>6. TypeOK
  <2>1. out \in Seq(Content)
    BY <1>4
  <2>2. pc \in PCs /\ pc \notin {"erase", "oob", "pwrite", "pread"}
    BY <1>4 DEF PCs
  <2>3. cmd \in Commands \cup {NoCommand} /\ (pc = "idle" <=> cmd = NoCommand)
    BY <1>4
  <2> QED BY <1>1, <1>2, <1>3, <1>4, <1>5, <2>1, <2>2, <2>3, Zenon DEF TypeOK
<1>7. Where
  BY <1>4 DEF Where, AtBlock
<1> QED BY <1>6, <1>7

\* What the command line says, while main runs.
LEMMA Asked ==
    ASSUME TypeOK, pc # "idle"
    PROVE  /\ cmd \in Commands
           /\ cmd.start \in Address /\ cmd.end \in Address
           /\ cmd.size \in Address /\ cmd.file \in Files
           /\ cmd.op \in {"READ", "WRITE"}
           /\ cmd.start < cmd.end /\ cmd.size <= cmd.end - cmd.start
<1>1. cmd \in Commands
  BY DEF TypeOK
<1>2. Commands \subseteq Command
  BY NandAssumption
<1> QED BY <1>1, <1>2 DEF Command

LEMMA AddressNat == Address \subseteq Nat
  BY DEF Address

LEMMA AtABlock ==
    ASSUME TypeOK, pc # "idle", ofs < cmd.end
    PROVE  l \in Block /\ ofs % Pages \in Page /\ ofs + 1 \in Address
<1>1. ofs \in Nat /\ cmd.end \in Address
  BY Asked, AddressNat DEF TypeOK
<1> QED BY <1>1, AtAPage DEF l

LEMMA GoneTyped ==
    ASSUME Gone, oob' \in [Block -> Copies], data' \in [Block -> [Page -> Content]]
    PROVE  TypeOK' /\ Where'
<1>1. /\ pc' = "idle" /\ cmd' = NoCommand /\ phy' = Nowhere /\ out' = <<>>
      /\ failed' = FALSE /\ log2phy' = [n \in Block |-> Nowhere] /\ ofs' = 0
  BY DEF Gone
<1>2. log2phy' \in [Block -> Block \cup {Nowhere}]
  BY <1>1
<1>3. ofs' \in Address
  BY <1>1, NandAssumption DEF Address
<1>4. out' \in Seq(Content)
  BY <1>1
<1>5. pc' \in PCs /\ pc' \notin {"erase", "oob", "pwrite", "pread"}
  BY <1>1 DEF PCs
<1>6. cmd' \in Commands \cup {NoCommand} /\ (pc' = "idle" <=> cmd' = NoCommand)
  BY <1>1
<1>7. TypeOK'
  BY <1>1, <1>2, <1>3, <1>4, <1>5, <1>6, Zenon DEF TypeOK
<1>8. Where'
  BY <1>1 DEF Where, AtBlock
<1> QED BY <1>7, <1>8

\* Reads and writes of the flash keep its type.
LEMMA TagTyped ==
    /\ ErasedTag \in Copies /\ Spoilt \in Copies
    /\ \A n \in 0 .. 447 : nand_set_logical_no(n) \in Copies
    /\ \A n \in 0 .. 447 : TornTags(n) \subseteq Copies
<1>1. Ones \in Word /\ [lo |-> 1, hi |-> 0] \in Word
  BY DEF Ones, Word, Byte
<1>2. ErasedTag \in Copies /\ Spoilt \in Copies
  BY <1>1 DEF ErasedTag, Spoilt, Copies
<1>3. ASSUME NEW n \in 0 .. 447
      PROVE  nand_set_logical_no(n) \in Copies /\ TornTags(n) \subseteq Copies
  <2>0. n \in 0 .. 1023
    OBVIOUS
  <2> DEFINE w == SetWord(n)
             low == [w EXCEPT !.hi = 255]
  <2>1. w \in Word
    BY <2>0, SetWordEven, Zenon
  <2>2. low \in Word
    BY <2>1 DEF Word, Byte
  <2>3. nand_set_logical_no(n) \in Copies
    <3> HIDE DEF w
    <3>1. nand_set_logical_no(n) = [c \in 0 .. 2 |-> w]
      BY DEF nand_set_logical_no, w
    <3> QED BY <2>1, <3>1 DEF Copies
  <2>4. ASSUME NEW t \in TornTags(n) PROVE t \in Copies
    <3>1. \/ \E S \in SUBSET (0 .. 2) :
                t = [c \in 0 .. 2 |-> IF c \in S THEN w ELSE Ones]
          \/ t = [c \in 0 .. 2 |-> low]
          \/ t = [c \in 0 .. 2 |-> IF c = 0 THEN w
                                   ELSE IF c = 1 THEN low ELSE Ones]
      BY <2>4 DEF TornTags
    <3> HIDE DEF w, low
    <3> QED BY <1>1, <2>1, <2>2, <3>1 DEF Copies
  <2> QED BY <2>3, <2>4
<1> QED BY <1>2, <1>3

LEMMA ProgrammedTyped ==
    ASSUME TypeOK, pc # "idle", ofs < cmd.end, phy \in Block
    PROVE  Programmed(phy) \subseteq Copies
<1>1. l \in 0 .. 447
  BY AtABlock, BlockSmall
<1>2. oob[phy] \in Copies
  BY DEF TypeOK
<1> QED BY <1>1, <1>2, TagTyped DEF Programmed

LEMMA EraseTyped ==
    ASSUME TypeOK, NEW b \in Block
    PROVE  /\ [oob EXCEPT ![b] = ErasedTag] \in [Block -> Copies]
           /\ [data EXCEPT ![b] = BlankPages] \in [Block -> [Page -> Content]]
           /\ [data EXCEPT ![b] = [i \in Page |-> Junk]]
                  \in [Block -> [Page -> Content]]
<1>1. BlankPages \in [Page -> Content] /\ [i \in Page |-> Junk] \in [Page -> Content]
  BY DEF BlankPages, Content
<1> QED BY <1>1, TagTyped DEF TypeOK

LEMMA PageTyped ==
    ASSUME TypeOK, NEW b \in Block, NEW i \in Page, NEW c \in Content
    PROVE  [data EXCEPT ![b][i] = c] \in [Block -> [Page -> Content]]
  BY DEF TypeOK

\* Up to the first page: the start, the scan, and the search for a block.
LEMMA StepTyped1 ==
    ASSUME TypeOK, Where,
           Start \/ scan_logical \/ Finished \/ Mapped \/ Unmapped
    PROVE  TypeOK' /\ Where'
<1> USE DEF flashVars
<1>1. CASE Start
  <2>1. cmd' \in Commands /\ Commands \subseteq Command
    BY <1>1, NandAssumption DEF Start
  <2>2. ofs' = cmd'.start /\ cmd'.start \in Address
    BY <1>1, <2>1 DEF Start, Command
  <2>3. cmd' # NoCommand /\ cmd'.start <= ofs'
    <3>1. cmd'.op \in {"READ", "WRITE"}
      BY <2>1 DEF Command
    <3>2. NoCommand.op = "none"
      BY DEF NoCommand
    <3>3. cmd' # NoCommand
      BY <3>1, <3>2
    <3>4. cmd'.start \in Nat
      BY <2>2, AddressNat
    <3> QED BY <2>2, <3>3, <3>4
  <2> QED BY <1>1, <2>1, <2>2, <2>3 DEF Start, At, TypeOK, Where, PCs, AtBlock
<1>2. CASE scan_logical
  <2>1. log2phy' \in [Block -> Block \cup {Nowhere}]
    <3>1. PICK unread : log2phy' = [n \in Block |->
                             LastOf({b \in Block \ unread : Spare(b) = n})]
      BY <1>2 DEF scan_logical
    <3>2. \A n : {b \in Block \ unread : Spare(b) = n} \in SUBSET Block
      OBVIOUS
    <3>3. \A n : LastOf({b \in Block \ unread : Spare(b) = n})
                    \in Block \cup {Nowhere}
      BY <3>2, LastIsOne
    <3> QED BY <3>1, <3>3, Zenon
  <2> QED BY <1>2, <2>1 DEF scan_logical, At, TypeOK, Where, PCs, AtBlock
<1>3. CASE Finished
  BY <1>3 DEF Finished, At, TypeOK, Where, PCs, AtBlock
<1>4. CASE Mapped
  <2>1. pc # "idle" /\ ofs < cmd.end /\ l \in Block
    BY <1>4, AtABlock DEF Mapped, At
  <2>2. phy' \in Block /\ log2phy'[l'] = phy'
    BY <1>4, <2>1 DEF Mapped, TypeOK, l
  <2>3. Transfer \in {"pread", "closeall", "erase", "pwrite"}
        /\ (Transfer # "pread" => cmd.op = "WRITE")
    BY <2>1, Asked DEF Transfer
  <2> QED BY <1>4, <2>1, <2>2, <2>3 DEF Mapped, At, TypeOK, Where, PCs, AtBlock
<1>5. CASE Unmapped
  <2>1. pc # "idle" /\ ofs < cmd.end /\ l \in Block
    BY <1>5, AtABlock DEF Unmapped, At
  <2>2. 0 \in Block /\ 0 # Nowhere
    BY NandAssumption DEF Block, Nowhere
  <2> QED BY <1>5, <2>1, <2>2 DEF Unmapped, At, TypeOK, Where, PCs, AtBlock, l
<1> QED BY <1>1, <1>2, <1>3, <1>4, <1>5

\* add_logical.
LEMMA StepTyped2 ==
    ASSUME TypeOK, Where, AddSkip \/ AddFound \/ AddNone
    PROVE  TypeOK' /\ Where'
<1> USE DEF flashVars
<1>1. pc = "add" /\ ofs < cmd.end /\ l \in Block /\ cmd.op = "WRITE"
      /\ phy \in Block \cup {Blocks}
  BY AtABlock DEF AddSkip, AddFound, AddNone, At, Where, TypeOK
<1>2. Blocks \in Nat /\ Block = 0 .. Blocks - 1
  BY NandAssumption DEF Block
<1>3. CASE AddSkip
  <2>1. phy + 1 \in Block \cup {Blocks} /\ phy + 1 # Nowhere
    BY <1>1, <1>2, <1>3 DEF AddSkip, Nowhere
  <2> QED BY <1>1, <1>3, <2>1 DEF AddSkip, At, TypeOK, Where, PCs, AtBlock, l
<1>4. CASE AddFound
  <2>1. phy \in Block
    BY <1>1, <1>2, <1>4 DEF AddFound
  <2>2. oob' \in [Block -> Copies] /\ data' \in [Block -> [Page -> Content]]
    BY <1>4, <2>1, EraseTyped DEF AddFound, Erase
  <2>3. log2phy' \in [Block -> Block \cup {Nowhere}] /\ log2phy'[l] = phy
    BY <1>1, <1>4, <2>1 DEF AddFound, TypeOK
  <2>4. Transfer \in {"closeall", "erase", "pwrite"}
    BY <1>1 DEF Transfer
  <2> QED BY <1>1, <1>4, <2>1, <2>2, <2>3, <2>4
          DEF AddFound, At, TypeOK, Where, PCs, AtBlock, l
<1>5. CASE AddNone
  BY <1>1, <1>5 DEF AddNone, At, TypeOK, Where, PCs, AtBlock
<1> QED BY <1>3, <1>4, <1>5

\* The pages of a block.
LEMMA StepTyped3 ==
    ASSUME TypeOK, Where,
           \/ EraseBlock \/ WriteOob \/ WriteOobFails
           \/ pwrite \/ pwriteFails \/ pread \/ preadFails
    PROVE  TypeOK' /\ Where'
<1> USE DEF flashVars
<1>1. /\ pc \in AtBlock /\ ofs < cmd.end /\ l \in Block /\ phy \in Block
      /\ ofs % Pages \in Page /\ ofs + 1 \in Address
      /\ log2phy[l] = phy /\ cmd.start <= ofs + 1
  <2>1. pc \in AtBlock
    BY DEF EraseBlock, WriteOob, WriteOobFails, pwrite, pwriteFails, pread,
           preadFails, At, AtBlock
  <2>2. pc # "idle" /\ ofs < cmd.end /\ phy \in Block /\ log2phy[l] = phy
    BY <2>1 DEF Where, AtBlock, TypeOK
  <2>3. cmd.start \in Nat /\ ofs \in Nat /\ cmd.start <= ofs
    BY <2>2, Asked, AddressNat DEF Where, TypeOK
  <2>4. cmd.start <= ofs + 1
    BY <2>3
  <2> QED BY <2>1, <2>2, <2>4, AtABlock
<1>2. CASE EraseBlock
  <2>1. oob' \in [Block -> Copies] /\ data' \in [Block -> [Page -> Content]]
    <3>1. CASE Erase(phy)
      BY <1>1, <3>1, EraseTyped DEF Erase
    <3>2. CASE UNCHANGED flashVars
      BY <3>2 DEF TypeOK
    <3> QED BY <1>2, <3>1, <3>2 DEF EraseBlock
  <2> QED BY <1>1, <1>2, <2>1 DEF EraseBlock, At, TypeOK, Where, PCs, AtBlock, l
<1>3. CASE WriteOob
  <2>1. oob' \in [Block -> Copies]
    BY <1>1, <1>3, ProgrammedTyped DEF WriteOob, At, TypeOK
  <2> QED BY <1>1, <1>3, <2>1 DEF WriteOob, At, TypeOK, Where, PCs, AtBlock, l
<1>4. CASE WriteOobFails
  <2>1. oob' \in [Block -> Copies]
    BY <1>1, <1>4, ProgrammedTyped DEF WriteOobFails, At, TypeOK
  <2> QED BY <1>1, <1>4, <2>1 DEF WriteOobFails, At, TypeOK, Where, PCs, AtBlock
<1>5. CASE pwrite
  <2>1. [file |-> cmd.file, page |-> ofs] \in Content
    BY <1>1, <1>5, Asked DEF pwrite, At, TypeOK, Content
  <2>2. data[phy][ofs % Pages] \in Content
    BY <1>1 DEF TypeOK
  <2>3. Program(data[phy][ofs % Pages], [file |-> cmd.file, page |-> ofs]) \in Content
    BY <2>1, <2>2 DEF Program, Content
  <2>4. data' \in [Block -> [Page -> Content]]
    BY <1>1, <1>5, <2>3, PageTyped DEF pwrite
  <2> QED BY <1>1, <1>5, <2>4 DEF pwrite, At, TypeOK, Where, PCs, AtBlock
<1>6. CASE pwriteFails
  <2>1. Junk \in Content
    BY DEF Content
  <2>2. data' \in [Block -> [Page -> Content]]
    <3>1. [data EXCEPT ![phy][ofs % Pages] = Junk] \in [Block -> [Page -> Content]]
      BY <1>1, <2>1, PageTyped
    <3>2. data \in [Block -> [Page -> Content]]
      BY DEF TypeOK
    <3> QED BY <1>6, <3>1, <3>2 DEF pwriteFails
  <2> QED BY <1>1, <1>6, <2>2 DEF pwriteFails, At, TypeOK, Where, PCs, AtBlock
<1>7. CASE pread
  <2>1. out' \in Seq(Content)
    BY <1>1, <1>7 DEF pread, TypeOK
  <2> QED BY <1>1, <1>7, <2>1 DEF pread, At, TypeOK, Where, PCs, AtBlock
<1>8. CASE preadFails
  BY <1>1, <1>8 DEF preadFails, At, TypeOK, Where, PCs, AtBlock
<1> QED BY <1>2, <1>3, <1>4, <1>5, <1>6, <1>7, <1>8

\* Where a failing power supply may leave something half done.
LEMMA PowerAt ==
    ASSUME TypeOK, Where, phy \in Block,
           pc \in {"add", "erase", "oob", "pwrite"}
    PROVE  /\ pc # "idle" /\ ofs < cmd.end /\ l \in Block
           /\ ofs % Pages \in Page /\ cmd.op = "WRITE"
<1>1. pc # "idle" /\ ofs < cmd.end /\ cmd.op = "WRITE"
  BY DEF Where, AtBlock
<1> QED BY <1>1, AtABlock

LEMMA PowerPhy ==
    ASSUME TypeOK, Where,
           (pc \in {"erase", "oob", "pwrite"}) \/ (pc = "add" /\ phy < Blocks)
    PROVE  phy \in Block
<1>1. CASE pc \in {"erase", "oob", "pwrite"}
  BY <1>1 DEF TypeOK
<1>2. CASE pc = "add" /\ phy < Blocks
  <2>1. phy \in Block \cup {Blocks} /\ Blocks \in Nat
    BY <1>2, NandAssumption DEF TypeOK, Where
  <2> QED BY <1>2, <2>1
<1> QED BY <1>1, <1>2

LEMMA StepTyped4 ==
    ASSUME TypeOK, Where, closeall \/ PowerFails
    PROVE  TypeOK' /\ Where'
<1>1. Gone
  BY DEF closeall, PowerFails
<1>2. CASE UNCHANGED flashVars
  BY <1>1, <1>2, GoneTyped DEF flashVars, TypeOK
<1>3. CASE /\ \/ At("erase")
              \/ At("add") /\ phy < Blocks /\ Free(phy) /\ phy \notin Bad
           /\ data' = [data EXCEPT ![phy] = [i \in Page |-> Junk]]
           /\ oob' \in {oob, [oob EXCEPT ![phy] = ErasedTag]}
  <2>1. phy \in Block
    BY <1>3, PowerPhy DEF At
  <2>2. oob' \in [Block -> Copies] /\ data' \in [Block -> [Page -> Content]]
    BY <1>3, <2>1, EraseTyped DEF TypeOK
  <2> QED BY <1>1, <2>2, GoneTyped
<1>4. CASE /\ At("oob") /\ oob[phy] = ErasedTag
           /\ \E t \in TornTags(l) : oob' = [oob EXCEPT ![phy] = t]
           /\ data' = data
  <2>1. phy \in Block /\ l \in 0 .. 447
    BY <1>4, PowerPhy, PowerAt, BlockSmall DEF At
  <2>2. oob' \in [Block -> Copies]
    <3>1. PICK t \in TornTags(l) : oob' = [oob EXCEPT ![phy] = t]
      BY <1>4
    <3>2. t \in Copies
      BY <2>1, <3>1, TagTyped
    <3> QED BY <2>1, <3>1, <3>2 DEF TypeOK
  <2> QED BY <1>1, <1>4, <2>2, GoneTyped DEF TypeOK
<1>5. CASE /\ At("pwrite")
           /\ data' = [data EXCEPT ![phy][ofs % Pages] = Junk]
           /\ oob' = oob
  <2>0. phy \in Block
    BY <1>5, PowerPhy DEF At
  <2>1. ofs % Pages \in Page
    BY <1>5, <2>0, PowerAt DEF At
  <2>2. Junk \in Content
    BY DEF Content
  <2>3. data' \in [Block -> [Page -> Content]]
    BY <1>5, <2>0, <2>1, <2>2, PageTyped
  <2> QED BY <1>1, <1>5, <2>3, GoneTyped DEF TypeOK
<1> QED BY <1>2, <1>3, <1>4, <1>5, Zenon DEF closeall, PowerFails

LEMMA StepTyped == TypeOK /\ Where /\ [Next]_vars => TypeOK' /\ Where'
<1> SUFFICES ASSUME TypeOK, Where, [Next]_vars PROVE TypeOK' /\ Where'
  OBVIOUS
<1>1. CASE UNCHANGED vars
  BY <1>1, Zenon DEF vars, TypeOK, Where, Scanned, AtBlock, l
<1>2. CASE Start \/ scan_logical \/ Finished \/ Mapped \/ Unmapped
  BY <1>2, StepTyped1
<1>3. CASE AddSkip \/ AddFound \/ AddNone
  BY <1>3, StepTyped2
<1>4. CASE \/ EraseBlock \/ WriteOob \/ WriteOobFails
           \/ pwrite \/ pwriteFails \/ pread \/ preadFails
  BY <1>4, StepTyped3
<1>5. CASE closeall \/ PowerFails
  BY <1>5, StepTyped4
<1> QED BY <1>1, <1>2, <1>3, <1>4, <1>5, Zenon DEF Next

\* The type invariant, whatever fails, a scan that skips blocks included.
THEOREM Typed == Spec => []TypeOK
<1> QED BY InitTyped, StepTyped, PTL DEF Spec

-----------------------------------------------------------------------------
\* The numbers a step can leave in the block it is at: its own, or none.
OwnOrNone(t) == nand_get_logical_no(t) = l \/ nand_get_logical_no(t) \notin Block

LEMMA OwnTags ==
    ASSUME l \in Block
    PROVE  /\ nand_get_logical_no(ErasedTag) \notin Block
           /\ nand_get_logical_no(Spoilt) \notin Block
           /\ OwnOrNone(nand_set_logical_no(l))
           /\ \A t \in TornTags(l) : OwnOrNone(t)
<1>1. l \in 0 .. 447 /\ l \in 0 .. 1023
  BY BlockSmall
<1>2. Block \subseteq 0 .. 447
  BY BlockSmall
<1>3. nand_get_logical_no(ErasedTag) \notin Block
  BY <1>2, ErasedNumber, Zenon
<1>4. nand_get_logical_no(Spoilt) \notin Block
  BY <1>2, SpoiltNumber, Zenon
<1>5. OwnOrNone(nand_set_logical_no(l))
  BY <1>1, TagRoundTrip, Zenon DEF OwnOrNone
<1>6. \A t \in TornTags(l) : OwnOrNone(t)
  BY <1>1, <1>2, TornTagHarmless, Zenon DEF OwnOrNone
<1> QED BY <1>3, <1>4, <1>5, <1>6

\* Free blocks have no number.
LEMMA FreeNone ==
    ASSUME NEW b \in Block, Free(b)
    PROVE  Spare(b) \notin Block
  BY NoBlock, BlockSmall DEF Free

\* The number of b after the step, and in its proofs that of Spare(b)'.
Later(b) == nand_get_logical_no(oob'[b])

(***************************************************************************)
(* What every step does to the numbers: those of other blocks stay, and    *)
(* that of the block in hand stays, or becomes its own or none.            *)
(***************************************************************************)
OnlyPhy ==
    /\ \A b \in Block : b # phy => Later(b) = Spare(b)
    /\ phy \in Block =>
          Later(phy) = Spare(phy) \/ Later(phy) = l \/ Later(phy) \notin Block

LEMMA OneTag ==
    ASSUME TypeOK, phy \in Block, NEW t, OwnOrNone(t) \/ t = oob[phy],
           oob' = [oob EXCEPT ![phy] = t]
    PROVE  OnlyPhy
<1>1. oob'[phy] = t /\ \A b \in Block : b # phy => oob'[b] = oob[b]
  BY DEF TypeOK
<1> QED BY <1>1, Zenon DEF OnlyPhy, OwnOrNone, Later, Spare

LEMMA SameTags ==
    ASSUME oob' = oob
    PROVE  \A b : Later(b) = Spare(b)
  BY DEF Spare, Later

\* Steps on the block in hand keep OneCopy, Found and Ahead.
LEMMA NumbersKept ==
    ASSUME TypeOK, OneCopy, Where, Found, Ahead, pc \in AtBlock, OnlyPhy,
           log2phy' = log2phy, ofs' = ofs, pc' \notin {"idle", "scan"}
    PROVE  OneCopy' /\ Found' /\ Ahead'
<1>1. /\ phy \in Block /\ l \in Block /\ log2phy[l] = phy /\ Scanned
      /\ phy # Nowhere
  <2>1. pc # "idle" /\ ofs < cmd.end /\ phy \in Block /\ log2phy[l] = phy
    BY DEF Where, AtBlock, TypeOK
  <2> QED BY <2>1, AtABlock DEF AtBlock, Scanned, Block, Nowhere
<1>2. \A b \in Block : Spare(b) \in Block => log2phy[Spare(b)] = b
  BY <1>1 DEF Found
<1>3. Spare(phy) = l \/ Spare(phy) \notin Block
  BY <1>1 DEF Ahead
<1>4. /\ \A b \in Block : b # phy => Later(b) = Spare(b)
      /\ Later(phy) = l \/ Later(phy) \notin Block
  BY <1>1, <1>3 DEF OnlyPhy
<1>5. \A b \in Block : Later(b) \in Block => log2phy[Later(b)] = b
  <2> TAKE b \in Block
  <2>1. CASE b = phy
    BY <1>1, <1>4, <2>1
  <2>2. CASE b # phy
    BY <1>2, <1>4, <2>2
  <2> QED BY <2>1, <2>2
<1>6. OneCopy'
  BY <1>5 DEF OneCopy, Spare, Later
<1>7. Found'
  BY <1>5 DEF Found, Spare, Later
<1>8. Ahead'
  <2>1. l' = l
    BY DEF l
  <2>2. ASSUME NEW n \in Block, log2phy[n] # Nowhere, n > l
        PROVE  Later(log2phy[n]) = n
    <3>1. Spare(log2phy[n]) = n /\ log2phy[n] \in Block
      BY <1>1, <2>2 DEF Ahead, TypeOK
    <3>2. n # l
      BY <1>1, <2>2 DEF Block
    <3>3. log2phy[n] # phy
      BY <1>3, <3>1, <3>2
    <3> QED BY <1>4, <3>1, <3>3
  <2>3. Later(log2phy[l]) = l \/ Later(log2phy[l]) \notin Block
    BY <1>1, <1>4
  <2> QED BY <1>1, <2>1, <2>2, <2>3 DEF Ahead, Spare, Later
<1> QED BY <1>6, <1>7, <1>8

\* A step that only moves main on, from block to block too.
LEMMA NumbersStay ==
    ASSUME TypeOK, OneCopy, Found, Ahead, Scanned, oob' = oob,
           log2phy' = log2phy, ofs' = ofs \/ ofs' = ofs + 1
    PROVE  OneCopy' /\ Found' /\ Ahead'
<1>1. \A b : Later(b) = Spare(b)
  BY SameTags
<1>2. OneCopy' /\ Found'
  BY DEF OneCopy, Found, Spare, Scanned
<1>3. l \in Int /\ l' \in Int /\ l' >= l
  <2>1. ofs \in Nat /\ Pages \in Nat \ {0}
    BY NandAssumption, AddressNat DEF TypeOK
  <2>2. CASE ofs' = ofs
    BY <2>1, <2>2 DEF l
  <2>3. CASE ofs' = ofs + 1
    <3>1. ofs \div Pages \in Int
      BY <2>1
    <3>2. (ofs + 1) \div Pages \in {ofs \div Pages, ofs \div Pages + 1}
      BY <2>1, DivSucc
    <3> HIDE DEF l
    <3>3. l = ofs \div Pages /\ l' = (ofs + 1) \div Pages
      BY <2>3 DEF l
    <3> QED BY <3>1, <3>2, <3>3
  <2> QED BY <2>2, <2>3
<1>4. ASSUME NEW n \in Block, log2phy[n] # Nowhere
      PROVE  /\ n > l' => Spare(log2phy[n]) = n
             /\ n = l' => (Spare(log2phy[n]) \in Block => Spare(log2phy[n]) = n)
  <2>1. n \in Int
    BY DEF Block
  <2>2. n > l' => n > l
    BY <1>3, <2>1
  <2>3. n = l' => n > l \/ n = l
    BY <1>3, <2>1
  <2> QED BY <1>4, <2>2, <2>3 DEF Ahead
<1>5. Ahead'
  BY <1>1, <1>4 DEF Ahead, Spare, Later, Scanned
<1> QED BY <1>2, <1>5

\* The table of the scan is true.
LEMMA ScanTrue ==
    ASSUME NoScanFault, TypeOK, OneCopy, scan_logical
    PROVE  OneCopy' /\ Found' /\ Ahead'
<1>1. log2phy' = [n \in Block |-> LastOf({b \in Block : Spare(b) = n})]
  <2>1. ~Fault("scan")
    BY DEF Fault, NoScanFault
  <2> QED BY <2>1 DEF scan_logical
<1>2. oob' = oob
  BY DEF scan_logical, flashVars
<1>4. OneCopy'
  BY <1>2 DEF OneCopy, Spare
<1>5. ASSUME NEW n \in Block
      PROVE  LET S == {b \in Block : Spare(b) = n}
             IN  /\ log2phy'[n] \in S \cup {Nowhere}
                 /\ S # {} => log2phy'[n] \in S
  BY <1>1, <1>5, LastIsOne
<1>6. ASSUME NEW b \in Block, Spare(b) \in Block
      PROVE  log2phy'[Spare(b)] = b
  <2>1. log2phy'[Spare(b)] \in {c \in Block : Spare(c) = Spare(b)}
    BY <1>5, <1>6
  <2> QED BY <2>1, <1>6 DEF OneCopy
<1>7. ASSUME NEW n \in Block, log2phy'[n] # Nowhere
      PROVE  Spare(log2phy'[n]) = n
  BY <1>5, <1>7
<1>8. Found'
  BY <1>2, <1>6 DEF Found, Spare
<1>9. Ahead'
  BY <1>2, <1>7 DEF Ahead, Spare
<1> QED BY <1>4, <1>8, <1>9

\* The block that add_logical found goes into the table.
LEMMA AddTrue ==
    ASSUME TypeOK, Where, OneCopy, Found, Ahead, AddFound
    PROVE  OneCopy' /\ Found' /\ Ahead'
<1>1. /\ pc = "add" /\ l \in Block /\ phy \in Block /\ phy # Nowhere
      /\ log2phy[l] = Nowhere
  <2>1. pc = "add" /\ ofs < cmd.end /\ phy \in Block
    BY PowerPhy DEF AddFound, At, Where
  <2>2. l \in Block
    BY <2>1, AtABlock
  <2> QED BY <2>1, <2>2 DEF Where, Block, Nowhere
<1>2. /\ Spare(phy) \notin Block /\ Later(phy) \notin Block
      /\ \A b \in Block : b # phy => Later(b) = Spare(b)
  <2>1. Spare(phy) \notin Block
    BY <1>1, FreeNone DEF AddFound
  <2>2. oob' = [oob EXCEPT ![phy] = ErasedTag]
    BY DEF AddFound, Erase
  <2>3. oob'[phy] = ErasedTag /\ \A b \in Block : b # phy => oob'[b] = oob[b]
    BY <1>1, <2>2 DEF TypeOK
  <2>4. nand_get_logical_no(ErasedTag) \notin Block
    BY <1>1, OwnTags
  <2> QED BY <2>1, <2>3, <2>4, Zenon DEF Later, Spare
<1>3. log2phy' = [log2phy EXCEPT ![l] = phy] /\ log2phy \in [Block -> Block \cup {Nowhere}]
  BY DEF AddFound, TypeOK
<1>4. /\ \A n \in Block : n # l => log2phy'[n] = log2phy[n]
      /\ log2phy'[l] = phy
  BY <1>1, <1>3
<1>5. \A b \in Block : Spare(b) \in Block => log2phy[Spare(b)] = b
  BY <1>1 DEF Found, Scanned
<1>6. ASSUME NEW b \in Block, Later(b) \in Block
      PROVE  log2phy'[Later(b)] = b
  <2>1. b # phy /\ Later(b) = Spare(b)
    BY <1>2, <1>6
  <2>2. log2phy[Spare(b)] = b /\ Spare(b) \in Block
    BY <1>5, <1>6, <2>1
  <2>3. b # Nowhere
    BY DEF Block, Nowhere
  <2>4. Spare(b) # l
    BY <1>1, <2>2, <2>3
  <2> QED BY <1>4, <2>1, <2>2, <2>4
<1>7. OneCopy'
  BY <1>6 DEF OneCopy, Spare, Later
<1>8. Found'
  BY <1>6 DEF Found, Spare, Later
<1>9. Ahead'
  <2>1. l' = l
    BY DEF l, AddFound
  <2>2. ASSUME NEW n \in Block, log2phy'[n] # Nowhere, n > l
        PROVE  Later(log2phy'[n]) = n
    <3>1. n # l
      BY <1>1, <2>2 DEF Block
    <3>2. log2phy'[n] = log2phy[n]
      BY <1>4, <3>1
    <3>3. Spare(log2phy[n]) = n /\ log2phy[n] \in Block
      BY <1>1, <1>3, <2>2, <3>2 DEF Ahead, Scanned
    <3>4. log2phy[n] # phy
      BY <1>2, <3>3
    <3> QED BY <1>2, <3>2, <3>3, <3>4
  <2>3. Later(log2phy'[l]) \notin Block
    BY <1>2, <1>4
  <2> QED BY <2>1, <2>2, <2>3 DEF Ahead, Spare, Later
<1> QED BY <1>7, <1>8, <1>9

\* When the process is gone only the flash is left.
LEMMA GoneKept ==
    ASSUME TypeOK, OneCopy, Where, Found, Ahead, closeall \/ PowerFails
    PROVE  OneCopy' /\ Found' /\ Ahead' /\ OnlyPhy
<1>1. pc' = "idle"
  BY DEF closeall, PowerFails, Gone
<1>2. Found' /\ Ahead'
  BY <1>1 DEF Found, Ahead, Scanned
<1>3. CASE UNCHANGED oob
  <2>1. OneCopy'
    BY <1>3 DEF OneCopy, Spare
  <2> QED BY <1>2, <1>3, <2>1, SameTags DEF OnlyPhy
<1>4. CASE /\ pc \in {"add", "erase", "oob"} /\ phy \in Block /\ OnlyPhy
           /\ pc = "add" => Spare(phy) \notin Block /\ Later(phy) \notin Block
  <2>1. l \in Block /\ Scanned
    BY <1>4, PowerAt DEF Scanned
  <2>2. \A b \in Block : Spare(b) \in Block => log2phy[Spare(b)] = b
    BY <2>1 DEF Found
  <2>3. pc # "add" => log2phy[l] = phy
    BY <1>4 DEF Where, AtBlock
  <2>4. ASSUME NEW b \in Block, b # phy, Later(phy) \in Block
        PROVE  Later(b) # Later(phy)
    <3>1. Later(b) = Spare(b) /\ (Later(phy) = Spare(phy) \/ Later(phy) = l)
      BY <1>4, <2>4 DEF OnlyPhy
    <3>2. CASE Later(phy) = Spare(phy)
      BY <2>4, <1>4, <3>1, <3>2 DEF OneCopy
    <3>3. CASE Later(phy) = l
      BY <1>4, <2>1, <2>2, <2>3, <2>4, <3>1, <3>3
    <3> QED BY <3>1, <3>2, <3>3
  <2>5. ASSUME NEW b \in Block, NEW c \in Block, b # phy, c # phy,
               Later(b) \in Block, Later(b) = Later(c)
        PROVE  b = c
    BY <1>4, <2>5 DEF OnlyPhy, OneCopy
  <2>6. ASSUME NEW b \in Block, NEW c \in Block,
               Later(b) \in Block, Later(b) = Later(c)
        PROVE  b = c
    BY <2>4, <2>5, <2>6
  <2>7. OneCopy'
    BY <2>6 DEF OneCopy, Spare, Later
  <2> QED BY <1>2, <1>4, <2>7
<1>5. CASE /\ \/ At("erase")
              \/ At("add") /\ phy < Blocks /\ Free(phy) /\ phy \notin Bad
           /\ oob' = [oob EXCEPT ![phy] = ErasedTag]
  <2>1. phy \in Block /\ pc \in {"add", "erase"}
    BY <1>5, PowerPhy DEF At
  <2>2. l \in Block
    BY <2>1, PowerAt
  <2>3. nand_get_logical_no(ErasedTag) \notin Block
    BY <2>2, OwnTags
  <2>4. OnlyPhy
    BY <1>5, <2>1, <2>3, OneTag DEF OwnOrNone
  <2>5. pc = "add" => Spare(phy) \notin Block
    BY <1>5, <2>1, FreeNone DEF At
  <2>6. Later(phy) \notin Block
    BY <1>5, <2>1, <2>3 DEF Later, TypeOK
  <2> QED BY <1>4, <2>1, <2>4, <2>5, <2>6
<1>6. CASE At("oob") /\ \E t \in TornTags(l) : oob' = [oob EXCEPT ![phy] = t]
  <2>1. phy \in Block /\ pc = "oob"
    BY <1>6, PowerPhy DEF At
  <2>2. l \in Block
    BY <2>1, PowerAt
  <2>3. OnlyPhy
    BY <1>6, <2>1, <2>2, OwnTags, OneTag
  <2> QED BY <1>4, <2>1, <2>3
<1> QED BY <1>3, <1>5, <1>6, Zenon DEF closeall, PowerFails, flashVars

\* What is written over spare bytes is the block's own number, or none.
LEMMA ProgrammedOwn ==
    ASSUME TypeOK, l \in Block, phy \in Block
    PROVE  \A t \in Programmed(phy) : OwnOrNone(t) \/ t = oob[phy]
  BY OwnTags DEF Programmed, OwnOrNone

LEMMA PageSteps ==
    ASSUME TypeOK, Where, EraseBlock \/ WriteOob \/ WriteOobFails
    PROVE  /\ pc \in AtBlock /\ phy \in Block /\ OnlyPhy
           /\ log2phy' = log2phy /\ ofs' = ofs /\ pc' \notin {"idle", "scan"}
<1>1. pc \in AtBlock /\ log2phy' = log2phy /\ ofs' = ofs /\ pc' \notin {"idle", "scan"}
  BY DEF EraseBlock, WriteOob, WriteOobFails, At, AtBlock
<1>2. phy \in Block /\ l \in Block
  BY <1>1, AtABlock DEF Where, TypeOK, AtBlock
<1>3. ASSUME oob' = [oob EXCEPT ![phy] = ErasedTag] PROVE OnlyPhy
  <2>1. OwnOrNone(ErasedTag)
    BY <1>2, OwnTags DEF OwnOrNone
  <2> QED BY <1>2, <1>3, <2>1, OneTag
<1>4. ASSUME oob' = oob PROVE OnlyPhy
  <2>1. \A b : Later(b) = Spare(b)
    BY <1>4, SameTags
  <2> QED BY <2>1 DEF OnlyPhy
<1>5. ASSUME NEW t \in Programmed(phy) \cup {oob[phy]},
             oob' = [oob EXCEPT ![phy] = t]
      PROVE  OnlyPhy
  <2>1. OwnOrNone(t) \/ t = oob[phy]
    BY <1>2, ProgrammedOwn
  <2> QED BY <1>2, <1>5, <2>1, OneTag
<1>6. oob' = [oob EXCEPT ![phy] = ErasedTag] \/ oob' = oob
      \/ \E t \in Programmed(phy) \cup {oob[phy]} : oob' = [oob EXCEPT ![phy] = t]
  BY DEF EraseBlock, Erase, WriteOob, WriteOobFails, flashVars
<1>7. OnlyPhy
  BY <1>3, <1>4, <1>5, <1>6
<1> QED BY <1>1, <1>2, <1>7

LEMMA StepNumbers ==
    ASSUME NoScanFault, IInv, [Next]_vars
    PROVE  OneCopy' /\ Found' /\ Ahead'
<1> USE DEF IInv
<1>1. CASE UNCHANGED vars
  BY <1>1 DEF vars, OneCopy, Found, Ahead, Spare, Scanned, l
<1>2. CASE Start
  <2>1. pc' = "scan" /\ oob' = oob
    BY <1>2 DEF Start, flashVars
  <2> QED BY <2>1 DEF OneCopy, Found, Ahead, Spare, Scanned
<1>3. CASE scan_logical
  BY <1>3, ScanTrue
<1>4. CASE AddFound
  BY <1>4, AddTrue
<1>5. CASE EraseBlock \/ WriteOob \/ WriteOobFails
  BY <1>5, PageSteps, NumbersKept
<1>6. CASE closeall \/ PowerFails
  BY <1>6, GoneKept
<1>7. CASE \/ Finished \/ Mapped \/ Unmapped \/ AddSkip \/ AddNone
           \/ pwrite \/ pwriteFails \/ pread \/ preadFails
  <2>1. Scanned /\ oob' = oob /\ log2phy' = log2phy /\ (ofs' = ofs \/ ofs' = ofs + 1)
    BY <1>7 DEF Finished, Mapped, Unmapped, AddSkip, AddNone, pwrite, pwriteFails,
                pread, preadFails, At, Scanned, flashVars
  <2> QED BY <2>1, NumbersStay
<1> QED BY <1>1, <1>2, <1>3, <1>4, <1>5, <1>6, <1>7, Zenon DEF Next

LEMMA InitNumbers == Init => IInv
<1> SUFFICES ASSUME Init PROVE IInv
  OBVIOUS
<1>1. pc = "idle"
  BY DEF Init
<1> QED BY <1>1, InitTyped DEF IInv, Init, OneCopy, Found, Ahead, Scanned

LEMMA StepInv == NoScanFault /\ IInv /\ [Next]_vars => IInv'
<1> SUFFICES ASSUME NoScanFault, IInv, [Next]_vars PROVE IInv'
  OBVIOUS
<1>1. TypeOK' /\ Where'
  BY StepTyped DEF IInv
<1> QED BY <1>1, StepNumbers DEF IInv

(***************************************************************************)
(* Two physical blocks never have the number of one logical block, through *)
(* failing ioctls and power failures, if the scan can read all spare bytes.*)
(***************************************************************************)
THEOREM OneCopyHolds ==
    ASSUME NoScanFault
    PROVE  Spec => []OneCopy
<1>1. IInv /\ [Next]_vars => IInv'
  BY StepInv
<1>2. IInv => OneCopy
  BY DEF IInv
<1> QED BY <1>1, <1>2, InitNumbers, PTL DEF Spec

-----------------------------------------------------------------------------
\* A step that changes the flash is on a block that WRITE was asked to write.
LEMMA TouchedNow ==
    ASSUME TypeOK, Where, pc \in {"add", "erase", "oob", "pwrite"}
    PROVE  l \in Touched
<1>1. /\ cmd.op = "WRITE" /\ pc # "idle" /\ ofs < cmd.end /\ cmd.start <= ofs
      /\ cmd # NoCommand
  BY DEF Where, AtBlock, TypeOK
<1>2. ofs \in Nat /\ cmd.end \in Nat /\ cmd.start \in Nat
  BY <1>1, Asked, AddressNat DEF TypeOK
<1>3. ofs \in cmd.start .. cmd.end - 1
  BY <1>1, <1>2
<1> QED BY <1>1, <1>3 DEF Touched, l

\* Where the data of another block is it stays, and nobody else gets its number.
LEMMA BlockKept ==
    ASSUME TypeOK, OneCopy, NEW n \in Block, phy \in Block, OnlyPhy, n # l,
           Spare(phy) # n, \A b \in Block : b # phy => data'[b] = data[b]
    PROVE  /\ PhysicalOf(n)' = PhysicalOf(n)
           /\ PhysicalOf(n) # Nowhere
                 => data'[PhysicalOf(n)] = data[PhysicalOf(n)]
<1> DEFINE S == {b \in Block : Spare(b) = n}
<1>1. {b \in Block : Later(b) = n} = S
  <2>1. \A b \in Block : Later(b) = n <=> Spare(b) = n
    BY DEF OnlyPhy
  <2> QED BY <2>1
<1>2. PhysicalOf(n) = LastOf(S) /\ PhysicalOf(n)' = LastOf(S)
  BY <1>1 DEF PhysicalOf, Spare, Later
<1>3. LastOf(S) \in S \cup {Nowhere}
  BY LastIsOne
<1>4. LastOf(S) # Nowhere => data'[LastOf(S)] = data[LastOf(S)]
  BY <1>3
<1> QED BY <1>2, <1>4

LEMMA ViewKept ==
    ASSUME TypeOK, OneCopy, NEW n \in Block, phy \in Block, OnlyPhy, n # l,
           Spare(phy) # n, \A b \in Block : b # phy => data'[b] = data[b]
    PROVE  View(n)' = View(n)
  BY BlockKept DEF View

LEMMA SameView ==
    ASSUME oob' = oob, data' = data
    PROVE  \A n : View(n)' = View(n)
  BY DEF View, PhysicalOf, Spare

\* Pages are written within the block in hand.
LEMMA WrittenPages ==
    ASSUME TypeOK, phy \in Block, NEW i, NEW c, data' = [data EXCEPT ![phy][i] = c]
    PROVE  \A b \in Block : b # phy => data'[b] = data[b]
  BY DEF TypeOK

LEMMA StepNeighbours ==
    ASSUME IInv, [Next]_vars, NEW n \in Block, View(n)' # View(n)
    PROVE  n \in Touched
<1> USE DEF IInv
<1>1. ~(oob' = oob /\ data' = data)
  BY SameView
<1>2. CASE /\ pc \in {"add", "erase", "oob", "pwrite"} /\ phy \in Block /\ OnlyPhy
           /\ \A b \in Block : b # phy => data'[b] = data[b]
           /\ pc = "add" => Spare(phy) \notin Block
  <2>1. Scanned /\ l \in Block /\ l \in Touched
    BY <1>2, PowerAt, TouchedNow DEF Scanned
  <2>2. Spare(phy) = l \/ Spare(phy) \notin Block
    <3>1. CASE pc = "add"
      BY <1>2, <3>1
    <3>2. CASE pc # "add"
      <4>1. log2phy[l] = phy /\ phy # Nowhere
        BY <1>2, <3>2 DEF Where, AtBlock, Block, Nowhere
      <4> QED BY <2>1, <4>1 DEF Ahead
    <3> QED BY <3>1, <3>2
  <2>3. CASE n = l
    BY <2>1, <2>3
  <2>4. CASE n # l
    <3>1. Spare(phy) # n
      BY <2>2, <2>4
    <3>2. View(n)' = View(n)
      BY <1>2, <2>4, <3>1, ViewKept
    <3> QED BY <3>2
  <2> QED BY <2>3, <2>4
<1>3. CASE Erase(phy) /\ phy \in Block /\ (EraseBlock \/ AddFound)
  <2>1. pc \in {"add", "erase"}
    BY <1>3 DEF EraseBlock, AddFound, At
  <2>2. l \in Block
    BY <1>3, <2>1, PowerAt
  <2>3. OnlyPhy
    BY <1>3, <2>2, OwnTags, OneTag DEF Erase, OwnOrNone
  <2>4. \A b \in Block : b # phy => data'[b] = data[b]
    BY <1>3 DEF Erase, TypeOK
  <2>5. pc = "add" => Spare(phy) \notin Block
    BY <1>3, FreeNone DEF AddFound, EraseBlock, At
  <2> QED BY <1>2, <1>3, <2>1, <2>3, <2>4, <2>5
<1>4. CASE AddFound
  <2>1. phy \in Block
    BY <1>4, PowerPhy DEF AddFound, At
  <2> QED BY <1>3, <1>4, <2>1 DEF AddFound
<1>5. CASE EraseBlock
  <2>1. phy \in Block
    BY <1>5, PageSteps
  <2> QED BY <1>1, <1>3, <1>5, <2>1 DEF EraseBlock, flashVars
<1>6. CASE WriteOob \/ WriteOobFails
  <2>1. phy \in Block /\ OnlyPhy /\ data' = data /\ pc = "oob"
    BY <1>6, PageSteps DEF WriteOob, WriteOobFails, At
  <2> QED BY <1>2, <2>1
<1>7. CASE pwrite \/ pwriteFails
  <2>1. pc = "pwrite" /\ oob' = oob
    BY <1>7 DEF pwrite, pwriteFails, At
  <2>2. phy \in Block
    BY <2>1, PowerPhy
  <2>3. OnlyPhy
    BY <2>1, SameTags DEF OnlyPhy
  <2>4. \/ data' = data
        \/ \E c : data' = [data EXCEPT ![phy][ofs % Pages] = c]
    BY <1>7 DEF pwrite, pwriteFails
  <2>5. \A b \in Block : b # phy => data'[b] = data[b]
    BY <2>2, <2>4, WrittenPages
  <2> QED BY <1>2, <2>1, <2>2, <2>3, <2>5
<1>8. CASE PowerFails
  <2>0. OnlyPhy
    BY <1>8, GoneKept
  <2>1. CASE /\ \/ At("erase")
                \/ At("add") /\ phy < Blocks /\ Free(phy) /\ phy \notin Bad
             /\ data' = [data EXCEPT ![phy] = [i \in Page |-> Junk]]
    <3>1. phy \in Block /\ pc \in {"add", "erase"}
      BY <2>1, PowerPhy DEF At
    <3>2. pc = "add" => Spare(phy) \notin Block
      BY <2>1, <3>1, FreeNone DEF At
    <3>3. \A b \in Block : b # phy => data'[b] = data[b]
      BY <2>1, <3>1 DEF TypeOK
    <3> QED BY <1>2, <2>0, <3>1, <3>2, <3>3
  <2>2. CASE At("oob") /\ data' = data
    <3>1. phy \in Block /\ pc = "oob"
      BY <2>2, PowerPhy DEF At
    <3> QED BY <1>2, <2>0, <2>2, <3>1
  <2>3. CASE At("pwrite") /\ data' = [data EXCEPT ![phy][ofs % Pages] = Junk]
    <3>1. phy \in Block /\ pc = "pwrite"
      BY <2>3, PowerPhy DEF At
    <3>2. \A b \in Block : b # phy => data'[b] = data[b]
      BY <2>3, <3>1, WrittenPages
    <3> QED BY <1>2, <2>0, <3>1, <3>2
  <2> QED BY <1>1, <1>8, <2>1, <2>2, <2>3, Zenon DEF PowerFails, flashVars
<1>9. CASE \/ Start \/ scan_logical \/ Finished \/ Mapped \/ Unmapped
           \/ AddSkip \/ AddNone \/ pread \/ preadFails \/ closeall
           \/ UNCHANGED vars
  <2>1. oob' = oob /\ data' = data
    BY <1>9 DEF Start, scan_logical, Finished, Mapped, Unmapped, AddSkip, AddNone,
                pread, preadFails, closeall, flashVars, vars
  <2> QED BY <1>1, <2>1
<1> QED BY <1>4, <1>5, <1>6, <1>7, <1>8, <1>9, Zenon DEF Next

(***************************************************************************)
(* No logical block changes but those that WRITE was asked to write,       *)
(* whatever else fails and whenever the power does.                        *)
(***************************************************************************)
THEOREM NeighboursAreKept ==
    ASSUME NoScanFault
    PROVE  Spec => NeighboursKept
<1>1. IInv /\ [Next]_vars => IInv'
  BY StepInv
<1>2. IInv /\ [Next]_vars
      => [\A n \in Block : View(n)' # View(n) => n \in Touched]_vars
  BY StepNeighbours
<1> QED BY <1>1, <1>2, InitNumbers, PTL DEF Spec, NeighboursKept
=============================================================================
