------------------------------ MODULE NandTag -------------------------------
(***************************************************************************)
(* How nandlogical.c writes the number of a logical block into the spare   *)
(* bytes of a physical one, and reads it: three copies of a 16-bit word, a *)
(* parity bit, and two words of agreement.                                 *)
(***************************************************************************)
EXTENDS Integers, FiniteSets

\* us as the code stores it, low byte first.
Byte == 0 .. 255
Word == [lo : Byte, hi : Byte]
Copies == [0 .. 2 -> Word]

Ones == [lo |-> 255, hi |-> 255]

NoMajority == -1
ParityError == -2
Erased == 65535

\* Where par comes out odd: an odd number of bits are set.
Masks == {1, 2, 4, 8, 16, 32, 64, 128}
Bits(b) == {bit \in Masks : (b \div bit) % 2 = 1}
OddBytes == {b \in Byte : Cardinality(Bits(b)) % 2 = 1}
OddPar(us) == us.lo \in OddBytes <=> us.hi \notin OddBytes

\* Mutation: takes the bits for the number without shifting out the parity.
NumberUnshifted(us) ==
    IF OddPar(us) THEN ParityError
    ELSE IF us = Ones THEN Erased ELSE us.lo + 256 * (us.hi % 8)

\* (us & 0x07fe) >> 1.
Number(us) ==
    IF OddPar(us) THEN ParityError
    ELSE IF us = Ones THEN Erased ELSE (us.lo \div 2) + 128 * (us.hi % 8)

nand_get_logical_no(oob) ==
    IF oob[0] = oob[1] THEN Number(oob[0])
    ELSE IF oob[1] = oob[2] THEN Number(oob[1])
    ELSE IF oob[2] = oob[0] THEN Number(oob[2])
    ELSE NoMajority

\* The word for log_no: bit 12 is always set, bit 0 makes the parity even.
SetWord(log_no) ==
    LET lo == (log_no % 128) * 2
        hi == ((log_no \div 128) % 8) + 16
    IN  IF OddPar([lo |-> lo, hi |-> hi])
        THEN [lo |-> lo + 1, hi |-> hi] ELSE [lo |-> lo, hi |-> hi]

nand_set_logical_no(log_no) == [c \in 0 .. 2 |-> SetWord(log_no)]
=============================================================================
