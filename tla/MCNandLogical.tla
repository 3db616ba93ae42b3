--------------------------- MODULE MCNandLogical ----------------------------
(***************************************************************************)
(* Small instances of NandLogical: three blocks, one of them bad, of two   *)
(* pages; spare bytes as the factory, this tool or a power failure leave   *)
(* them.                                                                   *)
(***************************************************************************)
EXTENDS NandLogical

CONSTANT f1

OneFile == {f1}
NoBad == {}
OneBad == {1}

Tags ==
    {ErasedTag, Spoilt,
     [c \in 0 .. 2 |-> IF c = 0 THEN Ones ELSE SetWord(1)]}
\* The bad block looks free.
Flashes == {o \in [0 .. 2 -> Tags] : o[1] = ErasedTag}

Asked(op, start, end, size) ==
    [op |-> op, start |-> start, end |-> end, file |-> f1, size |-> size]
\* Two whole blocks, of which the file is a page short; the end of one and the
\* whole of the next; pages of three blocks.
SomeCommands ==
    {Asked("WRITE", 0, 4, 3), Asked("WRITE", 3, 6, 3), Asked("READ", 1, 5, 0)}

EveryFault == {"power", "ioctl", "page"}
ScanFault == {"scan"}
NoFaults == {}
=============================================================================
