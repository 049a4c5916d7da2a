---------------------------- MODULE MCBootHeader ----------------------------
(* Command lines and programs for BootHeader, and the real constants       *)
EXTENDS BootHeader

\* 0x04C11DB7 and its mirror image 0xEDB88320.
Polynomial == {0, 1, 2, 4, 5, 7, 8, 10, 11, 12, 16, 22, 23, 26}
Mirrored == {5, 8, 9, 15, 19, 20, 21, 23, 24, 26, 27, 29, 30, 31}

\* 0x4c424348, 0x4d, 0xb91d0000
Magic == {3, 6, 8, 9, 14, 17, 22, 26, 27, 30}
Signature == {0, 2, 3, 6}
StartOfLmem == {16, 18, 19, 20, 24, 27, 28, 29, 31}

\* An option with a value that has bits in the first byte and the last.
Opt(name, v) == [name |-> name, value |-> {v, 24 + v}]

Options == {Opt("s", 0), Opt("l", 1), Opt("l", 2), Opt("0", 3), Opt("1", 4),
            Opt("unknown", 0)}

AnyCommandLine ==
  {[options |-> o, operands |-> 2, same |-> FALSE] : o \in BoundedSeq(Options, 3)}
    \cup {[options |-> o, operands |-> n, same |-> n = 2] :
             o \in {<<>>, <<Opt("s", 0)>>}, n \in {1, 2}}

\* 0x31, 0x80, 0x00, 0xFF, ... a program may look like a header.
Bytes == <<{0, 4, 5}, {7}, {}, Bits(8), {0, 2, 3, 6}, {1, 3, 5}, {0}, {2, 6},
           {0, 7}>>
SomePrograms == {SubSeq(Bytes, 1, n) : n \in {0, 1, 3, 4, 6, 9}} \cup {Missing}
=============================================================================
