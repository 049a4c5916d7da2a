-------------------------------- MODULE Crc --------------------------------
(***************************************************************************)
(* The CRC routines: crcSlow() and crcFast() of lib/crc32.c, crc32_le()    *)
(* and crc32_be() of lib/crc32_old.c in all their forms, with the unit     *)
(* test that is part of the file, and the byte update of the host tool     *)
(* bhdr.c.                                                                 *)
(*                                                                         *)
(* An unsigned integer is the set of its bits that are 1, so that ^ is     *)
(* the symmetric difference and a shift moves every member.  A message is  *)
(* a sequence of bytes.  The final XOR with 0 is left out.                 *)
(***************************************************************************)
EXTENDS Integers, SequencesExt

CONSTANTS
  WIDTH,        \* bits of a remainder (32)
  ByteBits,     \* bits of a byte (8)
  POLYNOMIAL,   \* for the routines that shift left, 0x04C11DB7
  dwpoly        \* for those that shift right, 0xEDB88320

Bits(n) == 0 .. n - 1

ASSUME CrcAssumption ==
  /\ ByteBits \in Nat \ {0}
  /\ WIDTH \in Nat /\ WIDTH = 4 * ByteBits
  /\ POLYNOMIAL \subseteq Bits(WIDTH)
  /\ dwpoly \subseteq Bits(WIDTH)

Byte == SUBSET Bits(ByteBits)
Remainder == SUBSET Bits(WIDTH)
INITIAL_REMAINDER == Bits(WIDTH)

ShiftLeft(r, n) == {i + n : i \in r} \cap Bits(WIDTH)
ShiftRight(r, n) == {i - n : i \in {j \in r : j >= n}}
LowByte(r) == r \cap Bits(ByteBits)

reflect(data, nBits) == {nBits - 1 - bit : bit \in data \cap Bits(nBits)}

-----------------------------------------------------------------------------
(* crc32.c: the topmost bit is divided out first, bytes come in reflected. *)
DivideBit(r) ==
  IF WIDTH - 1 \in r THEN SymDiff(ShiftLeft(r, 1), POLYNOMIAL)
                     ELSE ShiftLeft(r, 1)

Divide[n \in 0 .. ByteBits] ==
  [r \in Remainder |-> IF n = 0 THEN r ELSE Divide[n - 1][DivideBit(r)]]

(* A byte, or the index into the table, is brought in at the top.          *)
AtTop(byte) == ShiftLeft(byte, WIDTH - ByteBits)

(* A message is taken byte by byte: step has what each does to remainders. *)
Through(step, r, message) ==
  FoldLeft(LAMBDA s, byte : step[byte][s], r, message)

SlowStep ==
  [byte \in Byte |-> [r \in Remainder |->
     Divide[ByteBits][SymDiff(r, AtTop(reflect(byte, ByteBits)))]]]

crcSlow(message) == reflect(Through(SlowStep, INITIAL_REMAINDER, message), WIDTH)

(* crcInit *)
crcTable == [dividend \in Byte |-> Divide[ByteBits][AtTop(dividend)]]

TableIndex(r, byte) ==
  SymDiff(reflect(byte, ByteBits), ShiftRight(r, WIDTH - ByteBits))

(* Slip: the rest of the remainder is not carried to the next byte.        *)
FastStepForgets ==
  [byte \in Byte |-> [r \in Remainder |-> crcTable[TableIndex(r, byte)]]]

FastStep ==
  [byte \in Byte |-> [r \in Remainder |->
     SymDiff(crcTable[TableIndex(r, byte)], ShiftLeft(r, ByteBits))]]

crcFast(message) == reflect(Through(FastStep, INITIAL_REMAINDER, message), WIDTH)

-----------------------------------------------------------------------------
(* bhdr.c: the lowest bit first, nothing is reflected.                     *)
DivideLowBit(r) ==
  IF 0 \in r THEN SymDiff(ShiftRight(r, 1), dwpoly) ELSE ShiftRight(r, 1)

DivideLow[n \in 0 .. ByteBits] ==
  [r \in Remainder |-> IF n = 0 THEN r ELSE DivideLow[n - 1][DivideLowBit(r)]]

(* init_crc_table                                                          *)
crc32table == [i \in Byte |-> DivideLow[ByteBits][i]]

update_crc32 ==
  [data \in Byte |-> [crc32 \in Remainder |->
     SymDiff(ShiftRight(crc32, ByteBits),
             crc32table[LowByte(SymDiff(data, crc32))])]]

-----------------------------------------------------------------------------
(* crc32_old.c, on a little-endian processor.  The generated tables of     *)
(* lib_crc32_tab.h hold the remainders of the 256 bytes; the processor     *)
(* sees those of the big-endian table with their bytes swapped.            *)
crc32table_le == [i \in Byte |-> DivideLow[ByteBits][i]]
crc32table_be == [i \in Byte |-> Divide[ByteBits][AtTop(i)]]

ByteAt(r, k) == LowByte(ShiftRight(r, k * ByteBits))
SwapBytes(r) == UNION {ShiftLeft(ByteAt(r, k), (3 - k) * ByteBits) : k \in 0 .. 3}
tobe(table) == [i \in Byte |-> SwapBytes(table[i])]

DO_CRC(tab, crc, x) ==
  SymDiff(tab[LowByte(SymDiff(crc, x))], ShiftRight(crc, ByteBits))

(* Slip: the word is loaded with its bytes in the other order.             *)
WordAtSwapped(message, k) ==
  UNION {ShiftLeft(message[k + j], (3 - j) * ByteBits) : j \in 0 .. 3}

WordAt(message, k) ==
  UNION {ShiftLeft(message[k + j], j * ByteBits) : j \in 0 .. 3}

(* A word is four bytes taken in at once, of which nothing is left.        *)
ByteStep(tab) ==
  [x \in Byte |-> [crc \in Remainder |-> DO_CRC(tab, crc, x)]]

WordStep(tab) ==
  [b \in Remainder |-> [crc \in Remainder |->
     Through(ByteStep(tab), SymDiff(crc, b), <<{}, {}, {}, {}>>)]]

(* Bytes up to a word boundary, then whole words, then the rest.  addr is  *)
(* where the message starts.                                               *)
InWords(tab, crc, message, addr) ==
  LET len     == Len(message)
      align   == Min({len, (4 - (addr % 4)) % 4})
      words   == (len - align) \div 4
      rest    == align + 4 * words
      aligned == Through(ByteStep(tab), crc, SubSeq(message, 1, align))
      inWords == Through(WordStep(tab), aligned,
                         [w \in 1 .. words |-> WordAt(message, align + 4 * w - 3)])
  IN  Through(ByteStep(tab), inWords, SubSeq(message, rest + 1, len))

crc32_le(crc, message, addr) == InWords(crc32table_le, crc, message, addr)

crc32_be(crc, message, addr) ==
  SwapBytes(InWords(tobe(crc32table_be), SwapBytes(crc), message, addr))

(* The forms for CRC_LE_BITS and CRC_BE_BITS of 1, 2 and 4, with tables    *)
(* generated for that width: the ones in lib_crc32_tab.h are for 8.        *)
crc32_le_narrow(n, crc, message) ==
  LET ByBits(r, byte) ==
        FoldLeft(LAMBDA s, k : SymDiff(ShiftRight(s, n),
                                       DivideLow[n][s \cap Bits(n)]),
                 SymDiff(r, byte), [k \in 1 .. ByteBits \div n |-> k])
  IN  FoldLeft(ByBits, crc, message)

crc32_be_narrow(n, crc, message) ==
  LET Top(s) == {i \in s : i >= WIDTH - n}
      ByBits(r, byte) ==
        FoldLeft(LAMBDA s, k : SymDiff(ShiftLeft(s, n), Divide[n][Top(s)]),
                 SymDiff(r, AtTop(byte)), [k \in 1 .. ByteBits \div n |-> k])
  IN  FoldLeft(ByBits, crc, message)

-----------------------------------------------------------------------------
(* What main() of the unit test at the end of crc32_old.c says of them.    *)
bytereverse(buf) == [i \in DOMAIN buf |-> reflect(buf[i], ByteBits)]

(* Slip: the lowest byte first.                                            *)
store_beLowFirst(x) == [k \in 1 .. 4 |-> ByteAt(x, k - 1)]

store_be(x) == [k \in 1 .. 4 |-> ByteAt(x, 4 - k)]

(* The CRC of a message and its CRC is 0, taken at once or in two pieces,  *)
(* and the CRC of reversed bytes is the reversed CRC.                      *)
test_step(init, buf) ==
  LET crc1    == crc32_be(init, buf, 0)
      whole   == buf \o store_be(crc1)
      swapped == bytereverse(whole)
      start   == reflect(init, WIDTH)
      First(i)  == SubSeq(whole, 1, i)
      Second(i) == SubSeq(whole, i + 1, Len(whole))
  IN  /\ crc32_be(init, whole, 0) = {}
      /\ \A i \in 0 .. Len(whole) :
           crc32_be(crc32_be(init, First(i), 0), Second(i), i) = {}
      /\ crc32_le(start, bytereverse(buf), 0) = reflect(crc1, WIDTH)
      /\ crc32_le(start, swapped, 0) = {}
      /\ \A i \in 0 .. Len(whole) :
           crc32_le(crc32_le(start, SubSeq(swapped, 1, i), 0),
                    SubSeq(swapped, i + 1, Len(whole)), i) = {}

(* buf1 and buf2 are random garbage of one length.                         *)
unit_test(buf1, buf2) ==
  LET buf3 == [i \in DOMAIN buf1 |-> SymDiff(buf1[i], buf2[i])]
      Crc1(buf) == crc32_le({}, bytereverse(buf), 0)
  IN  /\ test_step({}, buf1) /\ test_step({}, buf2) /\ test_step({}, buf3)
      /\ Crc1(buf3) = SymDiff(Crc1(buf1), Crc1(buf2))
=============================================================================
