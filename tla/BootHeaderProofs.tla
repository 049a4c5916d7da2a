-------------------------- MODULE BootHeaderProofs --------------------------
(***************************************************************************)
(* No option is lost by the header tool, and what it reports done has the  *)
(* right CRCs, the whole program and its length, and is described as what  *)
(* it is, for command lines of every length and every program.             *)
(*                                                                         *)
(* That the length is read back as it was written rests on the weight of a *)
(* byte: FoldSet adds powers of two in an order it does not say, and what  *)
(* it comes to is compared with the sum of all eight, least set first.     *)
(***************************************************************************)
EXTENDS BootHeader, CrcProofs

(* While the command line is parsed, opts says what the options before     *)
(* optind asked for, and the two kinds of image exclude each other.        *)
Latest(i) ==
  \A j \in DOMAIN argv.options :
    i < j /\ j < optind => argv.options[j].name # argv.options[i].name

Heeded(i) ==
  LET o == argv.options[i]
  IN  /\ o.name \in {"s", "l"} => opts.s
      /\ o.name = "0" => opts.zero
      /\ o.name = "1" => opts.one
      /\ o.name = "l" /\ Latest(i) => opts.lVal = o.value
      /\ o.name = "0" /\ Latest(i) => opts.zeroVal = o.value
      /\ o.name = "1" /\ Latest(i) => opts.oneVal = o.value

OptsOK ==
  /\ optind \in Nat \ {0}
  /\ opts \in [s : BOOLEAN, zero : BOOLEAN, one : BOOLEAN,
               zeroVal : Remainder, oneVal : Remainder, lVal : Remainder]
  /\ opts.s => ~ opts.zero /\ ~ opts.one
  /\ \A i \in DOMAIN argv.options : i < optind => Heeded(i)

(* From then on the header says the same.                                  *)
HeaderFollows ==
  /\ hdr.nand = ~ opts.s
  /\ opts.s => hdr.progld = opts.lVal
  /\ ~ opts.s => hdr.timing0 = opts.zeroVal /\ hdr.timing1 = opts.oneVal

Parsed == pc # "parse" /\ rc # "failed"

ParseInv ==
  /\ argv \in CommandLines
  /\ DOMAIN hdr = DOMAIN NoHeader
  /\ rc \in {"none", "ok", "failed"}
  /\ pc # "exit" => rc = "none"
  /\ OptsOK
  /\ Parsed => optind > Len(argv.options) /\ HeaderFollows

-----------------------------------------------------------------------------
(* An option getopt returns is one of the five kinds.                      *)
LEMMA OptionKind ==
  ASSUME argv \in CommandLines
  PROVE  /\ argv.options \in Seq([name : {"s", "l", "0", "1", "unknown"},
                                  value : Remainder])
         /\ \A i \in DOMAIN argv.options :
              /\ i \in Nat \ {0}
              /\ argv.options[i].name \in {"s", "l", "0", "1", "unknown"}
              /\ argv.options[i].value \in Remainder
<1> DEFINE S == [name : {"s", "l", "0", "1", "unknown"}, value : Remainder]
<1>1. argv.options \in Seq(S)
  BY HeaderAssumption
<1>2. ASSUME NEW i \in DOMAIN argv.options
      PROVE  i \in Nat \ {0} /\ argv.options[i] \in S
  <2> HIDE DEF S
  <2>1. QED
    BY <1>1
<1>3. QED
  BY <1>1, <1>2

(* Heeding one more option: it is the latest of its name.                  *)
LEMMA OneMoreOption ==
  ASSUME ParseInv, ParseOption
  PROVE  OptsOK'
<1> DEFINE o == argv.options[optind]
<1>1. /\ optind \in DOMAIN argv.options
      /\ o.name \in {"s", "l", "0", "1", "unknown"}
      /\ o.value \in Remainder
      /\ optind \in Nat \ {0} /\ optind' = optind + 1 /\ argv' = argv
      /\ opts' = Accepted /\ ~ Rejected
  BY OptionKind DEF ParseOption, ParseInv, OptsOK
<1>2. opts \in [s : BOOLEAN, zero : BOOLEAN, one : BOOLEAN,
                zeroVal : Remainder, oneVal : Remainder, lVal : Remainder]
      /\ (opts.s => ~ opts.zero /\ ~ opts.one)
  BY DEF ParseInv, OptsOK
<1>3. /\ opts' \in [s : BOOLEAN, zero : BOOLEAN, one : BOOLEAN,
                    zeroVal : Remainder, oneVal : Remainder, lVal : Remainder]
      /\ opts'.s => ~ opts'.zero /\ ~ opts'.one
      /\ opts.s => opts'.s
      /\ opts.zero => opts'.zero
      /\ opts.one => opts'.one
      /\ o.name \in {"s", "l"} => opts'.s
      /\ o.name = "0" => opts'.zero
      /\ o.name = "1" => opts'.one
      /\ opts'.lVal = IF o.name = "l" THEN o.value ELSE opts.lVal
      /\ opts'.zeroVal = IF o.name = "0" THEN o.value ELSE opts.zeroVal
      /\ opts'.oneVal = IF o.name = "1" THEN o.value ELSE opts.oneVal
  <2>1. CASE o.name = "s"
    BY <1>1, <1>2, <2>1 DEF Accepted, Rejected, Option
  <2>2. CASE o.name = "l"
    BY <1>1, <1>2, <2>2 DEF Accepted, Rejected, Option
  <2>3. CASE o.name = "0"
    BY <1>1, <1>2, <2>3 DEF Accepted, Rejected, Option
  <2>4. CASE o.name = "1"
    BY <1>1, <1>2, <2>4 DEF Accepted, Rejected, Option
  <2>5. CASE o.name = "unknown"
    BY <1>1, <1>2, <2>5 DEF Accepted, Rejected, Option
  <2>6. QED
    BY <1>1, <2>1, <2>2, <2>3, <2>4, <2>5
<1>4. ASSUME NEW i \in DOMAIN argv.options, i < optind + 1
      PROVE  Heeded(i)'
  <2>1. i \in Nat
    BY OptionKind DEF ParseInv
  <2>2. CASE i = optind
    BY <1>1, <1>3, <2>2 DEF Heeded
  <2>3. CASE i < optind
    <3>1. Heeded(i)
      BY <2>3 DEF ParseInv, OptsOK
    <3>2. Latest(i)' => Latest(i) /\ o.name # argv.options[i].name
      <4>1. SUFFICES ASSUME Latest(i)'
                     PROVE  Latest(i) /\ o.name # argv.options[i].name
        OBVIOUS
      <4>2. ASSUME NEW j \in DOMAIN argv.options, i < j, j < optind + 1
            PROVE  argv.options[j].name # argv.options[i].name
        BY <1>1, <4>1, <4>2 DEF Latest
      <4>3. ASSUME NEW j \in DOMAIN argv.options, j < optind
            PROVE  j < optind + 1
        BY <1>1, <4>3, OptionKind DEF ParseInv
      <4>4. QED
        BY <1>1, <2>3, <4>2, <4>3 DEF Latest
    <3>3. QED
      BY <1>1, <1>3, <3>1, <3>2 DEF Heeded
  <2>4. QED
    BY <1>1, <1>4, <2>1, <2>2, <2>3
<1>5. QED
  BY <1>1, <1>3, <1>4 DEF OptsOK

(* A step that leaves the options alone leaves what is known of them.      *)
LEMMA OptionsKept ==
  ASSUME OptsOK, UNCHANGED <<argv, optind, opts>>
  PROVE  OptsOK'
  BY DEF OptsOK, Heeded, Latest

(* After the parsing nothing touches what came from the command line.      *)
SameChoices ==
  /\ UNCHANGED <<argv, optind, opts>>
  /\ DOMAIN hdr' = DOMAIN hdr
  /\ hdr'.nand = hdr.nand /\ hdr'.progld = hdr.progld
  /\ hdr'.timing0 = hdr.timing0 /\ hdr'.timing1 = hdr.timing1
  /\ rc' \in {"none", "ok", "failed"}
  /\ pc' # "exit" => rc' = "none"

LEMMA AfterParse ==
  ASSUME ParseInv, pc # "parse", pc # "exit", SameChoices
  PROVE  ParseInv'
<1>1. OptsOK'
  BY OptionsKept DEF ParseInv, SameChoices
<1>2. Parsed
  BY DEF ParseInv, Parsed
<1>3. QED
  BY <1>1, <1>2 DEF ParseInv, SameChoices, HeaderFollows

-----------------------------------------------------------------------------
(* The invariant holds of every command line, and every step keeps it.     *)
THEOREM ParseInvariance == Spec => []ParseInv
<1>1. Init => ParseInv
  <2> SUFFICES ASSUME Init PROVE ParseInv
    OBVIOUS
  <2>1. argv \in CommandLines /\ hdr = NoHeader /\ rc = "none" /\ pc = "parse"
    BY DEF Init
  <2>2. OptsOK
    BY <2>1, OptionKind, HeaderAssumption
       DEF Init, OptsOK, NoOptions, Remainder
  <2>3. QED
    BY <2>1, <2>2 DEF ParseInv, Parsed
<1>2. ParseInv /\ [Next]_vars => ParseInv'
  <2> SUFFICES ASSUME ParseInv, [Next]_vars PROVE ParseInv'
    OBVIOUS
  <2>1. CASE ParseOption
    <3>1. OptsOK'
      BY <2>1, OneMoreOption
    <3>2. QED
      BY <2>1, <3>1 DEF ParseOption, ParseInv, Parsed
  <2>2. CASE ParseFails
    <3>1. OptsOK'
      BY <2>2, OptionsKept DEF ParseFails, ParseInv
    <3>2. QED
      BY <2>2, <3>1 DEF ParseFails, ParseInv, Parsed, Exit
  <2>3. CASE ParseEnd
    <3>1. OptsOK'
      BY <2>3, OptionsKept DEF ParseEnd, ParseInv
    <3>2. DOMAIN hdr' = DOMAIN NoHeader /\ HeaderFollows'
      BY <2>3 DEF ParseEnd, ParseInv, HeaderFollows, OptsOK, NoHeader
    <3>3. optind' > Len(argv'.options)
      <4>1. optind \in Nat \ {0} /\ optind \notin DOMAIN argv.options
        BY <2>3 DEF ParseEnd, ParseInv, OptsOK
      <4>2. DOMAIN argv.options = 1 .. Len(argv.options)
            /\ Len(argv.options) \in Nat
        BY OptionKind DEF ParseInv
      <4>3. optind > Len(argv.options)
        BY <4>1, <4>2
      <4>4. QED
        BY <2>3, <4>3 DEF ParseEnd
    <3>4. QED
      BY <2>3, <3>1, <3>2, <3>3 DEF ParseEnd, ParseInv, Parsed, Continue
  <2>4. CASE GetLength
    <3>1. hdr' \in {hdr, [hdr EXCEPT !.len = LengthField]}
      BY <2>4 DEF GetLength
    <3>2. QED
      BY <2>4, <3>1, AfterParse DEF GetLength, Exit, Continue, SameChoices,
           ParseInv, NoHeader
  <2>5. CASE CrcProgram
    BY <2>5, AfterParse DEF CrcProgram, Continue, SameChoices, ParseInv, NoHeader
  <2>6. CASE CrcHeader
    BY <2>6, AfterParse DEF CrcHeader, Continue, SameChoices, ParseInv, NoHeader
  <2>7. CASE OpenFails
    BY <2>7, AfterParse DEF OpenFails, Exit, SameChoices, ParseInv
  <2>8. CASE OpenOutput
    BY <2>8, AfterParse DEF OpenOutput, Exit, Continue, SameChoices, ParseInv
  <2>9. CASE WriteHeader
    BY <2>9, AfterParse DEF WriteHeader, Continue, SameChoices, ParseInv
  <2>10. CASE CopyChunk
    BY <2>10, AfterParse DEF CopyChunk, SameChoices, ParseInv
  <2>11. CASE PadByte
    BY <2>11, AfterParse DEF PadByte, SameChoices, ParseInv
  <2>12. CASE WriteFails
    BY <2>12, AfterParse DEF WriteFails, Exit, SameChoices, ParseInv
  <2>13. CASE CloseOutput
    BY <2>13, AfterParse DEF CloseOutput, Continue, SameChoices, ParseInv
  <2>14. CASE PrintHeader
    BY <2>14, AfterParse DEF PrintHeader, Exit, SameChoices, ParseInv
  <2>15. CASE UNCHANGED vars
    <3>1. OptsOK'
      BY <2>15, OptionsKept DEF vars, ParseInv
    <3>2. QED
      BY <2>15, <3>1 DEF vars, ParseInv, Parsed, HeaderFollows
  <2>16. QED
    BY <2>1, <2>2, <2>3, <2>4, <2>5, <2>6, <2>7, <2>8, <2>9, <2>10, <2>11,
       <2>12, <2>13, <2>14, <2>15 DEF Next
<1>3. QED
  BY <1>1, <1>2, PTL DEF Spec

(* When bh returns 0, the header holds every option that was accepted.     *)
THEOREM NoOptionTheorem == Spec => []NoOptionLost
<1>1. ParseInv => NoOptionLost
  <2> SUFFICES ASSUME ParseInv, rc = "ok",
                      NEW i \in DOMAIN argv.options
               PROVE  LET o == argv.options[i]
                      IN  /\ o.name \in {"s", "l"} => ~ hdr.nand
                          /\ o.name \in {"0", "1"} => hdr.nand
                          /\ o.name = "l" /\ LastOf(i) => hdr.progld = o.value
                          /\ o.name = "0" /\ LastOf(i) => hdr.timing0 = o.value
                          /\ o.name = "1" /\ LastOf(i) => hdr.timing1 = o.value
    BY DEF NoOptionLost
  <2>1. optind > Len(argv.options) /\ HeaderFollows
    BY DEF ParseInv, Parsed
  <2>2. i < optind /\ (LastOf(i) => Latest(i))
    <3>1. /\ argv.options \in Seq([name : {"s", "l", "0", "1", "unknown"},
                                    value : Remainder])
          /\ optind \in Nat
      BY OptionKind DEF ParseInv, OptsOK
    <3>2. i <= Len(argv.options) /\ i \in Nat /\ Len(argv.options) \in Nat
      BY <3>1
    <3>3. i < optind
      BY <2>1, <3>1, <3>2
    <3>4. QED
      BY <3>2, <3>3, OptionKind DEF LastOf, Latest, ParseInv
  <2>3. Heeded(i) /\ (opts.s => ~ opts.zero /\ ~ opts.one)
    BY <2>2 DEF ParseInv, OptsOK
  <2>4. QED
    BY <2>1, <2>2, <2>3 DEF HeaderFollows, Heeded
<1>2. QED
  BY ParseInvariance, <1>1, PTL
-----------------------------------------------------------------------------
(* What is put together of bytes, and where its parts are found again.     *)
Row(s, n) == s \in Seq(Byte) /\ Len(s) = n

LEMMA RowsJoined ==
  ASSUME NEW m \in Nat, NEW n \in Nat, NEW a, NEW b, Row(a, m), Row(b, n)
  PROVE  Row(a \o b, m + n)
<1>1. a \in Seq(Byte) /\ b \in Seq(Byte)
  BY DEF Row
<1>2. a \o b \in Seq(Byte) /\ Len(a \o b) = Len(a) + Len(b)
  BY <1>1, ConcatProperties
<1>3. Len(a) = m /\ Len(b) = n
  BY DEF Row
<1>4. QED
  BY <1>2, <1>3 DEF Row

LEMMA RowsRegroup ==
  ASSUME NEW m, NEW n, NEW k, NEW a, NEW b, NEW c,
         Row(a, m), Row(b, n), Row(c, k)
  PROVE  (a \o b) \o c = a \o (b \o c)
<1>1. a \in Seq(Byte) /\ b \in Seq(Byte) /\ c \in Seq(Byte)
  BY DEF Row
<1>2. QED
  BY <1>1, ConcatAssociative

LEMMA RowSame ==
  ASSUME NEW n, NEW a, NEW b, Row(a, n), Row(b, n),
         \A i \in 1 .. n : a[i] = b[i]
  PROVE  a = b
  BY DEF Row

Three(a, m, b, n, c, k) ==
  /\ m \in Nat /\ n \in Nat /\ k \in Nat
  /\ Row(a, m) /\ Row(b, n) /\ Row(c, k)

LEMMA RowPart ==
  ASSUME NEW m, NEW n, NEW k, NEW a, NEW b, NEW c, Three(a, m, b, n, c, k)
  PROVE  SubSeq(a \o (b \o c), m + 1, m + n) = b
<1> USE DEF Three
<1> DEFINE bc == b \o c
           s == a \o bc
           part == SubSeq(s, m + 1, m + n)
<1>1. Row(bc, n + k) /\ \A i \in 1 .. n : bc[i] = b[i]
  <2>1. Row(bc, n + k)
    BY RowsJoined
  <2>2. ASSUME NEW i \in 1 .. n PROVE bc[i] = b[i]
    <3>1. /\ b \in Seq(Byte) /\ c \in Seq(Byte)
          /\ i \in 1 .. Len(b) + Len(c) /\ i <= Len(b)
      BY DEF Row
    <3>2. QED
      BY <3>1, ConcatProperties
  <2>3. QED
    BY <2>1, <2>2
<1> HIDE DEF bc
<1>2. ASSUME NEW i \in 1 .. n PROVE s[m + i] = b[i]
  <2>1. /\ a \in Seq(Byte) /\ bc \in Seq(Byte)
        /\ m + i \in 1 .. Len(a) + Len(bc)
        /\ ~ (m + i <= Len(a)) /\ m + i - Len(a) = i
    BY <1>1 DEF Row
  <2>2. s[m + i] = bc[m + i - Len(a)]
    BY <2>1, ConcatProperties
  <2>3. QED
    BY <1>1, <2>1, <2>2
<1> HIDE DEF s
<1>3. ASSUME NEW i \in m + 1 .. m + n PROVE s[i] \in Byte
  <2>1. i - m \in 1 .. n /\ m + (i - m) = i
    OBVIOUS
  <2>2. b[i - m] \in Byte
    BY <2>1 DEF Row
  <2>3. s[m + (i - m)] = b[i - m]
    BY <1>2, <2>1
  <2>4. QED
    BY <2>1, <2>2, <2>3
<1>4. /\ part \in Seq(Byte)
      /\ Len(part) = IF m + 1 <= m + n THEN m + n - (m + 1) + 1 ELSE 0
      /\ \A i \in 1 .. m + n - (m + 1) + 1 : part[i] = s[m + 1 + i - 1]
  <2>1. m + 1 \in Int /\ m + n \in Int
    OBVIOUS
  <2>2. QED
    BY <1>3, <2>1, SubSeqProperties
<1> HIDE DEF part
<1>5. Row(part, n)
  BY <1>4 DEF Row
<1>6. ASSUME NEW i \in 1 .. n PROVE part[i] = b[i]
  <2>1. i \in 1 .. m + n - (m + 1) + 1 /\ m + 1 + i - 1 = m + i
    OBVIOUS
  <2>2. QED
    BY <1>2, <1>4, <2>1
<1>7. part = b
  BY <1>5, <1>6, RowSame
<1>8. QED
  BY <1>7 DEF part, s, bc

LEMMA RowOfBytes ==
  ASSUME NEW w, NEW n \in Nat
  PROVE  Row(BigEndian(w, n), n)
<1>1. \A k : ByteOf(w, k) \in Byte
  BY DEF ByteOf, LowByte, Byte
<1>2. QED
  BY <1>1 DEF BigEndian, Row

(* A header's fields, whatever follows it.                                 *)
HasFields(s, h, p, n) ==
  LET size == HeaderSize(h.nand)
  IN  /\ size \in {16, 24}
      /\ Row(HeaderBytes(h), size)
      /\ Covered(h) \in Seq(Byte)
      /\ SubSeq(s, size - 3, size) = BigEndian(h.hdrcrc, 4)
      /\ SubSeq(s, IF h.nand THEN 5 ELSE 1, size - 4) = Covered(h)
      /\ SubSeq(s, size - 7, size - 4) = BigEndian(h.progcrc, 4)
      /\ SubSeq(s, size + 1, size + n) = p

LEMMA HeaderFields ==
  ASSUME NEW h, h.nand \in BOOLEAN, NEW n \in Nat, NEW p, Row(p, n)
  PROVE  HasFields(HeaderBytes(h) \o p, h, p, n)
<1> DEFINE magic == IF h.nand THEN BigEndian(NAND_MAGIC, 4) ELSE <<>>
           early == IF h.nand
                    THEN BigEndian(h.len, 4) \o BigEndian(h.timing0, 4)
                           \o BigEndian(h.timing1, 4)
                    ELSE <<SPI_BOOT_SIG>> \o BigEndian(h.len, 3)
                           \o BigEndian(h.progld, 4)
           pcrc == BigEndian(h.progcrc, 4)
           hcrc == BigEndian(h.hdrcrc, 4)
           before == IF h.nand THEN 4 ELSE 0
           upto == IF h.nand THEN 12 ELSE 8
           size == HeaderSize(h.nand)
           s == HeaderBytes(h) \o p
           ep == early \o pcrc
           me == magic \o early
           hp == hcrc \o p
           epLen == upto + 4
           meLen == before + upto
           hpLen == 4 + n
<1>1. Row(pcrc, 4) /\ Row(hcrc, 4)
  BY RowOfBytes
<1>2. Row(<<>>, 0) /\ Row(<<SPI_BOOT_SIG>>, 1)
  BY HeaderAssumption DEF Row
<1>3. Row(magic, before)
  BY <1>2, RowOfBytes
<1>4. Row(early, upto)
  <2>1. CASE h.nand
    <3> DEFINE a == BigEndian(h.len, 4)
               b == BigEndian(h.timing0, 4)
               c == BigEndian(h.timing1, 4)
    <3>1. Row(a, 4) /\ Row(b, 4) /\ Row(c, 4)
      BY RowOfBytes
    <3> HIDE DEF a, b, c
    <3>2. Row(a \o b, 4 + 4)
      BY <3>1, RowsJoined
    <3>3. Row((a \o b) \o c, 8 + 4)
      BY <3>1, <3>2, RowsJoined
    <3>4. QED
      BY <2>1, <3>3 DEF a, b, c
  <2>2. CASE ~ h.nand
    <3> DEFINE a == <<SPI_BOOT_SIG>>
               b == BigEndian(h.len, 3)
               c == BigEndian(h.progld, 4)
    <3>1. Row(a, 1) /\ Row(b, 3) /\ Row(c, 4)
      BY <1>2, RowOfBytes
    <3> HIDE DEF a, b, c
    <3>2. Row(a \o b, 1 + 3)
      BY <3>1, RowsJoined
    <3>3. Row((a \o b) \o c, 4 + 4)
      BY <3>1, <3>2, RowsJoined
    <3>4. QED
      BY <2>2, <3>3 DEF a, b, c
  <2>3. QED
    BY <2>1, <2>2
<1>5. Covered(h) = ep
  BY DEF Covered
<1>6. HeaderBytes(h) = (magic \o ep) \o hcrc
  BY <1>5 DEF HeaderBytes
<1>7. /\ before \in Nat /\ upto \in Nat /\ size = before + upto + 8
      /\ before + 1 = (IF h.nand THEN 5 ELSE 1) /\ size \in {16, 24}
  BY DEF HeaderSize
<1> HIDE DEF magic, early, pcrc, hcrc, before, upto, size, s
<1>8. Row(ep, epLen) /\ Row(me, meLen) /\ Row(hp, hpLen)
  BY <1>1, <1>3, <1>4, <1>7, RowsJoined
<1>9. magic \o ep = me \o pcrc
  <2>1. Row(magic, before) /\ Row(early, upto) /\ Row(pcrc, 4)
    BY <1>1, <1>3, <1>4
  <2>2. (magic \o early) \o pcrc = magic \o (early \o pcrc)
    BY <2>1, RowsRegroup
  <2>3. QED
    BY <2>2
<1>10. /\ epLen \in Nat /\ meLen \in Nat /\ hpLen \in Nat
       /\ before + epLen = size - 4 /\ meLen + 1 = size - 7
       /\ meLen + 4 = size - 4
  BY <1>7
<1> HIDE DEF ep, me, epLen, meLen, hpLen
<1>11. Row(magic \o ep, size - 4) /\ Row(HeaderBytes(h), size)
  <2>1. Row(magic \o ep, before + epLen)
    BY <1>3, <1>7, <1>8, <1>10, RowsJoined
  <2>2. before + epLen \in Nat /\ (before + epLen) + 4 = size
    BY <1>7, <1>10
  <2>3. Row((magic \o ep) \o hcrc, (before + epLen) + 4)
    BY <1>1, <2>1, <2>2, RowsJoined
  <2>4. QED
    BY <1>6, <1>10, <2>1, <2>2, <2>3
<1>12. s = (magic \o ep) \o hp
  <2>1. Row(magic \o ep, size - 4) /\ Row(hcrc, 4) /\ Row(p, n)
    BY <1>1, <1>11
  <2>2. ((magic \o ep) \o hcrc) \o p = (magic \o ep) \o (hcrc \o p)
    BY <2>1, RowsRegroup
  <2>3. s = ((magic \o ep) \o hcrc) \o p
    BY <1>6 DEF s
  <2>4. QED
    BY <2>2, <2>3
<1>13. s = magic \o (ep \o hp)
  <2> HIDE DEF hp
  <2>1. QED
    BY <1>3, <1>8, <1>12, RowsRegroup
<1>14. s = me \o (pcrc \o hp)
  <2> HIDE DEF hp
  <2>1. Row(me, meLen) /\ Row(pcrc, 4) /\ Row(hp, hpLen)
    BY <1>1, <1>8
  <2>2. (me \o pcrc) \o hp = me \o (pcrc \o hp)
    BY <2>1, RowsRegroup
  <2>3. QED
    BY <1>9, <1>12, <2>2
<1>15. SubSeq(s, size - 3, size) = hcrc
  <2>1. size - 4 \in Nat /\ size - 4 + 1 = size - 3 /\ size - 4 + 4 = size
    BY <1>7
  <2>2. Three(magic \o ep, size - 4, hcrc, 4, p, n)
    BY <1>1, <1>11, <2>1 DEF Three
  <2>3. SubSeq((magic \o ep) \o hp, size - 4 + 1, size - 4 + 4) = hcrc
    BY <2>2, RowPart
  <2>4. QED
    BY <1>12, <2>1, <2>3
<1> HIDE DEF hp
<1>16. SubSeq(s, before + 1, size - 4) = ep
  <2>1. Three(magic, before, ep, epLen, hp, hpLen)
    BY <1>3, <1>7, <1>8, <1>10 DEF Three
  <2>2. SubSeq(magic \o (ep \o hp), before + 1, before + epLen) = ep
    BY <2>1, RowPart
  <2>3. QED
    BY <1>10, <1>13, <2>2
<1>17. SubSeq(s, size - 7, size - 4) = pcrc
  <2>1. Three(me, meLen, pcrc, 4, hp, hpLen)
    BY <1>1, <1>8, <1>10 DEF Three
  <2>2. SubSeq(me \o (pcrc \o hp), meLen + 1, meLen + 4) = pcrc
    BY <2>1, RowPart
  <2>3. QED
    BY <1>10, <1>14, <2>2
<1>18. SubSeq(s, size + 1, size + n) = p
  <2>1. p \o <<>> = p /\ size \in Nat
    BY <1>7 DEF Row
  <2>2. Three(HeaderBytes(h), size, p, n, <<>>, 0)
    BY <1>2, <1>11, <2>1 DEF Three
  <2>3. SubSeq(HeaderBytes(h) \o (p \o <<>>), size + 1, size + n) = p
    BY <2>2, RowPart
  <2>4. QED
    BY <2>1, <2>3 DEF s
<1>19. Covered(h) \in Seq(Byte)
  BY <1>5, <1>8 DEF Row
<1>20. QED
  BY <1>5, <1>7, <1>11, <1>15, <1>16, <1>17, <1>18, <1>19
     DEF HasFields, s, size, pcrc, hcrc, before

LEMMA HeaderRow ==
  ASSUME NEW h, h.nand \in BOOLEAN
  PROVE  Row(HeaderBytes(h), HeaderSize(h.nand))
<1> DEFINE p == <<>>
<1>1. Row(p, 0) /\ 0 \in Nat
  BY DEF Row
<1> HIDE DEF p
<1>2. HasFields(HeaderBytes(h) \o p, h, p, 0)
  BY <1>1, HeaderFields
<1>3. QED
  BY <1>2 DEF HasFields

(* A program with its zeros is whole words, and begins with the program.   *)
LEMMA PaddedBytes ==
  ASSUME NEW m \in Seq(Byte)
  PROVE  /\ Padded(m) \in Seq(Byte)
         /\ Len(Padded(m)) \in Len(m) .. Len(m) + 3 /\ Len(Padded(m)) % 4 = 0
         /\ \A i \in 1 .. Len(m) : Padded(m)[i] = m[i]
         /\ \A i \in Len(m) + 1 .. Len(Padded(m)) : Padded(m)[i] = {}
<1> DEFINE n == Len(m)
           z == (4 - (n % 4)) % 4
           zeros == Padding(n)
<1>1. n \in Nat /\ z \in 0 .. 3 /\ (n + z) % 4 = 0
  <2>1. n \in Nat
    OBVIOUS
  <2> HIDE DEF n
  <2>2. n % 4 \in 0 .. 3 /\ n = 4 * (n \div 4) + (n % 4) /\ n \div 4 \in Nat
    BY <2>1
  <2> DEFINE r == n % 4
             q == n \div 4
  <2> HIDE DEF r, q
  <2>3. z \in 0 .. 3 /\ (r + z) % 4 = 0
    <3>1. r \in 0 .. 3
      BY <2>2 DEF r
    <3>2. z = (4 - r) % 4
      BY DEF r
    <3> HIDE DEF z
    <3>3. r = 0 \/ r = 1 \/ r = 2 \/ r = 3
      BY <3>1
    <3>4. QED
      BY <3>2, <3>3
  <2> HIDE DEF z
  <2>4. n = 4 * q + r /\ q \in Nat /\ r \in 0 .. 3
    BY <2>2 DEF r, q
  <2>5. (4 * q + r + z) % 4 = 0
    BY <2>3, <2>4
  <2>6. QED
    BY <2>1, <2>3, <2>4, <2>5
<1>2. zeros = [i \in 1 .. z |-> {}]
  BY DEF Padding
<1> HIDE DEF z
<1>3. /\ zeros \in Seq(Byte) /\ Len(zeros) = z
      /\ \A i \in 1 .. z : zeros[i] = {}
  BY <1>1, <1>2 DEF Byte
<1> HIDE DEF zeros
<1>4. Padded(m) = m \o zeros
  BY DEF Padded, zeros
<1>5. /\ m \o zeros \in Seq(Byte) /\ Len(m \o zeros) = n + z
      /\ \A i \in 1 .. n + z :
           (m \o zeros)[i] = IF i <= n THEN m[i] ELSE zeros[i - n]
  BY <1>3, ConcatProperties
<1> HIDE DEF n
<1>6. ASSUME NEW i \in 1 .. n PROVE Padded(m)[i] = m[i]
  <2>1. i \in 1 .. n + z /\ i <= n
    BY <1>1
  <2>2. QED
    BY <1>4, <1>5, <2>1
<1>7. ASSUME NEW i \in n + 1 .. n + z PROVE Padded(m)[i] = {}
  <2>1. i \in 1 .. n + z /\ ~ (i <= n) /\ i - n \in 1 .. z
    BY <1>1
  <2>2. QED
    BY <1>3, <1>4, <1>5, <2>1
<1>8. n + z \in n .. n + 3
  BY <1>1
<1>9. QED
  BY <1>1, <1>4, <1>5, <1>6, <1>7, <1>8 DEF n

(* The first bytes of a sequence, and one more.                            *)
LEMMA FirstBytes ==
  ASSUME NEW m \in Seq(Byte), NEW k \in 0 .. Len(m)
  PROVE  /\ Row(SubSeq(m, 1, k), k)
         /\ \A i \in 1 .. k : SubSeq(m, 1, k)[i] = m[i]
<1>1. \A i \in 1 .. k : m[i] \in Byte
  OBVIOUS
<1>2. 1 \in Int /\ k \in Int
  OBVIOUS
<1>3. /\ SubSeq(m, 1, k) \in Seq(Byte)
      /\ Len(SubSeq(m, 1, k)) = IF 1 <= k THEN k - 1 + 1 ELSE 0
      /\ \A i \in 1 .. k - 1 + 1 : SubSeq(m, 1, k)[i] = m[1 + i - 1]
  BY <1>1, <1>2, SubSeqProperties
<1>4. Len(SubSeq(m, 1, k)) = k
  BY <1>3
<1>5. \A i \in 1 .. k : i \in 1 .. k - 1 + 1 /\ 1 + i - 1 = i
  OBVIOUS
<1>6. QED
  BY <1>3, <1>4, <1>5 DEF Row

-----------------------------------------------------------------------------
(* What the header and the stream hold, once it is computed or written.    *)
Reached(labels) == pc \in labels \/ rc = "ok"

ImageInv ==
  /\ input \in Programs
  /\ Reached({"progcrc", "hdrcrc", "open", "header", "copy", "print"})
       => input \in Seq(Byte)
  /\ Reached({"hdrcrc", "open", "header", "copy", "print"})
       => hdr.progcrc = crc32Of(Padded(input))
  /\ Reached({"open", "header", "copy", "print"})
       => hdr.hdrcrc = crc32Of(Covered(hdr))
  /\ pc \in {"parse", "length", "progcrc", "hdrcrc", "open", "header"}
       => copied = 0
  /\ ~ argv.same /\ Reached({"copy", "print"}) =>
       /\ copied \in 0 .. Len(Padded(input))
       /\ stream = HeaderBytes(hdr) \o SubSeq(Padded(input), 1, copied)
  /\ ~ argv.same /\ Reached({"print"}) => copied = Len(Padded(input))

(* While the program is copied, more of it, zeros included, is behind the  *)
(* header.                                                                 *)
LEMMA MoreCopied ==
  ASSUME input \in Seq(Byte), hdr.nand \in BOOLEAN,
         NEW k \in 0 .. Len(Padded(input)), NEW l \in k .. Len(Padded(input)),
         NEW more, more = SubSeq(Padded(input), k + 1, l),
         stream = HeaderBytes(hdr) \o SubSeq(Padded(input), 1, k)
  PROVE  stream \o more = HeaderBytes(hdr) \o SubSeq(Padded(input), 1, l)
<1> DEFINE p == Padded(input)
           h == HeaderBytes(hdr)
           a == SubSeq(p, 1, k)
           b == SubSeq(p, k + 1, l)
<1>1. p \in Seq(Byte) /\ Len(p) \in Nat
  BY PaddedBytes
<1> HIDE DEF p
<1>2. Row(p, Len(p)) /\ k \in 0 .. Len(p) /\ l \in k .. Len(p)
  BY <1>1 DEF Row, p
<1>3. Row(h, HeaderSize(hdr.nand))
  BY HeaderRow
<1>4. a \o b = SubSeq(p, 1, l)
  <2>1. 1 \in 1 .. Len(p) + 1 /\ k \in 1 - 1 .. Len(p)
    BY <1>1, <1>2
  <2>2. QED
    BY <1>1, <1>2, <2>1, ConcatAdjacentSubSeq
<1>5. Row(a, k)
  BY <1>1, <1>2, FirstBytes
<1>6. b \in Seq(Byte)
  <2>1. \A i \in k + 1 .. l : p[i] \in Byte
    BY <1>1, <1>2
  <2>2. k + 1 \in Int /\ l \in Int
    BY <1>1, <1>2
  <2>3. QED
    BY <2>1, <2>2, SubSeqProperties
<1> HIDE DEF h, a, b
<1>7. Row(b, Len(b))
  BY <1>6 DEF Row
<1>8. (h \o a) \o b = h \o (a \o b)
  BY <1>3, <1>5, <1>7, RowsRegroup
<1>9. QED
  BY <1>4, <1>8 DEF h, a, b, p

ChunkCopied ==
  /\ copied' \in 0 .. Len(Padded(input))
  /\ stream' = HeaderBytes(hdr) \o SubSeq(Padded(input), 1, copied')

LEMMA OneMoreChunk ==
  ASSUME CopyChunk, ~ argv.same, input \in Seq(Byte), hdr.nand \in BOOLEAN,
         copied \in 0 .. Len(Padded(input)),
         stream = HeaderBytes(hdr) \o SubSeq(Padded(input), 1, copied)
  PROVE  ChunkCopied
<1> DEFINE p == Padded(input)
           n == Len(input)
           l == Min({copied + Chunk, n})
           chunk == SubSeq(input, copied + 1, l)
<1>1. /\ chunk # <<>> /\ stream' = stream \o chunk
      /\ copied' = copied + Len(chunk)
  BY DEF CopyChunk, Program
<1>2. /\ p \in Seq(Byte) /\ n \in Nat /\ Len(p) \in n .. n + 3
      /\ \A i \in 1 .. n : p[i] = input[i] /\ input[i] \in Byte
  BY PaddedBytes
<1>3. copied \in 0 .. Len(p) /\ Chunk \in Nat
  BY HeaderAssumption
<1>4. l \in Nat /\ l <= n
  <2> HIDE DEF n
  <2>1. copied + Chunk \in Nat
    BY <1>2, <1>3
  <2>2. \E x \in {copied + Chunk, n} : \A y \in {copied + Chunk, n} : x <= y
    BY <1>2, <2>1
  <2>3. l \in {copied + Chunk, n} /\ l <= n
    BY <2>2 DEF Min
  <2>4. QED
    BY <1>2, <2>1, <2>3
<1> HIDE DEF l
<1>5. copied + 1 <= l
  <2>1. SUFFICES ASSUME l < copied + 1 PROVE FALSE
    BY <1>2, <1>3, <1>4
  <2>2. copied + 1 \in Int /\ l \in Int
    BY <1>2, <1>3, <1>4
  <2>3. chunk = <<>>
    BY <2>1, <2>2, SubSeqEmpty
  <2>4. QED
    BY <1>1, <2>3
<1>6. chunk = SubSeq(p, copied + 1, l) /\ Len(chunk) = l - copied
  <2> DEFINE part == SubSeq(p, copied + 1, l)
             size == l - (copied + 1) + 1
  <2>1. /\ copied + 1 \in Int /\ l \in Int /\ size = l - copied
        /\ \A i \in copied + 1 .. l : i \in 1 .. n
        /\ \A i \in 1 .. size : copied + 1 + i - 1 \in copied + 1 .. l
    BY <1>2, <1>3, <1>4
  <2>2. \A i \in copied + 1 .. l : input[i] \in Byte /\ p[i] = input[i]
    BY <1>2, <2>1
  <2>3. \A i \in copied + 1 .. l : p[i] \in Byte
    BY <2>2
  <2>4. /\ chunk \in Seq(Byte)
        /\ Len(chunk) = size
        /\ \A i \in 1 .. size : chunk[i] = input[copied + 1 + i - 1]
    BY <1>5, <2>1, <2>2, SubSeqProperties
  <2>5. /\ part \in Seq(Byte)
        /\ Len(part) = size
        /\ \A i \in 1 .. size : part[i] = p[copied + 1 + i - 1]
    BY <1>5, <2>1, <2>3, SubSeqProperties
  <2> HIDE DEF part, chunk, size, p, n
  <2>6. \A i \in 1 .. size : chunk[i] = part[i]
    BY <2>1, <2>2, <2>4, <2>5
  <2>7. Row(chunk, size) /\ Row(part, size)
    BY <2>4, <2>5 DEF Row
  <2>8. chunk = part
    BY <2>6, <2>7, RowSame
  <2>9. QED
    BY <2>1, <2>4, <2>8 DEF part
<1>7. l \in copied .. Len(p)
  BY <1>2, <1>3, <1>4, <1>5
<1>8. stream \o chunk = HeaderBytes(hdr) \o SubSeq(p, 1, l)
  <2>1. copied \in 0 .. Len(Padded(input)) /\ l \in copied .. Len(Padded(input))
    BY <1>7
  <2>2. chunk = SubSeq(Padded(input), copied + 1, l)
    BY <1>6
  <2> HIDE DEF chunk
  <2>3. QED
    BY <2>1, <2>2, MoreCopied
<1>9. copied' = l
  BY <1>1, <1>3, <1>4, <1>6
<1>10. QED
  <2> HIDE DEF chunk
  <2>1. stream' = HeaderBytes(hdr) \o SubSeq(p, 1, copied')
    BY <1>1, <1>8, <1>9
  <2>2. copied' \in 0 .. Len(p)
    BY <1>2, <1>3, <1>7, <1>9
  <2>3. QED
    BY <2>1, <2>2 DEF ChunkCopied

LEMMA OneMoreZero ==
  ASSUME PadByte, ~ argv.same, input \in Seq(Byte), hdr.nand \in BOOLEAN,
         copied \in 0 .. Len(Padded(input)),
         stream = HeaderBytes(hdr) \o SubSeq(Padded(input), 1, copied)
  PROVE  ChunkCopied
<1> DEFINE p == Padded(input)
           n == Len(input)
           zero == <<{}>>
<1>1. /\ copied >= n /\ copied % 4 # 0
      /\ stream' = Append(stream, {}) /\ copied' = copied + 1
  BY DEF PadByte, Program
<1>2. /\ p \in Seq(Byte) /\ n \in Nat /\ Len(p) \in n .. n + 3
      /\ Len(p) % 4 = 0 /\ \A i \in n + 1 .. Len(p) : p[i] = {}
  BY PaddedBytes
<1>3. copied \in 0 .. Len(p)
  OBVIOUS
<1> HIDE DEF p, n
<1>4. copied + 1 \in n + 1 .. Len(p) /\ copied + 1 \in 1 .. Len(p)
  <2> DEFINE all == Len(p)
  <2>1. /\ n \in Nat /\ all \in n .. n + 3 /\ all % 4 = 0
        /\ copied \in 0 .. all /\ copied >= n /\ copied % 4 # 0
    BY <1>1, <1>2, <1>3
  <2> HIDE DEF all
  <2>2. copied # all
    BY <2>1
  <2>3. copied + 1 \in n + 1 .. all /\ copied + 1 \in 1 .. all
    BY <2>1, <2>2
  <2>4. QED
    BY <2>3 DEF all
<1>5. zero = SubSeq(p, copied + 1, copied + 1)
  <2> DEFINE i == copied + 1
             part == SubSeq(p, i, i)
  <2>1. i \in Int /\ p[i] = {} /\ p[i] \in Byte
    BY <1>2, <1>4 DEF Byte
  <2> HIDE DEF i
  <2>2. /\ \A k \in i .. i : p[k] \in Byte
        /\ i - i + 1 = 1 /\ i + 1 - 1 = i
    <3>1. \A k \in i .. i : k = i
      BY <2>1
    <3>2. ASSUME NEW k \in i .. i PROVE p[k] \in Byte
      BY <2>1, <3>1, Zenon
    <3>3. i - i + 1 = 1 /\ i + 1 - 1 = i
      BY <2>1
    <3>4. QED
      BY <3>2, <3>3
  <2>3. part \in Seq(Byte) /\ Len(part) = 1 /\ part[1] = p[i]
    BY <2>1, <2>2, SubSeqProperties
  <2> HIDE DEF part
  <2>4. Row(part, 1) /\ Row(zero, 1) /\ zero[1] = {} /\ part[1] = {}
    BY <2>1, <2>3 DEF Row
  <2> HIDE DEF zero
  <2>5. \A k \in 1 .. 1 : zero[k] = part[k]
    <3>1. \A k \in 1 .. 1 : k = 1
      OBVIOUS
    <3>2. QED
      BY <2>4, <3>1
  <2>6. zero = part
    BY <2>4, <2>5, RowSame
  <2>7. QED
    BY <2>6 DEF part, i
<1>6. stream \in Seq(Byte) /\ {} \in Byte
  <2>1. Row(SubSeq(p, 1, copied), copied)
    BY <1>2, <1>3, FirstBytes
  <2>2. Row(HeaderBytes(hdr), HeaderSize(hdr.nand))
    BY HeaderRow
  <2>3. HeaderBytes(hdr) \in Seq(Byte) /\ SubSeq(p, 1, copied) \in Seq(Byte)
    BY <2>1, <2>2 DEF Row
  <2>4. QED
    BY <2>3, ConcatProperties DEF p, Byte
<1>7. Append(stream, {}) = stream \o zero
  BY <1>6, AppendIsConcat
<1>8. stream \o zero = HeaderBytes(hdr) \o SubSeq(p, 1, copied + 1)
  <2>1. /\ copied \in 0 .. Len(Padded(input))
        /\ copied + 1 \in copied .. Len(Padded(input))
    BY <1>3, <1>4 DEF p
  <2>2. zero = SubSeq(Padded(input), copied + 1, copied + 1)
    BY <1>5 DEF p
  <2> HIDE DEF zero
  <2>3. QED
    BY <2>1, <2>2, MoreCopied DEF p
<1>9. copied + 1 \in 0 .. Len(p)
  BY <1>4
<1>10. QED
  BY <1>1, <1>7, <1>8, <1>9 DEF ChunkCopied, p

(* After the parsing a step either leaves what ImageInv speaks of alone,   *)
(* or ends the tool, or makes one more of its parts true.                  *)
THEOREM ImageInvariance == Spec => []ImageInv
<1>1. Init => ImageInv
  BY DEF Init, ImageInv, Reached
<1>2. ParseInv /\ ImageInv /\ [Next]_vars => ImageInv'
  <2> SUFFICES ASSUME ParseInv, ImageInv, [Next]_vars PROVE ImageInv'
    OBVIOUS
  <2>1. /\ pc # "exit" => rc = "none"
        /\ DOMAIN hdr = {"nand", "len", "timing0", "timing1", "progld",
                         "progcrc", "hdrcrc"}
    BY DEF ParseInv, NoHeader
  <2>2. CASE ParseOption
    BY <2>1, <2>2 DEF ParseOption, file, ImageInv, Reached
  <2>3. CASE ParseFails
    BY <2>1, <2>3 DEF ParseFails, Exit, file, ImageInv, Reached
  <2>4. CASE ParseEnd
    BY <2>1, <2>4 DEF ParseEnd, Continue, file, ImageInv, Reached
  <2>5. CASE GetLength
    <3>1. CASE input = Missing
      BY <2>1, <2>5, <3>1 DEF GetLength, Exit, file, ImageInv, Reached
    <3>2. CASE input # Missing
      <4>1. input \in Seq(Byte)
        BY <3>2, HeaderAssumption DEF ImageInv
      <4>2. QED
        BY <2>1, <2>5, <3>2, <4>1 DEF GetLength, Continue, file, ImageInv, Reached
    <3>3. QED
      BY <3>1, <3>2
  <2>6. CASE CrcProgram
    <3>1. hdr'.progcrc = crc32Of(Padded(input))
      BY <2>1, <2>6 DEF CrcProgram
    <3>2. QED
      BY <2>1, <2>6, <3>1 DEF CrcProgram, Continue, file, ImageInv, Reached
  <2>7. CASE CrcHeader
    <3>1. /\ hdr'.hdrcrc = crc32Of(Covered(hdr))
          /\ hdr'.progcrc = hdr.progcrc
          /\ Covered(hdr') = Covered(hdr)
      BY <2>1, <2>7 DEF CrcHeader, Covered
    <3>2. QED
      BY <2>1, <2>7, <3>1 DEF CrcHeader, Continue, file, ImageInv, Reached
  <2>8. CASE OpenFails
    BY <2>1, <2>8 DEF OpenFails, Exit, file, ImageInv, Reached
  <2>9. CASE OpenOutput
    BY <2>1, <2>9 DEF OpenOutput, Exit, Continue, ImageInv, Reached
  <2>10. CASE WriteHeader
    <3>1. copied = 0 /\ input \in Seq(Byte)
      BY <2>10 DEF WriteHeader, ImageInv, Reached
    <3>2. 0 \in 0 .. Len(Padded(input))
      BY <3>1, PaddedBytes
    <3>3. SubSeq(Padded(input), 1, 0) = <<>>
      BY <3>1, PaddedBytes
    <3>4. HeaderBytes(hdr) \o <<>> = HeaderBytes(hdr)
      <4>1. hdr.nand \in BOOLEAN
        BY <2>1, <2>10 DEF ParseInv, Parsed, HeaderFollows, WriteHeader, OptsOK
      <4>2. QED
        BY <4>1, HeaderRow DEF Row
    <3>5. QED
      BY <2>1, <2>10, <3>1, <3>2, <3>3, <3>4
         DEF WriteHeader, Continue, ImageInv, Reached
  <2>11. CASE CopyChunk
    <3>1. CASE argv.same
      BY <2>1, <2>11, <3>1 DEF CopyChunk, ImageInv, Reached
    <3>2. CASE ~ argv.same
      <4>1. /\ pc = "copy" /\ hdr' = hdr /\ input' = input
            /\ input \in Seq(Byte) /\ hdr.nand \in BOOLEAN
        BY <2>1, <2>11 DEF CopyChunk, ImageInv, Reached, ParseInv, Parsed,
             HeaderFollows, OptsOK
      <4>2. ChunkCopied
        BY <2>11, <3>2, <4>1, OneMoreChunk DEF ImageInv, Reached
      <4>3. QED
        BY <2>1, <2>11, <3>2, <4>1, <4>2
           DEF CopyChunk, ImageInv, Reached, ChunkCopied
    <3>3. QED
      BY <3>1, <3>2
  <2>12. CASE PadByte
    <3>1. CASE argv.same
      BY <2>1, <2>12, <3>1 DEF PadByte, ImageInv, Reached
    <3>2. CASE ~ argv.same
      <4>1. /\ pc = "copy" /\ hdr' = hdr /\ input' = input
            /\ input \in Seq(Byte) /\ hdr.nand \in BOOLEAN
        BY <2>1, <2>12 DEF PadByte, ImageInv, Reached, ParseInv, Parsed,
             HeaderFollows, OptsOK
      <4>2. ChunkCopied
        BY <2>12, <3>2, <4>1, OneMoreZero DEF ImageInv, Reached
      <4>3. QED
        BY <2>1, <2>12, <3>2, <4>1, <4>2
           DEF PadByte, ImageInv, Reached, ChunkCopied
    <3>3. QED
      BY <3>1, <3>2
  <2>13. CASE WriteFails
    BY <2>1, <2>13 DEF WriteFails, Exit, ImageInv, Reached
  <2>14. CASE CloseOutput
    <3>1. CASE argv.same
      BY <2>1, <2>14, <3>1 DEF CloseOutput, Continue, ImageInv, Reached
    <3>2. CASE ~ argv.same
      <4>1. /\ input \in Seq(Byte) /\ Program = input
            /\ copied \in 0 .. Len(Padded(input))
        BY <2>14, <3>2 DEF CloseOutput, ImageInv, Reached, Program
      <4>2. copied >= Len(input) /\ copied % 4 = 0
        BY <2>14, <4>1 DEF CloseOutput
      <4>3. /\ Len(input) \in Nat
            /\ Len(Padded(input)) \in Len(input) .. Len(input) + 3
            /\ Len(Padded(input)) % 4 = 0
        BY <4>1, PaddedBytes
      <4> DEFINE n == Len(input)
                 all == Len(Padded(input))
      <4>4. /\ n \in Nat /\ all \in n .. n + 3 /\ all % 4 = 0
            /\ copied \in 0 .. all /\ copied >= n
        BY <4>1, <4>2, <4>3
      <4> HIDE DEF n, all
      <4>5. copied = all
        BY <4>2, <4>4
      <4>6. QED
        BY <2>1, <2>14, <3>2, <4>5
           DEF CloseOutput, Continue, ImageInv, Reached, all
    <3>3. QED
      BY <3>1, <3>2
  <2>15. CASE PrintHeader
    BY <2>1, <2>15 DEF PrintHeader, Exit, file, ImageInv, Reached
  <2>16. CASE UNCHANGED vars
    BY <2>16 DEF vars, ImageInv, Reached
  <2>17. QED
    BY <2>2, <2>3, <2>4, <2>5, <2>6, <2>7, <2>8, <2>9, <2>10, <2>11,
       <2>12, <2>13, <2>14, <2>15, <2>16 DEF Next
<1>3. QED
  BY <1>1, <1>2, ParseInvariance, PTL DEF Spec

-----------------------------------------------------------------------------
(* The tool's CRC is the loader's.                                         *)
LEMMA ToolIsLoader ==
  ASSUME NEW m \in Seq(Byte)
  PROVE  crc32Of(m) = crcFast(m)
  BY PolynomialsMirrored, ToolTheorem DEF crc32Of, Mirror

(* An output that bh reports done, of which nothing was lost: the header   *)
(* and what is behind it have the CRCs that the header holds, as crcFast   *)
(* computes them, and the program is there, padded to whole words.         *)
THEOREM ImageTheorem == Spec => [](Done => ImageIsWhole)
<1>1. ASSUME ParseInv, ImageInv, Done PROVE ImageIsWhole
  <2> DEFINE p == Padded(input)
             size == HeaderSize(hdr.nand)
             from == IF hdr.nand THEN 5 ELSE 1
             body == SubSeq(output, size + 1, Len(output))
  <2>1. hdr.nand \in BOOLEAN
    BY <1>1 DEF Done, ParseInv, Parsed, HeaderFollows, OptsOK
  <2>2. /\ input \in Seq(Byte)
        /\ hdr.progcrc = crc32Of(p) /\ hdr.hdrcrc = crc32Of(Covered(hdr))
        /\ output = HeaderBytes(hdr) \o SubSeq(p, 1, copied)
        /\ copied = Len(p)
    BY <1>1 DEF Done, ImageInv, Reached
  <2>3. /\ p \in Seq(Byte) /\ Len(p) \in Nat /\ Len(input) \in Nat
        /\ Len(p) >= Len(input) /\ Len(p) % 4 = 0
        /\ \A i \in 1 .. Len(input) : p[i] = input[i]
    BY <2>2, PaddedBytes
  <2>4. output = HeaderBytes(hdr) \o p
    <3>1. SubSeq(p, 1, Len(p)) = p
      BY <2>3, SubSeqFull
    <3>2. QED
      BY <2>2, <3>1
  <2>5. Row(p, Len(p))
    BY <2>3 DEF Row
  <2> HIDE DEF p
  <2>6. /\ size \in {16, 24}
        /\ Row(HeaderBytes(hdr), size)
        /\ Covered(hdr) \in Seq(Byte)
        /\ SubSeq(output, size - 3, size) = BigEndian(hdr.hdrcrc, 4)
        /\ SubSeq(output, from, size - 4) = Covered(hdr)
        /\ SubSeq(output, size - 7, size - 4) = BigEndian(hdr.progcrc, 4)
        /\ SubSeq(output, size + 1, size + Len(p)) = p
    <3> DEFINE n == Len(p)
               s == HeaderBytes(hdr) \o p
    <3>1. n \in Nat /\ Row(p, n)
      BY <2>3, <2>5
    <3> HIDE DEF n
    <3>2. HasFields(s, hdr, p, n)
      BY <2>1, <3>1, HeaderFields
    <3>3. QED
      BY <2>4, <3>2 DEF n, HasFields
  <2>7. Row(output, size + Len(p))
    <3>1. size \in Nat
      BY <2>6
    <3>2. QED
      BY <2>3, <2>4, <2>5, <2>6, <3>1, RowsJoined
  <2>8. body = p
    BY <2>6, <2>7 DEF Row
  <2>9. /\ size - 3 + 4 - 1 = size /\ size - 7 + 4 - 1 = size - 4
        /\ from + (size - 3 - from) - 1 = size - 4
    BY <2>1, <2>6
  <2>10. /\ hdr.hdrcrc = crcFast(Covered(hdr)) /\ hdr.progcrc = crcFast(p)
    BY <2>2, <2>3, <2>6, ToolIsLoader
  <2>11. IsPrefix(input, p)
    <3>1. /\ Row(SubSeq(input, 1, Len(input)), Len(input))
          /\ Row(SubSeq(p, 1, Len(input)), Len(input))
          /\ \A i \in 1 .. Len(input) :
               SubSeq(p, 1, Len(input))[i] = SubSeq(input, 1, Len(input))[i]
      <4>1. Len(input) \in 0 .. Len(input) /\ Len(input) \in 0 .. Len(p)
        BY <2>3
      <4>2. QED
        BY <2>2, <2>3, <4>1, FirstBytes
    <3>2. SubSeq(p, 1, Len(input)) = SubSeq(input, 1, Len(input))
      BY <3>1, RowSame
    <3>3. QED
      BY <2>3, <3>2 DEF IsPrefix
  <2>12. /\ SubSeq(output, size - 3, size - 3 + 4 - 1)
              = BigEndian(crcFast(SubSeq(output, from,
                                         from + (size - 3 - from) - 1)), 4)
         /\ SubSeq(output, size - 7, size - 7 + 4 - 1)
              = BigEndian(crcFast(body), 4)
    BY <2>6, <2>8, <2>9, <2>10
  <2>13. Len(body) % 4 = 0 /\ IsPrefix(input, body)
    BY <2>3, <2>8, <2>11
  <2>14. QED
    BY <2>12, <2>13 DEF ImageIsWhole
<1>2. QED
  BY <1>1, ParseInvariance, ImageInvariance, PTL

(* The tool's CRC of the padded program is the loader's, with or without   *)
(* its table, and crc32_le's, wherever the program lies and wherever it is *)
(* cut in two.                                                             *)
THEOREM AgreeTheorem == Spec => []RoutinesAgree
<1>1. ASSUME ImageInv PROVE RoutinesAgree
  <2>1. SUFFICES ASSUME pc = "hdrcrc"
                 PROVE  /\ hdr.progcrc = crcFast(Padded(input))
                        /\ crcFast(input) = crcSlow(input)
                        /\ \A addr \in 0 .. 3, n \in 0 .. Len(input) :
                             crc32_le(crc32_le(INITIAL_REMAINDER,
                                               SubSeq(input, 1, n), addr),
                                      SubSeq(input, n + 1, Len(input)), addr + n)
                               = crcFast(input)
    BY DEF RoutinesAgree
  <2>2. input \in Seq(Byte) /\ hdr.progcrc = crc32Of(Padded(input))
    BY <1>1, <2>1 DEF ImageInv, Reached
  <2>3. hdr.progcrc = crcFast(Padded(input))
    BY <2>2, PaddedBytes, ToolIsLoader
  <2>4. crcFast(input) = crcSlow(input)
    BY <2>2, TableTheorem
  <2>5. dwpoly = Mirror(POLYNOMIAL)
    BY PolynomialsMirrored DEF Mirror
  <2>6. ASSUME NEW addr \in 0 .. 3, NEW n \in 0 .. Len(input)
        PROVE  crc32_le(crc32_le(INITIAL_REMAINDER, SubSeq(input, 1, n), addr),
                        SubSeq(input, n + 1, Len(input)), addr + n)
                 = crcFast(input)
    <3>1. addr \in Nat
      OBVIOUS
    <3>2. QED
      BY <2>2, <2>5, <3>1, PiecesTheorem
  <2>7. QED
    BY <2>3, <2>4, <2>6
<1>2. QED
  BY <1>1, ImageInvariance, PTL
-----------------------------------------------------------------------------
(* The number a byte is, and what FoldSet makes of it.                     *)
Weight(b) ==
  (IF 0 \in b THEN 1 ELSE 0) + (IF 1 \in b THEN 2 ELSE 0)
    + (IF 2 \in b THEN 4 ELSE 0) + (IF 3 \in b THEN 8 ELSE 0)
    + (IF 4 \in b THEN 16 ELSE 0) + (IF 5 \in b THEN 32 ELSE 0)
    + (IF 6 \in b THEN 64 ELSE 0) + (IF 7 \in b THEN 128 ELSE 0)

LEMMA Powers ==
  /\ 2 ^ 0 = 1 /\ 2 ^ 1 = 2 /\ 2 ^ 2 = 4 /\ 2 ^ 3 = 8
  /\ 2 ^ 4 = 16 /\ 2 ^ 5 = 32 /\ 2 ^ 6 = 64 /\ 2 ^ 7 = 128
  OBVIOUS

LEMMA WeightIsNumber ==
  ASSUME NEW b
  PROVE  /\ Weight(b) \in 0 .. 255
         /\ b \in SUBSET (0 .. 7) => (Weight(b) = 0 <=> b = {})
<1>1. Weight(b) \in 0 .. 255
  BY DEF Weight
<1>2. ASSUME b \in SUBSET (0 .. 7), b # {} PROVE Weight(b) # 0
  <2>1. PICK x \in 0 .. 7 : x \in b
    BY <1>2
  <2>2. QED
    BY <2>1 DEF Weight
<1>3. Weight({}) = 0
  BY DEF Weight
<1>4. QED
  BY <1>1, <1>2, <1>3

(* A bit less makes the number less by its power of two.                   *)
LEMMA WeightWithout ==
  ASSUME NEW b \in SUBSET (0 .. 7), NEW x \in b
  PROVE  Weight(b) = Weight(b \ {x}) + 2 ^ x
<1>1. x \in 0 .. 7
  OBVIOUS
<1>2. x = 0 \/ x = 1 \/ x = 2 \/ x = 3 \/ x = 4 \/ x = 5 \/ x = 6 \/ x = 7
  BY <1>1
<1>3. CASE x = 0
  BY <1>1, <1>3, Powers DEF Weight
<1>4. CASE x = 1
  BY <1>1, <1>4, Powers DEF Weight
<1>5. CASE x = 2
  BY <1>1, <1>5, Powers DEF Weight
<1>6. CASE x = 3
  BY <1>1, <1>6, Powers DEF Weight
<1>7. CASE x = 4
  BY <1>1, <1>7, Powers DEF Weight
<1>8. CASE x = 5
  BY <1>1, <1>8, Powers DEF Weight
<1>9. CASE x = 6
  BY <1>1, <1>9, Powers DEF Weight
<1>10. CASE x = 7
  BY <1>1, <1>10, Powers DEF Weight
<1>11. QED
  BY <1>2, <1>3, <1>4, <1>5, <1>6, <1>7, <1>8, <1>9, <1>10

(* What FoldSet builds: the weights of all the subsets of b.               *)
Weighs(g, b) ==
  g = [s \in SUBSET b |->
         IF s = {} THEN 0
         ELSE LET x == CHOOSE x \in s : TRUE IN g[s \ {x}] + 2 ^ x]

(* FoldSet adds up the same number, in whatever order it goes.             *)
LEMMA FoldIsWeight ==
  ASSUME NEW b \in SUBSET (0 .. 7)
  PROVE  FoldSet(LAMBDA i, m : m + 2^i, 0, b) = Weight(b)
<1> DEFINE g == CHOOSE g : Weighs(g, b)
           w == [s \in SUBSET b |-> Weight(s)]
<1>1. Weighs(w, b)
  <2>1. ASSUME NEW s \in SUBSET b
        PROVE  w[s] = IF s = {} THEN 0
                      ELSE LET x == CHOOSE x \in s : TRUE IN w[s \ {x}] + 2 ^ x
    <3>1. CASE s = {}
      BY <3>1, WeightIsNumber
    <3>2. CASE s # {}
      <4>1. PICK y : y = CHOOSE x \in s : TRUE
        OBVIOUS
      <4>2. y \in s /\ s \ {y} \in SUBSET b /\ s \in SUBSET (0 .. 7)
        BY <3>2, <4>1
      <4>3. w[s] = Weight(s) /\ w[s \ {y}] = Weight(s \ {y})
        BY <4>2
      <4>4. w[s] = w[s \ {y}] + 2 ^ y
        BY <4>2, <4>3, WeightWithout
      <4>5. QED
        BY <3>2, <4>1, <4>4
    <3>3. QED
      BY <3>1, <3>2
  <2>2. w = [s \in SUBSET b |-> w[s]]
    OBVIOUS
  <2> HIDE DEF w
  <2>3. QED
    BY <2>1, <2>2 DEF Weighs
<1>2. Weighs(g, b)
  BY <1>1
<1>3. FoldSet(LAMBDA i, m : m + 2^i, 0, b) = g[b]
  BY DEF FoldSet, MapThenFoldSet, Weighs
<1> HIDE DEF g
<1>4. ASSUME NEW s \in SUBSET b
      PROVE  g[s] = IF s = {} THEN 0
                    ELSE LET x == CHOOSE x \in s : TRUE IN g[s \ {x}] + 2 ^ x
  BY <1>2 DEF Weighs
<1> DEFINE Bad == {s \in SUBSET b : g[s] # Weight(s)}
           Size == {Weight(s) : s \in Bad}
<1>5. Bad = {}
  <2>1. SUFFICES ASSUME Bad # {} PROVE FALSE
    OBVIOUS
  <2>2. Size \subseteq Nat /\ Size # {}
    BY <2>1, WeightIsNumber
  <2>3. PICK n \in Size : \A k \in Size : n <= k
    BY <2>2, LeastNumber
  <2>4. PICK s \in Bad : n = Weight(s)
    BY <2>3
  <2>5. s \in SUBSET b /\ s \in SUBSET (0 .. 7) /\ g[s] # Weight(s)
    BY <2>4
  <2>6. s # {}
    BY <1>4, <2>5, WeightIsNumber
  <2>7. PICK y : y = CHOOSE x \in s : TRUE
    OBVIOUS
  <2>8. y \in s /\ s \ {y} \in SUBSET b /\ s \ {y} \in SUBSET (0 .. 7)
    BY <2>5, <2>6, <2>7
  <2>9. g[s] = g[s \ {y}] + 2 ^ y
    BY <1>4, <2>5, <2>6, <2>7
  <2>10. Weight(s) = Weight(s \ {y}) + 2 ^ y /\ 2 ^ y \in Nat \ {0}
    <3>1. y \in 0 .. 7
      BY <2>5, <2>8
    <3>2. y = 0 \/ y = 1 \/ y = 2 \/ y = 3 \/ y = 4 \/ y = 5 \/ y = 6 \/ y = 7
      BY <3>1
    <3>3. 2 ^ y \in {1, 2, 4, 8, 16, 32, 64, 128}
      <4>1. CASE y = 0
        BY <4>1, Powers
      <4>2. CASE y = 1
        BY <4>2, Powers
      <4>3. CASE y = 2
        BY <4>3, Powers
      <4>4. CASE y = 3
        BY <4>4, Powers
      <4>5. CASE y = 4
        BY <4>5, Powers
      <4>6. CASE y = 5
        BY <4>6, Powers
      <4>7. CASE y = 6
        BY <4>7, Powers
      <4>8. CASE y = 7
        BY <4>8, Powers
      <4>9. QED
        BY <3>2, <4>1, <4>2, <4>3, <4>4, <4>5, <4>6, <4>7, <4>8
    <3>4. 2 ^ y \in Nat \ {0}
      BY <3>3
    <3>5. QED
      BY <2>5, <2>8, <3>4, WeightWithout
  <2>11. s \ {y} \in Bad
    BY <2>5, <2>8, <2>9, <2>10
  <2>12. n <= Weight(s \ {y})
    BY <2>3, <2>11
  <2>13. Weight(s \ {y}) \in Nat /\ Weight(s) \in Nat
    BY WeightIsNumber
  <2>14. QED
    BY <2>4, <2>10, <2>12, <2>13
<1>6. g[b] = Weight(b)
  BY <1>5
<1>7. QED
  BY <1>3, <1>6

(* The bytes of a length, which has up to 24 bits.                         *)
LEMMA ByteBit ==
  ASSUME NEW w \in SUBSET Nat, NEW k \in 0 .. 3, NEW i \in 0 .. 7
  PROVE  i \in ByteOf(w, k) <=> i + 8 * k \in w
<1>1. PICK m : m = 8 * k
  OBVIOUS
<1>2. m \in Nat /\ k * ByteBits = m /\ Bits(ByteBits) = 0 .. 7
  BY <1>1, HeaderAssumption DEF Bits
<1>3. ByteOf(w, k) = {j - m : j \in {l \in w : l >= m}} \cap (0 .. 7)
  BY <1>2 DEF ByteOf, ShiftRight, LowByte
<1>4. ASSUME i \in ByteOf(w, k) PROVE i + m \in w
  <2>1. PICK j \in w : j >= m /\ i = j - m
    BY <1>3, <1>4
  <2>2. j = i + m
    BY <1>2, <2>1
  <2>3. QED
    BY <2>1, <2>2
<1>5. ASSUME i + m \in w PROVE i \in ByteOf(w, k)
  <2>1. i + m >= m /\ (i + m) - m = i
    BY <1>2
  <2>2. i \in {j - m : j \in {l \in w : l >= m}}
    BY <1>5, <2>1
  <2>3. QED
    BY <1>3, <2>2
<1>6. QED
  BY <1>1, <1>4, <1>5

(* The eight low bits of m are those in b.                                 *)
BitsAre(b, m) ==
  /\ 0 \in b <=> m % 2 = 1
  /\ 1 \in b <=> (m \div 2) % 2 = 1
  /\ 2 \in b <=> (m \div 4) % 2 = 1
  /\ 3 \in b <=> (m \div 8) % 2 = 1
  /\ 4 \in b <=> (m \div 16) % 2 = 1
  /\ 5 \in b <=> (m \div 32) % 2 = 1
  /\ 6 \in b <=> (m \div 64) % 2 = 1
  /\ 7 \in b <=> (m \div 128) % 2 = 1

LEMMA WeightOfBits ==
  ASSUME NEW m \in 0 .. 255, NEW b, BitsAre(b, m)
  PROVE  Weight(b) = m
<1>1. /\ m = 2 * (m \div 2) + (m % 2) /\ m % 2 \in {0, 1}
      /\ m \div 2 = 2 * (m \div 4) + ((m \div 2) % 2) /\ (m \div 2) % 2 \in {0, 1}
      /\ m \div 4 = 2 * (m \div 8) + ((m \div 4) % 2) /\ (m \div 4) % 2 \in {0, 1}
      /\ m \div 8 = 2 * (m \div 16) + ((m \div 8) % 2) /\ (m \div 8) % 2 \in {0, 1}
  OBVIOUS
<1>2. /\ m \div 16 = 2 * (m \div 32) + ((m \div 16) % 2) /\ (m \div 16) % 2 \in {0, 1}
      /\ m \div 32 = 2 * (m \div 64) + ((m \div 32) % 2) /\ (m \div 32) % 2 \in {0, 1}
      /\ m \div 64 = 2 * (m \div 128) + ((m \div 64) % 2) /\ (m \div 64) % 2 \in {0, 1}
      /\ m \div 128 \in {0, 1} /\ (m \div 128) % 2 = m \div 128
  OBVIOUS
<1>3. QED
  BY <1>1, <1>2 DEF Weight, BitsAre

LEMMA NumberBit ==
  ASSUME NEW n \in Nat, NEW i \in 0 .. 23
  PROVE  i \in Number(n) <=> (n \div 2 ^ i) % 2 = 1
BY DEF Number, Bits

LEMMA LowPart ==
  ASSUME NEW n \in Nat, NEW b, BitsAre(b, n)
  PROVE  BitsAre(b, n % 256)
<1>1. PICK q, m : q = n \div 256 /\ m = n % 256
  OBVIOUS
<1>2. n = 256 * q + m /\ m \in 0 .. 255 /\ q \in Nat
  BY <1>1
<1>3. /\ n % 2 = m % 2
      /\ n \div 2 = 128 * q + (m \div 2)
      /\ n \div 4 = 64 * q + (m \div 4)
      /\ n \div 8 = 32 * q + (m \div 8)
      /\ n \div 16 = 16 * q + (m \div 16)
      /\ n \div 32 = 8 * q + (m \div 32)
      /\ n \div 64 = 4 * q + (m \div 64)
      /\ n \div 128 = 2 * q + (m \div 128)
  BY <1>2
<1>4. /\ (n \div 2) % 2 = (m \div 2) % 2
      /\ (n \div 4) % 2 = (m \div 4) % 2
      /\ (n \div 8) % 2 = (m \div 8) % 2
      /\ (n \div 16) % 2 = (m \div 16) % 2
  BY <1>2, <1>3
<1>5. /\ (n \div 32) % 2 = (m \div 32) % 2
      /\ (n \div 64) % 2 = (m \div 64) % 2
      /\ (n \div 128) % 2 = (m \div 128) % 2
  BY <1>2, <1>3
<1>6. QED
  BY <1>1, <1>3, <1>4, <1>5 DEF BitsAre

(* What a length is below.                                                 *)
Lengths == 0 .. 2 ^ 24 - 1

LEMMA MorePowers ==
  /\ 2 ^ 8 = 256 /\ 2 ^ 9 = 512 /\ 2 ^ 10 = 1024 /\ 2 ^ 11 = 2048
  /\ 2 ^ 12 = 4096 /\ 2 ^ 13 = 8192 /\ 2 ^ 14 = 16384 /\ 2 ^ 15 = 32768
  /\ 2 ^ 16 = 65536 /\ 2 ^ 17 = 131072 /\ 2 ^ 18 = 262144 /\ 2 ^ 19 = 524288
  /\ 2 ^ 20 = 1048576 /\ 2 ^ 21 = 2097152 /\ 2 ^ 22 = 4194304 /\ 2 ^ 23 = 8388608
  /\ 2 ^ 24 = 16777216
  OBVIOUS

(* The four bytes of a length are its digits to the base 256.              *)
LEMMA BytesOfNumber ==
  ASSUME NEW n \in Lengths
  PROVE  /\ Weight(ByteOf(Number(n), 0)) = n % 256
         /\ Weight(ByteOf(Number(n), 1)) = (n \div 256) % 256
         /\ Weight(ByteOf(Number(n), 2)) = (n \div 256) \div 256
         /\ Weight(ByteOf(Number(n), 3)) = 0
<1>1. n \in Nat /\ n < 16777216
  BY SMT, MorePowers DEF Lengths
<1>2. Number(n) \in SUBSET Nat /\ Number(n) \subseteq 0 .. 23
  BY DEF Number, Bits
<1>3. \A k \in 0 .. 3, i \in 0 .. 7 :
        i \in ByteOf(Number(n), k) <=> i + 8 * k \in Number(n)
  BY <1>2, ByteBit
<1>4. \A j \in Nat : \A b : BitsAre(b, j) => Weight(b) = j % 256
  <2>1. ASSUME NEW j \in Nat, NEW b, BitsAre(b, j) PROVE Weight(b) = j % 256
    <3>1. j % 256 \in 0 .. 255
      OBVIOUS
    <3>2. QED
      BY <2>1, <3>1, LowPart, WeightOfBits
  <2>2. QED
    BY <2>1
<1>5. Weight(ByteOf(Number(n), 0)) = n % 256
  <2>1. PICK b : b = ByteOf(Number(n), 0)
    OBVIOUS
  <2>2. PICK j : j = n
    OBVIOUS
  <2>3. /\ 0 \in b <=> 0 \in Number(n)
        /\ 1 \in b <=> 1 \in Number(n)
        /\ 2 \in b <=> 2 \in Number(n)
        /\ 3 \in b <=> 3 \in Number(n)
        /\ 4 \in b <=> 4 \in Number(n)
        /\ 5 \in b <=> 5 \in Number(n)
        /\ 6 \in b <=> 6 \in Number(n)
        /\ 7 \in b <=> 7 \in Number(n)
    BY <1>3, <2>1
  <2>4. /\ 0 \in Number(n) <=> (n \div 1) % 2 = 1
        /\ 1 \in Number(n) <=> (n \div 2) % 2 = 1
        /\ 2 \in Number(n) <=> (n \div 4) % 2 = 1
        /\ 3 \in Number(n) <=> (n \div 8) % 2 = 1
        /\ 4 \in Number(n) <=> (n \div 16) % 2 = 1
        /\ 5 \in Number(n) <=> (n \div 32) % 2 = 1
        /\ 6 \in Number(n) <=> (n \div 64) % 2 = 1
        /\ 7 \in Number(n) <=> (n \div 128) % 2 = 1
    BY <1>1, NumberBit, Powers, MorePowers
  <2>5. /\ n \div 1 = j
        /\ n \div 2 = j \div 2
        /\ n \div 4 = j \div 4
        /\ n \div 8 = j \div 8
        /\ n \div 16 = j \div 16
        /\ n \div 32 = j \div 32
        /\ n \div 64 = j \div 64
        /\ n \div 128 = j \div 128
    BY <1>1, <2>2
  <2>6. j \in Nat /\ BitsAre(b, j)
    BY <1>1, <2>2, <2>3, <2>4, <2>5 DEF BitsAre
  <2>7. QED
    BY <1>4, <2>1, <2>2, <2>6
<1>6. Weight(ByteOf(Number(n), 1)) = (n \div 256) % 256
  <2>1. PICK b : b = ByteOf(Number(n), 1)
    OBVIOUS
  <2>2. PICK j : j = n \div 256
    OBVIOUS
  <2>3. /\ 0 \in b <=> 8 \in Number(n)
        /\ 1 \in b <=> 9 \in Number(n)
        /\ 2 \in b <=> 10 \in Number(n)
        /\ 3 \in b <=> 11 \in Number(n)
        /\ 4 \in b <=> 12 \in Number(n)
        /\ 5 \in b <=> 13 \in Number(n)
        /\ 6 \in b <=> 14 \in Number(n)
        /\ 7 \in b <=> 15 \in Number(n)
    BY <1>3, <2>1
  <2>4. /\ 8 \in Number(n) <=> (n \div 256) % 2 = 1
        /\ 9 \in Number(n) <=> (n \div 512) % 2 = 1
        /\ 10 \in Number(n) <=> (n \div 1024) % 2 = 1
        /\ 11 \in Number(n) <=> (n \div 2048) % 2 = 1
        /\ 12 \in Number(n) <=> (n \div 4096) % 2 = 1
        /\ 13 \in Number(n) <=> (n \div 8192) % 2 = 1
        /\ 14 \in Number(n) <=> (n \div 16384) % 2 = 1
        /\ 15 \in Number(n) <=> (n \div 32768) % 2 = 1
    BY <1>1, NumberBit, Powers, MorePowers
  <2>5. /\ n \div 256 = j
        /\ n \div 512 = j \div 2
        /\ n \div 1024 = j \div 4
        /\ n \div 2048 = j \div 8
        /\ n \div 4096 = j \div 16
        /\ n \div 8192 = j \div 32
        /\ n \div 16384 = j \div 64
        /\ n \div 32768 = j \div 128
    BY <1>1, <2>2
  <2>6. j \in Nat /\ BitsAre(b, j)
    BY <1>1, <2>2, <2>3, <2>4, <2>5 DEF BitsAre
  <2>7. QED
    BY <1>4, <2>1, <2>2, <2>6
<1>7. Weight(ByteOf(Number(n), 2)) = (n \div 65536) % 256
  <2>1. PICK b : b = ByteOf(Number(n), 2)
    OBVIOUS
  <2>2. PICK j : j = n \div 65536
    OBVIOUS
  <2>3. /\ 0 \in b <=> 16 \in Number(n)
        /\ 1 \in b <=> 17 \in Number(n)
        /\ 2 \in b <=> 18 \in Number(n)
        /\ 3 \in b <=> 19 \in Number(n)
        /\ 4 \in b <=> 20 \in Number(n)
        /\ 5 \in b <=> 21 \in Number(n)
        /\ 6 \in b <=> 22 \in Number(n)
        /\ 7 \in b <=> 23 \in Number(n)
    BY <1>3, <2>1
  <2>4. /\ 16 \in Number(n) <=> (n \div 65536) % 2 = 1
        /\ 17 \in Number(n) <=> (n \div 131072) % 2 = 1
        /\ 18 \in Number(n) <=> (n \div 262144) % 2 = 1
        /\ 19 \in Number(n) <=> (n \div 524288) % 2 = 1
        /\ 20 \in Number(n) <=> (n \div 1048576) % 2 = 1
        /\ 21 \in Number(n) <=> (n \div 2097152) % 2 = 1
        /\ 22 \in Number(n) <=> (n \div 4194304) % 2 = 1
        /\ 23 \in Number(n) <=> (n \div 8388608) % 2 = 1
    BY <1>1, NumberBit, Powers, MorePowers
  <2>5. /\ n \div 65536 = j
        /\ n \div 131072 = j \div 2
        /\ n \div 262144 = j \div 4
        /\ n \div 524288 = j \div 8
        /\ n \div 1048576 = j \div 16
        /\ n \div 2097152 = j \div 32
        /\ n \div 4194304 = j \div 64
        /\ n \div 8388608 = j \div 128
    BY <1>1, <2>2
  <2>6. j \in Nat /\ BitsAre(b, j)
    BY <1>1, <2>2, <2>3, <2>4, <2>5 DEF BitsAre
  <2>7. QED
    BY <1>4, <2>1, <2>2, <2>6
<1>8. Weight(ByteOf(Number(n), 3)) = 0
  <2>1. \A i \in 0 .. 7 : i + 8 * 3 \notin 0 .. 23
    OBVIOUS
  <2>2. \A i \in 0 .. 7 : i \notin ByteOf(Number(n), 3)
    BY <1>2, <1>3, <2>1
  <2>3. QED
    BY <2>2 DEF Weight
<1>9. n \div 65536 = (n \div 256) \div 256 /\ (n \div 65536) % 256 = n \div 65536
  BY SMT, <1>1
<1>10. QED
  BY SMT, <1>1, <1>5, <1>6, <1>7, <1>8, <1>9

(* A byte more: 256 times what was there, and its own number.              *)
LEMMA ByteNumber ==
  /\ Byte = SUBSET (0 .. 7)
  /\ \A b : Weight(b) \in Nat
  /\ \A b \in Byte, n \in Nat : ByteValue[b][n] = n * 256 + Weight(b)
<1>1. Byte = SUBSET (0 .. 7) /\ 2 ^ ByteBits = 256
  BY HeaderAssumption, MorePowers DEF Byte, Bits
<1>2. ASSUME NEW b \in Byte, NEW n \in Nat PROVE ByteValue[b][n] = n * 256 + Weight(b)
  <2>1. FoldSet(LAMBDA i, m : m + 2^i, 0, b) = Weight(b)
    BY <1>1, FoldIsWeight
  <2>2. ByteValue[b][n] = n * 2^ByteBits + FoldSet(LAMBDA i, m : m + 2^i, 0, b)
    BY DEF ByteValue
  <2>3. QED
    BY <1>1, <2>1, <2>2
<1>3. \A b : Weight(b) \in Nat
  BY WeightIsNumber
<1>4. QED
  BY <1>1, <1>2, <1>3

(* Any bytes have a value.                                                 *)
LEMMA ValueTyped ==
  ASSUME NEW m \in Seq(Byte)
  PROVE  Value(m) \in Nat
<1>1. Steps(Byte, Nat, ByteValue)
  <2>1. ASSUME NEW b \in Byte, NEW n \in Nat PROVE ByteValue[b][n] \in Nat
    <3>1. ByteValue[b][n] = n * 256 + Weight(b) /\ Weight(b) \in Nat
      BY ByteNumber
    <3>2. QED
      BY <3>1
  <2>2. QED
    BY <2>1 DEF Steps
<1>2. QED
  BY <1>1, ThroughStays DEF Value

(* The value of three or four bytes, written out.                          *)
LEMMA ValueOfFour ==
  ASSUME NEW m \in Seq(Byte), Len(m) \in {3, 4}
  PROVE  Value(m) = IF Len(m) = 3
                    THEN (Weight(m[1]) * 256 + Weight(m[2])) * 256 + Weight(m[3])
                    ELSE ((Weight(m[1]) * 256 + Weight(m[2])) * 256 + Weight(m[3])) * 256
                           + Weight(m[4])
<1>1. PICK f : /\ f[0] = 0
               /\ \A k \in 1 .. Len(m) : f[k] = ByteValue[m[k]][f[k - 1]]
               /\ Through(ByteValue, 0, m) = f[Len(m)]
  BY ThroughSteps
<1>2. \A k \in 1 .. Len(m) : m[k] \in Byte /\ Weight(m[k]) \in Nat
  <2>1. \A b : Weight(b) \in Nat
    BY ByteNumber
  <2>2. QED
    BY <2>1
<1>9. ASSUME NEW k \in 1 .. Len(m), NEW x \in Nat, f[k - 1] = x
      PROVE  f[k] = x * 256 + Weight(m[k]) /\ f[k] \in Nat
  <2>1. f[k] = ByteValue[m[k]][x]
    BY <1>1, <1>9
  <2>2. ByteValue[m[k]][x] = x * 256 + Weight(m[k])
    BY <1>2, ByteNumber
  <2>3. QED
    BY <1>2, <2>1, <2>2
<1>3. f[1] = Weight(m[1]) /\ f[1] \in Nat
  <2>1. 1 \in 1 .. Len(m) /\ 1 - 1 = 0
    OBVIOUS
  <2>2. f[1] = 0 * 256 + Weight(m[1]) /\ f[1] \in Nat
    BY <1>1, <1>9, <2>1
  <2>3. QED
    BY <1>2, <2>1, <2>2
<1>4. f[2] = f[1] * 256 + Weight(m[2]) /\ f[2] \in Nat
  <2>1. 2 \in 1 .. Len(m) /\ 2 - 1 = 1
    OBVIOUS
  <2>2. f[2] = f[1] * 256 + Weight(m[2]) /\ f[2] \in Nat
    BY <1>3, <1>9, <2>1
  <2>3. QED
    BY <2>1, <2>2
<1>5. f[3] = f[2] * 256 + Weight(m[3]) /\ f[3] \in Nat
  <2>1. 3 \in 1 .. Len(m) /\ 3 - 1 = 2
    OBVIOUS
  <2>2. f[3] = f[2] * 256 + Weight(m[3]) /\ f[3] \in Nat
    BY <1>4, <1>9, <2>1
  <2>3. QED
    BY <2>1, <2>2
<1>6. CASE Len(m) = 3
  BY <1>1, <1>3, <1>4, <1>5, <1>6 DEF Value
<1>7. CASE Len(m) = 4
  <2>1. 4 \in 1 .. Len(m) /\ 4 - 1 = 3
    BY <1>7
  <2>3. f[4] = f[3] * 256 + Weight(m[4])
    BY <1>5, <1>9, <2>1
  <2>4. QED
    BY <1>1, <1>3, <1>4, <1>5, <1>7, <2>3 DEF Value
<1>8. QED
  BY <1>6, <1>7

(* A length is read as it was written, of three bytes and of four.         *)
LEMMA ValueOfNumber ==
  ASSUME NEW n \in Lengths
  PROVE  /\ Value(BigEndian(Number(n), 4)) = n
         /\ Value(BigEndian(Number(n), 3)) = n
<1>1. n \in Nat
  BY MorePowers DEF Lengths
<1>2. /\ Weight(ByteOf(Number(n), 0)) = n % 256
      /\ Weight(ByteOf(Number(n), 1)) = (n \div 256) % 256
      /\ Weight(ByteOf(Number(n), 2)) = (n \div 256) \div 256
      /\ Weight(ByteOf(Number(n), 3)) = 0
  BY BytesOfNumber
<1>3. PICK q, r, s : q = (n \div 256) \div 256 /\ r = (n \div 256) % 256 /\ s = n % 256
  OBVIOUS
<1>4. q \in Nat /\ r \in Nat /\ s \in Nat /\ (q * 256 + r) * 256 + s = n
  <2>1. n = 256 * (n \div 256) + s
    BY <1>1, <1>3
  <2>2. n \div 256 = 256 * q + r
    BY <1>1, <1>3
  <2>3. QED
    BY <1>1, <1>3, <2>1, <2>2
<1>5. Value(BigEndian(Number(n), 4)) = n
  <2>1. PICK m : m = BigEndian(Number(n), 4)
    OBVIOUS
  <2>2. /\ m \in Seq(Byte) /\ Len(m) = 4
        /\ m[1] = ByteOf(Number(n), 3) /\ m[2] = ByteOf(Number(n), 2)
        /\ m[3] = ByteOf(Number(n), 1) /\ m[4] = ByteOf(Number(n), 0)
    <3>1. Row(m, 4) /\ m = [j \in 1 .. 4 |-> ByteOf(Number(n), 4 - j)]
      BY <2>1, RowOfBytes DEF BigEndian
    <3>2. QED
      BY <3>1 DEF Row
  <2>3. Value(m) = ((0 * 256 + q) * 256 + r) * 256 + s
    <3>1. Value(m) = ((Weight(m[1]) * 256 + Weight(m[2])) * 256 + Weight(m[3])) * 256
                       + Weight(m[4])
      BY <2>2, ValueOfFour
    <3>2. Weight(m[1]) = 0 /\ Weight(m[2]) = q /\ Weight(m[3]) = r /\ Weight(m[4]) = s
      BY <1>2, <1>3, <2>2
    <3>3. QED
      BY <3>1, <3>2
  <2>4. QED
    BY <1>4, <2>1, <2>3
<1>6. Value(BigEndian(Number(n), 3)) = n
  <2>1. PICK m : m = BigEndian(Number(n), 3)
    OBVIOUS
  <2>2. /\ m \in Seq(Byte) /\ Len(m) = 3
        /\ m[1] = ByteOf(Number(n), 2)
        /\ m[2] = ByteOf(Number(n), 1) /\ m[3] = ByteOf(Number(n), 0)
    <3>1. Row(m, 3) /\ m = [j \in 1 .. 3 |-> ByteOf(Number(n), 3 - j)]
      BY <2>1, RowOfBytes DEF BigEndian
    <3>2. QED
      BY <3>1 DEF Row
  <2>3. Value(m) = (q * 256 + r) * 256 + s
    BY <1>2, <1>3, <2>2, ValueOfFour
  <2>4. QED
    BY <1>4, <2>1, <2>3
<1>7. QED
  BY <1>5, <1>6

(* Two rows in one.                                                        *)
Pieces(s, k, a, m, b, n) ==
  /\ m \in Nat /\ n \in Nat /\ k = m + n
  /\ s = a \o b /\ Row(a, m) /\ Row(b, n)

Joins(s, k, a, m, b, n) ==
  /\ Row(s, k)
  /\ \A i \in 1 .. m : s[i] = a[i]
  /\ \A i \in 1 .. n : s[m + i] = b[i]

LEMMA RowsJoin ==
  ASSUME NEW m, NEW n, NEW k, NEW a, NEW b, NEW s, Pieces(s, k, a, m, b, n)
  PROVE  Joins(s, k, a, m, b, n)
<1>1. /\ a \in Seq(Byte) /\ b \in Seq(Byte) /\ Len(a) = m /\ Len(b) = n
      /\ s = a \o b /\ m \in Nat /\ n \in Nat /\ k = m + n
  BY DEF Row, Pieces
<1>2. ASSUME NEW i \in 1 .. m PROVE s[i] = a[i]
  <2>1. i \in 1 .. Len(a) + Len(b) /\ i <= Len(a)
    BY <1>1
  <2>2. QED
    BY <1>1, <2>1, ConcatProperties
<1>3. ASSUME NEW i \in 1 .. n PROVE s[m + i] = b[i]
  <2>1. m + i \in 1 .. Len(a) + Len(b) /\ ~ (m + i <= Len(a)) /\ m + i - Len(a) = i
    BY <1>1
  <2>2. (a \o b)[m + i] = b[m + i - Len(a)]
    BY <1>1, <2>1, ConcatProperties
  <2>3. QED
    BY <1>1, <2>1, <2>2
<1>4. Row(s, k)
  <2>1. s \in Seq(Byte) /\ Len(s) = Len(a) + Len(b)
    BY <1>1, ConcatProperties
  <2>2. QED
    BY <1>1, <2>1 DEF Row
<1>5. QED
  BY <1>2, <1>3, <1>4 DEF Joins

(* A part of a row.                                                        *)
Within(s, n, b, w, f, t) ==
  /\ Row(s, n) /\ Row(b, w)
  /\ n \in Nat /\ w \in Nat /\ f \in Nat \ {0} /\ t = f - 1 + w /\ t <= n
  /\ \A i \in 1 .. w : s[f - 1 + i] = b[i]

LEMMA RowCut ==
  ASSUME NEW s, NEW n, NEW b, NEW w, NEW f, NEW t, Within(s, n, b, w, f, t)
  PROVE  SubSeq(s, f, t) = b
<1>1. PICK j : j = f - 1
  OBVIOUS
<1>2. /\ s \in Seq(Byte) /\ Len(s) = n /\ n \in Nat /\ w \in Nat /\ j \in Nat
      /\ f = j + 1 /\ t = j + w /\ t <= n
      /\ \A i \in 1 .. w : s[j + i] = b[i]
  BY <1>1 DEF Row, Within
<1> DEFINE part == SubSeq(s, f, t)
<1>3. \A i \in f .. t : s[i] \in Byte
  BY <1>2
<1>4. f \in Int /\ t \in Int
  BY <1>2
<1>5. /\ part \in Seq(Byte)
      /\ Len(part) = IF f <= t THEN t - f + 1 ELSE 0
      /\ \A i \in 1 .. t - f + 1 : part[i] = s[f + i - 1]
  BY <1>3, <1>4, SubSeqProperties
<1> HIDE DEF part
<1>6. Row(part, w)
  BY <1>2, <1>5 DEF Row
<1>7. ASSUME NEW i \in 1 .. w PROVE part[i] = b[i]
  <2>1. i \in 1 .. t - f + 1 /\ f + i - 1 = j + i
    BY <1>2
  <2>2. QED
    BY <1>2, <1>5, <2>1
<1>8. part = b
  <2>1. Row(b, w)
    BY DEF Within
  <2>2. QED
    BY <1>6, <1>7, <2>1, RowSame
<1>9. QED
  BY <1>8 DEF part

(* Where the length stands in what the header CRC is taken of.             *)
Begins(h) ==
  /\ h.nand => \A i \in 1 .. 4 : Covered(h)[i] = BigEndian(h.len, 4)[i]
  /\ ~ h.nand =>
       /\ Covered(h)[1] = SPI_BOOT_SIG
       /\ \A i \in 1 .. 3 : Covered(h)[1 + i] = BigEndian(h.len, 3)[i]

LEMMA CoveredBegins ==
  ASSUME NEW h, h.nand \in BOOLEAN
  PROVE  Row(Covered(h), IF h.nand THEN 16 ELSE 12) /\ Begins(h)
<1>1. CASE h.nand
  <2>1. PICK a, b, c, d : /\ a = BigEndian(h.len, 4) /\ b = BigEndian(h.timing0, 4)
                          /\ c = BigEndian(h.timing1, 4) /\ d = BigEndian(h.progcrc, 4)
    OBVIOUS
  <2>2. Row(a, 4) /\ Row(b, 4) /\ Row(c, 4) /\ Row(d, 4)
    BY <2>1, RowOfBytes
  <2>3. PICK ab : ab = a \o b
    OBVIOUS
  <2>4. Row(ab, 8) /\ \A i \in 1 .. 4 : ab[i] = a[i]
    <3>1. Pieces(ab, 8, a, 4, b, 4)
      BY <2>2, <2>3 DEF Pieces
    <3>2. Joins(ab, 8, a, 4, b, 4)
      BY <3>1, RowsJoin
    <3>3. QED
      BY <3>2 DEF Joins
  <2>5. PICK abc : abc = ab \o c
    OBVIOUS
  <2>6. Row(abc, 12) /\ \A i \in 1 .. 8 : abc[i] = ab[i]
    <3>1. Pieces(abc, 12, ab, 8, c, 4)
      BY <2>2, <2>4, <2>5 DEF Pieces
    <3>2. Joins(abc, 12, ab, 8, c, 4)
      BY <3>1, RowsJoin
    <3>3. QED
      BY <3>2 DEF Joins
  <2>7. PICK abcd : abcd = abc \o d
    OBVIOUS
  <2>8. Row(abcd, 16) /\ \A i \in 1 .. 12 : abcd[i] = abc[i]
    <3>1. Pieces(abcd, 16, abc, 12, d, 4)
      BY <2>2, <2>6, <2>7 DEF Pieces
    <3>2. Joins(abcd, 16, abc, 12, d, 4)
      BY <3>1, RowsJoin
    <3>3. QED
      BY <3>2 DEF Joins
  <2>9. Covered(h) = abcd
    BY <1>1, <2>1, <2>3, <2>5, <2>7 DEF Covered
  <2>10. \A i \in 1 .. 4 : i \in 1 .. 8 /\ i \in 1 .. 12
    OBVIOUS
  <2>11. \A i \in 1 .. 4 : Covered(h)[i] = a[i]
    BY <2>4, <2>6, <2>8, <2>9, <2>10
  <2>12. QED
    BY <1>1, <2>1, <2>8, <2>9, <2>11 DEF Begins
<1>2. CASE ~ h.nand
  <2>1. PICK s, a, b, d : /\ s = <<SPI_BOOT_SIG>> /\ a = BigEndian(h.len, 3)
                          /\ b = BigEndian(h.progld, 4) /\ d = BigEndian(h.progcrc, 4)
    OBVIOUS
  <2>2. /\ Row(s, 1) /\ s[1] = SPI_BOOT_SIG
        /\ Row(a, 3) /\ Row(b, 4) /\ Row(d, 4)
    <3>1. Row(s, 1) /\ s[1] = SPI_BOOT_SIG
      BY <2>1, HeaderAssumption DEF Row
    <3>2. QED
      BY <2>1, <3>1, RowOfBytes
  <2>3. PICK sa : sa = s \o a
    OBVIOUS
  <2>4. Row(sa, 4) /\ (\A i \in 1 .. 1 : sa[i] = s[i]) /\ \A i \in 1 .. 3 : sa[1 + i] = a[i]
    <3>1. Pieces(sa, 4, s, 1, a, 3)
      BY <2>2, <2>3 DEF Pieces
    <3>2. Joins(sa, 4, s, 1, a, 3)
      BY <3>1, RowsJoin
    <3>3. QED
      BY <3>2 DEF Joins
  <2>5. PICK sab : sab = sa \o b
    OBVIOUS
  <2>6. Row(sab, 8) /\ \A i \in 1 .. 4 : sab[i] = sa[i]
    <3>1. Pieces(sab, 8, sa, 4, b, 4)
      BY <2>2, <2>4, <2>5 DEF Pieces
    <3>2. Joins(sab, 8, sa, 4, b, 4)
      BY <3>1, RowsJoin
    <3>3. QED
      BY <3>2 DEF Joins
  <2>7. PICK sabd : sabd = sab \o d
    OBVIOUS
  <2>8. Row(sabd, 12) /\ \A i \in 1 .. 8 : sabd[i] = sab[i]
    <3>1. Pieces(sabd, 12, sab, 8, d, 4)
      BY <2>2, <2>6, <2>7 DEF Pieces
    <3>2. Joins(sabd, 12, sab, 8, d, 4)
      BY <3>1, RowsJoin
    <3>3. QED
      BY <3>2 DEF Joins
  <2>9. Covered(h) = sabd
    BY <1>2, <2>1, <2>3, <2>5, <2>7 DEF Covered
  <2>10. \A i \in 1 .. 4 : i \in 1 .. 4 /\ i \in 1 .. 8
    OBVIOUS
  <2>11. 1 \in 1 .. 1 /\ 1 \in 1 .. 4 /\ \A i \in 1 .. 3 : 1 + i \in 1 .. 4
    OBVIOUS
  <2>12. Covered(h)[1] = SPI_BOOT_SIG /\ \A i \in 1 .. 3 : Covered(h)[1 + i] = a[i]
    BY <2>2, <2>4, <2>6, <2>8, <2>9, <2>10, <2>11
  <2>13. QED
    BY <1>2, <2>1, <2>8, <2>9, <2>12 DEF Begins
<1>3. QED
  BY <1>1, <1>2

(* Where it stands in the file, and by what its kind is told.              *)
BeginsWith(s, h, n) ==
  /\ Row(s, HeaderSize(h.nand) + n)
  /\ h.nand => /\ SubSeq(s, 1, 4) = BigEndian(NAND_MAGIC, 4)
               /\ SubSeq(s, 5, 8) = BigEndian(h.len, 4)
               /\ s[1] = ByteOf(NAND_MAGIC, 3)
  /\ ~ h.nand => s[1] = SPI_BOOT_SIG /\ SubSeq(s, 2, 4) = BigEndian(h.len, 3)

LEMMA HeaderBegins ==
  ASSUME NEW h, h.nand \in BOOLEAN, NEW n \in Nat, NEW p, Row(p, n)
  PROVE  BeginsWith(HeaderBytes(h) \o p, h, n)
<1>1. PICK k : k = IF h.nand THEN 16 ELSE 12
  OBVIOUS
<1>2. PICK c, d : c = Covered(h) /\ d = BigEndian(h.hdrcrc, 4)
  OBVIOUS
<1>3. Row(c, k) /\ Row(d, 4) /\ k \in Nat
  BY <1>1, <1>2, CoveredBegins, RowOfBytes
<1>4. CASE h.nand
  <2>1. PICK m, l : m = BigEndian(NAND_MAGIC, 4) /\ l = BigEndian(h.len, 4)
    OBVIOUS
  <2>2. Row(m, 4) /\ Row(l, 4) /\ m[1] = ByteOf(NAND_MAGIC, 3)
    <3>1. Row(m, 4) /\ Row(l, 4)
      BY <2>1, RowOfBytes
    <3>2. m = [j \in 1 .. 4 |-> ByteOf(NAND_MAGIC, 4 - j)]
      BY <2>1 DEF BigEndian
    <3>3. QED
      BY <3>1, <3>2
  <2>3. k = 16 /\ \A i \in 1 .. 4 : c[i] = l[i]
    <3>1. \A i \in 1 .. 4 : Covered(h)[i] = BigEndian(h.len, 4)[i]
      <4>1. Begins(h)
        BY CoveredBegins
      <4>2. QED
        BY <1>4, <4>1 DEF Begins
    <3>2. QED
      BY <1>1, <1>2, <1>4, <2>1, <3>1
  <2>4. PICK mc : mc = m \o c
    OBVIOUS
  <2>5. /\ Row(mc, 20) /\ \A i \in 1 .. 4 : mc[i] = m[i]
        /\ \A i \in 1 .. 16 : mc[4 + i] = c[i]
    <3>1. Pieces(mc, 20, m, 4, c, 16)
      BY <1>3, <2>2, <2>3, <2>4 DEF Pieces
    <3>2. Joins(mc, 20, m, 4, c, 16)
      BY <3>1, RowsJoin
    <3>3. QED
      BY <3>2 DEF Joins
  <2>6. PICK mcd : mcd = mc \o d
    OBVIOUS
  <2>7. Row(mcd, 24) /\ \A i \in 1 .. 20 : mcd[i] = mc[i]
    <3>1. Pieces(mcd, 24, mc, 20, d, 4)
      BY <1>3, <2>5, <2>6 DEF Pieces
    <3>2. Joins(mcd, 24, mc, 20, d, 4)
      BY <3>1, RowsJoin
    <3>3. QED
      BY <3>2 DEF Joins
  <2>8. PICK s : s = mcd \o p
    OBVIOUS
  <2>9. Row(s, 24 + n) /\ \A i \in 1 .. 24 : s[i] = mcd[i]
    <3>1. Pieces(s, 24 + n, mcd, 24, p, n)
      BY <2>7, <2>8 DEF Pieces
    <3>2. Joins(s, 24 + n, mcd, 24, p, n)
      BY <3>1, RowsJoin
    <3>3. QED
      BY <3>2 DEF Joins
  <2>10. HeaderBytes(h) = mcd /\ HeaderSize(h.nand) = 24
    BY <1>2, <1>4, <2>1, <2>4, <2>6 DEF HeaderBytes, HeaderSize
  <2>11. \A i \in 1 .. 4 : /\ i \in 1 .. 20 /\ i \in 1 .. 24 /\ i \in 1 .. 16
                           /\ 4 + i \in 1 .. 20 /\ 4 + i \in 1 .. 24
    OBVIOUS
  <2>12. \A i \in 1 .. 4 : s[i] = m[i] /\ s[4 + i] = l[i]
    BY <2>3, <2>5, <2>7, <2>9, <2>11
  <2>13. SubSeq(s, 1, 4) = m
    <3>1. Within(s, 24 + n, m, 4, 1, 4)
      BY <2>2, <2>9, <2>12 DEF Within
    <3>2. QED
      BY <3>1, RowCut
  <2>14. SubSeq(s, 5, 8) = l
    <3>1. Within(s, 24 + n, l, 4, 5, 8)
      BY <2>2, <2>9, <2>12 DEF Within
    <3>2. QED
      BY <3>1, RowCut
  <2>15. 1 \in 1 .. 4
    OBVIOUS
  <2>16. QED
    BY <1>4, <2>1, <2>2, <2>8, <2>9, <2>10, <2>12, <2>13, <2>14, <2>15
       DEF BeginsWith
<1>5. CASE ~ h.nand
  <2>1. PICK l : l = BigEndian(h.len, 3)
    OBVIOUS
  <2>2. Row(l, 3) /\ k = 12 /\ c[1] = SPI_BOOT_SIG /\ \A i \in 1 .. 3 : c[1 + i] = l[i]
    <3>1. Begins(h)
      BY CoveredBegins
    <3>2. QED
      BY <1>1, <1>2, <1>5, <2>1, <3>1, RowOfBytes DEF Begins
  <2>3. PICK cd : cd = c \o d
    OBVIOUS
  <2>4. Row(cd, 16) /\ \A i \in 1 .. 12 : cd[i] = c[i]
    <3>1. Pieces(cd, 16, c, 12, d, 4)
      BY <1>3, <2>2, <2>3 DEF Pieces
    <3>2. Joins(cd, 16, c, 12, d, 4)
      BY <3>1, RowsJoin
    <3>3. QED
      BY <3>2 DEF Joins
  <2>5. PICK s : s = cd \o p
    OBVIOUS
  <2>6. Row(s, 16 + n) /\ \A i \in 1 .. 16 : s[i] = cd[i]
    <3>1. Pieces(s, 16 + n, cd, 16, p, n)
      BY <2>4, <2>5 DEF Pieces
    <3>2. Joins(s, 16 + n, cd, 16, p, n)
      BY <3>1, RowsJoin
    <3>3. QED
      BY <3>2 DEF Joins
  <2>7. HeaderBytes(h) = cd /\ HeaderSize(h.nand) = 16
    <3>1. <<>> \o c = c
      BY <1>3 DEF Row
    <3>2. QED
      BY <1>2, <1>5, <2>3, <3>1 DEF HeaderBytes, HeaderSize
  <2>8. \A i \in 1 .. 3 : 1 + i \in 1 .. 12 /\ 1 + i \in 1 .. 16
    OBVIOUS
  <2>9. 1 \in 1 .. 12 /\ 1 \in 1 .. 16
    OBVIOUS
  <2>10. s[1] = SPI_BOOT_SIG /\ \A i \in 1 .. 3 : s[1 + i] = l[i]
    BY <2>2, <2>4, <2>6, <2>8, <2>9
  <2>11. SubSeq(s, 2, 4) = l
    <3>1. Within(s, 16 + n, l, 3, 2, 4)
      BY <2>2, <2>6, <2>10 DEF Within
    <3>2. QED
      BY <3>1, RowCut
  <2>12. QED
    BY <1>5, <2>1, <2>5, <2>6, <2>7, <2>10, <2>11 DEF BeginsWith
<1>6. QED
  BY <1>4, <1>5

-----------------------------------------------------------------------------
(* The length goes into the header before anything is written, and what is *)
(* printed is of what can be read back.                                    *)
PrintInv ==
  /\ Reached({"progcrc", "hdrcrc", "open", "header", "copy", "print"})
       => hdr.len = LengthField
  /\ rc = "ok" => printed \in {Header(ReadBack), Nothing}

(* What the steps after the length was taken have in common.               *)
SameLength ==
  /\ UNCHANGED <<input, hdr>>
  /\ rc' # "ok"
  /\ pc' \in {"progcrc", "hdrcrc", "open", "header", "copy", "print"}
       => pc \in {"progcrc", "hdrcrc", "open", "header", "copy", "print"}

LEMMA LengthKept ==
  ASSUME PrintInv, SameLength
  PROVE  PrintInv'
  BY DEF PrintInv, SameLength, Reached, LengthField, HeaderSize

(* GetLength sets the length, and only PrintHeader ends in "ok".           *)
THEOREM PrintInvariance == Spec => []PrintInv
<1>1. Init => PrintInv
  BY DEF Init, PrintInv, Reached
<1>2. ParseInv /\ PrintInv /\ [Next]_vars => PrintInv'
  <2> SUFFICES ASSUME ParseInv, PrintInv, [Next]_vars PROVE PrintInv'
    OBVIOUS
  <2>1. /\ pc # "exit" => rc = "none"
        /\ DOMAIN hdr = {"nand", "len", "timing0", "timing1", "progld",
                         "progcrc", "hdrcrc"}
    BY DEF ParseInv, NoHeader
  <2>2. CASE ParseOption
    BY <2>1, <2>2 DEF ParseOption, PrintInv, Reached
  <2>3. CASE ParseFails
    BY <2>1, <2>3 DEF ParseFails, Exit, PrintInv, Reached
  <2>4. CASE ParseEnd
    BY <2>1, <2>4 DEF ParseEnd, Continue, PrintInv, Reached
  <2>5. CASE GetLength
    <3>1. CASE input = Missing
      BY <2>1, <2>5, <3>1 DEF GetLength, Exit, PrintInv, Reached
    <3>2. CASE input # Missing
      <4>1. /\ hdr' = [hdr EXCEPT !.len = LengthField] /\ input' = input
            /\ pc' = "progcrc" /\ rc' = "none"
        BY <2>1, <2>5, <3>2 DEF GetLength, Continue
      <4>2. hdr'.len = LengthField /\ hdr'.nand = hdr.nand
        BY <2>1, <4>1
      <4>3. LengthField' = LengthField
        BY <4>1, <4>2 DEF LengthField, HeaderSize
      <4>4. QED
        BY <4>1, <4>2, <4>3 DEF PrintInv
    <3>3. QED
      BY <3>1, <3>2
  <2>6. CASE CrcProgram
    <3>1. hdr'.len = hdr.len /\ hdr'.nand = hdr.nand /\ input' = input
      BY <2>1, <2>6 DEF CrcProgram
    <3>2. LengthField' = LengthField
      BY <3>1 DEF LengthField, HeaderSize
    <3>3. QED
      BY <2>1, <2>6, <3>1, <3>2 DEF CrcProgram, Continue, PrintInv, Reached
  <2>7. CASE CrcHeader
    <3>1. hdr'.len = hdr.len /\ hdr'.nand = hdr.nand /\ input' = input
      BY <2>1, <2>7 DEF CrcHeader
    <3>2. LengthField' = LengthField
      BY <3>1 DEF LengthField, HeaderSize
    <3>3. QED
      BY <2>1, <2>7, <3>1, <3>2 DEF CrcHeader, Continue, PrintInv, Reached
  <2>8. CASE OpenFails
    BY <2>1, <2>8, LengthKept DEF OpenFails, Exit, SameLength
  <2>9. CASE OpenOutput
    BY <2>1, <2>9, LengthKept DEF OpenOutput, Exit, Continue, SameLength
  <2>10. CASE WriteHeader
    BY <2>1, <2>10, LengthKept DEF WriteHeader, Continue, SameLength
  <2>11. CASE CopyChunk
    BY <2>1, <2>11, LengthKept DEF CopyChunk, SameLength
  <2>12. CASE PadByte
    BY <2>1, <2>12, LengthKept DEF PadByte, SameLength
  <2>13. CASE WriteFails
    BY <2>1, <2>13, LengthKept DEF WriteFails, Exit, SameLength
  <2>14. CASE CloseOutput
    BY <2>1, <2>14, LengthKept DEF CloseOutput, Continue, SameLength
  <2>15. CASE PrintHeader
    <3>1. /\ pc = "print" /\ hdr' = hdr /\ input' = input /\ output' = output
          /\ printed' \in {Header(ReadBack), Nothing}
      BY <2>15 DEF PrintHeader, file
    <3>2. Header(ReadBack)' = Header(ReadBack) /\ LengthField' = LengthField
      BY <3>1 DEF Header, ReadBack, LengthField
    <3>3. QED
      BY <3>1, <3>2 DEF PrintInv, Reached
  <2>16. CASE UNCHANGED vars
    BY <2>16 DEF vars, PrintInv, Reached, LengthField, Header, ReadBack
  <2>17. QED
    BY <2>2, <2>3, <2>4, <2>5, <2>6, <2>7, <2>8, <2>9, <2>10, <2>11,
       <2>12, <2>13, <2>14, <2>15, <2>16 DEF Next
<1>3. QED
  BY <1>1, <1>2, ParseInvariance, PTL DEF Spec

(* What is behind the header of an output reported done, and what is in it.*)
DoneFacts(n, p) ==
  /\ hdr.nand \in BOOLEAN
  /\ n = Len(input) /\ n \in Nat /\ n \in Lengths
  /\ p = Padded(input) /\ Row(p, Len(p))
  /\ Len(p) \in Nat /\ Len(p) \in n .. n + 3 /\ Len(p) % 4 = 0
  /\ output = HeaderBytes(hdr) \o p
  /\ hdr.len = LengthField
  /\ printed \in {Header(ReadBack), Nothing}

LEMMA DoneWrites ==
  ASSUME ParseInv, ImageInv, PrintInv, Done
  PROVE  DoneFacts(Len(input), Padded(input))
<1> DEFINE p == Padded(input)
           n == Len(input)
<1>1. hdr.nand \in BOOLEAN
  BY DEF Done, ParseInv, Parsed, HeaderFollows, OptsOK
<1>2. /\ input \in Seq(Byte) /\ input \in Programs
      /\ output = HeaderBytes(hdr) \o SubSeq(p, 1, copied)
      /\ copied = Len(p)
  BY DEF Done, ImageInv, Reached
<1>3. /\ p \in Seq(Byte) /\ Len(p) \in Nat /\ n \in Nat
      /\ Len(p) \in n .. n + 3 /\ Len(p) % 4 = 0
  BY <1>2, PaddedBytes
<1>4. output = HeaderBytes(hdr) \o p
  <2>1. SubSeq(p, 1, Len(p)) = p
    BY <1>3, SubSeqFull
  <2>2. QED
    BY <1>2, <2>1
<1>5. n \in Lengths
  <2>1. n < 2 ^ 24
    BY <1>2, HeaderAssumption
  <2>2. QED
    BY SMT, <1>3, <2>1, MorePowers DEF Lengths
<1>6. hdr.len = LengthField /\ printed \in {Header(ReadBack), Nothing}
  BY DEF Done, PrintInv, Reached
<1> HIDE DEF p, n
<1>7. Row(p, Len(p))
  BY <1>3 DEF Row
<1>8. DoneFacts(n, p)
  BY <1>1, <1>3, <1>4, <1>5, <1>6, <1>7 DEF DoneFacts, n, p
<1>9. QED
  BY <1>8 DEF n, p

(* A NAND header's length in words is the length of the whole output.      *)
LEMMA LengthInWords ==
  ASSUME NEW n \in Lengths, NEW l \in n .. n + 3, l % 4 = 0
  PROVE  /\ (n + 24 + 3) \div 4 \in Nat /\ (n + 24 + 3) \div 4 \in Lengths
         /\ 4 * ((n + 24 + 3) \div 4) = 24 + l
<1>0. n \in Nat /\ n < 16777216
  BY SMT, MorePowers DEF Lengths
<1>1. PICK q \in Nat : l = 4 * q
  <2>0. n \in Nat
    BY SMT, <1>0
  <2>1. l \in Nat /\ l = 4 * (l \div 4) + (l % 4) /\ l \div 4 \in Nat
    BY <2>0
  <2>2. QED
    BY <2>1
<1>2. PICK w : w = (n + 24 + 3) \div 4
  OBVIOUS
<1>3. w \in Nat /\ n + 27 >= 4 * w /\ n + 27 < 4 * w + 4
  BY SMT, <1>0, <1>2
<1>4. w = q + 6
  BY SMT, <1>0, <1>1, <1>3
<1>5. w \in Lengths
  BY SMT, <1>0, <1>3, MorePowers DEF Lengths
<1>6. QED
  BY <1>1, <1>2, <1>3, <1>4, <1>5

(* The lengths in the header of such an output, and its kind.              *)
SoundLengths ==
  /\ hdr.nand => /\ 4 * Value(SubSeq(output, 5, 8)) = Len(output)
                 /\ Len(output) >= 24
                 /\ SubSeq(output, 1, 4) = BigEndian(NAND_MAGIC, 4)
                 /\ output[1] # SPI_BOOT_SIG
  /\ ~ hdr.nand => /\ Value(SubSeq(output, 2, 4)) = Len(input)
                   /\ output[1] = SPI_BOOT_SIG
                   /\ SubSeq(output, 1, 4) # BigEndian(NAND_MAGIC, 4)
                   /\ Len(output) < 24 => Len(input) <= 4
  /\ output \in Seq(Byte) /\ Len(output) > 0

LEMMA WrittenLengths ==
  ASSUME NEW n, NEW p, DoneFacts(n, p)
  PROVE  SoundLengths
<1>1. /\ hdr.nand \in BOOLEAN /\ n = Len(input) /\ n \in Nat
      /\ Row(p, Len(p)) /\ Len(p) \in Nat
      /\ Len(p) \in n .. n + 3 /\ Len(p) % 4 = 0
      /\ output = HeaderBytes(hdr) \o p /\ hdr.len = LengthField
  BY DEF DoneFacts
<1>2. n \in Lengths
  BY DEF DoneFacts
<1>3. PICK l : l = Len(p)
  OBVIOUS
<1>4. /\ l \in Nat /\ l \in n .. n + 3 /\ l % 4 = 0 /\ Row(p, l)
  BY <1>1, <1>3
<1>5. /\ Row(output, HeaderSize(hdr.nand) + l)
      /\ hdr.nand => /\ SubSeq(output, 1, 4) = BigEndian(NAND_MAGIC, 4)
                     /\ SubSeq(output, 5, 8) = BigEndian(hdr.len, 4)
                     /\ output[1] = ByteOf(NAND_MAGIC, 3)
      /\ ~ hdr.nand => /\ output[1] = SPI_BOOT_SIG
                       /\ SubSeq(output, 2, 4) = BigEndian(hdr.len, 3)
  <2>1. BeginsWith(HeaderBytes(hdr) \o p, hdr, l)
    BY <1>1, <1>4, HeaderBegins
  <2>2. QED
    BY <1>1, <2>1 DEF BeginsWith
<1>6. CASE hdr.nand
  <2>1. PICK w : w = (n + 24 + 3) \div 4
    OBVIOUS
  <2>2. w \in Nat /\ w \in Lengths /\ 4 * w = 24 + l
    BY <1>1, <1>2, <1>4, <2>1, LengthInWords
  <2>3. Value(BigEndian(Number(w), 4)) = w
    BY <2>2, ValueOfNumber
  <2>4. hdr.len = Number(w)
    BY <1>1, <1>6, <2>1 DEF LengthField, HeaderSize
  <2>5. Row(output, 24 + l)
    BY <1>5, <1>6 DEF HeaderSize
  <2>6. Value(SubSeq(output, 5, 8)) = w
    BY <1>5, <1>6, <2>3, <2>4
  <2>7. /\ output \in Seq(Byte) /\ Len(output) = 24 + l
        /\ Len(output) >= 24 /\ Len(output) > 0
    BY <1>4, <2>5 DEF Row
  <2>8. QED
    BY <1>5, <1>6, <2>2, <2>6, <2>7, KindsDiffer DEF SoundLengths
<1>7. CASE ~ hdr.nand
  <2>1. Value(BigEndian(Number(n), 3)) = n
    BY <1>2, ValueOfNumber
  <2>2. hdr.len = Number(n)
    BY <1>1, <1>7 DEF LengthField
  <2>3. Row(output, 16 + l)
    BY <1>5, <1>7 DEF HeaderSize
  <2>4. output \in Seq(Byte) /\ Len(output) = 16 + l /\ Len(output) > 0
    BY <1>4, <2>3 DEF Row
  <2>5. Len(output) < 24 => n <= 4
    <3>1. SUFFICES ASSUME l < 8 PROVE n <= 4
      BY <1>4, <2>4
    <3>2. l <= 4
      <4>1. l \in 0 .. 7
        BY <1>4, <3>1
      <4>2. QED
        BY <1>4, <4>1
    <3>3. n <= l
      BY <1>1, <1>4
    <3>4. n \in Nat /\ l \in Nat
      BY <1>1, <1>4
    <3>5. QED
      BY <3>2, <3>3, <3>4
  <2>6. SubSeq(output, 1, 4) # BigEndian(NAND_MAGIC, 4)
    <3>1. SubSeq(output, 1, 4)[1] = output[1]
      <4>1. 4 \in 0 .. Len(output) /\ 1 \in 1 .. 4
        BY <1>4, <2>4
      <4>2. QED
        BY <2>4, <4>1, FirstBytes
    <3>2. BigEndian(NAND_MAGIC, 4)[1] = ByteOf(NAND_MAGIC, 3)
      BY DEF BigEndian
    <3>3. QED
      BY <1>5, <1>7, <3>1, <3>2, KindsDiffer
  <2>7. QED
    BY <1>1, <1>5, <1>7, <2>1, <2>2, <2>4, <2>5, <2>6 DEF SoundLengths
<1>8. QED
  BY <1>1, <1>6, <1>7

(* What is printed of it.                                                  *)
LEMMA WhatIsPrinted ==
  ASSUME SoundLengths, hdr.nand \in BOOLEAN,
         printed \in {Header(ReadBack), Nothing}
  PROVE  PrintedIsWritten
<1>1. output # <<>> /\ Head(output) = output[1] /\ <<>> # output
  BY DEF SoundLengths
<1>2. Len(output) \in Nat
  BY DEF SoundLengths
<1>3. CASE printed = Nothing
  BY <1>3 DEF Nothing, PrintedIsWritten
<1>4. CASE printed = Header(ReadBack) /\ hdr.nand
  <2>1. ReadBack = output
    BY <1>2, <1>4 DEF ReadBack, HeaderSize, SoundLengths
  <2>2. Header(output) = [kind |-> "NAND", length |-> Len(output)]
    BY <1>1, <1>4 DEF Header, SoundLengths
  <2>3. printed.kind = "NAND" /\ printed.length = Len(output)
    BY <1>4, <2>1, <2>2
  <2>4. QED
    BY <1>4, <2>3 DEF PrintedIsWritten
<1>5. CASE printed = Header(ReadBack) /\ ~ hdr.nand
  <2>1. CASE Len(output) < 24
    <3>1. ReadBack = <<>>
      BY <2>1 DEF ReadBack, HeaderSize
    <3>2. Header(<<>>) = [kind |-> "short", length |-> 0]
      BY DEF Header
    <3>3. printed.kind = "short"
      BY <1>5, <3>1, <3>2
    <3>4. QED
      BY <1>5, <2>1, <3>3 DEF PrintedIsWritten, SoundLengths
  <2>2. CASE ~ (Len(output) < 24)
    <3>1. ReadBack = output
      BY <2>2 DEF ReadBack, HeaderSize
    <3>2. Header(output) = [kind |-> "SPI", length |-> Len(input)]
      BY <1>1, <1>5 DEF Header, SoundLengths
    <3>3. printed.kind = "SPI" /\ printed.length = Len(input)
      BY <1>5, <3>1, <3>2
    <3>4. QED
      BY <1>5, <3>3 DEF PrintedIsWritten
  <2>3. QED
    BY <2>1, <2>2
<1>6. QED
  BY <1>3, <1>4, <1>5

(* "Write the header and then append the binary file to the output file":  *)
(* the CRCs, the length and the program in an output reported done are as  *)
(* they should be, and what is printed is true of it.                      *)
THEOREM OutputTheorem == Spec => []OutputIsSound
<1>1. ASSUME ParseInv, ImageInv, PrintInv, Done => ImageIsWhole
      PROVE  OutputIsSound
  <2>1. SUFFICES ASSUME Done
                 PROVE  ImageIsWhole /\ LengthIsWritten /\ PrintedIsWritten
    BY DEF OutputIsSound
  <2>2. DoneFacts(Len(input), Padded(input))
    BY <1>1, <2>1, DoneWrites
  <2>3. SoundLengths
    BY <2>2, WrittenLengths
  <2>4. LengthIsWritten
    BY <2>3 DEF LengthIsWritten, SoundLengths
  <2>5. PrintedIsWritten
    <3>1. hdr.nand \in BOOLEAN /\ printed \in {Header(ReadBack), Nothing}
      BY <2>2 DEF DoneFacts
    <3>2. QED
      BY <2>3, <3>1, WhatIsPrinted
  <2>6. QED
    BY <1>1, <2>1, <2>4, <2>5
<1>2. QED
  BY <1>1, ParseInvariance, ImageInvariance, PrintInvariance, ImageTheorem, PTL

-----------------------------------------------------------------------------
(* The tool's variables stay in their types; what is read back was written.*)
TypeInv ==
  TypeOK /\ (pc \in {"header", "copy", "print"} => output \in Seq(Byte))

(* Lengths and CRCs fit into a word.                                       *)
LEMMA WordsFit ==
  /\ \A n : Number(n) \in Remainder
  /\ \A m \in Seq(Byte) : crc32Of(m) \in Remainder
<1>1. ASSUME NEW n PROVE Number(n) \in Remainder
  <2>1. WIDTH = 32
    BY CrcAssumption, HeaderAssumption
  <2>2. QED
    BY <2>1 DEF Number, Remainder, Bits
<1>2. ASSUME NEW m \in Seq(Byte) PROVE crc32Of(m) \in Remainder
  <2>1. Steps(Byte, Remainder, update_crc32)
    BY PolynomialsMirrored, ToolSteps DEF Mirror
  <2>2. INITIAL_REMAINDER \in Remainder
    BY StartMirrored
  <2>3. QED
    BY <2>1, <2>2, ThroughStays DEF crc32Of
<1>3. QED
  BY <1>1, <1>2

(* A chunk of a program is bytes.                                          *)
LEMMA ChunkTyped ==
  ASSUME NEW p \in Seq(Byte), NEW k \in Nat
  PROVE  SubSeq(p, k + 1, Min({k + Chunk, Len(p)})) \in Seq(Byte)
<1> DEFINE n == Len(p)
           l == Min({k + Chunk, n})
<1>1. n \in Nat /\ Chunk \in Nat
  BY HeaderAssumption
<1> HIDE DEF n
<1>2. l \in Nat /\ l <= n
  <2>1. k + Chunk \in Nat
    BY <1>1
  <2>2. \E x \in {k + Chunk, n} : \A y \in {k + Chunk, n} : x <= y
    BY <1>1, <2>1
  <2>3. l \in {k + Chunk, n} /\ l <= n
    BY <2>2 DEF Min
  <2>4. QED
    BY <1>1, <2>1, <2>3
<1> HIDE DEF l
<1>3. \A i \in k + 1 .. l : i \in 1 .. n
  BY <1>1, <1>2
<1>4. \A i \in k + 1 .. l : p[i] \in Byte
  BY <1>3 DEF n
<1>5. k + 1 \in Int /\ l \in Int
  BY <1>2
<1>6. SubSeq(p, k + 1, l) \in Seq(Byte)
  BY <1>4, <1>5, SubSeqProperties
<1>7. QED
  BY <1>6 DEF l, n

(* What is printed of a file that holds a header, or of none.              *)
LEMMA PrintedTyped ==
  ASSUME NEW s \in Seq(Byte), s = <<>> \/ Len(s) >= 24
  PROVE  /\ Header(s).kind \in {"short", "SPI", "NAND", "unrecognised"}
         /\ Header(s).length \in Nat
<1>1. CASE s = <<>>
  BY <1>1 DEF Header
<1>2. CASE s # <<>>
  <2>1. Len(s) >= 24 /\ Len(s) \in Nat
    BY <1>2
  <2>2. ASSUME NEW f \in 1 .. 24, NEW t \in 1 .. 24 PROVE SubSeq(s, f, t) \in Seq(Byte)
    <3>1. \A i \in f .. t : i \in 1 .. Len(s)
      BY <2>1
    <3>2. \A i \in f .. t : s[i] \in Byte
      BY <3>1
    <3>3. f \in Int /\ t \in Int
      OBVIOUS
    <3>4. QED
      BY <3>2, <3>3, SubSeqProperties
  <2>3. SubSeq(s, 2, 4) \in Seq(Byte) /\ SubSeq(s, 5, 8) \in Seq(Byte)
    <3>1. 2 \in 1 .. 24 /\ 4 \in 1 .. 24 /\ 5 \in 1 .. 24 /\ 8 \in 1 .. 24
      OBVIOUS
    <3>2. QED
      BY <2>2, <3>1
  <2>4. PICK v, w : v = Value(SubSeq(s, 2, 4)) /\ w = Value(SubSeq(s, 5, 8))
    OBVIOUS
  <2>5. v \in Nat /\ w \in Nat /\ 4 * w \in Nat
    <3>1. v \in Nat /\ w \in Nat
      BY <2>3, <2>4, ValueTyped
    <3>2. QED
      BY <3>1
  <2>6. \/ Header(s) = [kind |-> "SPI", length |-> v]
        \/ Header(s) = [kind |-> "NAND", length |-> 4 * w]
        \/ Header(s) = [kind |-> "unrecognised", length |-> 0]
    <3>1. CASE Head(s) = SPI_BOOT_SIG
      <4>1. SubSeq(s, 1, 4) # BigEndian(NAND_MAGIC, 4)
        <5>1. SubSeq(s, 1, 4)[1] = s[1] /\ s[1] = Head(s)
          <6>1. 4 \in 0 .. Len(s) /\ 1 \in 1 .. 4
            BY <2>1
          <6>2. SubSeq(s, 1, 4)[1] = s[1]
            BY <6>1, FirstBytes
          <6>3. QED
            BY <1>2, <6>2
        <5>2. BigEndian(NAND_MAGIC, 4)[1] = ByteOf(NAND_MAGIC, 3)
          BY DEF BigEndian
        <5>3. QED
          BY <3>1, <5>1, <5>2, KindsDiffer
      <4>2. QED
        BY <1>2, <2>4, <3>1, <4>1 DEF Header
    <3>2. CASE Head(s) # SPI_BOOT_SIG /\ SubSeq(s, 1, 4) = BigEndian(NAND_MAGIC, 4)
      BY <1>2, <2>4, <3>2 DEF Header
    <3>3. CASE Head(s) # SPI_BOOT_SIG /\ SubSeq(s, 1, 4) # BigEndian(NAND_MAGIC, 4)
      BY <1>2, <3>3 DEF Header
    <3>4. QED
      BY <3>1, <3>2, <3>3
  <2>7. QED
    BY <2>5, <2>6
<1>3. QED
  BY <1>1, <1>2

(* A header with one field more is one.                                    *)
HeaderType ==
  [nand : BOOLEAN, len : Remainder, timing0 : Remainder, timing1 : Remainder,
   progld : Remainder, progcrc : Remainder, hdrcrc : Remainder]

LEMMA HeaderTyped ==
  ASSUME ParseInv, ImageInv, TypeInv, [Next]_vars
  PROVE  hdr' \in HeaderType
<1>1. hdr \in HeaderType
  BY DEF TypeInv, TypeOK, HeaderType
<1>2. opts \in [s : BOOLEAN, zero : BOOLEAN, one : BOOLEAN,
                zeroVal : Remainder, oneVal : Remainder, lVal : Remainder]
  BY DEF ParseInv, OptsOK
<1>3. CASE ParseEnd
  BY <1>1, <1>2, <1>3 DEF ParseEnd, HeaderType
<1>4. CASE GetLength
  <2>1. LengthField \in Remainder
    BY WordsFit DEF LengthField
  <2>2. hdr' = hdr \/ hdr' = [hdr EXCEPT !.len = LengthField]
    BY <1>4 DEF GetLength
  <2>3. QED
    BY <1>1, <2>1, <2>2 DEF HeaderType
<1>5. CASE CrcProgram
  <2>1. crc32Of(Padded(input)) \in Remainder
    BY <1>5, WordsFit, PaddedBytes DEF CrcProgram, ImageInv, Reached
  <2>2. QED
    BY <1>1, <1>5, <2>1 DEF HeaderType, CrcProgram
<1>6. CASE CrcHeader
  <2>1. crc32Of(Covered(hdr)) \in Remainder
    <3>1. hdr.nand \in BOOLEAN
      BY <1>1 DEF HeaderType
    <3>2. Covered(hdr) \in Seq(Byte)
      BY <3>1, CoveredBegins DEF Row
    <3>3. QED
      BY <3>2, WordsFit
  <2>2. QED
    BY <1>1, <1>6, <2>1 DEF HeaderType, CrcHeader
<1>7. CASE hdr' = hdr
  BY <1>1, <1>7
<1>8. ParseEnd \/ GetLength \/ CrcProgram \/ CrcHeader \/ hdr' = hdr
  BY DEF Next, vars, ParseOption, ParseFails, OpenFails, OpenOutput,
     WriteHeader, CopyChunk, PadByte, WriteFails, CloseOutput, PrintHeader
<1>9. QED
  BY <1>3, <1>4, <1>5, <1>6, <1>7, <1>8

(* So are the bytes written, in the stream and on the disk.                *)
FileTyped ==
  stream \in Seq(Byte) /\ copied \in Nat /\ output \in Seq(Byte) \cup {Missing}
    /\ (pc \in {"header", "copy", "print"} => output \in Seq(Byte))

LEMMA PartOnDisk ==
  ASSUME stream \in Seq(Byte), stream' = stream,
         \E n \in 0 .. Len(stream) : Written(n)
  PROVE  output' \in Seq(Byte)
<1>1. PICK n \in 0 .. Len(stream) : output' = SubSeq(stream, 1, n)
  BY DEF Written
<1>2. QED
  BY <1>1, FirstBytes DEF Row

LEMMA FileKept ==
  ASSUME ParseInv, ImageInv, TypeInv, [Next]_vars
  PROVE  FileTyped'
<1>1. FileTyped /\ hdr.nand \in BOOLEAN
  BY DEF TypeInv, TypeOK, FileTyped
<1>2. CASE OpenOutput
  BY <1>1, <1>2 DEF OpenOutput, FileTyped
<1>3. CASE WriteHeader
  <2>1. HeaderBytes(hdr) \in Seq(Byte)
    BY <1>1, HeaderRow DEF Row
  <2>2. QED
    BY <1>1, <1>3, <2>1 DEF WriteHeader, Continue, FileTyped
<1>4. CASE CopyChunk
  <2>1. Program \in Seq(Byte)
    BY <1>4 DEF CopyChunk, Program, ImageInv, Reached
  <2>2. PICK chunk : /\ chunk = SubSeq(Program, copied + 1,
                                       Min({copied + Chunk, Len(Program)}))
                     /\ stream' = stream \o chunk
                     /\ copied' = copied + Len(chunk)
    BY <1>4 DEF CopyChunk
  <2>3. chunk \in Seq(Byte)
    BY <1>1, <2>1, <2>2, ChunkTyped DEF FileTyped
  <2>4. stream' \in Seq(Byte) /\ copied' \in Nat
    <3>1. stream \in Seq(Byte) /\ copied \in Nat /\ Len(chunk) \in Nat
      BY <1>1, <2>3 DEF FileTyped
    <3>2. stream \o chunk \in Seq(Byte)
      BY <2>3, <3>1, ConcatProperties
    <3>3. stream' \in Seq(Byte)
      BY Zenon, <2>2, <3>2
    <3>4. PICK n : n = Len(chunk)
      OBVIOUS
    <3>5. n \in Nat /\ copied' = copied + n
      BY Zenon, <2>2, <3>1, <3>4
    <3>6. copied' \in Nat
      BY <3>1, <3>5
    <3>7. QED
      BY <3>3, <3>6
  <2>5. output' = output /\ pc' = pc
    BY <1>4 DEF CopyChunk
  <2>6. QED
    BY <1>1, <2>4, <2>5 DEF FileTyped
<1>5. CASE PadByte
  <2>1. {} \in Byte
    BY DEF Byte
  <2>2. Append(stream, {}) \in Seq(Byte)
    BY <1>1, <2>1, AppendProperties DEF FileTyped
  <2>3. QED
    BY <1>1, <1>5, <2>2 DEF PadByte, FileTyped
<1>6. CASE WriteFails
  <2>1. stream' = stream /\ copied' = copied
        /\ \E n \in 0 .. Len(stream) : Written(n)
    BY <1>6 DEF WriteFails
  <2>2. output' \in Seq(Byte)
    BY <1>1, <2>1, PartOnDisk DEF FileTyped
  <2>3. QED
    BY <1>1, <2>1, <2>2 DEF FileTyped
<1>7. CASE CloseOutput
  <2>1. stream' = stream /\ copied' = copied
        /\ \E n \in 0 .. Len(stream) : Written(n)
    BY <1>7 DEF CloseOutput
  <2>2. output' \in Seq(Byte)
    BY <1>1, <2>1, PartOnDisk DEF FileTyped
  <2>3. QED
    BY <1>1, <2>1, <2>2 DEF FileTyped
<1>8. CASE /\ UNCHANGED file
           /\ pc' = pc \/ pc' \notin {"header", "copy", "print"}
  BY <1>1, <1>8 DEF file, FileTyped
<1>9. \/ OpenOutput \/ WriteHeader \/ CopyChunk \/ PadByte \/ WriteFails
      \/ CloseOutput
      \/ /\ UNCHANGED file
         /\ pc' = pc \/ pc' \notin {"header", "copy", "print"}
  BY DEF Next, vars, file, ParseOption, ParseFails, ParseEnd, GetLength,
     CrcProgram, CrcHeader, OpenFails, PrintHeader, Exit, Continue
<1>10. QED
  BY <1>2, <1>3, <1>4, <1>5, <1>6, <1>7, <1>8, <1>9

PrintTyped ==
  /\ printed.kind \in {"none", "short", "SPI", "NAND", "unrecognised"}
  /\ printed.length \in Nat

LEMMA PrintKept ==
  ASSUME TypeInv, [Next]_vars
  PROVE  PrintTyped'
<1>1. CASE printed' = printed
  BY <1>1 DEF TypeInv, TypeOK, PrintTyped
<1>2. CASE PrintHeader
  <2>1. CASE printed' = Nothing
    BY <2>1 DEF Nothing, PrintTyped
  <2>2. CASE printed' = Header(ReadBack)
    <3>1. output \in Seq(Byte)
      BY <1>2 DEF PrintHeader, TypeInv
    <3>2. ReadBack \in Seq(Byte) /\ (ReadBack = <<>> \/ Len(ReadBack) >= 24)
      BY <3>1 DEF ReadBack, HeaderSize
    <3>3. PICK s : s = ReadBack
      OBVIOUS
    <3>4. /\ Header(s).kind \in {"short", "SPI", "NAND", "unrecognised"}
          /\ Header(s).length \in Nat
      BY <3>2, <3>3, PrintedTyped
    <3>5. QED
      BY <2>2, <3>3, <3>4 DEF PrintTyped
  <2>3. QED
    BY <1>2, <2>1, <2>2 DEF PrintHeader
<1>3. PrintHeader \/ printed' = printed
  BY DEF Next, vars, ParseOption, ParseFails, ParseEnd, GetLength, CrcProgram,
     CrcHeader, OpenFails, OpenOutput, WriteHeader, CopyChunk, PadByte,
     WriteFails, CloseOutput
<1>4. QED
  BY <1>1, <1>2, <1>3

ControlTyped ==
  /\ optind \in 1 .. Len(argv.options) + 1
  /\ pc \in {"parse", "length", "progcrc", "hdrcrc", "open", "header", "copy",
             "print", "exit"}
  /\ rc \in {"none", "ok", "failed"}

LEMMA ControlTypeKept ==
  ASSUME ParseInv, TypeInv, [Next]_vars
  PROVE  ControlTyped'
<1>1. ControlTyped
  BY DEF TypeInv, TypeOK, ControlTyped
<1>2. Len(argv.options) \in Nat /\ DOMAIN argv.options = 1 .. Len(argv.options)
  BY OptionKind DEF ParseInv
<1>3. CASE ParseOption
  <2>1. optind \in 1 .. Len(argv.options) /\ optind' = optind + 1
        /\ argv' = argv /\ pc' = pc /\ rc' = rc
    BY <1>2, <1>3 DEF ParseOption
  <2>2. optind + 1 \in 1 .. Len(argv.options) + 1
    BY <1>2, <2>1
  <2>3. QED
    BY <1>1, <2>1, <2>2 DEF ControlTyped
<1>4. CASE UNCHANGED <<argv, optind>> /\ ~ ParseOption
  <2>1. pc' \in {"parse", "length", "progcrc", "hdrcrc", "open", "header",
                 "copy", "print", "exit"} /\ rc' \in {"none", "ok", "failed"}
    BY <1>1, <1>4 DEF ControlTyped, Next, vars, ParseFails, ParseEnd,
       GetLength, CrcProgram, CrcHeader, OpenFails, OpenOutput, WriteHeader,
       CopyChunk, PadByte, WriteFails, CloseOutput, PrintHeader, Exit, Continue
  <2>2. QED
    BY <1>1, <1>4, <2>1 DEF ControlTyped
<1>5. ParseOption \/ (UNCHANGED <<argv, optind>> /\ ~ ParseOption)
  BY DEF Next, vars, ParseFails, ParseEnd, GetLength, CrcProgram,
     CrcHeader, OpenFails, OpenOutput, WriteHeader, CopyChunk, PadByte,
     WriteFails, CloseOutput, PrintHeader
<1>6. QED
  BY <1>3, <1>4, <1>5

(* Every variable of the tool keeps its type: lengths and CRCs fit their   *)
(* words, what is on the disk is bytes or nothing.                         *)
THEOREM HeaderTypes == Spec => []TypeOK
<1>1. Init => TypeInv
  <2> SUFFICES ASSUME Init PROVE TypeInv
    OBVIOUS
  <2>1. {} \in Remainder /\ LMEM \in Remainder
    BY HeaderAssumption DEF Remainder
  <2>2. hdr \in HeaderType
    BY <2>1 DEF Init, NoHeader, HeaderType
  <2>3. opts \in [s : BOOLEAN, zero : BOOLEAN, one : BOOLEAN,
                  zeroVal : Remainder, oneVal : Remainder, lVal : Remainder]
    BY <2>1 DEF Init, NoOptions
  <2>4. optind \in 1 .. Len(argv.options) + 1
    <3>1. argv \in CommandLines /\ optind = 1
      BY DEF Init
    <3>2. Len(argv.options) \in Nat
      BY <3>1, OptionKind
    <3>3. QED
      BY <3>1, <3>2
  <2>5. output \in Seq(Byte) \cup {Missing}
    BY HeaderAssumption DEF Init
  <2>6. QED
    BY <2>2, <2>3, <2>4, <2>5 DEF Init, Nothing, TypeInv, TypeOK, HeaderType
<1>2. ParseInv /\ ParseInv' /\ ImageInv /\ TypeInv /\ [Next]_vars => TypeInv'
  <2> SUFFICES ASSUME ParseInv, ParseInv', ImageInv, TypeInv, [Next]_vars
               PROVE  TypeInv'
    OBVIOUS
  <2>1. hdr' \in HeaderType /\ FileTyped' /\ PrintTyped' /\ ControlTyped'
    BY HeaderTyped, FileKept, PrintKept, ControlTypeKept
  <2>2. opts' \in [s : BOOLEAN, zero : BOOLEAN, one : BOOLEAN,
                   zeroVal : Remainder, oneVal : Remainder, lVal : Remainder]
    BY DEF ParseInv, OptsOK
  <2>3. QED
    BY <2>1, <2>2
       DEF TypeInv, TypeOK, HeaderType, FileTyped, PrintTyped, ControlTyped
<1>3. TypeInv => TypeOK
  BY DEF TypeInv
<1>4. QED
  BY <1>1, <1>2, <1>3, ParseInvariance, ImageInvariance, PTL DEF Spec
=============================================================================
