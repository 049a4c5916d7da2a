----------------------------- MODULE BootHeader -----------------------------
(***************************************************************************)
(* The host tool bh, tools/src/bh/bhdr.c: it puts a header of lengths and  *)
(* CRCs in front of a program, for the boot ROM to find in NAND or SPI     *)
(* flash.  The command line is parsed option by option, the program's      *)
(* length taken, its CRC and the header's computed, the output written,    *)
(* and its header read back and printed.                                   *)
(*                                                                         *)
(* Numbers are sets of bits, as in Crc.  A file is a sequence of bytes.    *)
(* A program is shorter than a chunk or a few chunks long; no file reaches *)
(* the 16 MB that proglen can count to.                                    *)
(***************************************************************************)
EXTENDS Crc

CONSTANTS
  CommandLines,  \* records [options, operands, same]: options with their
                 \* values, number of operands, are the two names the same?
  Programs,      \* what the input file may hold
  Missing,       \* there is no such file
  Chunk,         \* bytes of one fread (256)
  NAND_MAGIC, SPI_BOOT_SIG,
  LMEM           \* load address if none is given

\* 0xEDB88320 is 0x04C11DB7 with its bits in the other order.
ASSUME PolynomialsMirrored == dwpoly = reflect(POLYNOMIAL, WIDTH)

ASSUME HeaderAssumption ==
  /\ ByteBits = 8
  /\ Programs \subseteq Seq(Byte) \cup {Missing} /\ Missing \notin Seq(Byte)
  /\ \A p \in Programs \ {Missing} : Len(p) < 2^24
  /\ Chunk \in Nat \ {0}
  /\ {NAND_MAGIC, LMEM} \subseteq Remainder /\ SPI_BOOT_SIG \in Byte
  /\ \A c \in CommandLines :
       /\ c.operands \in Nat /\ c.same \in BOOLEAN
       /\ c.options \in Seq([name : {"s", "l", "0", "1", "unknown"},
                             value : Remainder])

VARIABLES
  argv,     \* the command line
  input,    \* the file binary_file_name, before the tool runs
  optind,   \* the option getopt returns next
  opts,     \* s_opt_set, zero_opt_set, one_opt_set, and the values
  hdr,      \* the header, in cb
  pc,       \* the call of main that comes next, or "exit"
  rc,       \* what main returns; "none" before
  stream,   \* what has been written to the output with fwrite
  copied,   \* bytes of the program among it, and padding
  output,   \* the file output_file_name
  printed   \* what print_header printed

vars == <<argv, input, optind, opts, hdr, pc, rc, stream, copied, output,
          printed>>

NoOptions == [s |-> FALSE, zero |-> FALSE, one |-> FALSE,
              zeroVal |-> {}, oneVal |-> {}, lVal |-> LMEM]
NoHeader == [nand |-> TRUE, len |-> {}, timing0 |-> {}, timing1 |-> {},
             progld |-> {}, progcrc |-> {}, hdrcrc |-> {}]
Nothing == [kind |-> "none", length |-> 0]

(* Bits 8k to 8k + 7 of a word, and the n low bytes of it, highest first.  *)
ByteOf(w, k) == LowByte(ShiftRight(w, k * ByteBits))
BigEndian(w, n) == [j \in 1 .. n |-> ByteOf(w, n - j)]

\* The first byte tells the two kinds of header apart: 0x4c is not 0x4d.
ASSUME KindsDiffer == ByteOf(NAND_MAGIC, 3) # SPI_BOOT_SIG

(* The bits of a number; no length here has more than 24.                  *)
Number(n) == {i \in Bits(24) : (n \div 2^i) % 2 = 1}

-----------------------------------------------------------------------------
(* struct nand_header, struct spi_header: what the header CRC is taken of, *)
(* and the bytes in the file.  The magic of a NAND header is not covered.  *)
Covered(h) ==
  IF h.nand
  THEN BigEndian(h.len, 4) \o BigEndian(h.timing0, 4)
         \o BigEndian(h.timing1, 4) \o BigEndian(h.progcrc, 4)
  ELSE <<SPI_BOOT_SIG>> \o BigEndian(h.len, 3)
         \o BigEndian(h.progld, 4) \o BigEndian(h.progcrc, 4)

(* Slip: the last field's bytes are stored without the & 0xff.             *)
HeaderBytesUncut(h) ==
  (IF h.nand THEN BigEndian(NAND_MAGIC, 4) ELSE <<>>)
    \o Covered(h) \o [j \in 1 .. 4 |-> ShiftRight(h.hdrcrc, (4 - j) * ByteBits)]

HeaderBytes(h) ==
  (IF h.nand THEN BigEndian(NAND_MAGIC, 4) ELSE <<>>)
    \o Covered(h) \o BigEndian(h.hdrcrc, 4)

HeaderSize(nand) == IF nand THEN 24 ELSE 16

crc32Of(message) == Through(update_crc32, INITIAL_REMAINDER, message)

(* Zeros up to a multiple of four.                                         *)
Padding(n) == [i \in 1 .. (4 - (n % 4)) % 4 |-> {}]
Padded(message) == message \o Padding(Len(message))

Init ==
  /\ argv \in CommandLines
  /\ input \in Programs
  /\ optind = 1
  /\ opts = NoOptions
  /\ hdr = NoHeader
  /\ pc = "parse"
  /\ rc = "none"
  /\ stream = <<>>
  /\ copied = 0
  /\ output = IF argv.same THEN input ELSE Missing
  /\ printed = Nothing

Exit(code) == pc' = "exit" /\ rc' = code
Continue(to) == pc' = to /\ rc' = rc

file == <<stream, copied, output>>

-----------------------------------------------------------------------------
(* parse_cmd_line.  -s must precede -l, and excludes -0 and -1.            *)
Option == argv.options[optind]

(* Slip: only the timing options look at -s.                               *)
RejectedLate ==
  CASE Option.name = "l"          -> ~ opts.s
    [] Option.name \in {"0", "1"} -> opts.s
    [] OTHER                      -> FALSE

Rejected ==
  CASE Option.name = "s"          -> opts.zero \/ opts.one
    [] Option.name = "l"          -> ~ opts.s
    [] Option.name \in {"0", "1"} -> opts.s
    [] OTHER                      -> FALSE

Accepted ==
  CASE Option.name = "s" -> [opts EXCEPT !.s = TRUE]
    [] Option.name = "l" -> [opts EXCEPT !.lVal = Option.value]
    [] Option.name = "0" -> [opts EXCEPT !.zero = TRUE,
                                         !.zeroVal = Option.value]
    [] Option.name = "1" -> [opts EXCEPT !.one = TRUE,
                                         !.oneVal = Option.value]
    [] OTHER             -> opts

ParseOption ==
  /\ pc = "parse" /\ optind \in DOMAIN argv.options
  /\ ~ Rejected
  /\ opts' = Accepted
  /\ optind' = optind + 1
  /\ UNCHANGED <<argv, input, hdr, pc, rc, file, printed>>

(* An option out of place, or too few names: the usage is printed.         *)
ParseFails ==
  /\ pc = "parse"
  /\ IF optind \in DOMAIN argv.options THEN Rejected ELSE argv.operands < 2
  /\ Exit("failed")
  /\ UNCHANGED <<argv, input, optind, opts, hdr, file, printed>>

ParseEnd ==
  /\ pc = "parse" /\ optind \notin DOMAIN argv.options
  /\ argv.operands >= 2
  /\ hdr' = IF opts.s
            THEN [hdr EXCEPT !.nand = FALSE, !.progld = opts.lVal]
            ELSE [hdr EXCEPT !.nand = TRUE, !.timing0 = opts.zeroVal,
                             !.timing1 = opts.oneVal]
  /\ Continue("length")
  /\ UNCHANGED <<argv, input, optind, opts, file, printed>>

(* get_binary_file_length: a NAND header counts words, its own included;   *)
(* an SPI header counts the bytes of the program without the padding.      *)
(* Slip: the header is not counted.                                        *)
LengthWithoutHeader ==
  IF hdr.nand THEN Number((Len(input) + 3) \div 4) ELSE Number(Len(input))

LengthField ==
  IF hdr.nand THEN Number((Len(input) + HeaderSize(TRUE) + 3) \div 4)
              ELSE Number(Len(input))

GetLength ==
  /\ pc = "length"
  /\ IF input = Missing
     THEN Exit("failed") /\ hdr' = hdr
     ELSE Continue("progcrc") /\ hdr' = [hdr EXCEPT !.len = LengthField]
  /\ UNCHANGED <<argv, input, optind, opts, file, printed>>

-----------------------------------------------------------------------------
(* do_csum: first the program, with the zeros it will be padded with, then *)
(* the header, which by then has the program's CRC in it.                  *)
CrcProgram ==
  /\ pc = "progcrc"
  /\ hdr' = [hdr EXCEPT !.progcrc = crc32Of(Padded(input))]
  /\ Continue("hdrcrc")
  /\ UNCHANGED <<argv, input, optind, opts, file, printed>>

CrcHeader ==
  /\ pc = "hdrcrc"
  /\ hdr' = [hdr EXCEPT !.hdrcrc = crc32Of(Covered(hdr))]
  /\ Continue("open")
  /\ UNCHANGED <<argv, input, optind, opts, file, printed>>

(* fopen fails, for the program (progcrc) or the output.                   *)
OpenFails ==
  /\ pc \in {"progcrc", "open"}
  /\ Exit("failed")
  /\ UNCHANGED <<argv, input, optind, opts, hdr, file, printed>>

-----------------------------------------------------------------------------
(* write_output_file.  Opening the output empties it, the program with it  *)
(* if the names are the same.  What is written stays in the stream until   *)
(* it is closed; some of it is on the disk earlier.                        *)
Program == IF argv.same THEN <<>> ELSE input

Written(n) == output' = SubSeq(stream', 1, n)

OpenOutput ==
  /\ pc = "open"
  /\ output' = <<>>
  /\ \/ Continue("header")
     \/ Exit("failed")      \* the program cannot be opened again
  /\ UNCHANGED <<argv, input, optind, opts, hdr, stream, copied, printed>>

WriteHeader ==
  /\ pc = "header"
  /\ stream' = HeaderBytes(hdr)
  /\ Continue("copy")
  /\ UNCHANGED <<argv, input, optind, opts, hdr, copied, output, printed>>

CopyChunk ==
  LET chunk == SubSeq(Program, copied + 1, Min({copied + Chunk, Len(Program)}))
  IN  /\ pc = "copy" /\ chunk # <<>>
      /\ stream' = stream \o chunk
      /\ copied' = copied + Len(chunk)
      /\ UNCHANGED <<argv, input, optind, opts, hdr, pc, rc, output, printed>>

PadByte ==
  /\ pc = "copy" /\ copied >= Len(Program)
  /\ copied % 4 # 0
  /\ stream' = Append(stream, {})
  /\ copied' = copied + 1
  /\ UNCHANGED <<argv, input, optind, opts, hdr, pc, rc, output, printed>>

(* An fwrite comes back short: what is in the stream may reach the disk.   *)
WriteFails ==
  /\ \/ pc = "header"
     \/ pc = "copy" /\ (copied < Len(Program) \/ copied % 4 # 0)
  /\ Exit("failed")
  /\ stream' = stream
  /\ \E n \in 0 .. Len(stream) : Written(n)
  /\ UNCHANGED <<argv, input, optind, opts, hdr, copied, printed>>

(* fclose writes what is left.  Its result is not looked at, and when it   *)
(* fails the end of the stream is lost.                                    *)
CloseOutput ==
  /\ pc = "copy" /\ copied >= Len(Program) /\ copied % 4 = 0
  /\ stream' = stream
  /\ \E n \in 0 .. Len(stream) : Written(n)
  /\ Continue("print")
  /\ UNCHANGED <<argv, input, optind, opts, hdr, copied, printed>>

-----------------------------------------------------------------------------
(* print_header reads as many bytes as the larger of the two headers has.  *)
ReadBack == IF Len(output) < HeaderSize(TRUE) THEN <<>> ELSE output

ByteValue ==
  [b \in Byte |-> [n \in Nat |->
     n * 2^ByteBits + FoldSet(LAMBDA i, m : m + 2^i, 0, b)]]
Value(bytes) == Through(ByteValue, 0, bytes)

(* Slip: the length of a NAND image is printed in words.                   *)
HeaderInWords(bytes) ==
  CASE bytes = <<>> -> [kind |-> "short", length |-> 0]
    [] bytes # <<>> /\ Head(bytes) = SPI_BOOT_SIG ->
         [kind |-> "SPI", length |-> Value(SubSeq(bytes, 2, 4))]
    [] bytes # <<>> /\ SubSeq(bytes, 1, 4) = BigEndian(NAND_MAGIC, 4) ->
         [kind |-> "NAND", length |-> Value(SubSeq(bytes, 5, 8))]
    [] OTHER -> [kind |-> "unrecognised", length |-> 0]

Header(bytes) ==
  CASE bytes = <<>> -> [kind |-> "short", length |-> 0]
    [] bytes # <<>> /\ Head(bytes) = SPI_BOOT_SIG ->
         [kind |-> "SPI", length |-> Value(SubSeq(bytes, 2, 4))]
    [] bytes # <<>> /\ SubSeq(bytes, 1, 4) = BigEndian(NAND_MAGIC, 4) ->
         [kind |-> "NAND", length |-> 4 * Value(SubSeq(bytes, 5, 8))]
    [] OTHER -> [kind |-> "unrecognised", length |-> 0]

(* Whatever it finds, main returns 0 after it.                             *)
PrintHeader ==
  /\ pc = "print"
  /\ printed' \in {Header(ReadBack), Nothing}   \* or fopen fails
  /\ Exit("ok")
  /\ UNCHANGED <<argv, input, optind, opts, hdr, file>>

Next ==
  \/ ParseOption \/ ParseFails \/ ParseEnd
  \/ GetLength \/ CrcProgram \/ CrcHeader \/ OpenFails
  \/ OpenOutput \/ WriteHeader \/ CopyChunk \/ PadByte \/ WriteFails
  \/ CloseOutput \/ PrintHeader

Spec == Init /\ [][Next]_vars

-----------------------------------------------------------------------------
(***************************************************************************)
(* Properties.                                                             *)
(***************************************************************************)

TypeOK ==
  /\ optind \in 1 .. Len(argv.options) + 1
  /\ opts \in [s : BOOLEAN, zero : BOOLEAN, one : BOOLEAN,
               zeroVal : Remainder, oneVal : Remainder, lVal : Remainder]
  /\ hdr \in [nand : BOOLEAN, len : Remainder, timing0 : Remainder,
              timing1 : Remainder, progld : Remainder, progcrc : Remainder,
              hdrcrc : Remainder]
  /\ pc \in {"parse", "length", "progcrc", "hdrcrc", "open", "header", "copy",
             "print", "exit"}
  /\ rc \in {"none", "ok", "failed"}
  /\ stream \in Seq(Byte)
  /\ copied \in Nat
  /\ output \in Seq(Byte) \cup {Missing}
  /\ printed.kind \in {"none", "short", "SPI", "NAND", "unrecognised"}
  /\ printed.length \in Nat

(* "Write the header and then append the binary file to the output file"   *)
(* (main): an output that bh reported done is one the boot ROM can check   *)
(* with the loader's own CRC routine.  Its header and all behind it have   *)
(* the CRCs it says, its length is right, and the program is there; what   *)
(* is printed, if anything, is its kind and length, but for an SPI image   *)
(* shorter than a NAND header.  Two things spoil it unreported, a failing  *)
(* fclose and equal names.                                                 *)
Done == rc = "ok" /\ output = stream /\ ~ argv.same

PrintedIsWritten ==
  CASE printed.kind = "NAND"  -> hdr.nand /\ printed.length = Len(output)
    [] printed.kind = "SPI"   -> ~ hdr.nand /\ printed.length = Len(input)
    [] printed.kind = "short" -> ~ hdr.nand /\ Len(input) <= 4
    [] OTHER                  -> printed = Nothing

ImageIsWhole ==
  LET size  == HeaderSize(hdr.nand)
      start == IF hdr.nand THEN 5 ELSE 1
      body  == SubSeq(output, size + 1, Len(output))
      Field(i, n) == SubSeq(output, i, i + n - 1)
  IN  /\ Field(size - 3, 4) = BigEndian(crcFast(Field(start, size - 3 - start)), 4)
      /\ Field(size - 7, 4) = BigEndian(crcFast(body), 4)
      /\ Len(body) % 4 = 0 /\ IsPrefix(input, body)

LengthIsWritten ==
  IF hdr.nand THEN 4 * Value(SubSeq(output, 5, 8)) = Len(output)
              ELSE Value(SubSeq(output, 2, 4)) = Len(input)

OutputIsSound == Done => ImageIsWhole /\ LengthIsWritten /\ PrintedIsWritten

(* "-s must be first option" (print_usage): in whatever order options come *)
(* and however often, one that is accepted is in the output's header; none *)
(* is dropped because another kind of image is made after all.             *)
LastOf(i) ==
  \A j \in DOMAIN argv.options :
    j > i => argv.options[j].name # argv.options[i].name

NoOptionLost ==
  rc = "ok" =>
    \A i \in DOMAIN argv.options :
      LET o == argv.options[i]
      IN  /\ o.name \in {"s", "l"} => ~ hdr.nand
          /\ o.name \in {"0", "1"} => hdr.nand
          /\ o.name = "l" /\ LastOf(i) => hdr.progld = o.value
          /\ o.name = "0" /\ LastOf(i) => hdr.timing0 = o.value
          /\ o.name = "1" /\ LastOf(i) => hdr.timing1 = o.value

(* The tool shifts right through a table of its own; the loader shifts     *)
(* left and reflects; crc32_le takes words where it can, wherever the      *)
(* message lies, and may take it in pieces ("or the previous crc32 value   *)
(* if computing incrementally").  All come to the same.                    *)
RoutinesAgree ==
  pc = "hdrcrc" =>
    /\ hdr.progcrc = crcFast(Padded(input))
    /\ crcFast(input) = crcSlow(input)
    /\ \A addr \in 0 .. 3, n \in 0 .. Len(input) :
         crc32_le(crc32_le(INITIAL_REMAINDER, SubSeq(input, 1, n), addr),
                  SubSeq(input, n + 1, Len(input)), addr + n)
           = crcFast(input)

(* The unit test of crc32_old.c, "No failures expected", which is never    *)
(* built: appended to a message its CRC cancels, however it is taken in    *)
(* pieces, and the CRC is linear, in both bit orders.  All widths of the   *)
(* tables come to the same.                                                *)
SelfTest ==
  /\ unit_test(input, Reverse(input))
  /\ \A n \in {1, 2, 4} :
       /\ crc32_le_narrow(n, INITIAL_REMAINDER, input) = crcFast(input)
       /\ crc32_be_narrow(n, INITIAL_REMAINDER, input)
            = crc32_be(INITIAL_REMAINDER, input, 0)

(* Damage to one byte, whichever its bits, or to two bits as far apart as  *)
(* a word, is noticed by crcFast.                                          *)
Flip(message, i, bits) == [message EXCEPT ![i] = SymDiff(@, bits)]

BurstDetected ==
  \A i \in DOMAIN input :
    /\ \A bits \in Byte \ {{}} :
         crcFast(Flip(input, i, bits)) # crcFast(input)
    /\ \A j \in DOMAIN input, b, c \in Bits(ByteBits) :
         i < j /\ j < i + 4 =>
           crcFast(Flip(Flip(input, i, {b}), j, {c})) # crcFast(input)

(* What NandBoot takes for granted of a CRC: the unit test of its routines *)
(* passes, and damage is noticed.                                          *)
CrcsAreChecks ==
  pc = "hdrcrc" /\ argv.options = <<>> => SelfTest /\ BurstDetected
=============================================================================
