----------------------------- MODULE DramDetect -----------------------------
(***************************************************************************)
(* Finding the memory: c_auto_ddr() of boot/soc_landshark/dram_ram.c, with *)
(* the calibration it asks of the controller (ddr_scl_run) and the memory  *)
(* test it believes (ram_verify_bitflip, ram_pattern_verify).              *)
(*                                                                         *)
(* A word is the set of its one-bits.  The memory at the other end of the  *)
(* bus is not the repository's: Fault says what may be wrong with it.  A   *)
(* step is one write or one read of the test.                              *)
(***************************************************************************)
EXTENDS Naturals, Sequences, FiniteSets

CONSTANTS
  Width,             \* data lines: bits of a word (32)
  Size,              \* words the memory has
  Granularity,       \* words from one tested address to the next (1024)
  Unit,              \* bytes of address space a word stands for (4)
  Configs,           \* what the loops over chip size, chip width and bus
                     \* width try, in order: their cS, cW and bW
  SYS_MEM_MAX_SIZE,  \* in words
  Faults             \* what may be wrong with the memory

Bits == 0 .. Width - 1
Word == SUBSET Bits
Address == 0 .. Size - 1

(* Chips in parallel make up the bus; each of its bytes has a lane, and a  *)
(* narrow bus uses the lower two.                                          *)
chpSize(c) == 2 ^ (25 + c.cS)
chpWidth == <<4, 8, 16>>
busWidth == <<16, 32>>
totalSize(c) ==
  (chpSize(c) * (busWidth[c.bW + 1] \div chpWidth[c.cW + 1])) \div Unit
Lanes == 0 .. 3
column_mask(c) == 0 .. 2 * c.bW + 1

(* Nothing; a data line stuck at 0 or 1; two data lines shorted, pulling   *)
(* to 0 or 1; a cell that keeps its value; an address line (of weight k)   *)
(* that is not connected; a byte lane that cannot be calibrated.           *)
Fault ==
  [kind : {"none"}]
    \cup [kind : {"stuck"}, bit : Bits, at : {0, 1}]
    \cup [kind : {"short"}, at : {0, 1},
          bits : {b \in SUBSET Bits : Cardinality(b) = 2}]
    \cup [kind : {"cell"}, k : Address]
    \cup [kind : {"address"}, k : {2 ^ n : n \in 0 .. Size} \cap Address]
    \cup [kind : {"lane"}, lane : Lanes]

ASSUME DramAssumption ==
  /\ Width \in Nat \ {0, 1} /\ Size \in Nat \ {0}
  /\ Granularity \in Nat \ {0}
  /\ Unit \in Nat \ {0}
  /\ SYS_MEM_MAX_SIZE \in Nat
  /\ Faults \subseteq Fault
  /\ Configs \in Seq([cS : 0 .. 3, cW : 0 .. 2, bW : {0, 1}])
  /\ \A c \in DOMAIN Configs :
       /\ totalSize(Configs[c]) \in Nat \ {0}
       /\ totalSize(Configs[c]) % Granularity = 0

VARIABLES
  fault,    \* what is wrong with this memory
  mem,      \* contents of its cells
  try,      \* index of the configuration that is tried
  dram,     \* "try", "scl", "write", "read"; "ok" (0) or "failed" (1)
  i,        \* bit of the pattern
  inverse,  \* is it the turn of the inverse pattern?
  p32       \* word the test accesses next

dramVars == <<fault, mem, try, dram, i, inverse, p32>>

DramTypeOK ==
  /\ fault \in Faults
  /\ mem \in [Address -> Word]
  /\ try \in 1 .. Len(Configs) + 1
  /\ dram \in {"try", "scl", "write", "read", "ok", "failed"}
  /\ i \in Bits
  /\ inverse \in BOOLEAN
  /\ p32 \in Nat

(* Memory comes up with one of two contents.                               *)
PowerUpContents == {[a \in Address |-> w] : w \in {{}, Bits}}

DramInit ==
  /\ fault \in Faults
  /\ mem \in PowerUpContents
  /\ try = 1
  /\ dram = "try"
  /\ i = 0
  /\ inverse = FALSE
  /\ p32 = 0

-----------------------------------------------------------------------------
(* The memory: what the data lines make of a word, and the cell an address *)
(* selects.                                                                *)
OnLines(w) ==
  CASE fault.kind = "stuck" ->
         IF fault.at = 1 THEN w \cup {fault.bit} ELSE w \ {fault.bit}
    [] fault.kind = "short" ->
         CASE fault.at = 1 /\ fault.bits \cap w # {} -> w \cup fault.bits
           [] fault.at = 0 /\ ~ fault.bits \subseteq w -> w \ fault.bits
           [] OTHER -> w
    [] OTHER -> w

Cell(a) ==
  LET c == a % Size
  IN  IF fault.kind = "address" /\ (c \div fault.k) % 2 = 1
      THEN c - fault.k ELSE c

Keeps(c) == fault.kind = "cell" /\ fault.k = c

Stored(a, w) ==
  [mem EXCEPT ![Cell(a)] = IF Keeps(Cell(a)) THEN @ ELSE OnLines(w)]
Fetched(a) == OnLines(mem[Cell(a)])

-----------------------------------------------------------------------------
config == Configs[try]

NextTry ==
  /\ try' = try + 1
  /\ dram' = "try"
  /\ UNCHANGED <<fault, mem, i, inverse, p32>>

(* Slip: a configuration beyond the address space ends the search.         *)
SkipTooLargeFails ==
  /\ dram = "try" /\ try <= Len(Configs)
  /\ totalSize(config) > SYS_MEM_MAX_SIZE
  /\ dram' = "failed"
  /\ UNCHANGED <<fault, mem, try, i, inverse, p32>>

SkipTooLarge ==
  /\ dram = "try" /\ try <= Len(Configs)
  /\ totalSize(config) > SYS_MEM_MAX_SIZE
  /\ NextTry

(* Reset, PHY and controller are set up for the configuration.             *)
Fits == try <= Len(Configs) /\ totalSize(config) <= SYS_MEM_MAX_SIZE

SetUp ==
  /\ dram = "try" /\ Fits
  /\ dram' = "scl"
  /\ UNCHANGED <<fault, mem, try, i, inverse, p32>>

Exhausted ==
  /\ dram = "try" /\ try = Len(Configs) + 1
  /\ dram' = "failed"
  /\ UNCHANGED <<fault, mem, try, i, inverse, p32>>

(* The result bits of all lanes of the bus, and of no other, must be set.  *)
ddr_scl_result_ok ==
  ~ (fault.kind = "lane" /\ fault.lane \in column_mask(config))

ResultRead(ok) ==
  /\ dram = "scl"
  /\ IF ok
     THEN /\ dram' = "write"
          /\ i' = 0
          /\ inverse' = FALSE
          /\ p32' = 0
          /\ UNCHANGED <<fault, mem, try>>
     ELSE NextTry

Calibrate == ResultRead(ddr_scl_result_ok)

(* 1 << i, then its complement.                                            *)
Pattern == IF inverse THEN Bits \ {i} ELSE {i}

(* Slip: a sweep that reads is over at once.                               *)
SweepEndsEarly == dram = "read" \/ p32 + Granularity >= totalSize(config)

(* The end of a sweep is looked at after the access.                       *)
SweepEnds == p32 + Granularity >= totalSize(config)

Written ==
  /\ dram = "write"
  /\ dram' = IF SweepEnds THEN "read" ELSE dram
  /\ p32' = IF SweepEnds THEN 0 ELSE p32 + Granularity
  /\ UNCHANGED <<fault, try, i, inverse>>

WriteWord == Written /\ mem' = Stored(p32, Pattern)

(* Slip: only the ones of the pattern are compared.                        *)
MatchesMask(word) == Pattern \subseteq word

Matches(word) == word = Pattern

(* Slip: the loop runs once too often.                                     *)
LastBitPast == i = Width

(* The loop over the bits is in its last round.                            *)
LastBit == i = Width - 1

(* What happens with the word that was read, but to the memory.            *)
WordRead(word) ==
  /\ dram = "read"
  /\ IF ~ Matches(word)
     THEN try' = try + 1 /\ dram' = "try" /\ UNCHANGED <<i, inverse, p32>>
     ELSE IF ~ SweepEnds
     THEN p32' = p32 + Granularity /\ UNCHANGED <<try, dram, i, inverse>>
     ELSE /\ p32' = 0
          /\ inverse' = ~ inverse
          /\ i' = IF inverse /\ ~ LastBit THEN i + 1 ELSE i
          /\ dram' = IF inverse /\ LastBit THEN "ok" ELSE "write"
          /\ UNCHANGED try
  /\ UNCHANGED fault

ReadWord == WordRead(Fetched(p32)) /\ UNCHANGED mem

DramNext ==
  \/ SkipTooLarge \/ SetUp \/ Exhausted
  \/ Calibrate
  \/ WriteWord
  \/ ReadWord

DramSpec == DramInit /\ [][DramNext]_dramVars

-----------------------------------------------------------------------------
(***************************************************************************)
(* Properties.                                                             *)
(***************************************************************************)

(* Memory that is reported good has sound data lines ("data lines are      *)
(* verified with (1 << i) pattern"), sound cells wherever the test looks   *)
(* within the reported size, and calibrated lanes.                         *)
GoodIsSound ==
  dram = "ok" =>
    CASE fault.kind \in {"stuck", "short"} -> FALSE
      [] fault.kind = "cell" -> fault.k % Granularity # 0
                                  \/ fault.k >= totalSize(config)
      [] fault.kind = "lane" -> fault.lane \notin column_mask(config)
      [] OTHER -> TRUE
=============================================================================
