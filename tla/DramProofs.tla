----------------------------- MODULE DramProofs -----------------------------
(***************************************************************************)
(* GoodIsSound of DramDetect for every width, size, granularity and search *)
(* order: memory that the loader reports good has no fault the test is     *)
(* meant to find.                                                          *)
(*                                                                         *)
(* The invariant says how far the test can get with each fault: with a bad *)
(* data line not past the pattern of its bit, with a bad cell not past its *)
(* first sweep, with a bad lane not past the calibration.                  *)
(*                                                                         *)
(* The second part shows that the register accesses of DramSetUp implement *)
(* the search, and that the words they store are those the chips got; the  *)
(* third what is in the cache when the test has ended; the fourth that     *)
(* those words tell the controller of the memory the test sweeps: each     *)
(* access does what it says and undoes none before it, and a field of a    *)
(* word is the number that was put into it.  The last part shows that no   *)
(* such number reaches past the end of its word.                           *)
(***************************************************************************)
EXTENDS DramSetUp, FiniteSetTheorems, TLAPS

Testing == dram \in {"write", "read"}

(* A configuration is being tried, or was found good.                      *)
ConfigTried == dram \in {"scl", "write", "read", "ok"} => try \in DOMAIN Configs

LaneCalibrated ==
  fault.kind = "lane" /\ dram \in {"write", "read", "ok"}
    => fault.lane \notin column_mask(config)

StuckStops ==
  fault.kind = "stuck" =>
    /\ dram # "ok"
    /\ Testing => /\ i <= fault.bit
                  /\ i = fault.bit /\ fault.at = 0 => ~ inverse

ShortStops ==
  fault.kind = "short" =>
    /\ dram # "ok"
    /\ Testing => \A j \in fault.bits : i <= j /\ (i = j => ~ inverse)

(* The cell keeps what it came up with.                                    *)
CellKeeps == fault.kind = "cell" => mem[fault.k] \in {{}, Bits}

OnGrid(a) == \E n \in Nat : a = n * Granularity

CellSeen ==
  /\ fault.kind = "cell"
  /\ fault.k % Granularity = 0
  /\ fault.k < totalSize(config)

CellStops ==
  CellSeen =>
    /\ dram # "ok"
    /\ Testing => /\ i = 0 /\ ~ inverse
                  /\ OnGrid(p32)
                  /\ dram = "read" => p32 <= fault.k

TInv == DramTypeOK /\ ConfigTried
Stops == LaneCalibrated /\ StuckStops /\ ShortStops /\ CellKeeps /\ CellStops

-----------------------------------------------------------------------------
(* What the code may rely on of its configurations.                        *)
LEMMA ConfigFacts ==
  /\ Len(Configs) \in Nat
  /\ DOMAIN Configs = 1 .. Len(Configs)
  /\ \A c \in DOMAIN Configs : totalSize(Configs[c]) \in Nat \ {0}
BY DramAssumption

LEMMA CellInRange ==
  ASSUME DramTypeOK, NEW a \in Nat
  PROVE  Cell(a) \in Address
<1> DEFINE c == a % Size
<1>1. Size \in Nat \ {0} /\ c \in Address
  BY DramAssumption DEF Address
<1>2. CASE fault.kind = "address" /\ (c \div fault.k) % 2 = 1
  <2>1. fault \in Fault
    BY DramAssumption DEF DramTypeOK
  <2>2. fault.k \in Address
    BY <1>2, <2>1 DEF Fault
  <2>3. fault.k \in Nat /\ c \in Nat
    BY <2>2, <1>1 DEF Address
  <2>4. fault.k <= c
    <3>1. SUFFICES ASSUME c < fault.k PROVE FALSE
      BY <2>3
    <3>2. c \div fault.k = 0
      BY <2>3, <3>1
    <3> QED
      BY <1>2, <3>2
  <2> QED
    BY <1>1, <1>2, <2>3, <2>4 DEF Cell, Address
<1>3. CASE ~ (fault.kind = "address" /\ (c \div fault.k) % 2 = 1)
  BY <1>1, <1>3 DEF Cell
<1> QED
  BY <1>2, <1>3

LEMMA OnLinesTyped ==
  ASSUME DramTypeOK, NEW w \in Word
  PROVE  OnLines(w) \in Word
<1>1. fault \in Fault
  BY DramAssumption DEF DramTypeOK
<1>2. fault.kind = "stuck" => fault.bit \in Bits
  BY <1>1 DEF Fault
<1>3. fault.kind = "short" => fault.bits \subseteq Bits
  BY <1>1 DEF Fault
<1> QED
  BY <1>2, <1>3 DEF OnLines, Word

LEMMA PatternTyped ==
  ASSUME DramTypeOK
  PROVE  Pattern \in Word
BY DEF DramTypeOK, Pattern, Word

-----------------------------------------------------------------------------
LEMMA InitTyped == DramInit => TInv
<1> SUFFICES ASSUME DramInit PROVE TInv
  OBVIOUS
<1>1. mem \in [Address -> Word]
  BY DEF DramInit, PowerUpContents, Word
<1>2. 0 \in Bits
  BY DramAssumption DEF Bits
<1>3. try \in 1 .. Len(Configs) + 1
  BY ConfigFacts DEF DramInit
<1>4. inverse \in BOOLEAN
  BY DEF DramInit
<1> QED
  BY <1>1, <1>2, <1>3, <1>4 DEF DramInit, TInv, DramTypeOK, ConfigTried

LEMMA StepTyped == TInv /\ [DramNext]_dramVars => TInv'
<1> SUFFICES ASSUME TInv, [DramNext]_dramVars PROVE TInv'
  OBVIOUS
<1> USE ConfigFacts
<1> USE DEF TInv, ConfigTried, DramTypeOK
<1>0. 0 \in Bits /\ Width \in Nat /\ Granularity \in Nat
  BY DramAssumption DEF Bits
<1>1. CASE SkipTooLarge
  BY <1>1 DEF SkipTooLarge, NextTry
<1>2. CASE SetUp
  BY <1>2 DEF SetUp, Fits
<1>3. CASE Exhausted
  BY <1>3 DEF Exhausted
<1>4. CASE Calibrate
  <2>1. dram = "scl" /\ try \in DOMAIN Configs
    BY <1>4 DEF Calibrate, ResultRead
  <2>2. inverse' \in BOOLEAN
    BY <1>4 DEF Calibrate, ResultRead, NextTry
  <2>3. i' \in Bits /\ p32' \in Nat
    BY <1>0, <1>4 DEF Calibrate, ResultRead, NextTry
  <2>4. \/ try' = try /\ dram' = "write"
        \/ try' = try + 1 /\ dram' = "try"
    BY <1>4 DEF Calibrate, ResultRead, NextTry
  <2>5. UNCHANGED <<fault, mem>>
    BY <1>4 DEF Calibrate, ResultRead, NextTry
  <2> QED
    BY <2>1, <2>2, <2>3, <2>4, <2>5
<1>5. CASE WriteWord
  <2>1. try \in DOMAIN Configs /\ UNCHANGED <<fault, try, i, inverse>>
    BY <1>5 DEF WriteWord, Written
  <2>2. dram' \in {"write", "read"} /\ p32' \in Nat
    BY <1>0, <1>5 DEF WriteWord, Written
  <2>3. Pattern \in Word
    BY PatternTyped
  <2>4. OnLines(Pattern) \in Word
    BY <2>3, OnLinesTyped
  <2>5. mem' \in [Address -> Word]
    <3>1. mem' = [mem EXCEPT ![Cell(p32)] =
                    IF Keeps(Cell(p32)) THEN @ ELSE OnLines(Pattern)]
      BY <1>5 DEF WriteWord, Stored
    <3>2. Cell(p32) \in Address
      BY CellInRange
    <3> QED
      BY <2>4, <3>1, <3>2
  <2> QED
    BY <2>1, <2>2, <2>5
<1>6. CASE ReadWord
  <2>1. dram = "read" /\ try \in DOMAIN Configs /\ UNCHANGED <<fault, mem>>
    BY <1>6 DEF ReadWord, WordRead
  <2>2. i' \in Bits
    BY <1>0, <1>6 DEF ReadWord, WordRead, LastBit, Bits
  <2>3. inverse' \in BOOLEAN
    BY <1>6 DEF ReadWord, WordRead
  <2>4. /\ p32' \in Nat
        /\ dram' \in {"try", "read", "write", "ok"}
        /\ \/ try' = try
           \/ try' = try + 1 /\ dram' = "try"
    BY <1>0, <1>6 DEF ReadWord, WordRead
  <2> QED
    BY <2>1, <2>2, <2>3, <2>4
<1>7. CASE UNCHANGED dramVars
  BY <1>7 DEF dramVars
<1> QED
  BY <1>1, <1>2, <1>3, <1>4, <1>5, <1>6, <1>7 DEF DramNext

(* Types of the search for the memory, for every memory and configuration. *)
THEOREM TypeTheorem == DramSpec => []DramTypeOK
<1>1. DramSpec => []TInv
  BY InitTyped, StepTyped, PTL DEF DramSpec
<1> QED
  BY <1>1, PTL DEF TInv

-----------------------------------------------------------------------------
(* What the words read through a fault can never be.                       *)
LEMMA StuckMismatch ==
  ASSUME TInv, fault.kind = "stuck", Testing, NEW w \in Word,
         StuckStops, i = fault.bit, Matches(OnLines(w))
  PROVE  fault.at = 1 /\ ~ inverse
<1>1. fault \in Fault
  BY DramAssumption DEF TInv, DramTypeOK
<1>2. fault.at \in {0, 1} /\ fault.bit \in Bits
  BY <1>1 DEF Fault
<1>3. OnLines(w) = IF fault.at = 1 THEN w \cup {fault.bit} ELSE w \ {fault.bit}
  BY DEF OnLines
<1>4. inverse => fault.bit \notin Pattern
  BY DEF Pattern
<1>5. ~ inverse => fault.bit \in Pattern
  BY DEF Pattern
<1>6. OnLines(w) = Pattern
  BY DEF Matches
<1>7. CASE fault.at = 1
  <2>1. fault.bit \in OnLines(w)
    BY <1>3, <1>7
  <2> QED
    BY <1>4, <1>6, <1>7, <2>1
<1>8. CASE fault.at = 0
  <2>1. fault.bit \notin OnLines(w)
    BY <1>3, <1>8
  <2>2. ~ inverse
    BY <1>8 DEF StuckStops
  <2> QED
    BY <1>5, <1>6, <2>1, <2>2
<1> QED
  BY <1>2, <1>7, <1>8

LEMMA ShortMismatch ==
  ASSUME TInv, fault.kind = "short", Testing, NEW w \in Word,
         NEW j \in fault.bits, i = j, ~ inverse
  PROVE  ~ Matches(OnLines(w))
<1>1. fault \in Fault
  BY DramAssumption DEF TInv, DramTypeOK
<1>2. /\ fault.at \in {0, 1} /\ fault.bits \subseteq Bits
      /\ Cardinality(fault.bits) = 2
  BY <1>1 DEF Fault
<1>3. PICK k \in fault.bits : k # j
  <2>1. SUFFICES ASSUME fault.bits = {j} PROVE FALSE
    OBVIOUS
  <2> QED
    <3>1. Cardinality({j}) = 1
      BY FS_Singleton
    <3> QED
      BY <1>2, <2>1, <3>1
<1>4. Pattern = {j}
  BY DEF Pattern
<1>5. OnLines(w) = CASE fault.at = 1 /\ fault.bits \cap w # {} -> w \cup fault.bits
                     [] fault.at = 0 /\ ~ fault.bits \subseteq w -> w \ fault.bits
                     [] OTHER -> w
  BY DEF OnLines
<1>6. CASE fault.at = 1 /\ fault.bits \cap w # {}
  <2>1. OnLines(w) = w \cup fault.bits
    BY <1>5, <1>6
  <2> QED
    BY <1>3, <1>4, <2>1 DEF Matches
<1>7. CASE fault.at = 1 /\ fault.bits \cap w = {}
  <2>1. OnLines(w) = w
    BY <1>5, <1>7
  <2> QED
    BY <1>4, <1>7, <2>1 DEF Matches
<1>8. CASE fault.at = 0 /\ ~ fault.bits \subseteq w
  <2>1. OnLines(w) = w \ fault.bits
    BY <1>5, <1>8
  <2> QED
    BY <1>4, <2>1 DEF Matches
<1>9. CASE fault.at = 0 /\ fault.bits \subseteq w
  <2>1. OnLines(w) = w
    BY <1>5, <1>9
  <2> QED
    BY <1>3, <1>4, <1>9, <2>1 DEF Matches
<1> QED
  BY <1>2, <1>6, <1>7, <1>8, <1>9

(* The next word of the grid is at most the cell, if there is one.         *)
LEMMA GridStep ==
  ASSUME NEW a \in Nat, NEW k \in Nat, OnGrid(a), k % Granularity = 0, a < k
  PROVE  a + Granularity <= k
<1> DEFINE G == Granularity
<1>1. G \in Nat \ {0}
  BY DramAssumption
<1>2. PICK n \in Nat : a = n * G
  BY DEF OnGrid
<1>3. k \div G \in Nat /\ k = (k \div G) * G
  BY <1>1
<1> HIDE DEF G
<1>4. PICK m \in Nat : k = m * G
  BY <1>3 DEF G
<1>5. n < m
  BY <1>1, <1>2, <1>4
<1>6. (n + 1) * G <= m * G
  BY <1>1, <1>5
<1>7. (n + 1) * G = n * G + G
  BY <1>1
<1> QED
  BY <1>1, <1>2, <1>4, <1>6, <1>7 DEF G

LEMMA GridNext ==
  ASSUME NEW a \in Nat, OnGrid(a)
  PROVE  OnGrid(a + Granularity)
<1>1. PICK n \in Nat : a = n * Granularity
  BY DEF OnGrid
<1>2. a + Granularity = (n + 1) * Granularity
  BY <1>1, DramAssumption
<1> QED
  BY <1>2 DEF OnGrid

LEMMA GridStart == OnGrid(0)
<1>1. 0 = 0 * Granularity
  BY DramAssumption
<1> QED
  BY <1>1 DEF OnGrid

(* The cell is not what the first pattern wrote.                           *)
LEMMA CellMismatch ==
  ASSUME TInv, CellKeeps, fault.kind = "cell", i = 0, ~ inverse
  PROVE  ~ Matches(Fetched(fault.k))
<1>1. fault \in Fault
  BY DramAssumption DEF TInv, DramTypeOK
<1>2. fault.k \in Address
  BY <1>1 DEF Fault
<1>3. Cell(fault.k) = fault.k
  <2>1. fault.k \in Nat /\ Size \in Nat \ {0} /\ fault.k < Size
    BY <1>2, DramAssumption DEF Address
  <2>2. fault.k % Size = fault.k
    BY <2>1
  <2> QED
    BY <2>2 DEF Cell
<1>4. Fetched(fault.k) \in {{}, Bits}
  BY <1>3 DEF Fetched, OnLines, CellKeeps
<1>5. 0 \in Bits /\ 1 \in Bits
  BY DramAssumption DEF Bits
<1>6. Pattern = {0}
  BY DEF Pattern
<1> QED
  BY <1>4, <1>5, <1>6 DEF Matches

-----------------------------------------------------------------------------
LEMMA InitHolds == DramInit => Stops
<1> SUFFICES ASSUME DramInit PROVE Stops
  OBVIOUS
<1>1. dram = "try"
  BY DEF DramInit
<1>2. CellKeeps
  <2>1. SUFFICES ASSUME fault.kind = "cell" PROVE mem[fault.k] \in {{}, Bits}
    BY DEF CellKeeps
  <2>2. fault \in Fault
    BY DramAssumption DEF DramInit
  <2>3. fault.k \in Address
    BY <2>1, <2>2 DEF Fault
  <2> QED
    BY <2>3 DEF DramInit, PowerUpContents
<1> QED
  BY <1>1, <1>2 DEF Stops, LaneCalibrated, StuckStops, ShortStops, CellStops, Testing

(* Outside the test and without a verdict only the cell's contents matter. *)
LEMMA StepElsewhere ==
  ASSUME CellKeeps, UNCHANGED <<fault, mem>>, dram' \in {"try", "scl", "failed"}
  PROVE  Stops'
BY DEF Stops, LaneCalibrated, StuckStops, ShortStops, CellKeeps, CellStops, Testing

LEMMA StepCalibrate ==
  ASSUME TInv, Stops, Calibrate
  PROVE  Stops'
<1>1. CASE ~ ddr_scl_result_ok
  <2>1. UNCHANGED <<fault, mem>> /\ dram' = "try"
    BY <1>1 DEF Calibrate, ResultRead, NextTry
  <2> QED
    BY <2>1, StepElsewhere DEF Stops
<1>2. CASE ddr_scl_result_ok
  <2>1. /\ UNCHANGED <<fault, mem, try>>
        /\ dram' = "write" /\ i' = 0 /\ p32' = 0
    BY <1>2 DEF Calibrate, ResultRead
  <2>2. ~ inverse'
    BY <1>2 DEF Calibrate, ResultRead
  <2>3. fault \in Fault
    BY DramAssumption DEF TInv, DramTypeOK
  <2>4. LaneCalibrated'
    BY <1>2, <2>1 DEF LaneCalibrated, ddr_scl_result_ok, config
  <2>5. StuckStops'
    <3>1. fault.kind = "stuck" => fault.bit \in Nat
      BY <2>3 DEF Fault, Bits
    <3> QED
      BY <2>1, <2>2, <3>1 DEF StuckStops, Testing
  <2>6. ShortStops'
    <3>1. fault.kind = "short" => fault.bits \subseteq Nat
      BY <2>3 DEF Fault, Bits
    <3> QED
      BY <2>1, <2>2, <3>1 DEF ShortStops, Testing
  <2>7. CellKeeps' /\ CellStops'
    <3>1. OnGrid(p32')
      BY <2>1, GridStart
    <3> QED
      BY <2>1, <2>2, <3>1 DEF Stops, CellKeeps, CellStops, CellSeen, Testing, OnGrid
  <2> QED
    BY <2>4, <2>5, <2>6, <2>7 DEF Stops
<1> QED
  BY <1>1, <1>2

LEMMA StepWrite ==
  ASSUME TInv, Stops, WriteWord
  PROVE  Stops'
<1> USE DEF Stops
<1>1. /\ dram = "write" /\ dram' \in {"write", "read"}
      /\ UNCHANGED <<fault, try, i, inverse>>
  BY DEF WriteWord, Written
<1>2. LaneCalibrated' /\ StuckStops' /\ ShortStops'
  BY <1>1 DEF LaneCalibrated, StuckStops, ShortStops, Testing, config
<1>3. CellKeeps'
  <2>1. SUFFICES ASSUME fault.kind = "cell" PROVE mem'[fault.k] = mem[fault.k]
    BY <1>1 DEF CellKeeps
  <2>2. Cell(p32) \in Address /\ fault.k \in Address
    <3>1. fault \in Fault
      BY DramAssumption DEF TInv, DramTypeOK
    <3> QED
      BY <2>1, <3>1, CellInRange DEF TInv, DramTypeOK, Fault
  <2>3. mem' = [mem EXCEPT ![Cell(p32)] =
                  IF Keeps(Cell(p32)) THEN @ ELSE OnLines(Pattern)]
    BY DEF WriteWord, Stored
  <2> QED
    BY <2>1, <2>2, <2>3 DEF TInv, DramTypeOK, Keeps
<1>4. CellStops'
  <2>1. SUFFICES ASSUME CellSeen
                 PROVE  OnGrid(p32') /\ (dram' = "read" => p32' <= fault.k)
    BY <1>1 DEF CellStops, CellSeen, Testing, config, OnGrid
  <2>2. OnGrid(p32) /\ p32 \in Nat
    BY <1>1, <2>1 DEF CellStops, Testing, TInv, DramTypeOK
  <2>3. fault.k \in Nat
    <3>1. fault \in Fault
      BY DramAssumption DEF TInv, DramTypeOK
    <3> QED
      BY <2>1, <3>1 DEF CellSeen, Fault, Address
  <2>4. \/ p32' = 0
        \/ p32' = p32 + Granularity /\ dram' = "write"
    BY <1>1 DEF WriteWord, Written
  <2> QED
    BY <2>2, <2>3, <2>4, GridStart, GridNext
<1> QED
  BY <1>2, <1>3, <1>4

LEMMA StepRead ==
  ASSUME TInv, Stops, ReadWord
  PROVE  Stops'
<1> USE DEF Stops
<1> DEFINE word == Fetched(p32)
<1>1. dram = "read" /\ UNCHANGED <<fault, mem>>
  BY DEF ReadWord, WordRead
<1>2. CASE ~ Matches(word)
  <2>1. dram' = "try"
    BY <1>2 DEF ReadWord, WordRead
  <2> QED
    BY <1>1, <2>1, StepElsewhere
<1>3. CASE Matches(word) /\ ~ SweepEnds
  <2>1. /\ UNCHANGED <<try, dram, i, inverse>>
        /\ p32' = p32 + Granularity
    BY <1>3 DEF ReadWord, WordRead
  <2>2. LaneCalibrated' /\ StuckStops' /\ ShortStops' /\ CellKeeps'
    BY <1>1, <2>1
       DEF LaneCalibrated, StuckStops, ShortStops, CellKeeps, Testing, config
  <2>3. CellStops'
    <3>1. SUFFICES ASSUME CellSeen PROVE OnGrid(p32') /\ p32' <= fault.k
      BY <1>1, <2>1 DEF CellStops, CellSeen, Testing, config, OnGrid
    <3>2. fault.k \in Nat
      <4>1. fault \in Fault
        BY DramAssumption DEF TInv, DramTypeOK
      <4> QED
        BY <3>1, <4>1 DEF CellSeen, Fault, Address
    <3>3. /\ p32 \in Nat /\ OnGrid(p32) /\ p32 <= fault.k
          /\ i = 0 /\ ~ inverse
      BY <1>1, <3>1 DEF CellStops, Testing, TInv, DramTypeOK
    <3>4. p32 # fault.k
      BY <1>3, <3>1, <3>3, CellMismatch DEF CellSeen
    <3>5. p32 + Granularity <= fault.k
      BY <3>1, <3>2, <3>3, <3>4, GridStep DEF CellSeen
    <3> QED
      BY <2>1, <3>3, <3>5, GridNext
  <2> QED
    BY <2>2, <2>3
<1>4. CASE Matches(word) /\ SweepEnds
  <2>1. /\ UNCHANGED try
        /\ p32' = 0 /\ inverse' = ~ inverse
        /\ i' = IF inverse /\ ~ LastBit THEN i + 1 ELSE i
        /\ dram' = IF inverse /\ LastBit THEN "ok" ELSE "write"
    BY <1>1, <1>4 DEF ReadWord, WordRead
  <2>2. i \in Nat /\ Width \in Nat /\ i <= Width - 1
    BY DramAssumption DEF TInv, DramTypeOK, Bits
  <2>3. fault \in Fault
    BY DramAssumption DEF TInv, DramTypeOK
  <2>4. p32 \in Nat /\ try \in DOMAIN Configs
    BY <1>1 DEF TInv, DramTypeOK, ConfigTried
  <2>5. mem[Cell(p32)] \in Word
    BY <2>4, CellInRange DEF TInv, DramTypeOK
  <2>6. LaneCalibrated'
    BY <1>1, <2>1 DEF LaneCalibrated, config
  <2>7. StuckStops'
    <3>1. SUFFICES ASSUME fault.kind = "stuck"
                   PROVE  /\ dram' # "ok"
                          /\ i' <= fault.bit
                          /\ i' = fault.bit /\ fault.at = 0 => ~ inverse'
      BY <1>1 DEF StuckStops, Testing
    <3>2. fault.bit \in Nat /\ fault.bit <= Width - 1
      BY <2>2, <2>3, <3>1 DEF Fault, Bits
    <3>3. i <= fault.bit
      BY <1>1, <3>1 DEF StuckStops, Testing
    <3>4. i = fault.bit => fault.at = 1 /\ ~ inverse
      BY <1>1, <1>4, <2>5, <3>1, StuckMismatch DEF Testing, Fetched
    <3>5. CASE inverse
      <4>1. i < fault.bit /\ ~ LastBit
        BY <2>2, <3>2, <3>3, <3>4, <3>5 DEF LastBit
      <4>2. ~ inverse' /\ i' = i + 1 /\ dram' = "write"
        BY <2>1, <3>5, <4>1
      <4> QED
        BY <2>2, <3>2, <4>1, <4>2
    <3>6. CASE ~ inverse
      <4>1. i' = i /\ dram' = "write"
        BY <2>1, <3>6
      <4>2. i = fault.bit => fault.at # 0
        BY <3>4
      <4> QED
        BY <3>3, <4>1, <4>2
    <3> QED
      BY <3>5, <3>6
  <2>8. ShortStops'
    <3>1. SUFFICES ASSUME fault.kind = "short"
                   PROVE  /\ dram' # "ok"
                          /\ \A j \in fault.bits :
                               i' <= j /\ (i' = j => ~ inverse')
      BY <1>1 DEF ShortStops, Testing
    <3>2. fault.bits \subseteq Bits /\ Cardinality(fault.bits) = 2
      BY <2>3, <3>1 DEF Fault
    <3>3. fault.bits # {}
      <4>1. Cardinality({}) = 0
        BY FS_EmptySet
      <4> QED
        BY <3>2, <4>1
    <3>4. \A j \in fault.bits : j \in Nat /\ j <= Width - 1
      BY <2>2, <3>2 DEF Bits
    <3>5. \A j \in fault.bits : i < j
      <4>1. SUFFICES ASSUME NEW j \in fault.bits PROVE i < j
        OBVIOUS
      <4>2. i <= j /\ (i = j => ~ inverse)
        BY <1>1, <3>1 DEF ShortStops, Testing
      <4>3. i # j
        BY <1>1, <1>4, <2>5, <3>1, <4>2, ShortMismatch DEF Testing, Fetched
      <4> QED
        BY <2>2, <3>4, <4>2, <4>3
    <3>6. ~ LastBit
      BY <2>2, <3>3, <3>4, <3>5 DEF LastBit
    <3>7. CASE inverse
      <4>1. ~ inverse' /\ i' = i + 1 /\ dram' = "write"
        BY <2>1, <3>6, <3>7
      <4> QED
        BY <2>2, <3>4, <3>5, <4>1
    <3>8. CASE ~ inverse
      <4>1. i' = i /\ dram' = "write"
        BY <2>1, <3>8
      <4>2. \A j \in fault.bits : i' <= j /\ i' # j
        BY <2>2, <3>4, <3>5, <4>1
      <4> QED
        BY <4>1, <4>2
    <3> QED
      BY <3>7, <3>8
  <2>9. CellKeeps'
    BY <1>1 DEF CellKeeps
  <2>10. CellStops'
    <3>1. ~ CellSeen
      <4>1. SUFFICES ASSUME CellSeen PROVE FALSE
        OBVIOUS
      <4>2. fault.k \in Nat
        BY <2>3, <4>1 DEF CellSeen, Fault, Address
      <4>3. /\ OnGrid(p32) /\ p32 <= fault.k
            /\ i = 0 /\ ~ inverse
        BY <1>1, <4>1 DEF CellStops, Testing
      <4>4. p32 # fault.k
        BY <1>4, <4>1, <4>3, CellMismatch DEF CellSeen
      <4>5. p32 + Granularity <= fault.k
        BY <2>4, <4>1, <4>2, <4>3, <4>4, GridStep DEF CellSeen
      <4>6. p32 + Granularity >= totalSize(config)
        BY <1>4 DEF SweepEnds
      <4>7. fault.k < totalSize(config) /\ totalSize(config) \in Nat
        BY <2>4, <4>1, ConfigFacts DEF CellSeen, config
      <4> QED
        BY <2>4, <4>2, <4>5, <4>6, <4>7, DramAssumption
    <3> QED
      BY <1>1, <2>1, <3>1 DEF CellStops, CellSeen, config
  <2> QED
    BY <2>6, <2>7, <2>8, <2>9, <2>10
<1> QED
  BY <1>2, <1>3, <1>4

LEMMA StepHolds == TInv /\ Stops /\ [DramNext]_dramVars => Stops'
<1> SUFFICES ASSUME TInv, Stops, [DramNext]_dramVars PROVE Stops'
  OBVIOUS
<1>1. CASE SkipTooLarge \/ SetUp \/ Exhausted
  <2>1. UNCHANGED <<fault, mem>> /\ dram' \in {"try", "scl", "failed"}
    BY <1>1 DEF SkipTooLarge, NextTry, SetUp, Exhausted
  <2> QED
    BY <2>1, StepElsewhere DEF Stops
<1>2. CASE Calibrate
  BY <1>2, StepCalibrate
<1>3. CASE WriteWord
  BY <1>3, StepWrite
<1>4. CASE ReadWord
  BY <1>4, StepRead
<1>5. CASE UNCHANGED dramVars
  BY <1>5 DEF dramVars, Stops, LaneCalibrated, StuckStops, ShortStops, CellKeeps,
              CellStops, CellSeen, Testing, OnGrid, config
<1> QED
  BY <1>1, <1>2, <1>3, <1>4, <1>5 DEF DramNext

(* The reasons why a bad memory does not pass the test.                    *)
THEOREM SearchInvariance == DramSpec => [](TInv /\ Stops)
BY InitTyped, StepTyped, InitHolds, StepHolds, PTL DEF DramSpec

LEMMA StopsSound == TInv /\ Stops => GoodIsSound
<1> SUFFICES ASSUME TInv, Stops, dram = "ok"
             PROVE  CASE fault.kind \in {"stuck", "short"} -> FALSE
                      [] fault.kind = "cell" -> fault.k % Granularity # 0
                                                  \/ fault.k >= totalSize(config)
                      [] fault.kind = "lane" -> fault.lane \notin column_mask(config)
                      [] OTHER -> TRUE
  BY DEF GoodIsSound
<1>1. fault.kind \notin {"stuck", "short"}
  BY DEF Stops, StuckStops, ShortStops
<1>2. fault.kind = "lane" => fault.lane \notin column_mask(config)
  BY DEF Stops, LaneCalibrated
<1>3. fault.kind = "cell" => fault.k % Granularity # 0
                               \/ fault.k >= totalSize(config)
  <2>1. ~ CellSeen
    BY DEF Stops, CellStops
  <2>2. fault.kind = "cell" => fault.k \in Nat
    BY DramAssumption DEF TInv, DramTypeOK, Fault, Address
  <2>3. totalSize(config) \in Nat
    BY ConfigFacts DEF TInv, ConfigTried, config
  <2> QED
    BY <2>1, <2>2, <2>3 DEF CellSeen
<1> QED
  BY <1>1, <1>2, <1>3

(* Memory that c_auto_ddr reports good has no stuck or shorted data line,  *)
(* no bad cell where the test looks and no lane it could not calibrate.    *)
THEOREM GoodTheorem == DramSpec => []GoodIsSound
BY SearchInvariance, StopsSound, PTL

-----------------------------------------------------------------------------
(***************************************************************************)
(* The set-up of the controller (module DramSetUp) does what the search    *)
(* takes it for.  The sequence of accesses is the reset of the controller, *)
(* words for its registers, the store that starts the power sequence, and  *)
(* a delay; nothing of it depends on what the words are.                   *)
(***************************************************************************)
LEMMA Concatenated ==
  ASSUME NEW T, NEW s \in Seq(T), NEW t \in Seq(T)
  PROVE  /\ s \o t \in Seq(T)
         /\ Len(s \o t) = Len(s) + Len(t)
         /\ \A k \in 1 .. Len(s) : (s \o t)[k] = s[k]
         /\ \A k \in 1 .. Len(t) : (s \o t)[Len(s) + k] = t[k]
OBVIOUS

LEMMA Joined ==
  ASSUME NEW T, NEW s, NEW t, NEW u, s \in Seq(T), t \in Seq(T), u = s \o t
  PROVE  /\ u \in Seq(T)
         /\ Len(u) = Len(s) + Len(t)
         /\ \A k \in 1 .. Len(s) : u[k] = s[k]
         /\ \A k \in 1 .. Len(t) : u[Len(s) + k] = t[k]
BY Concatenated

LEMMA Regrouped ==
  ASSUME NEW T, NEW r, NEW s, NEW t, NEW rs, NEW st, NEW u,
         r \in Seq(T), s \in Seq(T), t \in Seq(T),
         rs = r \o s, st = s \o t, u = rs \o t
  PROVE  u = r \o st
OBVIOUS

ModifyOf(r, clear, set) == [op |-> "modify", reg |-> r, clear |-> clear, set |-> set]
StoreOf(r, word) == [op |-> "store", reg |-> r, word |-> word]
WaitOf(r, bit, set) == [op |-> "wait", reg |-> r, bit |-> bit, set |-> set]
ADelay == [op |-> "delay"]

LEMMA ResetShape ==
  /\ Len(ddr_system_reset) = 6
  /\ ddr_system_reset[1] = ModifyOf("rst_mask", DdrResets, {})
  /\ ddr_system_reset[2] = ModifyOf("clkgate", {DDR_CTRL_CLK_SRC}, {})
  /\ ddr_system_reset[3] = ModifyOf("clkgate", {}, {DDR_CTRL_CLK_GATE})
  /\ ddr_system_reset[4] = ADelay
  /\ ddr_system_reset[5] = ModifyOf("rst_vec", {}, DdrResets)
  /\ ddr_system_reset[6] = ModifyOf("rst_mask", {}, DdrResets)
<1> DEFINE a == ModifyOf("rst_mask", DdrResets, {})
           b == ModifyOf("clkgate", {DDR_CTRL_CLK_SRC}, {})
           c == ModifyOf("clkgate", {}, {DDR_CTRL_CLK_GATE})
           e == ModifyOf("rst_vec", {}, DdrResets)
           f == ModifyOf("rst_mask", {}, DdrResets)
           s == <<a>> \o <<b>> \o <<c>> \o <<ADelay>> \o <<e>> \o <<f>>
<1>1. ddr_system_reset = s
  BY DEF ddr_system_reset, And, Or, Modify, Delay, ModifyOf, ADelay
<1> HIDE DEF a, b, c, e, f
<1>2. Len(s) = 6
  OBVIOUS
<1>3. s[1] = a /\ s[2] = b
  OBVIOUS
<1>4. s[3] = c /\ s[4] = ADelay
  OBVIOUS
<1>5. s[5] = e /\ s[6] = f
  OBVIOUS
<1> HIDE DEF s
<1> QED
  BY <1>1, <1>2, <1>3, <1>4, <1>5 DEF a, b, c, e, f

LEMMA CalibrationShape ==
  /\ Len(Calibrating) = 4
  /\ Calibrating[1] =
       StoreOf("scl_start", {SCL_START_CONTINUOUS_R, SCL_START_GO_DONE})
  /\ Calibrating[2] = WaitOf("scl_start", SCL_START_GO_DONE, FALSE)
  /\ Calibrating[3] = StoreOf("scl_start", {SCL_START_GO_DONE})
  /\ Calibrating[4] = WaitOf("scl_start", SCL_START_GO_DONE, FALSE)
<1> DEFINE a == StoreOf("scl_start", {SCL_START_CONTINUOUS_R, SCL_START_GO_DONE})
           b == WaitOf("scl_start", SCL_START_GO_DONE, FALSE)
           c == StoreOf("scl_start", {SCL_START_GO_DONE})
           s == <<a>> \o <<b>> \o (<<c>> \o <<b>>)
<1>1. Calibrating = s
  BY DEF Calibrating, Calibration, ddr_scl_read_read, ddr_scl_write_read,
         ddr_scl_polling_start, Store, StoreOf, WaitClear, WaitOf
<1> HIDE DEF a, b, c
<1>2. Len(s) = 4
  OBVIOUS
<1>3. s[1] = a /\ s[2] = b
  OBVIOUS
<1>4. s[3] = c /\ s[4] = b
  OBVIOUS
<1> HIDE DEF s
<1> QED
  BY <1>1, <1>2, <1>3, <1>4 DEF a, b, c

(* The accesses between the reset and the power sequence.                  *)
WordsOf(c) ==
  {LatencyWord, SclWord1, SclWord2, PadWord, RecalibWord, AnalogWord,
   Timing0(c), Timing1(c), ModeWord(WITH_DLL_RESET), ModeWord({}),
   ExtendedModeWord, FAW, {}}

(* The registers that tell the controller what chips there are get the     *)
(* words of this configuration and no others.                              *)
Meant(c, o) ==
  /\ o.reg = "mem_cfg0" => o.word = Timing0(c)
  /\ o.reg = "mem_cfg1" => o.word = Timing1(c)
  /\ o.reg # "prf_ctrl"

Settings(c) ==
  {o \in [op : {"store"}, reg : DOMAIN ResetDdr \ {"mem_cfg7"}, word : WordsOf(c)] :
     Meant(c, o)}
    \cup {o \in [op : {"modify"}, reg : {"prf_ctrl"}, clear : {{}},
                 set : {DDRPHY_RDLAT_STG2_1CLK}] : c.bW = 0}
    \cup [op : {"wait"}, reg : {"status_perf"}, bit : {DDR_SCL_DONE}, set : {TRUE}]

Programming(c) ==
  (IF c.bW = 0 THEN Or("prf_ctrl", DDRPHY_RDLAT_STG2_1CLK) ELSE <<>>)
    \o Store("mem_cfg0", Timing0(c)) \o Store("mem_cfg1", Timing1(c))
    \o Store("mem_cfg2", ModeWord(WITH_DLL_RESET)) \o Store("mem_cfg2", ModeWord({}))
    \o Store("mem_cfg3", ExtendedModeWord) \o Store("mem_cfg4", FAW)
    \o Store("mem_cfg5", {}) \o Store("mem_cfg6", {})

Setting(c) == ddr_phy_init \o ddr_phy_polling_idle \o Programming(c)

LEMMA SettingTyped ==
  ASSUME NEW c
  PROVE  /\ ddr_phy_init \in Seq(Settings(c))
         /\ ddr_phy_polling_idle \in Seq(Settings(c))
         /\ Programming(c) \in Seq(Settings(c))
         /\ Setting(c) \in Seq(Settings(c))
<1> DEFINE T == Settings(c)
<1>1. ASSUME NEW r \in DOMAIN ResetDdr \ {"mem_cfg7", "prf_ctrl"}, NEW w \in WordsOf(c),
             r = "mem_cfg0" => w = Timing0(c), r = "mem_cfg1" => w = Timing1(c)
      PROVE  Store(r, w) \in Seq(T)
  <2>1. [op |-> "store", reg |-> r, word |-> w] \in T
    BY <1>1 DEF Settings, Meant
  <2> HIDE DEF T
  <2> QED
    BY <2>1 DEF Store
<1>2. ASSUME c.bW = 0
      PROVE  Or("prf_ctrl", DDRPHY_RDLAT_STG2_1CLK) \in Seq(T)
  <2>1. [op |-> "modify", reg |-> "prf_ctrl", clear |-> {},
         set |-> DDRPHY_RDLAT_STG2_1CLK] \in T
    BY <1>2 DEF Settings
  <2> HIDE DEF T
  <2> QED
    BY <2>1 DEF Or, Modify
<1>3. ddr_phy_polling_idle \in Seq(T)
  <2>1. [op |-> "wait", reg |-> "status_perf", bit |-> DDR_SCL_DONE, set |-> TRUE] \in T
    BY DEF Settings
  <2> HIDE DEF T
  <2> QED
    BY <2>1 DEF ddr_phy_polling_idle, WaitSet
<1>4. {"scl_latency", "scl_cnfg1", "scl_cnfg2", "pad_ctrl", "dll_recalib",
       "analog_dll1", "mem_cfg0", "mem_cfg1", "mem_cfg2", "mem_cfg3", "mem_cfg4",
       "mem_cfg5", "mem_cfg6"} \subseteq DOMAIN ResetDdr \ {"mem_cfg7", "prf_ctrl"}
  BY DEF ResetDdr
<1>5. /\ Store("scl_latency", LatencyWord) \in Seq(T)
      /\ Store("scl_cnfg1", SclWord1) \in Seq(T)
      /\ Store("scl_cnfg2", SclWord2) \in Seq(T)
      /\ Store("pad_ctrl", PadWord) \in Seq(T)
      /\ Store("dll_recalib", RecalibWord) \in Seq(T)
      /\ Store("analog_dll1", AnalogWord) \in Seq(T)
  BY <1>1, <1>4 DEF WordsOf
<1>6. /\ Store("mem_cfg0", Timing0(c)) \in Seq(T)
      /\ Store("mem_cfg1", Timing1(c)) \in Seq(T)
      /\ Store("mem_cfg2", ModeWord(WITH_DLL_RESET)) \in Seq(T)
      /\ Store("mem_cfg2", ModeWord({})) \in Seq(T)
      /\ Store("mem_cfg3", ExtendedModeWord) \in Seq(T)
      /\ Store("mem_cfg4", FAW) \in Seq(T)
      /\ Store("mem_cfg5", {}) \in Seq(T)
      /\ Store("mem_cfg6", {}) \in Seq(T)
  BY <1>1, <1>4 DEF WordsOf
<1>7. (IF c.bW = 0 THEN Or("prf_ctrl", DDRPHY_RDLAT_STG2_1CLK) ELSE <<>>) \in Seq(T)
  BY <1>2
<1> HIDE DEF T
<1>8. ddr_phy_init \in Seq(T)
  BY <1>5, Concatenated DEF ddr_phy_init
<1>9. Programming(c) \in Seq(T)
  BY <1>6, <1>7, Concatenated DEF Programming
<1>10. Setting(c) \in Seq(T)
  BY <1>3, <1>8, <1>9, Concatenated DEF Setting
<1> QED
  BY <1>3, <1>8, <1>9, <1>10 DEF T

Resets ==
  {ModifyOf("rst_mask", DdrResets, {}), ModifyOf("clkgate", {DDR_CTRL_CLK_SRC}, {}),
   ModifyOf("clkgate", {}, {DDR_CTRL_CLK_GATE}), ADelay,
   ModifyOf("rst_vec", {}, DdrResets), ModifyOf("rst_mask", {}, DdrResets)}

LEMMA ResetTyped == ddr_system_reset \in Seq(Resets)
<1> DEFINE a == ModifyOf("rst_mask", DdrResets, {})
           b == ModifyOf("clkgate", {DDR_CTRL_CLK_SRC}, {})
           c == ModifyOf("clkgate", {}, {DDR_CTRL_CLK_GATE})
           e == ModifyOf("rst_vec", {}, DdrResets)
           f == ModifyOf("rst_mask", {}, DdrResets)
           T == {a, b, c, ADelay, e, f}
           s == <<a>> \o <<b>> \o <<c>> \o <<ADelay>> \o <<e>> \o <<f>>
<1>1. ddr_system_reset = s
  BY DEF ddr_system_reset, And, Or, Modify, Delay, ModifyOf, ADelay
<1> HIDE DEF a, b, c, e, f
<1>2. a \in T /\ b \in T /\ c \in T /\ ADelay \in T /\ e \in T /\ f \in T
  OBVIOUS
<1> HIDE DEF T
<1>3. s \in Seq(T)
  BY <1>2
<1> HIDE DEF s
<1> QED
  BY <1>1, <1>3 DEF T, Resets, a, b, c, e, f

(* Sequences over a set are sequences over a larger one.                   *)
LEMMA Wider ==
  ASSUME NEW S, NEW T, S \subseteq T, NEW s \in Seq(S)
  PROVE  s \in Seq(T)
OBVIOUS

LEMMA PrepareShape ==
  ASSUME NEW c
  PROVE  LET s == Prepare(c)
             n == Len(Setting(c))
         IN  /\ n \in Nat /\ Len(s) = n + 8
             /\ \A k \in 1 .. 6 : s[k] = ddr_system_reset[k]
             /\ \A k \in 1 .. n : s[6 + k] \in Settings(c)
             /\ \A k \in 1 .. n : s[6 + k] = Setting(c)[k]
             /\ s[n + 7] = StoreOf("mem_cfg7", {})
             /\ s[n + 8] = ADelay
<1>1. PICK T : T = Resets \cup Settings(c) \cup {StoreOf("mem_cfg7", {})}
  OBVIOUS
<1>2. PICK r, p, q, w : /\ r = ddr_system_reset /\ p = ddr_phy_init
                        /\ q = ddr_phy_polling_idle /\ w = Programming(c)
  OBVIOUS
<1>3. PICK x, y : x = StoreOf("mem_cfg7", {}) /\ y = ADelay
  OBVIOUS
<1>4. PICK m, d : m = <<x>> /\ d = <<y>>
  OBVIOUS
<1>5. Settings(c) \subseteq T /\ Resets \subseteq T
  BY <1>1
<1>6. r \in Seq(T)
  BY <1>2, <1>5, ResetTyped, Wider
<1>7. p \in Seq(T)
  BY <1>2, <1>5, SettingTyped, Wider
<1>8. q \in Seq(T)
  BY <1>2, <1>5, SettingTyped, Wider
<1>9. w \in Seq(T)
  BY <1>2, <1>5, SettingTyped, Wider
<1>10. x \in T /\ y \in T
  BY <1>1, <1>3 DEF Resets
<1>11. m \in Seq(T)
  BY ONLY <1>4, <1>10
<1>12. d \in Seq(T)
  BY ONLY <1>4, <1>10
<1>13. Len(m) = 1 /\ m[1] = x /\ Len(d) = 1 /\ d[1] = y
  BY ONLY <1>4
(* The sequence as it is written: ((r \o p) \o q) \o (w \o m), then d.     *)
<1>14. PICK rp : rp = r \o p
  OBVIOUS
<1>15. PICK rpq : rpq = rp \o q
  OBVIOUS
<1>16. PICK wm : wm = w \o m
  OBVIOUS
<1>17. PICK b : b = rpq \o wm
  OBVIOUS
<1>18. PICK s : s = b \o d
  OBVIOUS
<1>19. s = Prepare(c)
  BY <1>2, <1>3, <1>4, <1>14, <1>15, <1>16, <1>17, <1>18
     DEF Prepare, Programming, ddr_ctl_init, ddr_ctl_polling_idle, Delay, ADelay,
         Store, StoreOf
(* The same, grouped as (r \o z) \o m, then d.                             *)
<1>20. PICK u : u = p \o q
  OBVIOUS
<1>21. PICK z : z = u \o w
  OBVIOUS
<1>22. PICK a : a = r \o z
  OBVIOUS
<1>23. z = Setting(c)
  BY <1>2, <1>20, <1>21 DEF Setting
<1>24. u \in Seq(T)
  BY ONLY <1>7, <1>8, <1>20, Joined
<1>25. rpq = r \o u
  BY ONLY <1>6, <1>7, <1>8, <1>14, <1>15, <1>20, Regrouped
<1>26. rpq \in Seq(T)
  BY ONLY <1>6, <1>24, <1>25, Joined
<1>27. a = rpq \o w
  <2>1. PICK v : v = rpq \o w
    OBVIOUS
  <2>2. v = r \o z
    BY ONLY <1>6, <1>24, <1>9, <1>25, <1>21, <2>1, Regrouped
  <2> QED
    BY ONLY <1>22, <2>1, <2>2
<1>28. b = a \o m
  <2>1. PICK v : v = a \o m
    OBVIOUS
  <2>2. v = rpq \o wm
    BY ONLY <1>26, <1>9, <1>11, <1>27, <1>16, <2>1, Regrouped
  <2> QED
    BY ONLY <1>17, <2>1, <2>2
<1>29. z \in Seq(T)
  BY ONLY <1>24, <1>9, <1>21, Joined
<1>30. /\ a \in Seq(T) /\ Len(a) = Len(r) + Len(z)
       /\ \A k \in 1 .. Len(r) : a[k] = r[k]
       /\ \A k \in 1 .. Len(z) : a[Len(r) + k] = z[k]
  BY ONLY <1>6, <1>29, <1>22, Joined
<1>31. a \in Seq(T)
  BY <1>30
<1>32. /\ b \in Seq(T) /\ Len(b) = Len(a) + Len(m)
       /\ \A k \in 1 .. Len(a) : b[k] = a[k]
       /\ \A k \in 1 .. Len(m) : b[Len(a) + k] = m[k]
  BY ONLY <1>31, <1>11, <1>28, Joined
<1>33. b \in Seq(T)
  BY <1>32
<1>34. /\ Len(s) = Len(b) + Len(d)
       /\ \A k \in 1 .. Len(b) : s[k] = b[k]
       /\ \A k \in 1 .. Len(d) : s[Len(b) + k] = d[k]
  BY ONLY <1>33, <1>12, <1>18, Joined
<1>35. Len(r) = 6
  BY <1>2, ResetShape
<1>36. z \in Seq(Settings(c))
  BY <1>23, SettingTyped
<1>37. Len(z) \in Nat /\ \A k \in 1 .. Len(z) : z[k] \in Settings(c)
  BY ONLY <1>36
<1>38. PICK n \in Nat : n = Len(z)
  BY <1>37
<1>39. Len(a) = n + 6 /\ Len(b) = n + 7 /\ Len(s) = n + 8
  BY ONLY <1>13, <1>30, <1>32, <1>34, <1>35, <1>38
<1>40. \A k \in 1 .. n + 6 : s[k] = a[k]
  BY ONLY <1>32, <1>34, <1>38, <1>39
<1>41. \A k \in 1 .. 6 : s[k] = r[k]
  BY ONLY <1>30, <1>35, <1>38, <1>40
<1>42. \A k \in 1 .. n : s[6 + k] = z[k]
  <2>1. \A k \in 1 .. n : 6 + k \in 1 .. n + 6
    BY ONLY <1>38
  <2> QED
    BY ONLY <1>30, <1>35, <1>38, <1>40, <2>1
<1>43. s[n + 7] = x
  <2>1. b[n + 7] = x
    BY ONLY <1>13, <1>32, <1>38, <1>39
  <2> QED
    BY ONLY <1>34, <1>38, <1>39, <2>1
<1>44. s[n + 8] = y
  BY ONLY <1>13, <1>34, <1>38, <1>39
<1>45. \A k \in 1 .. n : s[6 + k] \in Settings(c)
  BY ONLY <1>37, <1>38, <1>42
<1> QED
  BY <1>2, <1>3, <1>19, <1>23, <1>38, <1>39, <1>41, <1>42, <1>43, <1>44, <1>45

-----------------------------------------------------------------------------
(* How far the set-up has come and what has become of the controller by    *)
(* then.                                                                   *)
ControllerReady ==
  Runs /\ DdrResets \subseteq regs.rst_mask /\ DDR_CTRL_CLK_SRC \notin regs.clkgate

PrepareStages ==
  dram = "try" /\ Fits =>
    /\ at <= Len(Preparing[try]) + 1
    /\ at \in 2 .. 6 => DdrResets \cap regs.rst_mask = {}
    /\ at >= 3 => DDR_CTRL_CLK_SRC \notin regs.clkgate
    /\ at >= 4 => DDR_CTRL_CLK_GATE \in regs.clkgate
    /\ at >= 6 => DdrResets \subseteq regs.rst_vec
    /\ at >= 7 => DdrResets \subseteq regs.rst_mask
    /\ at >= Len(Preparing[try]) => taken = Words

(* A test of the lanes that is waited for runs or has told the good ones.  *)
CalibrationStages ==
  dram = "scl" =>
    /\ at <= 5
    /\ at = 4 => ddr.scl_start \in {{SCL_START_GO_DONE}, GoodLanes}
    /\ at = 5 => ddr.scl_start = GoodLanes

SetUpInv ==
  /\ at \in Nat \ {0}
  /\ try \in 1 .. Len(Configs) + 1
  /\ ConfigTried
  /\ DOMAIN regs = DOMAIN ResetRegs
  /\ DOMAIN ddr = DOMAIN ResetDdr
  /\ ~ (dram = "try" /\ Fits) /\ dram # "scl" => at = 1
  /\ PrepareStages
  /\ CalibrationStages
  /\ Believed => taken = Words /\ ControllerReady

(* A register is of the system controller or of the DDR controller.        *)
LEMMA Registers ==
  /\ {"rst_mask", "clkgate", "rst_vec"} \subseteq DOMAIN ResetRegs
  /\ {"rst_mask", "clkgate", "rst_vec"} \cap DOMAIN ResetDdr = {}
  /\ DOMAIN ResetRegs \cap DOMAIN ResetDdr = {}
  /\ WordsTaken \subseteq DOMAIN ResetDdr
  /\ {"mem_cfg7", "scl_start", "status_perf"} \subseteq DOMAIN ResetDdr \ WordsTaken
BY DEF ResetRegs, ResetDdr, WordsTaken

(* The access that is next while a configuration is prepared.              *)
LEMMA NextAccess ==
  ASSUME SetUpInv, dram = "try", Fits
  PROVE  LET L == Len(Preparing[try])
             o == Accesses[at]
         IN  /\ Accesses = Preparing[try]
             /\ L \in Nat /\ L >= 8
             /\ at <= L =>
                  \/ at = 1 /\ o = ModifyOf("rst_mask", DdrResets, {})
                  \/ at = 2 /\ o = ModifyOf("clkgate", {DDR_CTRL_CLK_SRC}, {})
                  \/ at = 3 /\ o = ModifyOf("clkgate", {}, {DDR_CTRL_CLK_GATE})
                  \/ at = 4 /\ o = ADelay
                  \/ at = 5 /\ o = ModifyOf("rst_vec", {}, DdrResets)
                  \/ at = 6 /\ o = ModifyOf("rst_mask", {}, DdrResets)
                  \/ at >= 7 /\ at < L - 1 /\ o \in Settings(config)
                  \/ at >= 7 /\ at = L - 1 /\ o = StoreOf("mem_cfg7", {})
                  \/ at >= 8 /\ at = L /\ o = ADelay
<1>1. try \in DOMAIN Configs
  BY ConfigFacts DEF SetUpInv, Fits
<1>2. PICK s : s = Prepare(config)
  OBVIOUS
<1>3. Preparing[try] = s
  BY <1>1, <1>2 DEF Preparing, config
<1>4. Accesses = s
  BY <1>3 DEF Accesses
<1>5. PICK n : n = Len(Setting(config))
  OBVIOUS
<1>6. /\ n \in Nat /\ Len(s) = n + 8
      /\ \A k \in 1 .. 6 : s[k] = ddr_system_reset[k]
      /\ \A k \in 1 .. n : s[6 + k] \in Settings(config)
      /\ s[n + 7] = StoreOf("mem_cfg7", {})
      /\ s[n + 8] = ADelay
  BY <1>2, <1>5, PrepareShape
<1>7. at \in Nat \ {0}
  BY DEF SetUpInv
<1>8. ASSUME at <= n + 8
      PROVE  \/ at = 1 /\ s[at] = ModifyOf("rst_mask", DdrResets, {})
             \/ at = 2 /\ s[at] = ModifyOf("clkgate", {DDR_CTRL_CLK_SRC}, {})
             \/ at = 3 /\ s[at] = ModifyOf("clkgate", {}, {DDR_CTRL_CLK_GATE})
             \/ at = 4 /\ s[at] = ADelay
             \/ at = 5 /\ s[at] = ModifyOf("rst_vec", {}, DdrResets)
             \/ at = 6 /\ s[at] = ModifyOf("rst_mask", {}, DdrResets)
             \/ at >= 7 /\ at < n + 7 /\ s[at] \in Settings(config)
             \/ at >= 7 /\ at = n + 7 /\ s[at] = StoreOf("mem_cfg7", {})
             \/ at >= 8 /\ at = n + 8 /\ s[at] = ADelay
  <2>1. CASE at \in 1 .. 6
    <3>1. s[at] = ddr_system_reset[at]
      BY ONLY <1>6, <2>1
    <3>2. at = 1 \/ at = 2 \/ at = 3 \/ at = 4 \/ at = 5 \/ at = 6
      BY ONLY <2>1
    <3> QED
      BY <3>1, <3>2, ResetShape
  <2>2. CASE at >= 7 /\ at < n + 7
    <3>1. at - 6 \in 1 .. n /\ 6 + (at - 6) = at
      BY ONLY <1>6, <1>7, <2>2
    <3>2. s[6 + (at - 6)] \in Settings(config)
      BY ONLY <1>6, <3>1
    <3> QED
      BY ONLY <2>2, <3>1, <3>2
  <2>3. CASE at = n + 7
    <3>1. at >= 7
      BY ONLY <1>6, <2>3
    <3> QED
      BY ONLY <1>6, <2>3, <3>1
  <2>4. CASE at = n + 8
    <3>1. at >= 8
      BY ONLY <1>6, <2>4
    <3> QED
      BY ONLY <1>6, <2>4, <3>1
  <2>5. at \in 1 .. 6 \/ (at >= 7 /\ at < n + 7) \/ at = n + 7 \/ at = n + 8
    BY ONLY <1>6, <1>7, <1>8
  <2> QED
    BY ONLY <2>1, <2>2, <2>3, <2>4, <2>5
<1>9. n + 8 \in Nat /\ n + 8 >= 8 /\ (n + 8) - 1 = n + 7
  BY ONLY <1>6
<1> QED
  BY <1>3, <1>4, <1>6, <1>8, <1>9

(* An access changes one register.                                         *)
LEMMA OneRegister ==
  ASSUME NEW f, NEW o
  PROVE  /\ DOMAIN Effect(f, o) = DOMAIN f
         /\ \A q \in DOMAIN f : q # o.reg => Effect(f, o)[q] = f[q]
BY DEF Effect

LEMMA Modified ==
  ASSUME NEW f, NEW r, NEW clear, NEW set, r \in DOMAIN f, r # "cpu_ctl"
  PROVE  LET o == ModifyOf(r, clear, set)
         IN  /\ o.op = "modify" /\ o.reg = r
             /\ r # "rst_vec" => Effect(f, o)[r] = (f[r] \ clear) \cup set
             /\ r = "rst_vec" =>
                  Effect(f, o)[r] = (f.rst_vec \cap f.rst_mask)
                                      \cup (((f.rst_vec \ clear) \cup set) \ f.rst_mask)
BY DEF Effect, ModifyOf, Masked

LEMMA StepPrepare ==
  ASSUME SetUpInv, dram = "try", Fits,
         AccessScu \/ AccessDdr \/ DelayPasses \/ PollDdr
  PROVE  SetUpInv'
<1>1. PICK L, o : L = Len(Preparing[try]) /\ o = Accesses[at]
  OBVIOUS
<1>2. /\ Accesses = Preparing[try]
      /\ L \in Nat /\ L >= 8
      /\ at <= L =>
           \/ at = 1 /\ o = ModifyOf("rst_mask", DdrResets, {})
           \/ at = 2 /\ o = ModifyOf("clkgate", {DDR_CTRL_CLK_SRC}, {})
           \/ at = 3 /\ o = ModifyOf("clkgate", {}, {DDR_CTRL_CLK_GATE})
           \/ at = 4 /\ o = ADelay
           \/ at = 5 /\ o = ModifyOf("rst_vec", {}, DdrResets)
           \/ at = 6 /\ o = ModifyOf("rst_mask", {}, DdrResets)
           \/ at >= 7 /\ at < L - 1 /\ o \in Settings(config)
           \/ at >= 7 /\ at = L - 1 /\ o = StoreOf("mem_cfg7", {})
           \/ at >= 8 /\ at = L /\ o = ADelay
  BY <1>1, NextAccess
<1>3. /\ at' = at + 1 /\ UNCHANGED memVars
      /\ at <= L
  <2>1. at' = at + 1 /\ ~ Done
    BY DEF AccessScu, AccessDdr, DelayPasses, PollDdr, Doing
  <2>2. UNCHANGED memVars
    BY DEF AccessScu, AccessDdr, DelayPasses, PollDdr
  <2>3. ~ (at > L)
    BY <1>1, <1>2, <2>1 DEF Done
  <2>4. at \in Nat
    BY DEF SetUpInv
  <2>5. at <= L
    BY ONLY <1>2, <2>3, <2>4
  <2> QED
    BY <2>1, <2>2, <2>5
<1>4. /\ at \in Nat \ {0} /\ try \in 1 .. Len(Configs) + 1
      /\ DOMAIN regs = DOMAIN ResetRegs /\ DOMAIN ddr = DOMAIN ResetDdr
      /\ at \in 2 .. 6 => DdrResets \cap regs.rst_mask = {}
      /\ at >= 3 => DDR_CTRL_CLK_SRC \notin regs.clkgate
      /\ at >= 4 => DDR_CTRL_CLK_GATE \in regs.clkgate
      /\ at >= 6 => DdrResets \subseteq regs.rst_vec
      /\ at >= 7 => DdrResets \subseteq regs.rst_mask
      /\ at >= L => taken = Words
  BY <1>1 DEF SetUpInv, PrepareStages
<1>5. SUFFICES /\ DOMAIN regs' = DOMAIN ResetRegs /\ DOMAIN ddr' = DOMAIN ResetDdr
               /\ at + 1 \in 2 .. 6 => DdrResets \cap regs'.rst_mask = {}
               /\ at + 1 >= 3 => DDR_CTRL_CLK_SRC \notin regs'.clkgate
               /\ at + 1 >= 4 => DDR_CTRL_CLK_GATE \in regs'.clkgate
               /\ at + 1 >= 6 => DdrResets \subseteq regs'.rst_vec
               /\ at + 1 >= 7 => DdrResets \subseteq regs'.rst_mask
               /\ at + 1 >= L => taken' = Words'
  <2>1. dram' = dram /\ try' = try /\ Fits'
    BY <1>3 DEF memVars, dramVars, Fits, config
  <2>2. at + 1 \in Nat \ {0} /\ at + 1 <= L + 1
    BY <1>2, <1>3, <1>4
  <2>3. ConfigTried' /\ ~ Believed'
    BY <2>1 DEF ConfigTried, Believed
  <2> QED
    BY <1>1, <1>3, <1>4, <2>1, <2>2, <2>3
       DEF SetUpInv, PrepareStages, CalibrationStages
<1>6. CASE at \in {1, 2, 3, 5, 6}
  <2>1. /\ o.op = "modify" /\ o.reg \in {"rst_mask", "clkgate", "rst_vec"}
    BY <1>2, <1>3, <1>6 DEF ModifyOf
  <2>2. regs' = Effect(regs, o) /\ UNCHANGED <<ddr, taken>>
    BY <1>1, <1>4, <2>1, Registers
       DEF AccessScu, AccessDdr, DelayPasses, PollDdr, Doing
  <2>3. DOMAIN regs' = DOMAIN ResetRegs /\ DOMAIN ddr' = DOMAIN ResetDdr
    BY <1>4, <2>2, OneRegister
  <2>4. at + 1 < L
    BY <1>2, <1>4, <1>6
  <2>5. \A q \in {"rst_mask", "clkgate", "rst_vec"} : q # o.reg => regs'[q] = regs[q]
    BY <1>4, <2>2, OneRegister, Registers
  <2>6. {"rst_mask", "clkgate", "rst_vec"} \subseteq DOMAIN regs
    BY <1>4, Registers
  <2>7. CASE at = 1
    <3>1. o = ModifyOf("rst_mask", DdrResets, {})
      BY <1>2, <1>3, <2>7
    <3>2. regs'.rst_mask = (regs.rst_mask \ DdrResets) \cup {}
      BY <2>2, <2>6, <3>1, Modified
    <3>3. DdrResets \cap regs'.rst_mask = {}
      BY ONLY <3>2
    <3>4. PICK k : k = at + 1
      OBVIOUS
    <3>5. k = 2 /\ ~ (2 >= L)
      BY ONLY <1>2, <2>4, <2>7, <3>4
    <3> QED
      BY ONLY <2>3, <3>3, <3>4, <3>5
  <2>8. CASE at = 2
    <3>1. o = ModifyOf("clkgate", {DDR_CTRL_CLK_SRC}, {})
      BY <1>2, <1>3, <2>8
    <3>2. regs'.clkgate = (regs.clkgate \ {DDR_CTRL_CLK_SRC}) \cup {}
      BY <2>2, <2>6, <3>1, Modified
    <3>3. regs'.rst_mask = regs.rst_mask
      BY <2>5, <3>1 DEF ModifyOf
    <3>4. DDR_CTRL_CLK_SRC \notin regs'.clkgate
      BY ONLY <3>2
    <3>5. DdrResets \cap regs'.rst_mask = {}
      BY <1>4, <2>8, <3>3
    <3>6. PICK k : k = at + 1
      OBVIOUS
    <3>7. k = 3 /\ ~ (3 >= L)
      BY ONLY <1>2, <2>4, <2>8, <3>6
    <3> QED
      BY ONLY <2>3, <3>4, <3>5, <3>6, <3>7
  <2>9. CASE at = 3
    <3>1. o = ModifyOf("clkgate", {}, {DDR_CTRL_CLK_GATE})
      BY <1>2, <1>3, <2>9
    <3>2. regs'.clkgate = (regs.clkgate \ {}) \cup {DDR_CTRL_CLK_GATE}
      BY <2>2, <2>6, <3>1, Modified
    <3>3. regs'.rst_mask = regs.rst_mask
      BY <2>5, <3>1 DEF ModifyOf
    <3>4. DDR_CTRL_CLK_SRC # DDR_CTRL_CLK_GATE
      BY DEF DDR_CTRL_CLK_SRC, DDR_CTRL_CLK_GATE
    <3>5. DDR_CTRL_CLK_SRC \notin regs.clkgate /\ DdrResets \cap regs'.rst_mask = {}
      BY <1>4, <2>9, <3>3
    <3>6. DDR_CTRL_CLK_SRC \notin regs'.clkgate /\ DDR_CTRL_CLK_GATE \in regs'.clkgate
      BY ONLY <3>2, <3>4, <3>5
    <3>7. PICK k : k = at + 1
      OBVIOUS
    <3>8. k = 4 /\ ~ (4 >= L)
      BY ONLY <1>2, <2>4, <2>9, <3>7
    <3> QED
      BY ONLY <2>3, <3>5, <3>6, <3>7, <3>8
  <2>10. CASE at = 5
    <3>1. o = ModifyOf("rst_vec", {}, DdrResets)
      BY <1>2, <1>3, <2>10
    <3>2. regs'.rst_vec = (regs.rst_vec \cap regs.rst_mask)
                            \cup (((regs.rst_vec \ {}) \cup DdrResets) \ regs.rst_mask)
      BY <2>2, <2>6, <3>1, Modified
    <3>3. regs'.rst_mask = regs.rst_mask /\ regs'.clkgate = regs.clkgate
      BY <2>5, <3>1 DEF ModifyOf
    <3>4. /\ DdrResets \cap regs.rst_mask = {}
          /\ DDR_CTRL_CLK_SRC \notin regs'.clkgate /\ DDR_CTRL_CLK_GATE \in regs'.clkgate
      BY <1>4, <2>10, <3>3
    <3>5. DdrResets \subseteq regs'.rst_vec
      BY ONLY <3>2, <3>4
    <3>6. DdrResets \cap regs'.rst_mask = {}
      BY ONLY <3>3, <3>4
    <3>7. PICK k : k = at + 1
      OBVIOUS
    <3>8. k = 6 /\ ~ (6 >= L)
      BY ONLY <1>2, <2>4, <2>10, <3>7
    <3> QED
      BY ONLY <2>3, <3>4, <3>5, <3>6, <3>7, <3>8
  <2>11. CASE at = 6
    <3>1. o = ModifyOf("rst_mask", {}, DdrResets)
      BY <1>2, <1>3, <2>11
    <3>2. regs'.rst_mask = (regs.rst_mask \ {}) \cup DdrResets
      BY <2>2, <2>6, <3>1, Modified
    <3>3. regs'.rst_vec = regs.rst_vec /\ regs'.clkgate = regs.clkgate
      BY <2>5, <3>1 DEF ModifyOf
    <3>4. /\ DdrResets \subseteq regs'.rst_vec
          /\ DDR_CTRL_CLK_SRC \notin regs'.clkgate /\ DDR_CTRL_CLK_GATE \in regs'.clkgate
      BY <1>4, <2>11, <3>3
    <3>5. DdrResets \subseteq regs'.rst_mask
      BY ONLY <3>2
    <3>6. PICK k : k = at + 1
      OBVIOUS
    <3>7. k = 7 /\ ~ (7 >= L)
      BY ONLY <1>2, <2>4, <2>11, <3>6
    <3> QED
      BY ONLY <2>3, <3>4, <3>5, <3>6, <3>7
  <2> QED
    BY <1>6, <2>7, <2>8, <2>9, <2>10, <2>11
<1>7. CASE at = 4 \/ at = L
  <2>1. o = ADelay
    BY <1>2, <1>3, <1>7
  <2>2. UNCHANGED <<regs, ddr, taken>>
    BY <1>1, <2>1 DEF AccessScu, AccessDdr, DelayPasses, PollDdr, Doing, ADelay, pllVars
  <2>3. at = L => taken' = Words'
    BY <1>2, <1>4, <2>2 DEF Words
  <2>4. at = 4 => at + 1 < L
    BY <1>2
  <2> QED
    BY <1>2, <1>4, <1>7, <2>2, <2>3, <2>4
<1>8. CASE at >= 7 /\ at < L
  <2>1. o \in Settings(config) \/ (at = L - 1 /\ o = StoreOf("mem_cfg7", {}))
    BY <1>2, <1>3, <1>4, <1>8
  <2>2. o.op \in {"store", "modify", "wait"} /\ o.reg \in DOMAIN ResetDdr
    <3>1. {"prf_ctrl", "status_perf", "mem_cfg7"} \subseteq DOMAIN ResetDdr
      BY DEF ResetDdr
    <3>2. CASE o \in Settings(config)
      BY <3>1, <3>2 DEF Settings
    <3>3. CASE o = StoreOf("mem_cfg7", {})
      BY <3>1, <3>3 DEF StoreOf
    <3> QED
      BY <2>1, <3>2, <3>3
  <2>3. regs' = regs
    BY <1>1, <1>4, <2>2, Registers
       DEF AccessScu, AccessDdr, DelayPasses, PollDdr, Doing, pllVars
  <2>4. DOMAIN ddr' = DOMAIN ddr
    BY <1>1, <2>2, OneRegister
       DEF AccessScu, AccessDdr, DelayPasses, PollDdr, Doing
  <2>5. ASSUME at + 1 >= L PROVE taken' = Words'
    <3>1. o = StoreOf("mem_cfg7", {})
      BY <1>2, <1>3, <1>4, <1>8, <2>5
    <3>2. taken' = Words /\ (ddr' = Effect(ddr, o) \/ ddr' = ddr)
      BY <1>1, <1>4, <2>2, <3>1, Registers
         DEF AccessScu, AccessDdr, DelayPasses, PollDdr, Doing, StoreOf
    <3>3. \A q \in WordsTaken : ddr'[q] = ddr[q]
      BY <1>4, <3>1, <3>2, OneRegister, Registers DEF StoreOf
    <3> QED
      BY <3>2, <3>3 DEF Words
  <2> QED
    BY <1>4, <1>8, <2>3, <2>4, <2>5
<1> QED
  BY <1>2, <1>3, <1>4, <1>6, <1>7, <1>8

(* The sequence of a configuration is longer than the reset.               *)
LEMMA PrepareLong ==
  ASSUME NEW k \in DOMAIN Configs
  PROVE  Len(Preparing[k]) \in Nat /\ Len(Preparing[k]) >= 8
<1>1. Preparing[k] = Prepare(Configs[k])
  BY DEF Preparing
<1>2. PICK n : n = Len(Setting(Configs[k]))
  OBVIOUS
<1>3. n \in Nat /\ Len(Prepare(Configs[k])) = n + 8
  BY <1>2, PrepareShape
<1> QED
  BY <1>1, <1>3

(* Where the search begins, whatever init_plls has left in the registers.  *)
LEMMA SearchBegins == DramInit /\ DdrInit /\ DOMAIN regs = DOMAIN ResetRegs => SetUpInv
<1> SUFFICES ASSUME DramInit, DdrInit, DOMAIN regs = DOMAIN ResetRegs PROVE SetUpInv
  OBVIOUS
<1>1. at = 1 /\ try = 1 /\ dram = "try" /\ ddr = ResetDdr
  BY DEF DdrInit, DramInit
<1>2. try \in 1 .. Len(Configs) + 1
  BY <1>1, ConfigFacts
<1>4. PrepareStages
  <2> SUFFICES ASSUME Fits PROVE PrepareStages
    BY DEF PrepareStages
  <2>1. try \in DOMAIN Configs
    BY <1>2, ConfigFacts DEF Fits
  <2>2. PICK L : L = Len(Preparing[try])
    OBVIOUS
  <2>3. L \in Nat /\ L >= 8
    BY <2>1, <2>2, PrepareLong
  <2> QED
    BY <1>1, <2>2, <2>3 DEF PrepareStages
<1> QED
  BY <1>1, <1>2, <1>4 DEF SetUpInv, ConfigTried, CalibrationStages, Believed

LEMMA InitSetUp == SetUpInit => SetUpInv
BY SearchBegins DEF SetUpInit, LeftBy

(* The search goes on to a configuration.                                  *)
LEMMA NewTry ==
  ASSUME at' = 1, dram' = "try", try' \in 1 .. Len(Configs) + 1,
         DOMAIN regs' = DOMAIN ResetRegs, DOMAIN ddr' = DOMAIN ResetDdr
  PROVE  SetUpInv'
<1>1. PrepareStages'
  <2> SUFFICES ASSUME Fits' PROVE PrepareStages'
    BY DEF PrepareStages
  <2>1. try' \in DOMAIN Configs
    BY ConfigFacts DEF Fits
  <2>2. PICK L : L = Len(Preparing[try'])
    OBVIOUS
  <2>3. L \in Nat /\ L >= 8
    BY <2>1, <2>2, PrepareLong
  <2> QED
    BY <2>2, <2>3 DEF PrepareStages
<1> QED
  BY <1>1 DEF SetUpInv, ConfigTried, CalibrationStages, Believed

(* The controller is believed in as long as nothing touches it.            *)
LEMMA ControllerLeft ==
  ASSUME SetUpInv, at' = 1, dram' \in {"scl", "write", "read", "ok", "failed"},
         try' = try, UNCHANGED <<regs, ddr, taken>>,
         dram' # "failed" => try \in DOMAIN Configs /\ taken = Words /\ ControllerReady
  PROVE  SetUpInv'
<1>1. ConfigTried'
  BY DEF ConfigTried
<1>2. Believed' => taken' = Words' /\ ControllerReady'
  BY DEF Believed, Words, ControllerReady, Runs
<1>3. PrepareStages' /\ CalibrationStages'
  BY DEF PrepareStages, CalibrationStages
<1> QED
  BY <1>1, <1>2, <1>3 DEF SetUpInv

LEMMA StepPrepared ==
  ASSUME SetUpInv, Prepared
  PROVE  SetUpInv'
<1>1. /\ dram = "try" /\ Fits /\ Done /\ dram' = "scl" /\ at' = 1
      /\ UNCHANGED <<try, regs, ddr, taken>>
  BY DEF Prepared, SetUp, pllVars
<1>2. PICK L : L = Len(Preparing[try])
  OBVIOUS
<1>3. L \in Nat /\ L >= 8 /\ Accesses = Preparing[try]
  BY <1>1, <1>2, NextAccess
<1>4. at \in Nat \ {0} /\ at > L
  BY <1>1, <1>2, <1>3 DEF SetUpInv, Done
<1>5. /\ taken = Words
      /\ DDR_CTRL_CLK_SRC \notin regs.clkgate /\ DDR_CTRL_CLK_GATE \in regs.clkgate
      /\ DdrResets \subseteq regs.rst_vec /\ DdrResets \subseteq regs.rst_mask
  <2>1. at >= 3 /\ at >= 4 /\ at >= 6 /\ at >= 7 /\ at >= L
    BY ONLY <1>3, <1>4
  <2> QED
    BY <1>1, <1>2, <2>1 DEF SetUpInv, PrepareStages
<1>6. try \in DOMAIN Configs
  BY <1>1, ConfigFacts DEF SetUpInv, Fits
<1> QED
  BY <1>1, <1>5, <1>6, ControllerLeft DEF ControllerReady, Runs

(* The two tests of the lanes.                                             *)
LEMMA Laned ==
  /\ SCL_START_GO_DONE \notin GoodLanes
  /\ SCL_START_CONTINUOUS_R \notin {SCL_START_GO_DONE}
BY DEF SCL_START_GO_DONE, SCL_START_CONTINUOUS_R, GoodLanes, Lanes

LEMMA StepCalibration ==
  ASSUME SetUpInv, dram = "scl",
         AccessScu \/ AccessDdr \/ DelayPasses \/ PollDdr
  PROVE  SetUpInv'
<1>1. Accesses = Calibrating
  BY DEF Accesses
<1>2. PICK o : o = Accesses[at]
  OBVIOUS
<1>3. at' = at + 1 /\ ~ Done /\ UNCHANGED memVars
  BY DEF AccessScu, AccessDdr, DelayPasses, PollDdr, Doing
<1>4. at \in 1 .. 4
  BY <1>1, <1>3, CalibrationShape DEF Done, SetUpInv
<1>5. \/ at = 1 /\ o = StoreOf("scl_start", {SCL_START_CONTINUOUS_R, SCL_START_GO_DONE})
      \/ at = 2 /\ o = WaitOf("scl_start", SCL_START_GO_DONE, FALSE)
      \/ at = 3 /\ o = StoreOf("scl_start", {SCL_START_GO_DONE})
      \/ at = 4 /\ o = WaitOf("scl_start", SCL_START_GO_DONE, FALSE)
  <2>1. at = 1 \/ at = 2 \/ at = 3 \/ at = 4
    BY ONLY <1>4
  <2>2. o = Calibrating[at]
    BY <1>1, <1>2
  <2> QED
    BY ONLY <2>1, <2>2, CalibrationShape
<1>6. o.op \in {"store", "wait"} /\ o.reg = "scl_start"
  BY <1>5 DEF StoreOf, WaitOf
<1>7. /\ DOMAIN regs = DOMAIN ResetRegs /\ DOMAIN ddr = DOMAIN ResetDdr
      /\ try \in 1 .. Len(Configs) + 1 /\ try \in DOMAIN Configs
      /\ taken = Words /\ ControllerReady
  BY DEF SetUpInv, ConfigTried, Believed
<1>8. UNCHANGED <<regs, taken>>
  BY <1>2, <1>6, <1>7, Registers
     DEF AccessScu, AccessDdr, DelayPasses, PollDdr, Doing, pllVars
<1>9. ddr' = IF o.op = "store" THEN Effect(ddr, o) ELSE ddr
  BY <1>2, <1>6, <1>7, Registers
     DEF AccessScu, AccessDdr, DelayPasses, PollDdr, Doing, ControllerReady
<1>10. DOMAIN ddr' = DOMAIN ddr /\ \A q \in WordsTaken : ddr'[q] = ddr[q]
  BY <1>6, <1>7, <1>9, OneRegister, Registers
<1>11. Words' = Words
  BY <1>10 DEF Words
<1>12. at = 3 => ddr'.scl_start = {SCL_START_GO_DONE}
  BY <1>5, <1>7, <1>9, Registers DEF StoreOf, Effect, Masked
<1>13. at = 4 => ddr.scl_start = GoodLanes /\ ddr' = ddr
  <2>1. SUFFICES ASSUME at = 4 PROVE ddr.scl_start = GoodLanes /\ ddr' = ddr
    OBVIOUS
  <2>2. o = WaitOf("scl_start", SCL_START_GO_DONE, FALSE)
    BY <1>5, <2>1
  <2>3. SCL_START_GO_DONE \notin ddr.scl_start
    BY <1>2, <2>2
       DEF AccessScu, AccessDdr, DelayPasses, PollDdr, Doing, WaitOf
  <2>4. ddr.scl_start \in {{SCL_START_GO_DONE}, GoodLanes}
    BY <2>1 DEF SetUpInv, CalibrationStages
  <2> QED
    BY <1>9, <2>2, <2>3, <2>4 DEF WaitOf
<1>14. dram' = dram /\ try' = try /\ GoodLanes' = GoodLanes
  BY <1>3 DEF memVars, dramVars, GoodLanes
<1>15. CalibrationStages'
  <2>1. at = 3 => ddr'.scl_start \in {{SCL_START_GO_DONE}, GoodLanes}
    BY <1>12
  <2>2. at = 4 => ddr'.scl_start = GoodLanes
    BY <1>13
  <2> QED
    BY <1>3, <1>4, <1>14, <2>1, <2>2 DEF CalibrationStages
<1>16. ControllerReady'
  BY <1>7, <1>8 DEF ControllerReady, Runs
<1>17. at' \in Nat \ {0}
  BY <1>3, <1>4
<1> QED
  BY <1>7, <1>8, <1>10, <1>11, <1>14, <1>15, <1>16, <1>17
     DEF SetUpInv, ConfigTried, PrepareStages

LEMMA StepReadResult ==
  ASSUME SetUpInv, ReadResult
  PROVE  SetUpInv'
<1>1. /\ dram = "scl" /\ at' = 1 /\ UNCHANGED <<regs, ddr, taken>>
      /\ ResultRead(column_mask(config) \subseteq ddr.scl_start)
  BY DEF ReadResult, pllVars
<1>2. /\ try \in DOMAIN Configs /\ taken = Words /\ ControllerReady
      /\ DOMAIN regs = DOMAIN ResetRegs /\ DOMAIN ddr = DOMAIN ResetDdr
  BY <1>1 DEF SetUpInv, ConfigTried, Believed
<1>3. \/ dram' = "write" /\ try' = try
      \/ dram' = "try" /\ try' = try + 1
  BY <1>1 DEF ResultRead, NextTry
<1>4. try + 1 \in 1 .. Len(Configs) + 1
  BY <1>2, ConfigFacts
<1>5. CASE dram' = "write" /\ try' = try
  BY <1>1, <1>2, <1>5, ControllerLeft
<1>6. CASE dram' = "try" /\ try' = try + 1
  BY <1>1, <1>2, <1>4, <1>6, NewTry
<1> QED
  BY <1>3, <1>5, <1>6

LEMMA StepTestMemory ==
  ASSUME SetUpInv, TestMemory
  PROVE  SetUpInv'
<1>1. UNCHANGED <<regs, at, ddr, taken>>
  BY DEF TestMemory, pllVars
<1>2. DOMAIN regs = DOMAIN ResetRegs /\ DOMAIN ddr = DOMAIN ResetDdr
  BY DEF SetUpInv
<1>3. CASE SkipTooLarge
  <2>1. /\ dram = "try" /\ try <= Len(Configs)
        /\ dram' = "try" /\ try' = try + 1
        /\ totalSize(config) > SYS_MEM_MAX_SIZE
    BY <1>3 DEF SkipTooLarge, NextTry
  <2>3. try \in DOMAIN Configs
    BY <2>1, ConfigFacts DEF SetUpInv
  <2>4. totalSize(config) \in Nat /\ SYS_MEM_MAX_SIZE \in Nat
    BY <2>3, ConfigFacts, DramAssumption DEF config
  <2>5. ~ Fits
    BY <2>1, <2>4 DEF Fits
  <2>2. try + 1 \in 1 .. Len(Configs) + 1 /\ at = 1
    BY <2>1, <2>3, <2>5, ConfigFacts DEF SetUpInv
  <2> QED
    BY <1>1, <1>2, <2>1, <2>2, NewTry
<1>4. CASE Exhausted
  <2>1. dram = "try" /\ ~ Fits /\ dram' = "failed" /\ try' = try
    BY <1>4, ConfigFacts DEF Exhausted, Fits
  <2>2. at = 1
    BY <2>1 DEF SetUpInv
  <2> QED
    BY <1>1, <2>1, <2>2, ControllerLeft
<1>5. CASE Write \/ Read
  <2>1. dram \in {"write", "read"}
    BY <1>5 DEF Write, Written, Read, WordRead
  <2>2. /\ at = 1 /\ try \in DOMAIN Configs /\ taken = Words /\ ControllerReady
    BY <2>1 DEF SetUpInv, ConfigTried, Believed
  <2>3. \/ dram' \in {"write", "read", "ok"} /\ try' = try
        \/ dram' = "try" /\ try' = try + 1
    <3>1. CASE Write
      BY <3>1 DEF Write, Written
    <3>2. CASE Read
      <4>1. PICK word : WordRead(word)
        BY <3>2 DEF Read
      <4> QED
        BY <4>1 DEF WordRead
    <3> QED
      BY <1>5, <3>1, <3>2
  <2>4. try + 1 \in 1 .. Len(Configs) + 1
    BY <2>2, ConfigFacts
  <2>5. CASE dram' \in {"write", "read", "ok"} /\ try' = try
    BY <1>1, <2>2, <2>5, ControllerLeft
  <2>6. CASE dram' = "try" /\ try' = try + 1
    BY <1>1, <1>2, <2>2, <2>4, <2>6, NewTry
  <2> QED
    BY <2>3, <2>5, <2>6
<1> QED
  BY <1>3, <1>4, <1>5 DEF TestMemory

LEMMA StepHardware ==
  ASSUME SetUpInv, DdrHardware
  PROVE  SetUpInv'
<1>1. UNCHANGED <<memVars, regs, at, taken>>
  BY DEF DdrHardware, PhyReady, SclEnds, pllVars
<1>2. DOMAIN ddr = DOMAIN ResetDdr
  BY DEF SetUpInv
<1>3. /\ DOMAIN ddr' = DOMAIN ddr
      /\ \A q \in WordsTaken : ddr'[q] = ddr[q]
  BY <1>2, Registers DEF DdrHardware, PhyReady, SclEnds
<1>4. Words' = Words
  BY <1>3 DEF Words
<1>5. /\ dram' = dram /\ try' = try /\ GoodLanes' = GoodLanes /\ Fits' = Fits
  BY <1>1 DEF memVars, dramVars, GoodLanes, Fits, config
<1>6. CalibrationStages'
  <2> SUFFICES ASSUME dram = "scl" PROVE CalibrationStages'
    BY <1>5 DEF CalibrationStages
  <2>1. at = 4 => ddr.scl_start \in {{SCL_START_GO_DONE}, GoodLanes}
    BY DEF SetUpInv, CalibrationStages
  <2>2. at = 5 => ddr.scl_start = GoodLanes
    BY DEF SetUpInv, CalibrationStages
  <2>3. CASE PhyReady
    <3>1. ddr'.scl_start = ddr.scl_start
      BY <1>2, <2>3, Registers DEF PhyReady
    <3> QED
      BY <1>1, <1>5, <3>1 DEF SetUpInv, CalibrationStages
  <2>4. CASE SclEnds
    <3>1. SCL_START_GO_DONE \in ddr.scl_start
      BY <2>4 DEF SclEnds
    <3>2. at # 5
      BY <2>2, <3>1, Laned
    <3>3. ASSUME at = 4 PROVE ddr'.scl_start = GoodLanes
      <4>1. ddr.scl_start = {SCL_START_GO_DONE}
        BY <2>1, <3>1, <3>3, Laned
      <4>2. ddr'.scl_start = ({SCL_START_GO_DONE} \ {SCL_START_GO_DONE}) \cup GoodLanes
        BY <1>2, <2>4, <4>1, Laned, Registers DEF SclEnds
      <4> QED
        BY <4>2
    <3> QED
      BY <1>1, <1>5, <3>2, <3>3 DEF SetUpInv, CalibrationStages
  <2> QED
    BY <2>3, <2>4 DEF DdrHardware
<1>7. PrepareStages' 
  BY <1>1, <1>4, <1>5 DEF SetUpInv, PrepareStages
<1>8. Believed' => taken' = Words' /\ ControllerReady'
  BY <1>1, <1>4, <1>5 DEF SetUpInv, Believed, ControllerReady, Runs
<1> QED
  BY <1>1, <1>2, <1>3, <1>5, <1>6, <1>7, <1>8 DEF SetUpInv, ConfigTried

(* A step elsewhere leaves the set-up where it was.                        *)
LEMMA SetUpLeft ==
  ASSUME SetUpInv, UNCHANGED <<at, try, dram, regs, ddr, taken, fault>>
  PROVE  SetUpInv'
BY DEF SetUpInv, ConfigTried, PrepareStages, CalibrationStages, Believed,
       Words, ControllerReady, Runs, Fits, config, GoodLanes

LEMMA SetUpStep ==
  SetUpInv /\ [SetUpNext]_<<boardVars, pllVars, memVars, setUpVars>> => SetUpInv'
<1> SUFFICES ASSUME SetUpInv, [SetUpNext]_<<boardVars, pllVars, memVars, setUpVars>>
             PROVE  SetUpInv'
  OBVIOUS
<1>1. CASE AccessScu \/ AccessDdr \/ DelayPasses \/ PollDdr
  <2>1. ~ Done
    BY <1>1 DEF AccessScu, AccessDdr, DelayPasses, PollDdr, Doing
  <2>2. (dram = "try" /\ Fits) \/ dram = "scl"
    <3>1. SUFFICES ASSUME ~ (dram = "try" /\ Fits), dram # "scl" PROVE Done
      BY <2>1
    <3>2. Accesses = <<>> /\ at = 1
      BY <3>1 DEF Accesses, SetUpInv
    <3> QED
      BY <3>2 DEF Done
  <2> QED
    BY <1>1, <2>2, StepPrepare, StepCalibration
<1>2. CASE Prepared
  BY <1>2, StepPrepared
<1>3. CASE ReadResult
  BY <1>3, StepReadResult
<1>4. CASE TestMemory
  BY <1>4, StepTestMemory
<1>5. CASE DdrHardware
  BY <1>5, StepHardware
<1>6. CASE UNCHANGED <<boardVars, pllVars, memVars, setUpVars>>
  BY <1>6, SetUpLeft DEF pllVars, memVars, dramVars, setUpVars
<1> QED
  BY <1>1, <1>2, <1>3, <1>4, <1>5, <1>6 DEF SetUpNext, SetUpDdr

(* From the calibration on the chips were initialised with the words the   *)
(* controller holds, and nothing holds it in reset or stops its clock.     *)
THEOREM TakenTheorem == SetUpSpec => []TakenAsHeld
<1>1. SetUpInv => TakenAsHeld
  BY DEF SetUpInv, TakenAsHeld, ControllerReady
<1>2. SetUpSpec => []SetUpInv
  BY InitSetUp, SetUpStep, PTL DEF SetUpSpec
<1> QED
  BY <1>1, <1>2, PTL

-----------------------------------------------------------------------------
(* Without a cache a step of the set-up and the test is a step of the      *)
(* search or none.  The result bits are read at the fifth access, where    *)
(* they tell the lanes the finished write-read test has found good.        *)
LEMMA ResultIsLast ==
  ASSUME SetUpInv, dram = "scl", Done
  PROVE  (column_mask(config) \subseteq ddr.scl_start) <=> ddr_scl_result_ok
<1>1. at = 5
  <2>1. Len(Accesses) = 4
    BY CalibrationShape DEF Accesses
  <2> QED
    BY <2>1 DEF SetUpInv, CalibrationStages, Done
<1>2. ddr.scl_start = GoodLanes
  BY <1>1 DEF SetUpInv, CalibrationStages
<1>3. column_mask(config) \subseteq Lanes
  <2>1. try \in DOMAIN Configs
    BY DEF SetUpInv, ConfigTried
  <2>2. config.bW \in {0, 1}
    <3>1. PICK T : T = [cS : 0 .. 3, cW : 0 .. 2, bW : {0, 1}]
      OBVIOUS
    <3>2. Configs \in Seq(T)
      BY <3>1, DramAssumption
    <3>3. Configs[try] \in T
      BY ONLY <2>1, <3>2
    <3> QED
      BY ONLY <3>1, <3>3 DEF config
  <2> QED
    BY <2>2 DEF column_mask, Lanes
<1> QED
  BY <1>2, <1>3 DEF GoodLanes, ddr_scl_result_ok

LEMMA StepSearch ==
  ASSUME SetUpInv, build = "uncached",
         [SetUpNext]_<<boardVars, pllVars, memVars, setUpVars>>
  PROVE  [DramNext]_dramVars /\ build' = build
<1>1. CASE AccessScu \/ AccessDdr \/ DelayPasses \/ PollDdr \/ DdrHardware
           \/ UNCHANGED <<boardVars, pllVars, memVars, setUpVars>>
  <2>1. UNCHANGED memVars
    BY <1>1 DEF AccessScu, AccessDdr, DelayPasses, PollDdr, DdrHardware, PhyReady, SclEnds
  <2> QED
    BY <2>1 DEF memVars, cacheVars
<1>2. CASE Prepared
  BY <1>2 DEF Prepared, DramNext, cacheVars
<1>3. CASE ReadResult
  <2>1. dram = "scl" /\ Done /\ ResultRead(column_mask(config) \subseteq ddr.scl_start)
    BY <1>3 DEF ReadResult
  <2>2. (column_mask(config) \subseteq ddr.scl_start) = ddr_scl_result_ok
    <3>1. ddr_scl_result_ok \in BOOLEAN
      BY DEF ddr_scl_result_ok
    <3> QED
      BY <2>1, <3>1, ResultIsLast
  <2>3. Calibrate
    BY <2>1, <2>2 DEF Calibrate, ResultRead
  <2> QED
    BY <1>3, <2>3 DEF ReadResult, InvalidateIf, DramNext
<1>4. CASE TestMemory
  <2>1. CASE (SkipTooLarge \/ Exhausted) /\ UNCHANGED cacheVars
    BY <2>1 DEF DramNext, cacheVars
  <2>2. CASE Write
    <3>1. Written /\ mem' = Stored(p32, Pattern) /\ build' = build
      BY <2>2 DEF Write
    <3> QED
      BY <3>1 DEF WriteWord, DramNext
  <2>3. CASE Read
    <3>1. WordRead(Fetched(p32)) /\ mem' = mem /\ build' = build
      BY <2>3 DEF Read
    <3> QED
      BY <3>1 DEF ReadWord, DramNext
  <2> QED
    BY <1>4, <2>1, <2>2, <2>3 DEF TestMemory
<1> QED
  BY <1>1, <1>2, <1>3, <1>4 DEF SetUpNext, SetUpDdr

(* The accesses to the controller amount to the steps of the search.       *)
THEOREM SearchImplemented == SetUpSpec => ImplementsSearch
<1>1. SetUpInv /\ [SetUpNext]_<<boardVars, pllVars, memVars, setUpVars>>
        => [dram # "off" /\ build = "uncached" => DramNext]_dramVars
  BY StepSearch
<1>2. SetUpSpec => []SetUpInv
  BY InitSetUp, SetUpStep, PTL DEF SetUpSpec
<1> QED
  BY <1>1, <1>2, PTL DEF SetUpSpec, ImplementsSearch

(* What is proved of the search is true of the accesses that implement it: *)
(* good memory is sound in the uncached build.                             *)
SoundSearch == build = "uncached" => TInv /\ Stops

THEOREM SoundTheorem == SetUpSpec => [](build = "uncached" => GoodIsSound)
<1>1. SetUpInit => SoundSearch
  BY InitTyped, InitHolds DEF SetUpInit, SoundSearch
<1>2. SetUpInv /\ SoundSearch /\ [SetUpNext]_<<boardVars, pllVars, memVars, setUpVars>>
        => SoundSearch'
  <2> SUFFICES ASSUME SetUpInv, SoundSearch,
                      [SetUpNext]_<<boardVars, pllVars, memVars, setUpVars>>
               PROVE  SoundSearch'
    OBVIOUS
  <2>1. CASE build = "uncached"
    BY <2>1, StepSearch, StepTyped, StepHolds DEF SoundSearch
  <2>2. CASE build # "uncached"
    <3>1. build' = build
      BY DEF SetUpNext, SetUpDdr, AccessScu, AccessDdr, DelayPasses, PollDdr, Prepared,
             ReadResult, InvalidateIf, TestMemory, Write, Read, DdrHardware, PhyReady,
             SclEnds, memVars, cacheVars
    <3> QED
      BY <2>2, <3>1 DEF SoundSearch
  <2> QED
    BY <2>1, <2>2
<1>3. SoundSearch => (build = "uncached" => GoodIsSound)
  BY StopsSound DEF SoundSearch
<1>4. SetUpSpec => []SetUpInv
  BY InitSetUp, SetUpStep, PTL DEF SetUpSpec
<1> QED
  BY <1>1, <1>2, <1>3, <1>4, PTL DEF SetUpSpec

-----------------------------------------------------------------------------
(* The lines of the cache.  In the build that writes back the sweeps of a  *)
(* test begin with no line of theirs and miss at every access.  In the one *)
(* that writes through lines of an earlier configuration may be hit; they  *)
(* are of one sweep, and what is read goes on from its end.                *)
Line == [addr : Nat, word : Word, dirty : BOOLEAN]

(* The lines from the newest to the oldest.                                *)
Recent(s, k) == s[Len(s) + 1 - k]

(* The lines are those a sweep filled that has come to word m of the grid, *)
(* and before them those of a sweep that had gone on far beyond.           *)
Ordered(s, m) ==
  /\ Len(s) = Ways \/ m <= Len(s)
  /\ \A k \in 1 .. Len(s) :
       IF k <= m THEN Recent(s, k).addr = (m - k) * Granularity
       ELSE Recent(s, k).addr >= (m + Ways + 1 - k) * Granularity

AllClean(s) == \A k \in 1 .. Len(s) : ~ Recent(s, k).dirty

LEMMA Multiples ==
  ASSUME NEW a \in Nat, NEW b \in Nat
  PROVE  /\ a * Granularity \in Nat
         /\ a <= b => a * Granularity <= b * Granularity
         /\ a < b => a * Granularity < b * Granularity
         /\ a < b => a * Granularity + Granularity <= b * Granularity
<1>1. Granularity \in Nat \ {0}
  BY DramAssumption
<1>2. PICK G : G = Granularity
  OBVIOUS
<1>3. G \in Nat \ {0}
  BY <1>1, <1>2
<1>4. a * G \in Nat
  BY ONLY <1>3, a \in Nat
<1>5. ASSUME a <= b PROVE a * G <= b * G
  <2>1. PICK d \in Nat : b = a + d
    <3>1. b - a \in Nat /\ b = a + (b - a)
      BY ONLY <1>5, a \in Nat, b \in Nat
    <3>2. QED
      BY ONLY <3>1
  <2>2. b * G = a * G + d * G /\ d * G \in Nat
    BY ONLY <1>3, <2>1, a \in Nat
  <2>3. QED
    BY ONLY <1>4, <2>2
<1>6. ASSUME a < b PROVE a * G + G <= b * G
  <2>1. PICK d \in Nat : b = a + 1 + d
    <3>1. b - a - 1 \in Nat /\ b = a + 1 + (b - a - 1)
      BY ONLY <1>6, a \in Nat, b \in Nat
    <3>2. QED
      BY ONLY <3>1
  <2>2. b * G = a * G + G + d * G /\ d * G \in Nat
    BY ONLY <1>3, <2>1, a \in Nat
  <2>3. QED
    BY ONLY <1>3, <1>4, <2>2
<1>7. ASSUME a < b PROVE a * G < b * G
  <2>1. b * G \in Nat
    BY ONLY <1>3, b \in Nat
  <2>2. QED
    BY ONLY <1>3, <1>4, <1>6, <1>7, <2>1
<1>8. QED
  BY ONLY <1>2, <1>4, <1>5, <1>6, <1>7

LEMMA RecentTyped ==
  ASSUME NEW s \in Seq(Line), NEW k \in 1 .. Len(s)
  PROVE  Recent(s, k) \in Line /\ Len(s) + 1 - k \in 1 .. Len(s)
<1>1. Len(s) + 1 - k \in 1 .. Len(s)
  OBVIOUS
<1>2. QED
  BY <1>1 DEF Recent

LEMMA FilledLines ==
  ASSUME CacheTypeOK, NEW line \in Line
  PROVE  /\ Filled(line) \in Seq(Line)
         /\ Len(Filled(line)) <= Ways /\ Len(Filled(line)) # 0
         /\ \/ Len(Filled(line)) = Len(dcache) + 1
            \/ Len(Filled(line)) = Ways /\ Len(dcache) = Ways
         /\ Recent(Filled(line), 1) = line
         /\ \A k \in 2 .. Len(Filled(line)) :
              k - 1 \in 1 .. Len(dcache) /\ Recent(Filled(line), k) = Recent(dcache, k - 1)
<1>1. dcache \in Seq(Line) /\ Len(dcache) \in Nat /\ Len(dcache) <= Ways /\ Ways \in Nat \ {0}
  BY CacheAssumption DEF CacheTypeOK, Line
<1>2. CASE Len(dcache) = Ways
  <2> DEFINE t == Tail(dcache)
  <2>1. dcache # <<>>
    BY <1>1, <1>2
  <2>2. /\ t \in Seq(Line) /\ Len(t) = Len(dcache) - 1
        /\ \A n \in 1 .. Len(t) : t[n] = dcache[n + 1]
    BY <1>1, <2>1
  <2>3. Filled(line) = Append(t, line)
    BY <1>2 DEF Filled
  <2> HIDE DEF t
  <2>4. PICK s : s = Append(t, line)
    OBVIOUS
  <2>5. /\ s \in Seq(Line) /\ Len(s) = Len(dcache) /\ s[Len(s)] = line
        /\ \A n \in 1 .. Len(s) - 1 : s[n] = dcache[n + 1]
    BY <1>1, <2>2, <2>4
  <2>6. Recent(s, 1) = line
    BY <1>1, <2>5 DEF Recent
  <2>7. ASSUME NEW k \in 2 .. Len(s)
        PROVE  k - 1 \in 1 .. Len(dcache) /\ Recent(s, k) = Recent(dcache, k - 1)
    <3>1. Len(s) + 1 - k \in 1 .. Len(s) - 1 /\ k - 1 \in 1 .. Len(dcache)
      BY <1>1, <2>5
    <3>2. (Len(s) + 1 - k) + 1 = Len(dcache) + 1 - (k - 1)
      BY <1>1, <2>5
    <3>3. QED
      BY <2>5, <3>1, <3>2 DEF Recent
  <2>8. QED
    BY <1>1, <1>2, <2>3, <2>4, <2>5, <2>6, <2>7
<1>3. CASE Len(dcache) # Ways
  <2>1. PICK s : s = Append(dcache, line)
    OBVIOUS
  <2>2. Filled(line) = s
    BY <1>3, <2>1 DEF Filled
  <2>3. /\ s \in Seq(Line) /\ Len(s) = Len(dcache) + 1 /\ s[Len(s)] = line
        /\ \A n \in 1 .. Len(s) - 1 : s[n] = dcache[n]
    BY <1>1, <2>1
  <2>4. Recent(s, 1) = line
    BY <1>1, <2>3 DEF Recent
  <2>5. ASSUME NEW k \in 2 .. Len(s)
        PROVE  k - 1 \in 1 .. Len(dcache) /\ Recent(s, k) = Recent(dcache, k - 1)
    <3>1. Len(s) + 1 - k \in 1 .. Len(s) - 1 /\ k - 1 \in 1 .. Len(dcache)
      BY <1>1, <2>3
    <3>2. Len(s) + 1 - k = Len(dcache) + 1 - (k - 1)
      BY <1>1, <2>3
    <3>3. QED
      BY <2>3, <3>1, <3>2 DEF Recent
  <2>6. QED
    BY <1>1, <1>3, <2>2, <2>3, <2>4, <2>5
<1>4. QED
  BY <1>2, <1>3

(* The sweep goes on.                                                      *)
LEMMA FillOn ==
  ASSUME CacheTypeOK, NEW m \in Nat, Ordered(dcache, m),
         NEW line \in Line, line.addr = m * Granularity
  PROVE  Ordered(Filled(line), m + 1)
<1>1. PICK s : s = Filled(line)
  OBVIOUS
<1>2. /\ Len(s) \in Nat /\ Len(s) <= Ways
      /\ \/ Len(s) = Len(dcache) + 1
         \/ Len(s) = Ways /\ Len(dcache) = Ways
      /\ Recent(s, 1) = line
      /\ \A k \in 2 .. Len(s) :
           k - 1 \in 1 .. Len(dcache) /\ Recent(s, k) = Recent(dcache, k - 1)
  BY <1>1, FilledLines
<1>3. Len(dcache) \in Nat /\ Ways \in Nat
  BY CacheAssumption DEF CacheTypeOK
<1>4. Len(s) = Ways \/ m + 1 <= Len(s)
  BY <1>2, <1>3 DEF Ordered
<1>5. ASSUME NEW k \in 1 .. Len(s)
      PROVE  IF k <= m + 1 THEN Recent(s, k).addr = (m + 1 - k) * Granularity
             ELSE Recent(s, k).addr >= (m + 1 + Ways + 1 - k) * Granularity
  <2>1. CASE k = 1
    <3>1. m + 1 - k = m /\ k <= m + 1
      BY <2>1
    <3>2. QED
      BY <1>2, <2>1, <3>1
  <2>2. CASE k # 1
    <3>1. k \in 2 .. Len(s)
      BY <2>2
    <3>2. k - 1 \in 1 .. Len(dcache) /\ Recent(s, k) = Recent(dcache, k - 1)
      BY <1>2, <3>1
    <3>3. /\ k - 1 <= m <=> k <= m + 1
          /\ m - (k - 1) = m + 1 - k
          /\ m + Ways + 1 - (k - 1) = m + 1 + Ways + 1 - k
      BY <1>3, <3>1
    <3>4. QED
      BY <3>2, <3>3 DEF Ordered
  <2>3. QED
    BY <2>1, <2>2
<1>6. QED
  BY <1>1, <1>4, <1>5 DEF Ordered

(* The word the sweep has come to is not held.                             *)
LEMMA NotHeld ==
  ASSUME CacheTypeOK, NEW m \in Nat, Ordered(dcache, m)
  PROVE  ~ Held(m * Granularity)
<1>1. dcache \in Seq(Line) /\ Len(dcache) \in Nat /\ Len(dcache) <= Ways /\ Ways \in Nat
  BY CacheAssumption DEF CacheTypeOK, Line
<1>2. SUFFICES ASSUME NEW n \in 1 .. Len(dcache), dcache[n].addr = m * Granularity
               PROVE  FALSE
  BY <1>1 DEF Held
<1>3. PICK k : k = Len(dcache) + 1 - n
  OBVIOUS
<1>4. k \in 1 .. Len(dcache) /\ Recent(dcache, k) = dcache[n] /\ k \in Nat
  <2>1. k \in 1 .. Len(dcache) /\ Len(dcache) + 1 - k = n
    BY <1>1, <1>3
  <2>2. QED
    BY <2>1 DEF Recent
<1>5. CASE k <= m
  <2>1. m - k \in Nat /\ m - k < m
    BY <1>4, <1>5
  <2>2. dcache[n].addr = (m - k) * Granularity
    BY <1>4, <1>5 DEF Ordered
  <2>3. QED
    BY <1>2, <2>1, <2>2, Multiples
<1>6. CASE ~ (k <= m)
  <2>1. m + Ways + 1 - k \in Nat /\ m < m + Ways + 1 - k
    BY <1>1, <1>4
  <2>2. dcache[n].addr >= (m + Ways + 1 - k) * Granularity
    BY <1>4, <1>6 DEF Ordered
  <2>3. m * Granularity < (m + Ways + 1 - k) * Granularity /\ m * Granularity \in Nat
        /\ (m + Ways + 1 - k) * Granularity \in Nat
    BY <2>1, Multiples
  <2>4. QED
    BY <1>2, <2>2, <2>3
<1>7. QED
  BY <1>5, <1>6

(* The next sweep begins.                                                  *)
LEMMA BeginsAgain ==
  ASSUME CacheTypeOK, NEW s \in Seq(Line), Len(s) <= Ways,
         NEW m \in Nat, Ordered(s, m), m >= Ways + 1
  PROVE  Ordered(s, 0)
<1>1. Len(s) \in Nat /\ Ways \in Nat
  BY CacheAssumption
<1>2. Len(s) = Ways
  BY <1>1 DEF Ordered
<1>3. ASSUME NEW k \in 1 .. Len(s)
      PROVE  Recent(s, k).addr >= (0 + Ways + 1 - k) * Granularity
  <2>1. k <= m /\ m - k \in Nat /\ 0 + Ways + 1 - k \in Nat /\ 0 + Ways + 1 - k <= m - k
    BY <1>1, <1>2
  <2>2. Recent(s, k).addr = (m - k) * Granularity
    BY <2>1 DEF Ordered
  <2>3. /\ (0 + Ways + 1 - k) * Granularity <= (m - k) * Granularity
        /\ (0 + Ways + 1 - k) * Granularity \in Nat /\ (m - k) * Granularity \in Nat
    BY <2>1, Multiples
  <2>4. QED
    BY <2>2, <2>3
<1>4. \A k \in 1 .. Len(s) : ~ (k <= 0)
  BY <1>1
<1>5. QED
  BY <1>1, <1>2, <1>3, <1>4 DEF Ordered

Sweeping == Testing => OnGrid(p32) /\ p32 < totalSize(config)

NoLines == build = "uncached" => dcache = <<>>

(* What has been read is clean.                                            *)
WrittenBack ==
  build = "write-back" /\ Testing =>
    \E m \in Nat :
      /\ p32 = m * Granularity
      /\ Ordered(dcache, m)
      /\ dram = "read" => \A k \in 1 .. Len(dcache) : k <= m => ~ Recent(dcache, k).dirty

(* The sweep is in what the lines hold of the last one, or goes on from it. *)
ReadOf(m, r) ==
  /\ p32 = r * Granularity
  /\ r > 0 => /\ r <= m /\ m - Len(dcache) <= r - 1
              /\ m * Granularity <= totalSize(config)

WrittenThrough ==
  build = "write-through" =>
    /\ AllClean(dcache)
    /\ \E m \in Nat :
         /\ Ordered(dcache, m)
         /\ dram = "read" => \E r \in Nat : ReadOf(m, r)

Typed == DramTypeOK /\ ConfigTried /\ CacheTypeOK

CacheInv ==
  Typed /\ Sweeping /\ NoLines /\ WrittenBack /\ WrittenThrough /\ ImageIsSafe

-----------------------------------------------------------------------------
LEMMA CacheGeometry ==
  /\ Granularity \in Nat \ {0} /\ Ways \in Nat \ {0}
  /\ build \in Builds => build \in {"uncached", "write-back", "write-through"}
BY DramAssumption, CacheAssumption

LEMMA TestedConfig ==
  ASSUME try \in DOMAIN Configs
  PROVE  /\ totalSize(config) \in Nat \ {0}
         /\ totalSize(config) % Granularity = 0
         /\ \A a \in LoadAt \cup {0} : a + Ways * Granularity < totalSize(config)
BY DramAssumption, CacheAssumption DEF config

(* A sweep is longer than the cache.                                       *)
LEMMA LongSweep ==
  ASSUME try \in DOMAIN Configs, NEW m \in Nat, m * Granularity = totalSize(config)
  PROVE  m >= Ways + 1
<1>1. 0 + Ways * Granularity < m * Granularity
  BY TestedConfig
<1>2. Ways \in Nat
  BY CacheGeometry
<1>3. Ways * Granularity \in Nat /\ m * Granularity \in Nat
  BY <1>2, Multiples
<1>4. ~ (m <= Ways)
  <2>1. m <= Ways => m * Granularity <= Ways * Granularity
    BY <1>2, Multiples
  <2>2. QED
    BY <1>1, <1>3, <2>1
<1>5. QED
  BY <1>2, <1>4

LEMMA SweepAt ==
  ASSUME Typed, Sweeping, Testing
  PROVE  /\ try \in DOMAIN Configs /\ p32 \in Nat
         /\ p32 + Granularity <= totalSize(config)
         /\ OnGrid(p32 + Granularity) /\ OnGrid(0) /\ 0 < totalSize(config)
         /\ SweepEnds => p32 + Granularity = totalSize(config)
         /\ ~ SweepEnds => p32 + Granularity < totalSize(config)
<1>1. try \in DOMAIN Configs /\ p32 \in Nat /\ OnGrid(p32) /\ p32 < totalSize(config)
  BY DEF Typed, ConfigTried, DramTypeOK, Sweeping, Testing
<1>2. totalSize(config) \in Nat \ {0} /\ totalSize(config) % Granularity = 0
  BY <1>1, TestedConfig
<1>3. p32 + Granularity <= totalSize(config)
  BY <1>1, <1>2, GridStep
<1>4. OnGrid(p32 + Granularity) /\ OnGrid(0)
  BY <1>1, GridNext, GridStart
<1>5. QED
  BY <1>1, <1>2, <1>3, <1>4, CacheGeometry DEF SweepEnds

-----------------------------------------------------------------------------
(* Types: of what the memory holds, and of what a test does.               *)
LEMMA StoredTyped ==
  ASSUME DramTypeOK, NEW a \in Nat, NEW w \in Word
  PROVE  Stored(a, w) \in [Address -> Word]
<1>1. OnLines(w) \in Word /\ mem \in [Address -> Word]
  BY OnLinesTyped DEF DramTypeOK
<1>2. QED
  BY <1>1 DEF Stored

LEMMA EvictedTyped ==
  ASSUME DramTypeOK, CacheTypeOK
  PROVE  Evicted \in [Address -> Word]
<1>1. CASE Len(dcache) = Ways /\ Head(dcache).dirty
  <2>1. dcache \in Seq(Line) /\ dcache # <<>>
    BY <1>1, CacheGeometry DEF CacheTypeOK, Line
  <2>2. Head(dcache) \in Line
    BY <2>1
  <2>3. Head(dcache).addr \in Nat /\ Head(dcache).word \in Word
    BY <2>2 DEF Line
  <2>4. QED
    BY <1>1, <2>3, StoredTyped DEF Evicted
<1>2. CASE ~ (Len(dcache) = Ways /\ Head(dcache).dirty)
  BY <1>2 DEF Evicted, DramTypeOK
<1>3. QED
  BY <1>1, <1>2

LEMMA LineHeld ==
  ASSUME CacheTypeOK, NEW a, Held(a)
  PROVE  /\ LineOf(a) \in 1 .. Len(dcache) /\ dcache[LineOf(a)] \in Line
         /\ dcache[LineOf(a)].addr = a
<1>1. dcache \in Seq(Line)
  BY DEF CacheTypeOK, Line
<1>2. LineOf(a) \in DOMAIN dcache /\ dcache[LineOf(a)].addr = a
  BY DEF Held, LineOf
<1>3. QED
  BY <1>1, <1>2

(* A line that is held takes another word and perhaps gets dirty.          *)
LEMMA Overwritten ==
  ASSUME CacheTypeOK, NEW a, Held(a), NEW w \in Word, NEW d \in BOOLEAN,
         NEW s, s = [dcache EXCEPT ![LineOf(a)].word = w, ![LineOf(a)].dirty = d]
  PROVE  /\ s \in Seq(Line) /\ Len(s) = Len(dcache)
<1>1. dcache \in Seq(Line)
  BY DEF CacheTypeOK, Line
<1>2. LineOf(a) \in 1 .. Len(dcache) /\ dcache[LineOf(a)] \in Line
  BY LineHeld
<1>3. [dcache[LineOf(a)] EXCEPT !.word = w, !.dirty = d] \in Line
  BY <1>2 DEF Line
<1>4. PICK l : l = LineOf(a)
  OBVIOUS
<1>5. s = [dcache EXCEPT ![l] = [dcache[l] EXCEPT !.word = w, !.dirty = d]]
  BY <1>1, <1>2, <1>4
<1>6. QED
  BY <1>1, <1>2, <1>3, <1>4, <1>5

(* What the steps of the test share.                                       *)
LEMMA AfterAccess ==
  ASSUME Typed, Sweeping, Testing, fault' = fault, try' = try,
         \/ dram' \in {"write", "read", "ok"} /\ SweepEnds /\ p32' = 0
         \/ dram' \in {"write", "read"} /\ ~ SweepEnds /\ p32' = p32 + Granularity
  PROVE  Sweeping' /\ p32' \in Nat
<1>1. config' = config
  BY DEF config
<1>2. totalSize(config') = totalSize(config)
  BY <1>1
<1>3. /\ p32 \in Nat /\ Granularity \in Nat /\ OnGrid(p32 + Granularity) /\ OnGrid(0)
      /\ 0 < totalSize(config)
      /\ ~ SweepEnds => p32 + Granularity < totalSize(config)
  BY SweepAt, CacheGeometry
<1>4. OnGrid(p32') /\ p32' < totalSize(config) /\ p32' \in Nat
  BY <1>3
<1>5. QED
  BY <1>2, <1>4 DEF Sweeping, OnGrid

(* A write is one of a sweep, a read may also fail.                        *)
LEMMA WrittenShape ==
  ASSUME Written
  PROVE  /\ dram = "write" /\ Testing
         /\ UNCHANGED <<fault, try, i, inverse>>
         /\ \/ dram' = "read" /\ SweepEnds /\ p32' = 0
            \/ dram' = "write" /\ ~ SweepEnds /\ p32' = p32 + Granularity
BY DEF Written, Testing

LEMMA ReadShape ==
  ASSUME DramTypeOK, NEW word, WordRead(word)
  PROVE  /\ dram = "read" /\ Testing /\ fault' = fault
         /\ i' \in Bits /\ inverse' \in BOOLEAN
         /\ \/ dram' = "try" /\ try' = try + 1 /\ p32' = p32
            \/ try' = try /\ dram' \in {"write", "ok"} /\ SweepEnds /\ p32' = 0
            \/ try' = try /\ dram' = "read" /\ ~ SweepEnds /\ p32' = p32 + Granularity
<1>1. dram = "read" /\ fault' = fault
  BY DEF WordRead
<1>2. i \in Bits /\ inverse \in BOOLEAN
  BY DEF DramTypeOK
<1>3. ~ LastBit => i + 1 \in Bits
  BY <1>2, DramAssumption DEF LastBit, Bits
<1>4. CASE ~ Matches(word)
  BY <1>1, <1>2, <1>4 DEF WordRead, Testing
<1>5. CASE Matches(word) /\ ~ SweepEnds
  BY <1>1, <1>2, <1>5 DEF WordRead, Testing
<1>6. CASE Matches(word) /\ SweepEnds
  <2>1. i' \in Bits /\ inverse' \in BOOLEAN
    BY <1>2, <1>3, <1>6 DEF WordRead
  <2>2. try' = try /\ dram' \in {"write", "ok"} /\ p32' = 0
    BY <1>6 DEF WordRead
  <2>3. QED
    BY <1>1, <1>6, <2>1, <2>2 DEF Testing
<1>7. QED
  BY <1>4, <1>5, <1>6

-----------------------------------------------------------------------------
(* Nothing is filled but the word that is accessed, and it is typed.       *)
LEMMA StepWriteTyped ==
  ASSUME Typed, Sweeping, Write
  PROVE  Typed' /\ Sweeping'
<1>1. /\ Testing /\ UNCHANGED <<fault, try, i, inverse>> /\ build' = build
      /\ \/ dram' = "read" /\ SweepEnds /\ p32' = 0
         \/ dram' = "write" /\ ~ SweepEnds /\ p32' = p32 + Granularity
  BY WrittenShape DEF Write
<1>2. Sweeping' /\ p32' \in Nat
  BY <1>1, AfterAccess
<1>3. DramTypeOK /\ CacheTypeOK /\ p32 \in Nat /\ Pattern \in Word /\ try \in DOMAIN Configs
  BY <1>1, SweepAt, PatternTyped DEF Typed
<1>4. mem \in [Address -> Word] /\ Stored(p32, Pattern) \in [Address -> Word]
      /\ Evicted \in [Address -> Word]
  BY <1>3, StoredTyped, EvictedTyped DEF DramTypeOK
<1>5. mem' \in [Address -> Word]
  BY <1>4 DEF Write
<1>6. dcache' \in Seq(Line) /\ Len(dcache') <= Ways
  <2>1. dcache \in Seq(Line) /\ Len(dcache) <= Ways
    BY <1>3 DEF CacheTypeOK, Line
  <2>2. CASE dcache' = Filled([addr |-> p32, word |-> Pattern, dirty |-> TRUE])
    <3>1. [addr |-> p32, word |-> Pattern, dirty |-> TRUE] \in Line
      BY <1>3 DEF Line
    <3>2. QED
      BY <1>3, <2>2, <3>1, FilledLines
  <2>3. CASE Held(p32) /\ dcache' = [dcache EXCEPT ![LineOf(p32)].word = Pattern,
                                                   ![LineOf(p32)].dirty = TRUE]
    <3>1. dcache' \in Seq(Line) /\ Len(dcache') = Len(dcache)
      BY <1>3, <2>3, Overwritten
    <3>2. QED
      BY <2>1, <3>1
  <2>4. CASE Held(p32) /\ dcache' = [dcache EXCEPT ![LineOf(p32)].word = Pattern]
    <3>1. LineOf(p32) \in 1 .. Len(dcache) /\ dcache[LineOf(p32)] \in Line
      BY <1>3, <2>4, LineHeld
    <3>2. [dcache[LineOf(p32)] EXCEPT !.word = Pattern] \in Line
      BY <1>3, <3>1 DEF Line
    <3>3. QED
      BY <2>1, <2>4, <3>1, <3>2
  <2>5. CASE dcache' = dcache
    BY <2>1, <2>5
  <2>6. QED
    BY <2>2, <2>3, <2>4, <2>5 DEF Write
<1>7. DramTypeOK'
  BY <1>1, <1>2, <1>3, <1>5 DEF DramTypeOK
<1>8. CacheTypeOK'
  BY <1>1, <1>3, <1>6 DEF CacheTypeOK, Line
<1>9. ConfigTried'
  BY <1>1, <1>3 DEF ConfigTried
<1>10. QED
  BY <1>2, <1>7, <1>8, <1>9 DEF Typed

LEMMA MemoryRead ==
  ASSUME DramTypeOK, CacheTypeOK
  PROVE  FromMemory(Evicted) \in Word
<1>1. Evicted \in [Address -> Word] /\ Cell(p32) \in Address
  BY EvictedTyped, CellInRange DEF DramTypeOK
<1>2. Evicted[Cell(p32)] \in Word
  BY <1>1
<1>3. QED
  BY <1>2, OnLinesTyped DEF FromMemory

(* The line a read fills.                                                  *)
ReadLine == [addr |-> p32, word |-> FromMemory(Evicted), dirty |-> FALSE]

LEMMA ReadFills ==
  ASSUME Typed, Read
  PROVE  /\ \E word : WordRead(word)
         /\ build' = build
         /\ ReadLine \in Line
         /\ \/ build = "uncached" /\ UNCHANGED <<mem, dcache>>
            \/ build # "uncached" /\ Held(p32) /\ UNCHANGED <<mem, dcache>>
            \/ build # "uncached" /\ ~ Held(p32) /\ mem' = Evicted /\ dcache' = Filled(ReadLine)
<1>1. ReadLine \in Line
  BY MemoryRead DEF ReadLine, Line, Typed, DramTypeOK
<1>2. build' = build
  BY DEF Read
<1>3. CASE build = "uncached"
  BY <1>1, <1>2, <1>3 DEF Read
<1>4. CASE build # "uncached" /\ Held(p32)
  BY <1>1, <1>2, <1>4 DEF Read
<1>5. CASE build # "uncached" /\ ~ Held(p32)
  <2>1. /\ mem' = Evicted
        /\ WordRead(FromMemory(mem'))
        /\ dcache' = Filled([addr |-> p32, word |-> FromMemory(mem'), dirty |-> FALSE])
    BY <1>5 DEF Read
  <2>2. dcache' = Filled(ReadLine)
    BY <2>1 DEF ReadLine
  <2>3. QED
    BY <1>1, <1>2, <1>5, <2>1, <2>2
<1>6. QED
  BY <1>3, <1>4, <1>5

LEMMA StepReadTyped ==
  ASSUME Typed, Sweeping, Read
  PROVE  Typed' /\ Sweeping'
<1>1. DramTypeOK /\ CacheTypeOK
  BY DEF Typed
<1>2. PICK word : WordRead(word)
  BY ReadFills
<1>3. /\ dram = "read" /\ Testing /\ fault' = fault
      /\ i' \in Bits /\ inverse' \in BOOLEAN
      /\ \/ dram' = "try" /\ try' = try + 1 /\ p32' = p32
         \/ try' = try /\ dram' \in {"write", "ok"} /\ SweepEnds /\ p32' = 0
         \/ try' = try /\ dram' = "read" /\ ~ SweepEnds /\ p32' = p32 + Granularity
  BY <1>1, <1>2, ReadShape
<1>4. try \in DOMAIN Configs /\ p32 \in Nat
  BY <1>3, SweepAt
<1>5. Sweeping' /\ p32' \in Nat
  <2>1. CASE dram' = "try"
    BY <1>3, <1>4, <2>1 DEF Sweeping, Testing
  <2>2. CASE dram' # "try"
    BY <1>3, <2>2, AfterAccess
  <2>3. QED
    BY <2>1, <2>2
<1>6. try' \in 1 .. Len(Configs) + 1 /\ ConfigTried'
  BY <1>3, <1>4, ConfigFacts DEF ConfigTried
<1>7. /\ build' = build /\ ReadLine \in Line
      /\ \/ UNCHANGED <<mem, dcache>>
         \/ mem' = Evicted /\ dcache' = Filled(ReadLine)
  BY ReadFills
<1>8. mem' \in [Address -> Word] /\ dcache' \in Seq(Line) /\ Len(dcache') <= Ways
  <2>1. CASE UNCHANGED <<mem, dcache>>
    BY <1>1, <2>1 DEF DramTypeOK, CacheTypeOK, Line
  <2>2. CASE mem' = Evicted /\ dcache' = Filled(ReadLine)
    BY <1>1, <1>7, <2>2, EvictedTyped, FilledLines
  <2>3. QED
    BY <1>7, <2>1, <2>2
<1>9. DramTypeOK'
  BY <1>1, <1>3, <1>5, <1>6, <1>8 DEF DramTypeOK
<1>10. CacheTypeOK'
  BY <1>1, <1>7, <1>8 DEF CacheTypeOK, Line
<1>11. QED
  BY <1>5, <1>6, <1>9, <1>10 DEF Typed

(* A sweep that has read the last word leaves the lines of the end, which  *)
(* are beyond the image.                                                   *)
LEMMA LinesOfTheEnd ==
  ASSUME try \in DOMAIN Configs, NEW s \in Seq(Line), Len(s) <= Ways,
         NEW m \in Nat, Ordered(s, m), m * Granularity = totalSize(config)
  PROVE  \A n \in 1 .. Len(s) :
           /\ s[n].addr \notin LoadAt
           /\ \E k \in 1 .. Len(s) : k <= m /\ s[n] = Recent(s, k)
<1>1. m >= Ways + 1 /\ Ways \in Nat /\ Len(s) \in Nat
  BY LongSweep, CacheGeometry
<1>2. SUFFICES ASSUME NEW n \in 1 .. Len(s)
               PROVE  /\ s[n].addr \notin LoadAt
                      /\ \E k \in 1 .. Len(s) : k <= m /\ s[n] = Recent(s, k)
  OBVIOUS
<1>3. PICK k : k = Len(s) + 1 - n
  OBVIOUS
<1>4. k \in 1 .. Len(s) /\ k <= m /\ s[n] = Recent(s, k)
  <2>1. k \in 1 .. Len(s) /\ k <= m /\ Len(s) + 1 - k = n
    BY <1>1, <1>3
  <2>2. QED
    BY <2>1 DEF Recent
<1>5. s[n].addr = (m - k) * Granularity
  BY <1>4 DEF Ordered
<1>6. ASSUME NEW a \in LoadAt PROVE a # s[n].addr
  <2>1. a + Ways * Granularity < m * Granularity /\ a \in Nat
    BY TestedConfig, CacheAssumption DEF Address
  <2>2. m - k \in Nat /\ m - Ways \in Nat /\ m - Ways <= m - k
    BY <1>1, <1>4
  <2>3. (m - Ways) * Granularity <= (m - k) * Granularity
    BY <2>2, Multiples
  <2>4. PICK G \in Nat : G = Granularity
    BY CacheGeometry
  <2>5. (m - Ways) * G = m * G - Ways * G /\ m * G \in Nat /\ Ways * G \in Nat
        /\ (m - k) * G \in Nat
    BY ONLY <1>1, <2>2, <2>4, m \in Nat
  <2>6. QED
    BY <1>5, <2>1, <2>3, <2>4, <2>5
<1>7. QED
  BY <1>4, <1>6

(* What a fill does to the dirty lines.                                    *)
LEMMA FillClean ==
  ASSUME CacheTypeOK, NEW m \in Nat, NEW line \in Line, ~ line.dirty,
         \A k \in 1 .. Len(dcache) : k <= m => ~ Recent(dcache, k).dirty
  PROVE  \A k \in 1 .. Len(Filled(line)) : k <= m + 1 => ~ Recent(Filled(line), k).dirty
<1>1. PICK s : s = Filled(line)
  OBVIOUS
<1>2. /\ Len(s) \in Nat /\ Recent(s, 1) = line
      /\ \A k \in 2 .. Len(s) :
           k - 1 \in 1 .. Len(dcache) /\ Recent(s, k) = Recent(dcache, k - 1)
  BY <1>1, FilledLines
<1>3. ASSUME NEW k \in 1 .. Len(s), k <= m + 1 PROVE ~ Recent(s, k).dirty
  <2>1. CASE k = 1
    BY <1>2, <2>1
  <2>2. CASE k # 1
    <3>1. k \in 2 .. Len(s) /\ k - 1 <= m
      BY <1>3, <2>2
    <3>2. k - 1 \in 1 .. Len(dcache) /\ Recent(s, k) = Recent(dcache, k - 1)
      BY <1>2, <3>1
    <3>3. QED
      BY <3>1, <3>2
  <2>3. QED
    BY <2>1, <2>2
<1>4. QED
  BY <1>1, <1>3

-----------------------------------------------------------------------------
(* The build that writes back: each access of a sweep misses.              *)
BackAt(s, m, reads) ==
  /\ Ordered(s, m)
  /\ reads => \A k \in 1 .. Len(s) : k <= m => ~ Recent(s, k).dirty

LEMMA BackMisses ==
  ASSUME Typed, Sweeping, WrittenBack, build = "write-back", Testing
  PROVE  \E m \in Nat : /\ p32 = m * Granularity
                        /\ p32 + Granularity = (m + 1) * Granularity
                        /\ BackAt(dcache, m, dram = "read") /\ ~ Held(p32)
<1>1. PICK m \in Nat : p32 = m * Granularity /\ BackAt(dcache, m, dram = "read")
  BY DEF WrittenBack, BackAt
<1>2. ~ Held(p32)
  BY <1>1, NotHeld DEF BackAt, Typed
<1>3. p32 + Granularity = (m + 1) * Granularity
  BY <1>1, CacheGeometry
<1>4. QED
  BY <1>1, <1>2, <1>3

(* The lines at the end of a sweep are as good as none for the next.       *)
LEMMA BackAgain ==
  ASSUME CacheTypeOK, try \in DOMAIN Configs, NEW s \in Seq(Line), Len(s) <= Ways,
         NEW m \in Nat, Ordered(s, m), m * Granularity = totalSize(config),
         NEW reads
  PROVE  BackAt(s, 0, reads) /\ 0 = 0 * Granularity
<1>1. Ordered(s, 0)
  BY LongSweep, BeginsAgain
<1>2. \A k \in 1 .. Len(s) : ~ (k <= 0)
  OBVIOUS
<1>3. QED
  BY <1>1, <1>2, CacheGeometry DEF BackAt

LEMMA StepWriteBack ==
  ASSUME Typed, Sweeping, WrittenBack, Write, build = "write-back"
  PROVE  WrittenBack'
<1>1. /\ dram = "write" /\ Testing /\ try' = try
      /\ \/ dram' = "read" /\ SweepEnds /\ p32' = 0
         \/ dram' = "write" /\ ~ SweepEnds /\ p32' = p32 + Granularity
  BY WrittenShape DEF Write
<1>2. PICK m \in Nat : /\ p32 = m * Granularity
                       /\ p32 + Granularity = (m + 1) * Granularity
                       /\ BackAt(dcache, m, dram = "read") /\ ~ Held(p32)
  BY <1>1, BackMisses
<1>3. PICK line \in Line : line.addr = p32 /\ dcache' = Filled(line)
  <2>1. dcache' = Filled([addr |-> p32, word |-> Pattern, dirty |-> TRUE])
    BY <1>2 DEF Write
  <2>2. [addr |-> p32, word |-> Pattern, dirty |-> TRUE] \in Line
    BY <1>1, SweepAt, PatternTyped DEF Line, Typed
  <2>3. QED
    BY <2>1, <2>2
<1>4. /\ Ordered(dcache', m + 1)
      /\ dcache' \in Seq(Line) /\ Len(dcache') <= Ways
  BY <1>2, <1>3, FillOn, FilledLines DEF Typed, BackAt
<1>5. CASE dram' = "write" /\ ~ SweepEnds /\ p32' = p32 + Granularity
  <2>1. BackAt(dcache', m + 1, dram' = "read") /\ p32' = (m + 1) * Granularity
    BY <1>2, <1>4, <1>5 DEF BackAt
  <2>2. QED
    BY <2>1 DEF WrittenBack, BackAt
<1>6. CASE dram' = "read" /\ SweepEnds /\ p32' = 0
  <2>1. (m + 1) * Granularity = totalSize(config) /\ try \in DOMAIN Configs
    BY <1>1, <1>2, <1>6, SweepAt
  <2>2. BackAt(dcache', 0, dram' = "read") /\ 0 = 0 * Granularity
    BY <1>4, <2>1, BackAgain DEF Typed
  <2>3. QED
    BY <1>6, <2>2 DEF WrittenBack, BackAt
<1>7. QED
  BY <1>1, <1>5, <1>6

LEMMA StepReadBack ==
  ASSUME Typed, Sweeping, WrittenBack, Read, build = "write-back"
  PROVE  WrittenBack' /\ ImageIsSafe'
<1>1. PICK word : WordRead(word)
  BY ReadFills
<1>2. /\ dram = "read" /\ Testing
      /\ \/ dram' = "try"
         \/ try' = try /\ dram' \in {"write", "ok"} /\ SweepEnds /\ p32' = 0
         \/ try' = try /\ dram' = "read" /\ ~ SweepEnds /\ p32' = p32 + Granularity
  BY <1>1, ReadShape DEF Typed
<1>3. PICK m \in Nat : /\ p32 = m * Granularity
                       /\ p32 + Granularity = (m + 1) * Granularity
                       /\ BackAt(dcache, m, dram = "read") /\ ~ Held(p32)
  BY <1>2, BackMisses
<1>4. ReadLine \in Line /\ dcache' = Filled(ReadLine)
  BY <1>3, ReadFills
<1>5. ReadLine.addr = p32 /\ ~ ReadLine.dirty
  BY DEF ReadLine
<1>6. /\ BackAt(dcache', m + 1, TRUE)
      /\ dcache' \in Seq(Line) /\ Len(dcache') <= Ways
  <2>1. Ordered(dcache', m + 1) /\ dcache' \in Seq(Line) /\ Len(dcache') <= Ways
    BY <1>3, <1>4, <1>5, FillOn, FilledLines DEF Typed, BackAt
  <2>2. \A k \in 1 .. Len(dcache) : k <= m => ~ Recent(dcache, k).dirty
    BY <1>2, <1>3 DEF BackAt
  <2>3. \A k \in 1 .. Len(Filled(ReadLine)) :
          k <= m + 1 => ~ Recent(Filled(ReadLine), k).dirty
    BY <1>4, <1>5, <2>2, FillClean DEF Typed
  <2>4. QED
    BY <1>4, <2>1, <2>3 DEF BackAt
<1>7. CASE dram' = "try"
  BY <1>7 DEF WrittenBack, ImageIsSafe, Testing
<1>8. CASE dram' = "read" /\ ~ SweepEnds /\ p32' = p32 + Granularity
  <2>1. p32' = (m + 1) * Granularity
    BY <1>3, <1>8
  <2>2. QED
    BY <1>6, <1>8, <2>1 DEF WrittenBack, ImageIsSafe, BackAt
<1>9. CASE try' = try /\ dram' \in {"write", "ok"} /\ SweepEnds /\ p32' = 0
  <2>1. (m + 1) * Granularity = totalSize(config) /\ try \in DOMAIN Configs
    BY <1>2, <1>3, <1>9, SweepAt
  <2>2. BackAt(dcache', 0, dram' = "read") /\ 0 = 0 * Granularity
    BY <1>6, <2>1, BackAgain DEF Typed, BackAt
  <2>3. WrittenBack'
    BY <1>9, <2>2 DEF WrittenBack, BackAt
  <2>4. \A n \in 1 .. Len(dcache') :
          /\ dcache'[n].addr \notin LoadAt
          /\ \E k \in 1 .. Len(dcache') : k <= m + 1 /\ dcache'[n] = Recent(dcache', k)
    BY <1>6, <2>1, LinesOfTheEnd DEF BackAt
  <2>5. \A n \in 1 .. Len(dcache') : ~ dcache'[n].dirty /\ dcache'[n].addr \notin LoadAt
    BY <1>6, <2>4 DEF BackAt
  <2>6. DOMAIN dcache' = 1 .. Len(dcache')
    BY <1>6
  <2>7. QED
    BY <2>3, <2>5, <2>6 DEF ImageIsSafe
<1>10. QED
  BY <1>2, <1>7, <1>8, <1>9

(* What is left of an invalidation is beyond the words the test looks at.  *)
LEMMA StepInvalidate ==
  ASSUME Typed, ReadResult, build = "write-back"
  PROVE  /\ dcache' \in Seq(Line) /\ Len(dcache') <= Ways
         /\ dram' = "write" => BackAt(dcache', 0, FALSE)
<1>1. /\ InvalidateIf(dram' = "write") /\ try \in DOMAIN Configs
      /\ dram' = "write" => try' = try
  <2>1. InvalidateIf(dram' = "write")
    BY DEF ReadResult
  <2>2. ResultRead(column_mask(config) \subseteq ddr.scl_start)
    BY DEF ReadResult
  <2>3. dram = "scl" /\ (dram' = "write" => try' = try)
    BY <2>2 DEF ResultRead, NextTry
  <2>4. QED
    BY <2>1, <2>3 DEF Typed, ConfigTried
<1>2. dcache \in Seq(Line) /\ Len(dcache) \in Nat /\ Len(dcache) <= Ways /\ Ways \in Nat
  BY CacheGeometry DEF Typed, CacheTypeOK, Line
<1>3. CASE dram' # "write"
  BY <1>1, <1>2, <1>3 DEF InvalidateIf
<1>4. CASE dram' = "write"
  <2>1. PICK left \in [1 .. Cardinality(Beyond) -> Beyond] :
           dcache' = [n \in DOMAIN left |-> dcache[left[n]]]
    BY <1>1, <1>4 DEF InvalidateIf
  <2>2. Beyond \subseteq 1 .. Len(dcache)
    BY <1>2 DEF Beyond
  <2>3. Cardinality(Beyond) \in Nat /\ Cardinality(Beyond) <= Len(dcache)
    <3>1. IsFiniteSet(1 .. Len(dcache)) /\ Cardinality(1 .. Len(dcache)) = Len(dcache)
      <4>1. 1 \in Int /\ Len(dcache) \in Int
        BY <1>2
      <4>2. /\ IsFiniteSet(1 .. Len(dcache))
            /\ Cardinality(1 .. Len(dcache)) = IF 1 > Len(dcache) THEN 0
                                               ELSE Len(dcache) - 1 + 1
        BY <4>1, FS_Interval
      <4>3. QED
        BY <1>2, <4>2
    <3>2. /\ IsFiniteSet(Beyond)
          /\ Cardinality(Beyond) <= Cardinality(1 .. Len(dcache))
      BY <2>2, <3>1, FS_Subset
    <3>3. Cardinality(Beyond) \in Nat
      BY <3>2, FS_CardinalityType
    <3>4. QED
      BY <3>1, <3>2, <3>3
  <2>4. PICK c \in Nat : c = Cardinality(Beyond)
    BY <2>3
  <2>5. dcache' = [n \in 1 .. c |-> dcache[left[n]]]
    BY <2>1, <2>4
  <2>6. \A n \in 1 .. c : /\ dcache[left[n]] \in Line
                          /\ dcache[left[n]].addr >= totalSize(config)
    <3>1. \A n \in 1 .. c : left[n] \in Beyond
      BY <2>1, <2>4
    <3>2. QED
      BY <1>2, <3>1 DEF Beyond
  <2>7. dcache' \in Seq(Line) /\ Len(dcache') = c /\ c <= Ways
    <3>1. c <= Ways
      BY <1>2, <2>3, <2>4
    <3>2. PICK s : s = dcache'
      OBVIOUS
    <3>3. s = [n \in 1 .. c |-> s[n]] /\ \A n \in 1 .. c : s[n] \in Line
      BY <2>5, <2>6, <3>2
    <3>4. s \in Seq(Line) /\ Len(s) = c
      BY ONLY <2>4, <3>3
    <3>5. QED
      BY <3>1, <3>2, <3>4
  <2>8. ASSUME NEW k \in 1 .. Len(dcache')
        PROVE  Recent(dcache', k).addr >= (0 + Ways + 1 - k) * Granularity
    <3>1. c + 1 - k \in 1 .. c
      BY <2>4, <2>7
    <3>2. Recent(dcache', k).addr >= totalSize(config) /\ Recent(dcache', k) \in Line
      BY <2>5, <2>6, <2>7, <3>1 DEF Recent
    <3>3. 0 + Ways * Granularity < totalSize(config) /\ totalSize(config) \in Nat
      BY <1>1, TestedConfig
    <3>4. 0 + Ways + 1 - k \in Nat /\ 0 + Ways + 1 - k <= Ways
      BY <1>2, <2>7
    <3>5. /\ (0 + Ways + 1 - k) * Granularity <= Ways * Granularity
          /\ (0 + Ways + 1 - k) * Granularity \in Nat /\ Ways * Granularity \in Nat
      BY <1>2, <3>4, Multiples
    <3>6. QED
      BY <3>2, <3>3, <3>5 DEF Line
  <2>9. \A k \in 1 .. Len(dcache') : ~ (k <= 0)
    OBVIOUS
  <2>10. Ordered(dcache', 0)
    BY <2>4, <2>7, <2>8, <2>9 DEF Ordered
  <2>11. QED
    BY <2>7, <2>10 DEF BackAt
<1>5. QED
  BY <1>3, <1>4

(* The build that writes through: the lines are always clean, a write      *)
(* fills none and leaves the addresses.                                    *)
LEMMA StepWriteThrough ==
  ASSUME Typed, WrittenThrough, Write, build = "write-through"
  PROVE  WrittenThrough'
<1>1. dram' = "read" => p32' = 0
  BY WrittenShape DEF Write
<1>2. dcache \in Seq(Line) /\ Len(dcache) \in Nat
  BY DEF Typed, CacheTypeOK, Line
<1>3. /\ Len(dcache') = Len(dcache)
      /\ \A n \in 1 .. Len(dcache) : /\ dcache'[n].addr = dcache[n].addr
                                     /\ dcache'[n].dirty = dcache[n].dirty
  <2>1. dcache' = IF Held(p32) THEN [dcache EXCEPT ![LineOf(p32)].word = Pattern] ELSE dcache
    BY DEF Write
  <2>2. CASE Held(p32)
    <3>1. LineOf(p32) \in 1 .. Len(dcache) /\ dcache[LineOf(p32)] \in Line
      BY <2>2, LineHeld DEF Typed
    <3>2. \A n \in 1 .. Len(dcache) : dcache[n] \in Line
      BY <1>2
    <3>3. PICK l : l = LineOf(p32)
      OBVIOUS
    <3>4. dcache' = [dcache EXCEPT ![l] = [dcache[l] EXCEPT !.word = Pattern]]
      BY <2>1, <2>2, <3>3
    <3>5. /\ [dcache[l] EXCEPT !.word = Pattern].addr = dcache[l].addr
          /\ [dcache[l] EXCEPT !.word = Pattern].dirty = dcache[l].dirty
      BY <3>1, <3>3 DEF Line
    <3>6. Len(dcache') = Len(dcache)
      BY <1>2, <3>4
    <3>7. QED
      BY <1>2, <3>4, <3>5, <3>6
  <2>3. CASE ~ Held(p32)
    BY <2>1, <2>3
  <2>4. QED
    BY <2>2, <2>3
<1>4. \A k \in 1 .. Len(dcache) : /\ Recent(dcache', k).addr = Recent(dcache, k).addr
                                  /\ Recent(dcache', k).dirty = Recent(dcache, k).dirty
  <2>1. \A k \in 1 .. Len(dcache) : Len(dcache) + 1 - k \in 1 .. Len(dcache)
    BY <1>2
  <2>2. QED
    BY <1>3, <2>1 DEF Recent
<1>5. PICK m \in Nat : Ordered(dcache, m)
  BY DEF WrittenThrough
<1>6. Ordered(dcache', m)
  BY <1>3, <1>4, <1>5 DEF Ordered
<1>7. AllClean(dcache')
  BY <1>3, <1>4 DEF WrittenThrough, AllClean
<1>8. ASSUME dram' = "read" PROVE ReadOf(m, 0)'
  <2>1. p32' = 0 * Granularity
    BY <1>1, <1>8, CacheGeometry
  <2>2. QED
    BY <2>1 DEF ReadOf
<1>9. QED
  BY <1>6, <1>7, <1>8 DEF WrittenThrough

(* After a read its word is in the last run of lines.                      *)
LEMMA ReadThrough ==
  ASSUME Typed, Sweeping, WrittenThrough, Read, build = "write-through"
  PROVE  /\ AllClean(dcache')
         /\ dcache' \in Seq(Line) /\ Len(dcache') <= Ways
         /\ \E m, r \in Nat :
              /\ p32 = r * Granularity /\ p32 + Granularity = (r + 1) * Granularity
              /\ Ordered(dcache', m)
              /\ r + 1 <= m /\ m - Len(dcache') <= r
              /\ m * Granularity <= totalSize(config)
<1>1. dram = "read" /\ Testing
  BY ReadFills, ReadShape DEF Typed
<1>2. /\ try \in DOMAIN Configs /\ p32 \in Nat
      /\ p32 + Granularity <= totalSize(config)
  BY <1>1, SweepAt
<1>3. CacheTypeOK /\ dcache \in Seq(Line) /\ Len(dcache) \in Nat /\ Len(dcache) <= Ways
      /\ Ways \in Nat /\ totalSize(config) \in Nat
  BY <1>2, CacheGeometry, TestedConfig DEF Typed, CacheTypeOK, Line
<1>4. PICK m \in Nat, r \in Nat : Ordered(dcache, m) /\ ReadOf(m, r)
  BY <1>1 DEF WrittenThrough
<1>5. p32 = r * Granularity /\ p32 + Granularity = (r + 1) * Granularity
  BY <1>4, CacheGeometry DEF ReadOf
<1>6. CASE Held(p32)
  <2>1. dcache' = dcache
    BY <1>6, ReadFills
  <2>2. r # m
    BY <1>3, <1>4, <1>5, <1>6, NotHeld
  <2>3. CASE r > 0
    <3>1. r <= m /\ m - Len(dcache) <= r - 1 /\ m * Granularity <= totalSize(config)
      BY <1>4, <2>3 DEF ReadOf
    <3>2. r + 1 <= m /\ m - Len(dcache) <= r
      BY <1>3, <2>2, <3>1
    <3>3. QED
      BY <1>3, <1>4, <1>5, <2>1, <3>1, <3>2 DEF WrittenThrough
  <2>4. CASE r = 0
    <3>1. PICK n \in 1 .. Len(dcache) : dcache[n].addr = 0
      BY <1>3, <1>5, <1>6, <2>4, CacheGeometry DEF Held
    <3>2. PICK k : k = Len(dcache) + 1 - n
      OBVIOUS
    <3>3. k \in 1 .. Len(dcache) /\ k \in Nat /\ Recent(dcache, k).addr = 0
      <4>1. k \in 1 .. Len(dcache) /\ Len(dcache) + 1 - k = n
        BY <1>3, <3>2
      <4>2. QED
        BY <3>1, <4>1 DEF Recent
    <3>4. k <= m
      <4>1. SUFFICES ASSUME ~ (k <= m) PROVE FALSE
        OBVIOUS
      <4>2. 0 >= (m + Ways + 1 - k) * Granularity
        BY <1>4, <3>3, <4>1 DEF Ordered
      <4>3. m + Ways + 1 - k \in Nat /\ 0 < m + Ways + 1 - k
        BY <1>3, <3>3
      <4>4. 0 * Granularity < (m + Ways + 1 - k) * Granularity
            /\ (m + Ways + 1 - k) * Granularity \in Nat
        BY <4>3, Multiples
      <4>5. 0 * Granularity = 0
        BY CacheGeometry
      <4>6. QED
        BY <4>2, <4>4, <4>5
    <3>5. k = m
      <4>1. SUFFICES ASSUME k # m PROVE FALSE
        OBVIOUS
      <4>2. (m - k) * Granularity = 0
        BY <1>4, <3>3, <3>4 DEF Ordered
      <4>3. m - k \in Nat /\ 0 < m - k
        BY <3>3, <3>4, <4>1
      <4>4. 0 * Granularity < (m - k) * Granularity
        BY <4>3, Multiples
      <4>5. 0 * Granularity = 0
        BY CacheGeometry
      <4>6. QED
        BY <4>2, <4>4, <4>5
    <3>6. m <= Ways
      BY <1>3, <3>3, <3>5
    <3>7. m * Granularity <= Ways * Granularity
      BY <1>3, <3>6, Multiples
    <3>8. 0 + Ways * Granularity < totalSize(config)
      BY <1>2, TestedConfig
    <3>9. m * Granularity \in Nat /\ Ways * Granularity \in Nat
      BY <1>3, Multiples
    <3>10. m * Granularity <= totalSize(config)
      BY <1>3, <3>7, <3>8, <3>9
    <3>11. r + 1 <= m /\ m - Len(dcache) <= r
      BY <1>3, <2>4, <3>3, <3>5
    <3>12. QED
      BY <1>3, <1>4, <1>5, <2>1, <3>10, <3>11 DEF WrittenThrough
  <2>5. QED
    BY <2>3, <2>4
<1>7. CASE ~ Held(p32)
  <2>1. ReadLine \in Line /\ dcache' = Filled(ReadLine)
    BY <1>7, ReadFills
  <2>2. ReadLine.addr = r * Granularity /\ ~ ReadLine.dirty
    BY <1>5 DEF ReadLine
  <2>3. ASSUME NEW k \in 1 .. Len(dcache), k = m - r
        PROVE  FALSE
    <3>1. k <= m /\ m - k = r
      BY <2>3
    <3>2. Recent(dcache, k).addr = r * Granularity
      BY <1>4, <3>1 DEF Ordered
    <3>3. Len(dcache) + 1 - k \in DOMAIN dcache
      BY <1>3
    <3>4. QED
      BY <1>5, <1>7, <3>2, <3>3 DEF Held, Recent
  <2>4. Ordered(dcache, r)
    <3>1. CASE r = m
      BY <1>4, <3>1
    <3>2. CASE r # m /\ r > 0
      <4>1. r <= m /\ m - Len(dcache) <= r - 1
        BY <1>4, <3>2 DEF ReadOf
      <4>2. m - r \in 1 .. Len(dcache)
        BY <1>3, <3>2, <4>1
      <4>3. QED
        BY <2>3, <4>2
    <3>3. CASE r # m /\ r = 0
      <4>1. ~ (m <= Len(dcache))
        <5>1. m \in 1 .. Len(dcache) => FALSE
          BY <2>3, <3>3
        <5>2. QED
          BY <1>3, <3>3, <5>1
      <4>2. m >= Ways + 1
        BY <1>3, <1>4, <4>1 DEF Ordered
      <4>3. QED
        BY <1>3, <1>4, <3>3, <4>2, BeginsAgain
    <3>4. QED
      BY <3>1, <3>2, <3>3
  <2>5. Ordered(dcache', r + 1)
    BY <1>3, <2>1, <2>2, <2>4, FillOn
  <2>6. /\ dcache' \in Seq(Line) /\ Len(dcache') <= Ways /\ Len(dcache') # 0
        /\ \A k \in 1 .. Len(dcache') : k <= Ways + 1
    BY <1>3, <2>1, FilledLines
  <2>7. AllClean(dcache')
    <3>1. \A k \in 1 .. Len(dcache) : ~ Recent(dcache, k).dirty
      BY DEF WrittenThrough, AllClean
    <3>2. \A k \in 1 .. Len(Filled(ReadLine)) :
            k <= Ways + 1 => ~ Recent(Filled(ReadLine), k).dirty
      BY <1>3, <2>1, <2>2, <3>1, FillClean
    <3>3. QED
      BY <2>1, <2>6, <3>2 DEF AllClean
  <2>8. r + 1 \in Nat /\ r + 1 <= r + 1 /\ r + 1 - Len(dcache') <= r
    <3>1. Len(dcache') \in Nat
      BY <2>6
    <3>2. QED
      BY <2>6, <3>1
  <2>9. (r + 1) * Granularity <= totalSize(config)
    BY <1>2, <1>5
  <2>10. QED
    BY <1>5, <2>5, <2>6, <2>7, <2>8, <2>9
<1>8. QED
  BY <1>6, <1>7

LEMMA StepReadThrough ==
  ASSUME Typed, Sweeping, WrittenThrough, Read, build = "write-through"
  PROVE  WrittenThrough' /\ ImageIsSafe'
<1>1. PICK word : WordRead(word)
  BY ReadFills
<1>2. /\ dram = "read" /\ Testing
      /\ \/ dram' = "try"
         \/ try' = try /\ dram' \in {"write", "ok"} /\ SweepEnds /\ p32' = 0
         \/ try' = try /\ dram' = "read" /\ ~ SweepEnds /\ p32' = p32 + Granularity
  BY <1>1, ReadShape DEF Typed
<1>3. AllClean(dcache') /\ dcache' \in Seq(Line) /\ Len(dcache') <= Ways
  BY ReadThrough
<1>4. PICK m \in Nat, r \in Nat :
         /\ p32 = r * Granularity /\ p32 + Granularity = (r + 1) * Granularity
         /\ Ordered(dcache', m)
         /\ r + 1 <= m /\ m - Len(dcache') <= r
         /\ m * Granularity <= totalSize(config)
  BY ReadThrough
<1>5. CASE dram' = "try"
  BY <1>3, <1>4, <1>5 DEF WrittenThrough, ImageIsSafe
<1>6. CASE try' = try /\ dram' = "read" /\ ~ SweepEnds /\ p32' = p32 + Granularity
  <2>1. totalSize(config)' = totalSize(config)
    BY <1>6 DEF config
  <2>2. p32' = (r + 1) * Granularity /\ m - Len(dcache') <= (r + 1) - 1
    BY <1>4, <1>6
  <2>3. ReadOf(m, r + 1)'
    BY <1>4, <2>1, <2>2 DEF ReadOf
  <2>4. r + 1 \in Nat
    OBVIOUS
  <2>5. \E q \in Nat : ReadOf(m, q)'
    BY <2>3, <2>4
  <2>6. QED
    BY <1>3, <1>4, <1>6, <2>5 DEF WrittenThrough, ImageIsSafe
<1>7. CASE try' = try /\ dram' \in {"write", "ok"} /\ SweepEnds /\ p32' = 0
  <2>1. (r + 1) * Granularity = totalSize(config) /\ try \in DOMAIN Configs
    BY <1>2, <1>4, <1>7, SweepAt
  <2>2. m = r + 1
    <3>1. ~ (r + 1 < m)
      <4>1. r + 1 < m => (r + 1) * Granularity < m * Granularity
        BY Multiples
      <4>2. (r + 1) * Granularity \in Nat /\ m * Granularity \in Nat
        BY Multiples
      <4>3. QED
        BY <1>4, <2>1, <4>1, <4>2
    <3>2. QED
      BY <1>4, <3>1
  <2>3. \A n \in 1 .. Len(dcache') :
          /\ dcache'[n].addr \notin LoadAt
          /\ \E k \in 1 .. Len(dcache') : k <= m /\ dcache'[n] = Recent(dcache', k)
    BY <1>3, <1>4, <2>1, <2>2, LinesOfTheEnd
  <2>4. \A n \in 1 .. Len(dcache') : ~ dcache'[n].dirty /\ dcache'[n].addr \notin LoadAt
    BY <1>3, <2>3 DEF AllClean
  <2>5. DOMAIN dcache' = 1 .. Len(dcache')
    BY <1>3
  <2>6. QED
    BY <1>3, <1>4, <1>7, <2>4, <2>5 DEF WrittenThrough, ImageIsSafe
<1>8. QED
  BY <1>2, <1>5, <1>6, <1>7

LEMMA LinesBegin == DramInit /\ CacheInit => CacheInv
<1> SUFFICES ASSUME DramInit, CacheInit PROVE CacheInv
  OBVIOUS
<1>1. DramTypeOK /\ ConfigTried
  BY InitTyped DEF TInv
<1>2. dcache = <<>> /\ build \in Builds /\ dram = "try"
  BY DEF CacheInit, DramInit
<1>3. CacheTypeOK
  BY <1>2, CacheGeometry DEF CacheTypeOK
<1>4. Len(dcache) = 0
  BY <1>2
<1>5. Ordered(dcache, 0) /\ AllClean(dcache)
  BY <1>4 DEF Ordered, AllClean
<1>6. QED
  BY <1>1, <1>2, <1>3, <1>5 DEF CacheInv, Typed, Sweeping, Testing, NoLines,
                                WrittenBack, WrittenThrough, ImageIsSafe

LEMMA InitCache == SetUpInit => CacheInv
BY LinesBegin DEF SetUpInit

LEMMA CacheLeft ==
  ASSUME CacheInv, UNCHANGED memVars
  PROVE  CacheInv'
<1>1. UNCHANGED <<fault, mem, try, dram, i, inverse, p32, build, dcache>>
  BY DEF memVars, dramVars, cacheVars
<1>2. Typed'
  BY <1>1 DEF CacheInv, Typed, DramTypeOK, ConfigTried, CacheTypeOK
<1>3. Sweeping' /\ NoLines' /\ ImageIsSafe'
  BY <1>1 DEF CacheInv, Sweeping, Testing, config, NoLines, ImageIsSafe
<1>4. WrittenBack'
  BY <1>1 DEF CacheInv, WrittenBack, Testing
<1>5. WrittenThrough'
  BY <1>1 DEF CacheInv, WrittenThrough, ReadOf, config
<1>6. QED
  BY <1>2, <1>3, <1>4, <1>5 DEF CacheInv

(* A step that is not of the test leaves the lines, or gives up some.      *)
LEMMA BetweenTests ==
  ASSUME CacheInv, UNCHANGED cacheVars, UNCHANGED <<fault, mem, i, inverse, p32>>,
         dram' \in {"try", "scl", "failed"}, try' \in 1 .. Len(Configs) + 1,
         dram' = "scl" => try' \in DOMAIN Configs
  PROVE  CacheInv'
<1>1. UNCHANGED <<build, dcache>>
  BY DEF cacheVars
<1>2. Typed'
  BY <1>1 DEF CacheInv, Typed, DramTypeOK, ConfigTried, CacheTypeOK
<1>3. Sweeping' /\ NoLines' /\ ImageIsSafe' /\ WrittenBack'
  BY <1>1 DEF CacheInv, Sweeping, Testing, NoLines, ImageIsSafe, WrittenBack
<1>4. WrittenThrough'
  <2>1. CASE build = "write-through"
    <3>1. PICK m \in Nat : Ordered(dcache, m)
      BY <2>1 DEF CacheInv, WrittenThrough
    <3>2. AllClean(dcache)
      BY <2>1 DEF CacheInv, WrittenThrough
    <3>3. QED
      BY <1>1, <3>1, <3>2 DEF WrittenThrough
  <2>2. CASE build # "write-through"
    BY <1>1, <2>2 DEF WrittenThrough
  <2>3. QED
    BY <2>1, <2>2
<1>5. QED
  BY <1>2, <1>3, <1>4 DEF CacheInv

LEMMA StepTested ==
  ASSUME CacheInv, ReadResult
  PROVE  CacheInv'
<1>1. Typed /\ try \in DOMAIN Configs /\ DramTypeOK /\ CacheTypeOK
  BY DEF CacheInv, Typed, ConfigTried, ReadResult, ResultRead
<1>2. /\ ResultRead(column_mask(config) \subseteq ddr.scl_start)
      /\ InvalidateIf(dram' = "write") /\ build' = build
  BY DEF ReadResult, InvalidateIf
<1>3. /\ UNCHANGED <<fault, mem>>
      /\ \/ dram' = "write" /\ i' = 0 /\ inverse' = FALSE /\ p32' = 0 /\ try' = try
         \/ dram' = "try" /\ try' = try + 1 /\ UNCHANGED <<i, inverse, p32>>
  BY <1>2 DEF ResultRead, NextTry
<1>4. build \in {"uncached", "write-back", "write-through"}
  BY <1>1, CacheGeometry DEF CacheTypeOK
<1>5. dcache' \in Seq(Line) /\ Len(dcache') <= Ways
  <2>1. CASE build = "write-back"
    BY <1>1, <2>1, StepInvalidate
  <2>2. CASE build # "write-back"
    BY <1>1, <1>2, <2>2 DEF InvalidateIf, CacheTypeOK, Line
  <2>3. QED
    BY <2>1, <2>2
<1>6. Typed'
  <2>1. 0 \in Bits /\ try + 1 \in 1 .. Len(Configs) + 1
    BY <1>1, ConfigFacts, DramAssumption DEF Bits
  <2>2. DramTypeOK'
    <3>1. try' \in 1 .. Len(Configs) + 1
      BY <1>1, <1>3, <2>1 DEF DramTypeOK
    <3>2. inverse' \in BOOLEAN
      BY <1>1, <1>3 DEF DramTypeOK
    <3>3. i' \in Bits /\ p32' \in Nat
      BY <1>1, <1>3, <2>1 DEF DramTypeOK
    <3>4. dram' \in {"write", "try"} /\ fault' \in Faults /\ mem' \in [Address -> Word]
      BY <1>1, <1>3 DEF DramTypeOK
    <3>5. QED
      BY <3>1, <3>2, <3>3, <3>4 DEF DramTypeOK
  <2>3. CacheTypeOK'
    BY <1>1, <1>2, <1>5 DEF CacheTypeOK, Line
  <2>4. ConfigTried'
    BY <1>1, <1>3 DEF ConfigTried
  <2>5. QED
    BY <2>2, <2>3, <2>4 DEF Typed
<1>7. Sweeping'
  <2>1. CASE dram' = "write"
    <3>1. config' = config /\ p32' = 0
      BY <1>3, <2>1 DEF config
    <3>2. totalSize(config') = totalSize(config)
      BY <3>1
    <3>3. 0 < totalSize(config) /\ OnGrid(0)
      BY <1>1, TestedConfig, GridStart
    <3>4. QED
      BY <3>1, <3>2, <3>3 DEF Sweeping, OnGrid
  <2>2. CASE dram' # "write"
    BY <1>3, <2>2 DEF Sweeping, Testing
  <2>3. QED
    BY <2>1, <2>2
<1>8. NoLines'
  BY <1>2 DEF CacheInv, NoLines, InvalidateIf
<1>9. WrittenBack'
  <2>1. CASE build = "write-back" /\ dram' = "write"
    <3>1. BackAt(dcache', 0, FALSE)
      BY <1>1, <2>1, StepInvalidate
    <3>2. p32' = 0 /\ 0 = 0 * Granularity
      BY <1>3, <2>1, CacheGeometry
    <3>3. QED
      BY <2>1, <3>1, <3>2 DEF WrittenBack, BackAt
  <2>2. CASE ~ (build = "write-back" /\ dram' = "write")
    BY <1>2, <1>3, <2>2 DEF WrittenBack, Testing
  <2>3. QED
    BY <2>1, <2>2
<1>10. WrittenThrough'
  <2>1. CASE build = "write-through"
    <3>1. dcache' = dcache
      BY <1>2, <2>1 DEF InvalidateIf
    <3>2. AllClean(dcache) /\ \E m \in Nat : Ordered(dcache, m)
      BY <2>1 DEF CacheInv, WrittenThrough
    <3>3. QED
      BY <1>3, <3>1, <3>2 DEF WrittenThrough
  <2>2. CASE build # "write-through"
    BY <1>2, <2>2 DEF WrittenThrough
  <2>3. QED
    BY <2>1, <2>2
<1>11. ImageIsSafe'
  BY <1>3 DEF ImageIsSafe
<1>12. QED
  BY <1>6, <1>7, <1>8, <1>9, <1>10, <1>11 DEF CacheInv

LEMMA StepWritten ==
  ASSUME CacheInv, Write
  PROVE  CacheInv'
<1>1. Typed' /\ Sweeping'
  BY StepWriteTyped DEF CacheInv
<1>2. build \in {"uncached", "write-back", "write-through"} /\ build' = build
  BY CacheGeometry DEF CacheInv, Typed, CacheTypeOK, Write
<1>3. dram' \in {"read", "write"}
  BY WrittenShape DEF Write
<1>4. NoLines'
  <2>1. CASE build = "uncached"
    <3>1. ~ Held(p32)
      BY <2>1 DEF CacheInv, NoLines, Held
    <3>2. dcache' = dcache
      BY <2>1, <3>1 DEF Write
    <3>3. QED
      BY <2>1, <3>2 DEF CacheInv, NoLines
  <2>2. CASE build # "uncached"
    BY <1>2, <2>2 DEF NoLines
  <2>3. QED
    BY <2>1, <2>2
<1>5. WrittenBack'
  <2>1. CASE build = "write-back"
    BY <2>1, StepWriteBack DEF CacheInv
  <2>2. CASE build # "write-back"
    BY <1>2, <2>2 DEF WrittenBack
  <2>3. QED
    BY <2>1, <2>2
<1>6. WrittenThrough'
  <2>1. CASE build = "write-through"
    BY <2>1, StepWriteThrough DEF CacheInv
  <2>2. CASE build # "write-through"
    BY <1>2, <2>2 DEF WrittenThrough
  <2>3. QED
    BY <2>1, <2>2
<1>7. ImageIsSafe'
  BY <1>3 DEF ImageIsSafe
<1>8. QED
  BY <1>1, <1>4, <1>5, <1>6, <1>7 DEF CacheInv

LEMMA StepReadBy ==
  ASSUME CacheInv, Read
  PROVE  CacheInv'
<1>1. Typed' /\ Sweeping'
  BY StepReadTyped DEF CacheInv
<1>2. build \in {"uncached", "write-back", "write-through"} /\ build' = build
  BY CacheGeometry DEF CacheInv, Typed, CacheTypeOK, Read
<1>3. CASE build = "uncached"
  <2>1. dcache' = <<>>
    BY <1>3, ReadFills DEF CacheInv, NoLines
  <2>2. QED
    BY <1>1, <1>2, <1>3, <2>1 DEF CacheInv, NoLines, WrittenBack, WrittenThrough, ImageIsSafe
<1>4. CASE build = "write-back"
  <2>1. WrittenBack' /\ ImageIsSafe'
    BY <1>4, StepReadBack DEF CacheInv
  <2>2. QED
    BY <1>1, <1>2, <1>4, <2>1 DEF CacheInv, NoLines, WrittenThrough
<1>5. CASE build = "write-through"
  <2>1. WrittenThrough' /\ ImageIsSafe'
    BY <1>5, StepReadThrough DEF CacheInv
  <2>2. QED
    BY <1>1, <1>2, <1>5, <2>1 DEF CacheInv, NoLines, WrittenBack
<1>6. QED
  BY <1>2, <1>3, <1>4, <1>5

LEMMA LinesStep ==
  CacheInv /\ [SetUpNext]_<<boardVars, pllVars, memVars, setUpVars>> => CacheInv'
<1> SUFFICES ASSUME CacheInv, [SetUpNext]_<<boardVars, pllVars, memVars, setUpVars>>
             PROVE  CacheInv'
  OBVIOUS
<1>0. try \in 1 .. Len(Configs) + 1
  BY DEF CacheInv, Typed, DramTypeOK
<1>1. CASE AccessScu \/ AccessDdr \/ DelayPasses \/ PollDdr \/ DdrHardware
           \/ UNCHANGED <<boardVars, pllVars, memVars, setUpVars>>
  <2>1. UNCHANGED memVars
    BY <1>1 DEF AccessScu, AccessDdr, DelayPasses, PollDdr, DdrHardware, PhyReady, SclEnds
  <2>2. QED
    BY <2>1, CacheLeft
<1>2. CASE Prepared
  <2>1. /\ Fits /\ dram' = "scl" /\ UNCHANGED cacheVars
        /\ UNCHANGED <<fault, mem, try, i, inverse, p32>>
    BY <1>2 DEF Prepared, SetUp
  <2>2. try \in DOMAIN Configs
    BY <1>0, <2>1, ConfigFacts DEF Fits
  <2>3. QED
    BY <1>0, <2>1, <2>2, BetweenTests
<1>3. CASE ReadResult
  BY <1>3, StepTested
<1>4. CASE TestMemory
  <2>1. CASE SkipTooLarge /\ UNCHANGED cacheVars
    <3>1. /\ dram' = "try" /\ try' = try + 1 /\ try <= Len(Configs)
          /\ UNCHANGED <<fault, mem, i, inverse, p32>>
      BY <2>1 DEF SkipTooLarge, NextTry
    <3>2. try + 1 \in 1 .. Len(Configs) + 1
      BY <1>0, <3>1, ConfigFacts
    <3>3. QED
      BY <2>1, <3>1, <3>2, BetweenTests
  <2>2. CASE Exhausted /\ UNCHANGED cacheVars
    <3>1. dram' = "failed" /\ UNCHANGED <<fault, mem, try, i, inverse, p32>>
      BY <2>2 DEF Exhausted
    <3>2. QED
      BY <1>0, <2>2, <3>1, BetweenTests
  <2>3. CASE Write
    BY <2>3, StepWritten
  <2>4. CASE Read
    BY <2>4, StepReadBy
  <2>5. QED
    BY <1>4, <2>1, <2>2, <2>3, <2>4 DEF TestMemory
<1>5. QED
  BY <1>1, <1>2, <1>3, <1>4 DEF SetUpNext, SetUpDdr

LEMMA CacheInvariance == SetUpSpec => []CacheInv
BY InitCache, LinesStep, PTL DEF SetUpSpec

(* The types of the search and of the lines, in every build.               *)
THEOREM LinesTheorem == SetUpSpec => [](DramTypeOK /\ CacheTypeOK)
<1>1. CacheInv => DramTypeOK /\ CacheTypeOK
  BY DEF CacheInv, Typed
<1>2. QED
  BY <1>1, CacheInvariance, PTL

(* When the test has ended no line is left that could be written over the  *)
(* image or be read in its place, in a cache with any number of lines that *)
(* is not longer than the sweep, whatever configurations were tried.       *)
THEOREM ImageTheorem == SetUpSpec => []ImageIsSafe
<1>1. CacheInv => ImageIsSafe
  BY DEF CacheInv
<1>2. QED
  BY <1>1, CacheInvariance, PTL

-----------------------------------------------------------------------------
(* The bits of a word.                                                     *)
LEMMA HalfPowers ==
  /\ 2 ^ 0 = 1 /\ 2 ^ 1 = 2 /\ 2 ^ 2 = 4 /\ 2 ^ 3 = 8
  /\ 2 ^ 4 = 16 /\ 2 ^ 5 = 32 /\ 2 ^ 6 = 64 /\ 2 ^ 7 = 128
  /\ 2 ^ 8 = 256 /\ 2 ^ 9 = 512 /\ 2 ^ 10 = 1024 /\ 2 ^ 11 = 2048
  /\ 2 ^ 12 = 4096 /\ 2 ^ 13 = 8192 /\ 2 ^ 14 = 16384 /\ 2 ^ 15 = 32768
OBVIOUS

LEMMA HexBits ==
  ASSUME NEW high, NEW low
  PROVE  /\ Hex(high, low) \in SUBSET Ones
         /\ 0 \in Hex(high, low) <=> (low \div 1) % 2 = 1
         /\ 1 \in Hex(high, low) <=> (low \div 2) % 2 = 1
         /\ 2 \in Hex(high, low) <=> (low \div 4) % 2 = 1
         /\ 3 \in Hex(high, low) <=> (low \div 8) % 2 = 1
         /\ 4 \in Hex(high, low) <=> (low \div 16) % 2 = 1
         /\ 5 \in Hex(high, low) <=> (low \div 32) % 2 = 1
         /\ 6 \in Hex(high, low) <=> (low \div 64) % 2 = 1
         /\ 7 \in Hex(high, low) <=> (low \div 128) % 2 = 1
         /\ 8 \in Hex(high, low) <=> (low \div 256) % 2 = 1
         /\ 9 \in Hex(high, low) <=> (low \div 512) % 2 = 1
         /\ 10 \in Hex(high, low) <=> (low \div 1024) % 2 = 1
         /\ 11 \in Hex(high, low) <=> (low \div 2048) % 2 = 1
         /\ 12 \in Hex(high, low) <=> (low \div 4096) % 2 = 1
         /\ 13 \in Hex(high, low) <=> (low \div 8192) % 2 = 1
         /\ 14 \in Hex(high, low) <=> (low \div 16384) % 2 = 1
         /\ 15 \in Hex(high, low) <=> (low \div 32768) % 2 = 1
         /\ 16 \in Hex(high, low) <=> (high \div 1) % 2 = 1
         /\ 17 \in Hex(high, low) <=> (high \div 2) % 2 = 1
         /\ 18 \in Hex(high, low) <=> (high \div 4) % 2 = 1
         /\ 19 \in Hex(high, low) <=> (high \div 8) % 2 = 1
         /\ 20 \in Hex(high, low) <=> (high \div 16) % 2 = 1
         /\ 21 \in Hex(high, low) <=> (high \div 32) % 2 = 1
         /\ 22 \in Hex(high, low) <=> (high \div 64) % 2 = 1
         /\ 23 \in Hex(high, low) <=> (high \div 128) % 2 = 1
         /\ 24 \in Hex(high, low) <=> (high \div 256) % 2 = 1
         /\ 25 \in Hex(high, low) <=> (high \div 512) % 2 = 1
         /\ 26 \in Hex(high, low) <=> (high \div 1024) % 2 = 1
         /\ 27 \in Hex(high, low) <=> (high \div 2048) % 2 = 1
         /\ 28 \in Hex(high, low) <=> (high \div 4096) % 2 = 1
         /\ 29 \in Hex(high, low) <=> (high \div 8192) % 2 = 1
         /\ 30 \in Hex(high, low) <=> (high \div 16384) % 2 = 1
         /\ 31 \in Hex(high, low) <=> (high \div 32768) % 2 = 1
BY HalfPowers DEF Hex, Ones

(* What MapThenSumSet builds: the numbers of all sets of the bits.         *)
Adds(g, bits, low) ==
  g = [s \in SUBSET bits |->
         IF s = {} THEN 0
         ELSE LET x == CHOOSE x \in s : TRUE IN 2 ^ (x - low) + g[s \ {x}]]

(* Three bits and their weights in a number that begins at a bit.          *)
ThreeBits(a, b, c, low, m, n, o) ==
  /\ a # b /\ a # c /\ b # c
  /\ m \in Nat /\ n \in Nat /\ o \in Nat
  /\ m = 2 ^ (a - low) /\ n = 2 ^ (b - low) /\ o = 2 ^ (c - low)

(* Of three bits at most the number is the sum of their weights, whichever *)
(* is taken first.                                                         *)
LEMMA NumberOfThree ==
  ASSUME NEW a, NEW b, NEW c, NEW low, NEW m, NEW n, NEW o,
         ThreeBits(a, b, c, low, m, n, o),
         NEW bits \in SUBSET {a, b, c}
  PROVE  Number(bits, low) = (IF a \in bits THEN m ELSE 0) + (IF b \in bits THEN n ELSE 0)
                               + (IF c \in bits THEN o ELSE 0)
<1>1. /\ a # b /\ a # c /\ b # c
      /\ m = 2 ^ (a - low) /\ n = 2 ^ (b - low) /\ o = 2 ^ (c - low)
  BY DEF ThreeBits
<1>2. m \in Nat /\ n \in Nat /\ o \in Nat
  BY DEF ThreeBits
<1> DEFINE g == CHOOSE g : Adds(g, bits, low)
           w == [s \in SUBSET bits |->
                   (IF a \in s THEN m ELSE 0) + (IF b \in s THEN n ELSE 0)
                     + (IF c \in s THEN o ELSE 0)]
<1>3. ASSUME NEW s \in SUBSET bits, NEW y \in s
      PROVE  w[s] = 2 ^ (y - low) + w[s \ {y}]
  <2>1. s \ {y} \in SUBSET bits /\ (y = a \/ y = b \/ y = c)
    BY <1>3
  <2>2. CASE y = a
    <3>1. a \in s /\ a \notin s \ {y} /\ (b \in s <=> b \in s \ {y}) /\ (c \in s <=> c \in s \ {y})
      BY <1>1, <1>3, <2>2
    <3>2. w[s] = m + w[s \ {y}]
      BY <1>2, <2>1, <3>1
    <3>3. QED
      BY <1>1, <2>2, <3>2
  <2>3. CASE y = b
    <3>1. b \in s /\ b \notin s \ {y} /\ (a \in s <=> a \in s \ {y}) /\ (c \in s <=> c \in s \ {y})
      BY <1>1, <1>3, <2>3
    <3>2. w[s] = n + w[s \ {y}]
      BY <1>2, <2>1, <3>1
    <3>3. QED
      BY <1>1, <2>3, <3>2
  <2>4. CASE y = c
    <3>1. c \in s /\ c \notin s \ {y} /\ (b \in s <=> b \in s \ {y}) /\ (a \in s <=> a \in s \ {y})
      BY <1>1, <1>3, <2>4
    <3>2. w[s] = o + w[s \ {y}]
      BY <1>2, <2>1, <3>1
    <3>3. QED
      BY <1>1, <2>4, <3>2
  <2>5. QED
    BY <2>1, <2>2, <2>3, <2>4
<1>4. w[{}] = 0
  OBVIOUS
<1>5. Adds(w, bits, low)
  <2>1. ASSUME NEW s \in SUBSET bits
        PROVE  w[s] = IF s = {} THEN 0
                      ELSE LET x == CHOOSE x \in s : TRUE IN 2 ^ (x - low) + w[s \ {x}]
    <3> HIDE DEF w
    <3>1. CASE s = {}
      BY <1>4, <3>1
    <3>2. CASE s # {}
      <4>1. PICK y : y = CHOOSE x \in s : TRUE
        OBVIOUS
      <4>2. y \in s
        BY <3>2, <4>1
      <4>3. w[s] = 2 ^ (y - low) + w[s \ {y}]
        BY <1>3, <4>2
      <4>4. QED
        BY <3>2, <4>1, <4>3
    <3>3. QED
      BY <3>1, <3>2
  <2>2. w = [s \in SUBSET bits |-> w[s]]
    OBVIOUS
  <2> HIDE DEF w
  <2>3. QED
    BY <2>1, <2>2 DEF Adds
<1>6. w[bits] = (IF a \in bits THEN m ELSE 0) + (IF b \in bits THEN n ELSE 0)
                  + (IF c \in bits THEN o ELSE 0)
  OBVIOUS
<1>7. Adds(g, bits, low)
  BY <1>5
<1>8. Number(bits, low) = g[bits]
  BY DEF Number, MapThenSumSet, MapThenFoldSet, Adds
<1> HIDE DEF g, w
(* Both are built bit by bit.                                              *)
<1>9. ASSUME NEW s \in SUBSET bits, \A y \in s : g[s \ {y}] = w[s \ {y}]
      PROVE  g[s] = w[s]
  <2>1. g[s] = IF s = {} THEN 0
               ELSE LET x == CHOOSE x \in s : TRUE IN 2 ^ (x - low) + g[s \ {x}]
    BY <1>7 DEF Adds
  <2>2. CASE s = {}
    BY <1>4, <2>1, <2>2
  <2>3. CASE s # {}
    <3>1. PICK y : y = CHOOSE x \in s : TRUE
      OBVIOUS
    <3>2. y \in s
      BY <2>3, <3>1
    <3>3. g[s] = 2 ^ (y - low) + g[s \ {y}]
      BY <2>1, <2>3, <3>1
    <3>4. w[s] = 2 ^ (y - low) + w[s \ {y}]
      BY <1>3, <3>2
    <3>5. QED
      BY <1>9, <3>2, <3>3, <3>4
  <2>4. QED
    BY <2>2, <2>3
<1>10. g[{}] = w[{}]
  BY <1>9
<1>11. ASSUME NEW x \in bits PROVE g[{x}] = w[{x}]
  <2>1. \A y \in {x} : {x} \ {y} = {}
    OBVIOUS
  <2>2. QED
    BY <1>9, <1>10, <2>1
<1>12. ASSUME NEW x \in bits, NEW z \in bits PROVE g[{x, z}] = w[{x, z}]
  <2>1. \A y \in {x, z} : {x, z} \ {y} \in {{}, {x}, {z}}
    OBVIOUS
  <2>2. QED
    BY <1>9, <1>10, <1>11, <2>1
<1>13. g[bits] = w[bits]
  <2>1. \A y \in bits : \/ bits \ {y} = {}
                        \/ \E x \in bits : bits \ {y} = {x}
                        \/ \E x \in bits, z \in bits : bits \ {y} = {x, z}
    <3>1. ASSUME NEW y \in bits
          PROVE  \/ bits \ {y} = {}
                 \/ \E x \in bits : bits \ {y} = {x}
                 \/ \E x \in bits, z \in bits : bits \ {y} = {x, z}
      <4>1. PICK p, q : bits \ {y} \subseteq {p, q}
        <5>1. y = a \/ y = b \/ y = c
          OBVIOUS
        <5>2. bits \ {a} \subseteq {b, c} /\ bits \ {b} \subseteq {a, c}
              /\ bits \ {c} \subseteq {a, b}
          OBVIOUS
        <5>3. QED
          BY <5>1, <5>2
      <4>2. CASE p \in bits \ {y} /\ q \in bits \ {y}
        BY <4>1, <4>2
      <4>3. CASE p \in bits \ {y} /\ q \notin bits \ {y}
        BY <4>1, <4>3
      <4>4. CASE p \notin bits \ {y} /\ q \in bits \ {y}
        BY <4>1, <4>4
      <4>5. CASE p \notin bits \ {y} /\ q \notin bits \ {y}
        BY <4>1, <4>5
      <4>6. QED
        BY <4>2, <4>3, <4>4, <4>5
    <3>2. QED
      BY <3>1
  <2>2. ASSUME NEW y \in bits PROVE g[bits \ {y}] = w[bits \ {y}]
    <3>1. CASE bits \ {y} = {}
      BY <1>10, <3>1
    <3>2. ASSUME NEW x \in bits, bits \ {y} = {x} PROVE g[bits \ {y}] = w[bits \ {y}]
      BY <1>11, <3>2
    <3>3. ASSUME NEW x \in bits, NEW z \in bits, bits \ {y} = {x, z}
          PROVE  g[bits \ {y}] = w[bits \ {y}]
      BY <1>12, <3>3
    <3>4. QED
      BY <2>1, <3>1, <3>2, <3>3
  <2>3. bits \in SUBSET bits
    OBVIOUS
  <2>4. QED
    BY <1>9, <2>2, <2>3
<1>14. QED
  BY <1>6, <1>8, <1>13

(* What the loops over chip size, chip width and bus width run through.    *)
ChipCodes == [cS : 0 .. 3, cW : 0 .. 2, bW : {0, 1}]

(* A number of three bits, and of two, fills as many.                      *)
LEMMA HexOfThree ==
  ASSUME NEW n \in 0 .. 7
  PROVE  /\ Hex(0, n) \subseteq 0 .. 2
         /\ n < 4 => Hex(0, n) \subseteq 0 .. 1
         /\ 0 \in Hex(0, n) <=> n % 2 = 1
         /\ 1 \in Hex(0, n) <=> (n \div 2) % 2 = 1
         /\ 2 \in Hex(0, n) <=> (n \div 4) % 2 = 1
<1>1. PICK z, m : z = 0 /\ m = n
  OBVIOUS
<1>2. PICK h : h = Hex(z, m)
  OBVIOUS
<1>3. h \subseteq 0 .. 31
  BY ONLY <1>2, HexBits DEF Ones
<1>4. /\ 0 \in h <=> (m \div 1) % 2 = 1
      /\ 1 \in h <=> (m \div 2) % 2 = 1
      /\ 2 \in h <=> (m \div 4) % 2 = 1
      /\ 3 \in h <=> (m \div 8) % 2 = 1
      /\ 4 \in h <=> (m \div 16) % 2 = 1
      /\ 5 \in h <=> (m \div 32) % 2 = 1
      /\ 6 \in h <=> (m \div 64) % 2 = 1
      /\ 7 \in h <=> (m \div 128) % 2 = 1
      /\ 8 \in h <=> (m \div 256) % 2 = 1
      /\ 9 \in h <=> (m \div 512) % 2 = 1
      /\ 10 \in h <=> (m \div 1024) % 2 = 1
      /\ 11 \in h <=> (m \div 2048) % 2 = 1
      /\ 12 \in h <=> (m \div 4096) % 2 = 1
      /\ 13 \in h <=> (m \div 8192) % 2 = 1
      /\ 14 \in h <=> (m \div 16384) % 2 = 1
      /\ 15 \in h <=> (m \div 32768) % 2 = 1
  BY ONLY <1>2, HexBits
<1>5. /\ 16 \in h <=> (z \div 1) % 2 = 1
      /\ 17 \in h <=> (z \div 2) % 2 = 1
      /\ 18 \in h <=> (z \div 4) % 2 = 1
      /\ 19 \in h <=> (z \div 8) % 2 = 1
      /\ 20 \in h <=> (z \div 16) % 2 = 1
      /\ 21 \in h <=> (z \div 32) % 2 = 1
      /\ 22 \in h <=> (z \div 64) % 2 = 1
      /\ 23 \in h <=> (z \div 128) % 2 = 1
      /\ 24 \in h <=> (z \div 256) % 2 = 1
      /\ 25 \in h <=> (z \div 512) % 2 = 1
      /\ 26 \in h <=> (z \div 1024) % 2 = 1
      /\ 27 \in h <=> (z \div 2048) % 2 = 1
      /\ 28 \in h <=> (z \div 4096) % 2 = 1
      /\ 29 \in h <=> (z \div 8192) % 2 = 1
      /\ 30 \in h <=> (z \div 16384) % 2 = 1
      /\ 31 \in h <=> (z \div 32768) % 2 = 1
  BY ONLY <1>2, HexBits
<1>6. /\ n \div 8 = 0 /\ n \div 16 = 0 /\ n \div 32 = 0 /\ n \div 64 = 0
      /\ n \div 128 = 0 /\ n \div 256 = 0 /\ n \div 512 = 0 /\ n \div 1024 = 0
      /\ n \div 2048 = 0 /\ n \div 4096 = 0 /\ n \div 8192 = 0
      /\ n \div 16384 = 0 /\ n \div 32768 = 0 /\ 0 % 2 # 1
  OBVIOUS
<1>7. /\ 3 \notin h /\ 4 \notin h /\ 5 \notin h /\ 6 \notin h /\ 7 \notin h
      /\ 8 \notin h /\ 9 \notin h /\ 10 \notin h /\ 11 \notin h
      /\ 12 \notin h /\ 13 \notin h /\ 14 \notin h /\ 15 \notin h
  BY ONLY <1>1, <1>4, <1>6
<1>8. /\ 16 \notin h /\ 17 \notin h /\ 18 \notin h /\ 19 \notin h /\ 20 \notin h
      /\ 21 \notin h /\ 22 \notin h /\ 23 \notin h /\ 24 \notin h /\ 25 \notin h
      /\ 26 \notin h /\ 27 \notin h /\ 28 \notin h /\ 29 \notin h /\ 30 \notin h
      /\ 31 \notin h
  BY ONLY <1>1, <1>5
<1>9. \A b \in 3 .. 31 : b \notin h
  BY ONLY <1>7, <1>8
<1>10. h \subseteq 0 .. 2
  BY ONLY <1>3, <1>9
<1>11. /\ 0 \in h <=> n % 2 = 1
       /\ 1 \in h <=> (n \div 2) % 2 = 1
       /\ 2 \in h <=> (n \div 4) % 2 = 1
  BY <1>1, <1>4
<1>12. n < 4 => h \subseteq 0 .. 1
  BY <1>10, <1>11
<1>13. QED
  BY <1>1, <1>2, <1>10, <1>11, <1>12

LEMMA FieldOfThree ==
  ASSUME NEW n \in 0 .. 7, NEW sh \in Nat
  PROVE  /\ Field(n, sh) \subseteq {sh, sh + 1, sh + 2}
         /\ n < 4 => Field(n, sh) \subseteq {sh, sh + 1}
         /\ sh \in Field(n, sh) <=> n % 2 = 1
         /\ sh + 1 \in Field(n, sh) <=> (n \div 2) % 2 = 1
         /\ sh + 2 \in Field(n, sh) <=> (n \div 4) % 2 = 1
<1>1. PICK h : h = Hex(0, n)
  OBVIOUS
<1>2. /\ h \subseteq 0 .. 2
      /\ n < 4 => h \subseteq 0 .. 1
      /\ 0 \in h <=> n % 2 = 1
      /\ 1 \in h <=> (n \div 2) % 2 = 1
      /\ 2 \in h <=> (n \div 4) % 2 = 1
  BY <1>1, HexOfThree
<1>3. Field(n, sh) = {sh + b : b \in h}
  BY <1>1 DEF Field
<1>4. QED
  BY <1>2, <1>3

LEMMA NumberOfField ==
  ASSUME NEW n \in 0 .. 7, NEW sh \in Nat
  PROVE  Number(Field(n, sh), sh) = n
<1>1. PICK f, a, b, c : f = Field(n, sh) /\ a = sh /\ b = sh + 1 /\ c = sh + 2
  OBVIOUS
<1>2. /\ f \in SUBSET {a, b, c}
      /\ a \in f <=> n % 2 = 1
      /\ b \in f <=> (n \div 2) % 2 = 1
      /\ c \in f <=> (n \div 4) % 2 = 1
  BY <1>1, FieldOfThree
<1>3. PICK m, p, q : m = 1 /\ p = 2 /\ q = 4
  OBVIOUS
<1>4. ThreeBits(a, b, c, sh, m, p, q)
  <2>1. a - sh = 0 /\ b - sh = 1 /\ c - sh = 2 /\ a # b /\ a # c /\ b # c
    BY <1>1
  <2>2. 2 ^ 0 = 1 /\ 2 ^ 1 = 2 /\ 2 ^ 2 = 4
    OBVIOUS
  <2>3. QED
    BY <1>3, <2>1, <2>2 DEF ThreeBits
<1>5. Number(f, sh) = (IF a \in f THEN m ELSE 0) + (IF b \in f THEN p ELSE 0)
                        + (IF c \in f THEN q ELSE 0)
  BY ONLY <1>2, <1>4, NumberOfThree
<1>6. Number(f, sh) = (IF n % 2 = 1 THEN 1 ELSE 0) + (IF (n \div 2) % 2 = 1 THEN 2 ELSE 0)
                        + (IF (n \div 4) % 2 = 1 THEN 4 ELSE 0)
  BY ONLY <1>2, <1>3, <1>5
<1>7. QED
  BY <1>1, <1>6

LEMMA Timing1Fields ==
  ASSUME NEW c \in ChipCodes
  PROVE  /\ Timing1(c) \cap (18 .. 20) = Field(c.cS + 3, 18)
         /\ Timing1(c) \cap (16 .. 17) = Field(c.cW, 16)
         /\ Timing1(c) \cap (12 .. 13) = Field(c.bW + 2, 12)
<1>1. /\ Clocks(8) = 2 /\ Clocks(16) = 4
  BY DEF Clocks, SYS_DRAM_BUS_CLK
<1>2. /\ c.cS + 3 \in 0 .. 7 /\ c.cW \in 0 .. 7 /\ c.cW < 4
      /\ c.bW + 2 \in 0 .. 7 /\ c.bW + 2 < 4
  BY DEF ChipCodes
<1>3. PICK p, q, r, s : /\ p = Field(2, 28) /\ q = Field(2, 24)
                        /\ r = Field(c.cS + 3, 18) /\ s = Field(c.cW, 16)
  OBVIOUS
<1>4. PICK t, u, v, w : /\ t = Field(c.bW + 2, 12) /\ u = Field(4, 8)
                        /\ v = Field(2, 4) /\ w = Field(4, 0)
  OBVIOUS
<1>5. /\ p \subseteq 28 .. 30 /\ q \subseteq 24 .. 26
      /\ r \subseteq 18 .. 20 /\ s \subseteq 16 .. 17
  <2>1. p \subseteq {28, 28 + 1, 28 + 2}
    BY ONLY <1>3, FieldOfThree
  <2>2. q \subseteq {24, 24 + 1, 24 + 2}
    BY ONLY <1>3, FieldOfThree
  <2>3. r \subseteq {18, 18 + 1, 18 + 2}
    BY ONLY <1>2, <1>3, FieldOfThree
  <2>4. s \subseteq {16, 16 + 1}
    BY ONLY <1>2, <1>3, FieldOfThree
  <2>5. QED
    BY ONLY <2>1, <2>2, <2>3, <2>4
<1>6. /\ t \subseteq 12 .. 13 /\ u \subseteq 8 .. 10
      /\ v \subseteq 4 .. 6 /\ w \subseteq 0 .. 2
  <2>1. t \subseteq {12, 12 + 1}
    BY ONLY <1>2, <1>4, FieldOfThree
  <2>2. u \subseteq {8, 8 + 1, 8 + 2}
    BY ONLY <1>4, FieldOfThree
  <2>3. v \subseteq {4, 4 + 1, 4 + 2}
    BY ONLY <1>4, FieldOfThree
  <2>4. w \subseteq {0, 0 + 1, 0 + 2}
    BY ONLY <1>4, FieldOfThree
  <2>5. QED
    BY ONLY <2>1, <2>2, <2>3, <2>4
<1>7. Timing1(c) = p \cup q \cup r \cup s \cup t \cup u \cup v \cup w
  BY <1>1, <1>3, <1>4 DEF Timing1
<1>8. PICK z : z = p \cup q \cup r \cup s \cup t \cup u \cup v \cup w
  OBVIOUS
<1>9. z \cap (18 .. 20) = r
  <2>1. ASSUME NEW k \in 18 .. 20
        PROVE  k \notin p /\ k \notin q /\ k \notin s /\ k \notin t
    BY ONLY <1>5, <1>6
  <2>2. ASSUME NEW k \in 18 .. 20
        PROVE  k \notin u /\ k \notin v /\ k \notin w
    BY ONLY <1>5, <1>6
  <2>3. r \subseteq 18 .. 20
    BY ONLY <1>5, <1>6
  <2>4. PICK range : range = 18 .. 20
    OBVIOUS
  <2>5. QED
    BY ONLY <1>8, <2>1, <2>2, <2>3, <2>4
<1>10. z \cap (16 .. 17) = s
  <2>1. ASSUME NEW k \in 16 .. 17
        PROVE  k \notin p /\ k \notin q /\ k \notin r /\ k \notin t
    BY ONLY <1>5, <1>6
  <2>2. ASSUME NEW k \in 16 .. 17
        PROVE  k \notin u /\ k \notin v /\ k \notin w
    BY ONLY <1>5, <1>6
  <2>3. s \subseteq 16 .. 17
    BY ONLY <1>5, <1>6
  <2>4. PICK range : range = 16 .. 17
    OBVIOUS
  <2>5. QED
    BY ONLY <1>8, <2>1, <2>2, <2>3, <2>4
<1>11. z \cap (12 .. 13) = t
  <2>1. ASSUME NEW k \in 12 .. 13
        PROVE  k \notin p /\ k \notin q /\ k \notin r /\ k \notin s
    BY ONLY <1>5, <1>6
  <2>2. ASSUME NEW k \in 12 .. 13
        PROVE  k \notin u /\ k \notin v /\ k \notin w
    BY ONLY <1>5, <1>6
  <2>3. t \subseteq 12 .. 13
    BY ONLY <1>5, <1>6
  <2>4. PICK range : range = 12 .. 13
    OBVIOUS
  <2>5. QED
    BY ONLY <1>8, <2>1, <2>2, <2>3, <2>4
<1>12. QED
  BY <1>3, <1>4, <1>7, <1>8, <1>9, <1>10, <1>11

LEMMA FieldAbove ==
  ASSUME NEW n, NEW sh \in Nat
  PROVE  \A k \in Field(n, sh) : k \in Nat /\ k >= sh
<1>1. \A b \in Hex(0, n) : b \in Nat
  BY DEF Hex
<1>2. QED
  BY <1>1 DEF Field

(* The refresh interval lies below the refresh time of the chips.          *)
LEMMA RefreshInterval == \A k \in 13 .. 18 : k \notin Field(1953, 0)
<1>1. PICK z, m : z = 0 /\ m = 1953
  OBVIOUS
<1>2. PICK h : h = Hex(z, m)
  OBVIOUS
<1>3. /\ 13 \in h <=> (m \div 8192) % 2 = 1
      /\ 14 \in h <=> (m \div 16384) % 2 = 1
      /\ 15 \in h <=> (m \div 32768) % 2 = 1
      /\ 16 \in h <=> (z \div 1) % 2 = 1
      /\ 17 \in h <=> (z \div 2) % 2 = 1
      /\ 18 \in h <=> (z \div 4) % 2 = 1
  BY ONLY <1>2, HexBits
<1>4. \A k \in 13 .. 18 : k \notin h
  BY ONLY <1>1, <1>3
<1>5. h \subseteq 0 .. 31
  BY ONLY <1>2, HexBits DEF Ones
<1>6. Field(1953, 0) = {0 + b : b \in h}
  BY <1>1, <1>2 DEF Field
<1>7. QED
  BY ONLY <1>4, <1>5, <1>6

LEMMA Timing0Field ==
  ASSUME NEW c
  PROVE  Timing0(c) \cap (13 .. 18) = Field(a_tRFC[c.cS + 1], 13) \cap (13 .. 18)
<1>1. Clocks(12) = 3 /\ Clocks(45) = 11 /\ Clocks(15) = 3 /\ Clocks(64000000 \div 8192) = 1953
  BY DEF Clocks, SYS_DRAM_BUS_CLK
<1>2. PICK p, q, r : p = Field(3, 28) /\ q = Field(11, 23) /\ r = Field(3, 19)
  OBVIOUS
<1>11. PICK s, t : s = Field(a_tRFC[c.cS + 1], 13) /\ t = Field(1953, 0)
  OBVIOUS
<1>3. PICK range : range = 13 .. 18
  OBVIOUS
<1>4. \A k \in p : k \notin range
  <2>1. \A k \in p : k \in Nat /\ k >= 28
    BY ONLY <1>2, FieldAbove
  <2>2. QED
    BY ONLY <1>3, <2>1
<1>5. \A k \in q : k \notin range
  <2>1. \A k \in q : k \in Nat /\ k >= 23
    BY ONLY <1>2, FieldAbove
  <2>2. QED
    BY ONLY <1>3, <2>1
<1>6. \A k \in r : k \notin range
  <2>1. \A k \in r : k \in Nat /\ k >= 19
    BY ONLY <1>2, FieldAbove
  <2>2. QED
    BY ONLY <1>3, <2>1
<1>7. \A k \in t : k \notin range
  BY ONLY <1>3, <1>11, RefreshInterval
<1>8. Timing0(c) = p \cup q \cup r \cup s \cup t
  BY <1>1, <1>2, <1>11 DEF Timing0
<1>9. Timing0(c) \cap range = s \cap range
  BY ONLY <1>4, <1>5, <1>6, <1>7, <1>8
<1>10. QED
  BY <1>3, <1>9, <1>11

(* The six bits of the refresh time.                                       *)
LEMMA FieldOfSix ==
  ASSUME NEW n
  PROVE  /\ Field(n, 13) \cap (13 .. 18) \subseteq 13 .. 18
         /\ 13 \in Field(n, 13) <=> (n \div 1) % 2 = 1
         /\ 14 \in Field(n, 13) <=> (n \div 2) % 2 = 1
         /\ 15 \in Field(n, 13) <=> (n \div 4) % 2 = 1
         /\ 16 \in Field(n, 13) <=> (n \div 8) % 2 = 1
         /\ 17 \in Field(n, 13) <=> (n \div 16) % 2 = 1
         /\ 18 \in Field(n, 13) <=> (n \div 32) % 2 = 1
<1>1. PICK z : z = 0
  OBVIOUS
<1>2. PICK h : h = Hex(z, n)
  OBVIOUS
<1>3. /\ 0 \in h <=> (n \div 1) % 2 = 1
      /\ 1 \in h <=> (n \div 2) % 2 = 1
      /\ 2 \in h <=> (n \div 4) % 2 = 1
      /\ 3 \in h <=> (n \div 8) % 2 = 1
      /\ 4 \in h <=> (n \div 16) % 2 = 1
      /\ 5 \in h <=> (n \div 32) % 2 = 1
  BY ONLY <1>2, HexBits
<1>4. h \subseteq 0 .. 31
  BY ONLY <1>2, HexBits DEF Ones
<1>5. Field(n, 13) = {13 + b : b \in h}
  BY <1>1, <1>2 DEF Field
<1>6. PICK f : f = {13 + b : b \in h}
  OBVIOUS
<1>7. /\ 13 \in f <=> 0 \in h
      /\ 14 \in f <=> 1 \in h
      /\ 15 \in f <=> 2 \in h
      /\ 16 \in f <=> 3 \in h
      /\ 17 \in f <=> 4 \in h
      /\ 18 \in f <=> 5 \in h
  BY ONLY <1>4, <1>6
<1>8. QED
  BY <1>3, <1>5, <1>6, <1>7

LEMMA SixBits ==
  ASSUME NEW f, NEW a \in 13 .. 18, NEW b \in 13 .. 18, NEW c \in 13 .. 18,
         \A k \in 13 .. 18 : k \in f => k = a \/ k = b \/ k = c,
         NEW m, NEW n, NEW o, ThreeBits(a, b, c, 13, m, n, o)
  PROVE  Number(f \cap (13 .. 18), 13)
           = (IF a \in f THEN m ELSE 0) + (IF b \in f THEN n ELSE 0)
               + (IF c \in f THEN o ELSE 0)
<1>1. PICK g, low : g = f \cap (13 .. 18) /\ low = 13
  OBVIOUS
<1>2. g \in SUBSET {a, b, c}
  BY <1>1
<1>3. Number(g, low) = (IF a \in g THEN m ELSE 0) + (IF b \in g THEN n ELSE 0)
                         + (IF c \in g THEN o ELSE 0)
  BY <1>1, <1>2, NumberOfThree
<1>4. (a \in g <=> a \in f) /\ (b \in g <=> b \in f) /\ (c \in g <=> c \in f)
  BY <1>1
<1>5. QED
  BY <1>1, <1>3, <1>4

LEMMA RefreshField ==
  ASSUME NEW c \in ChipCodes
  PROVE  Number(Timing0(c) \cap (13 .. 18), 13) = RefreshClocks[c.cS + 3]
<1>1. PICK t : t = a_tRFC[c.cS + 1]
  OBVIOUS
<1>2. PICK f : f = Field(t, 13)
  OBVIOUS
<1>3. /\ 13 \in f <=> (t \div 1) % 2 = 1
      /\ 14 \in f <=> (t \div 2) % 2 = 1
      /\ 15 \in f <=> (t \div 4) % 2 = 1
      /\ 16 \in f <=> (t \div 8) % 2 = 1
      /\ 17 \in f <=> (t \div 16) % 2 = 1
      /\ 18 \in f <=> (t \div 32) % 2 = 1
  BY ONLY <1>2, FieldOfSix
<1>4. /\ 2 ^ 0 = 1 /\ 2 ^ 1 = 2 /\ 2 ^ 3 = 8 /\ 2 ^ 4 = 16 /\ 2 ^ 5 = 32
      /\ 13 - 13 = 0 /\ 14 - 13 = 1 /\ 16 - 13 = 3 /\ 17 - 13 = 4 /\ 18 - 13 = 5
  OBVIOUS
<1>5. ThreeBits(13, 14, 17, 13, 1, 2, 16)
  BY <1>4 DEF ThreeBits
<1>15. ThreeBits(14, 16, 17, 13, 2, 8, 16)
  BY <1>4 DEF ThreeBits
<1>6. ThreeBits(13, 17, 18, 13, 1, 16, 32)
  BY <1>4 DEF ThreeBits
<1>7. c.cS \in 0 .. 3
  BY DEF ChipCodes
<1>8. SUFFICES Number(f \cap (13 .. 18), 13) = RefreshClocks[c.cS + 3]
  BY <1>1, <1>2, Timing0Field
<1>9. \A k \in 13 .. 18 : k = 13 \/ k = 14 \/ k = 15 \/ k = 16 \/ k = 17 \/ k = 18
  OBVIOUS
<1>10. CASE c.cS = 0
  <2>1. t = 19
    BY <1>1, <1>10 DEF a_tRFC
  <2>2. 13 \in f /\ 14 \in f /\ 15 \notin f /\ 16 \notin f /\ 17 \in f /\ 18 \notin f
    BY ONLY <1>3, <2>1
  <2>3. \A k \in 13 .. 18 : k \in f => k = 13 \/ k = 14 \/ k = 17
    BY ONLY <1>9, <2>2
  <2>4. PICK a, b, d : a = 13 /\ b = 14 /\ d = 17
    OBVIOUS
  <2>5. PICK m, n, o : m = 1 /\ n = 2 /\ o = 16
    OBVIOUS
  <2>6. Number(f \cap (13 .. 18), 13) = (IF a \in f THEN m ELSE 0)
          + (IF b \in f THEN n ELSE 0) + (IF d \in f THEN o ELSE 0)
    <3>1. ThreeBits(a, b, d, 13, m, n, o)
      BY ONLY <1>5, <2>4, <2>5
    <3>2. a \in 13 .. 18 /\ b \in 13 .. 18 /\ d \in 13 .. 18
      BY ONLY <2>4
    <3>3. \A k \in 13 .. 18 : k \in f => k = a \/ k = b \/ k = d
      BY ONLY <2>3, <2>4
    <3>4. QED
      BY ONLY <3>1, <3>2, <3>3, SixBits
  <2>7. Number(f \cap (13 .. 18), 13) = 19
    BY ONLY <2>2, <2>4, <2>5, <2>6
  <2>8. RefreshClocks[c.cS + 3] = 19
    BY <1>10 DEF RefreshClocks
  <2>9. QED
    BY <2>7, <2>8
<1>11. CASE c.cS = 1
  <2>1. t = 26
    BY <1>1, <1>11 DEF a_tRFC
  <2>2. 13 \notin f /\ 14 \in f /\ 15 \notin f /\ 16 \in f /\ 17 \in f /\ 18 \notin f
    BY ONLY <1>3, <2>1
  <2>3. \A k \in 13 .. 18 : k \in f => k = 14 \/ k = 16 \/ k = 17
    BY ONLY <1>9, <2>2
  <2>4. PICK a, b, d : a = 14 /\ b = 16 /\ d = 17
    OBVIOUS
  <2>5. PICK m, n, o : m = 2 /\ n = 8 /\ o = 16
    OBVIOUS
  <2>6. Number(f \cap (13 .. 18), 13) = (IF a \in f THEN m ELSE 0)
          + (IF b \in f THEN n ELSE 0) + (IF d \in f THEN o ELSE 0)
    <3>1. ThreeBits(a, b, d, 13, m, n, o)
      BY ONLY <1>15, <2>4, <2>5
    <3>2. a \in 13 .. 18 /\ b \in 13 .. 18 /\ d \in 13 .. 18
      BY ONLY <2>4
    <3>3. \A k \in 13 .. 18 : k \in f => k = a \/ k = b \/ k = d
      BY ONLY <2>3, <2>4
    <3>4. QED
      BY ONLY <3>1, <3>2, <3>3, SixBits
  <2>7. Number(f \cap (13 .. 18), 13) = 26
    BY ONLY <2>2, <2>4, <2>5, <2>6
  <2>8. RefreshClocks[c.cS + 3] = 26
    BY <1>11 DEF RefreshClocks
  <2>9. QED
    BY <2>7, <2>8
<1>12. CASE c.cS = 2
  <2>1. t = 32
    BY <1>1, <1>12 DEF a_tRFC
  <2>2. 13 \notin f /\ 14 \notin f /\ 15 \notin f /\ 16 \notin f /\ 17 \notin f /\ 18 \in f
    BY ONLY <1>3, <2>1
  <2>3. \A k \in 13 .. 18 : k \in f => k = 13 \/ k = 17 \/ k = 18
    BY ONLY <1>9, <2>2
  <2>4. PICK a, b, d : a = 13 /\ b = 17 /\ d = 18
    OBVIOUS
  <2>5. PICK m, n, o : m = 1 /\ n = 16 /\ o = 32
    OBVIOUS
  <2>6. Number(f \cap (13 .. 18), 13) = (IF a \in f THEN m ELSE 0)
          + (IF b \in f THEN n ELSE 0) + (IF d \in f THEN o ELSE 0)
    <3>1. ThreeBits(a, b, d, 13, m, n, o)
      BY ONLY <1>6, <2>4, <2>5
    <3>2. a \in 13 .. 18 /\ b \in 13 .. 18 /\ d \in 13 .. 18
      BY ONLY <2>4
    <3>3. \A k \in 13 .. 18 : k \in f => k = a \/ k = b \/ k = d
      BY ONLY <2>3, <2>4
    <3>4. QED
      BY ONLY <3>1, <3>2, <3>3, SixBits
  <2>7. Number(f \cap (13 .. 18), 13) = 32
    BY ONLY <2>2, <2>4, <2>5, <2>6
  <2>8. RefreshClocks[c.cS + 3] = 32
    BY <1>12 DEF RefreshClocks
  <2>9. QED
    BY <2>7, <2>8
<1>13. CASE c.cS = 3
  <2>1. t = 49
    BY <1>1, <1>13 DEF a_tRFC
  <2>2. 13 \in f /\ 14 \notin f /\ 15 \notin f /\ 16 \notin f /\ 17 \in f /\ 18 \in f
    BY ONLY <1>3, <2>1
  <2>3. \A k \in 13 .. 18 : k \in f => k = 13 \/ k = 17 \/ k = 18
    BY ONLY <1>9, <2>2
  <2>4. PICK a, b, d : a = 13 /\ b = 17 /\ d = 18
    OBVIOUS
  <2>5. PICK m, n, o : m = 1 /\ n = 16 /\ o = 32
    OBVIOUS
  <2>6. Number(f \cap (13 .. 18), 13) = (IF a \in f THEN m ELSE 0)
          + (IF b \in f THEN n ELSE 0) + (IF d \in f THEN o ELSE 0)
    <3>1. ThreeBits(a, b, d, 13, m, n, o)
      BY ONLY <1>6, <2>4, <2>5
    <3>2. a \in 13 .. 18 /\ b \in 13 .. 18 /\ d \in 13 .. 18
      BY ONLY <2>4
    <3>3. \A k \in 13 .. 18 : k \in f => k = a \/ k = b \/ k = d
      BY ONLY <2>3, <2>4
    <3>4. QED
      BY ONLY <3>1, <3>2, <3>3, SixBits
  <2>7. Number(f \cap (13 .. 18), 13) = 49
    BY ONLY <2>2, <2>4, <2>5, <2>6
  <2>8. RefreshClocks[c.cS + 3] = 49
    BY <1>13 DEF RefreshClocks
  <2>9. QED
    BY <2>7, <2>8
<1>14. QED
  BY <1>7, <1>10, <1>11, <1>12, <1>13

(* The bytes of all chips of a configuration together.                     *)
Bytes(c) == chpSize(c) * (busWidth[c.bW + 1] \div chpWidth[c.cW + 1])

(* What the controller is told of the chips is what the test sweeps.       *)
LEMMA SweptAsTold ==
  ASSUME NEW c \in ChipCodes, Bytes(c) % Unit = 0
  PROVE  LET size  == Number(Timing1(c) \cap (18 .. 20), 18)
             width == Number(Timing1(c) \cap (16 .. 17), 16)
             bus   == Number(Timing1(c) \cap (12 .. 13), 12)
         IN  /\ totalSize(c) * Unit = 2 ^ (22 + size) * 2 ^ (bus - width)
             /\ 8 * Cardinality(column_mask(c)) = 2 ^ (bus + 2)
             /\ Number(Timing0(c) \cap (13 .. 18), 13) = RefreshClocks[size]
             /\ c.bW = 0 <=> bus = 2
<1>1. PICK size, width, bus : size = c.cS + 3 /\ width = c.cW /\ bus = c.bW + 2
  OBVIOUS
<1>2. /\ c.cS \in 0 .. 3 /\ c.cW \in 0 .. 2 /\ c.bW \in 0 .. 1
      /\ size \in 0 .. 7 /\ width \in 0 .. 7 /\ bus \in 0 .. 7
  BY <1>1 DEF ChipCodes
<1>3. Number(Timing1(c) \cap (18 .. 20), 18) = size
  <2>1. Timing1(c) \cap (18 .. 20) = Field(size, 18)
    BY <1>1, Timing1Fields
  <2>2. Number(Field(size, 18), 18) = size
    BY ONLY <1>2, NumberOfField
  <2>3. QED
    BY <2>1, <2>2
<1>4. Number(Timing1(c) \cap (16 .. 17), 16) = width
  <2>1. Timing1(c) \cap (16 .. 17) = Field(width, 16)
    BY <1>1, Timing1Fields
  <2>2. Number(Field(width, 16), 16) = width
    BY ONLY <1>2, NumberOfField
  <2>3. QED
    BY <2>1, <2>2
<1>5. Number(Timing1(c) \cap (12 .. 13), 12) = bus
  <2>1. Timing1(c) \cap (12 .. 13) = Field(bus, 12)
    BY <1>1, Timing1Fields
  <2>2. Number(Field(bus, 12), 12) = bus
    BY ONLY <1>2, NumberOfField
  <2>3. QED
    BY <2>1, <2>2
<1>6. totalSize(c) * Unit = 2 ^ (22 + size) * 2 ^ (bus - width)
  <2>1. PICK x, u : x = Bytes(c) /\ u = Unit
    OBVIOUS
  <2>2. busWidth[c.bW + 1] \div chpWidth[c.cW + 1] = 2 ^ (bus - width)
    <3>1. 2 ^ 0 = 1 /\ 2 ^ 1 = 2 /\ 2 ^ 2 = 4 /\ 2 ^ 3 = 8
      OBVIOUS
    <3>2. c.cW = 0 \/ c.cW = 1 \/ c.cW = 2
      BY <1>2
    <3>3. /\ busWidth[1] = 16 /\ busWidth[2] = 32
          /\ chpWidth[1] = 4 /\ chpWidth[2] = 8 /\ chpWidth[3] = 16
      BY DEF busWidth, chpWidth
    <3>4. /\ 16 \div 4 = 4 /\ 16 \div 8 = 2 /\ 16 \div 16 = 1
          /\ 32 \div 4 = 8 /\ 32 \div 8 = 4 /\ 32 \div 16 = 2
      OBVIOUS
    <3>5. PICK k, d : k = bus - width /\ d = busWidth[c.bW + 1] \div chpWidth[c.cW + 1]
      OBVIOUS
    <3>6. CASE c.bW = 0
      <4>1. c.bW + 1 = 1
        BY <3>6
      <4>2. CASE c.cW = 0
        <5>1. k = 2 /\ c.cW + 1 = 1
          BY <1>1, <3>5, <3>6, <4>2
        <5>2. QED
          BY <3>1, <3>3, <3>4, <3>5, <4>1, <5>1
      <4>3. CASE c.cW = 1
        <5>1. k = 1 /\ c.cW + 1 = 2
          BY <1>1, <3>5, <3>6, <4>3
        <5>2. QED
          BY <3>1, <3>3, <3>4, <3>5, <4>1, <5>1
      <4>4. CASE c.cW = 2
        <5>1. k = 0 /\ c.cW + 1 = 3
          BY <1>1, <3>5, <3>6, <4>4
        <5>2. QED
          BY <3>1, <3>3, <3>4, <3>5, <4>1, <5>1
      <4>5. QED
        BY <3>2, <4>2, <4>3, <4>4
    <3>7. CASE c.bW = 1
      <4>1. c.bW + 1 = 2
        BY <3>7
      <4>2. CASE c.cW = 0
        <5>1. k = 3 /\ c.cW + 1 = 1
          BY <1>1, <3>5, <3>7, <4>2
        <5>2. QED
          BY <3>1, <3>3, <3>4, <3>5, <4>1, <5>1
      <4>3. CASE c.cW = 1
        <5>1. k = 2 /\ c.cW + 1 = 2
          BY <1>1, <3>5, <3>7, <4>3
        <5>2. QED
          BY <3>1, <3>3, <3>4, <3>5, <4>1, <5>1
      <4>4. CASE c.cW = 2
        <5>1. k = 1 /\ c.cW + 1 = 3
          BY <1>1, <3>5, <3>7, <4>4
        <5>2. QED
          BY <3>1, <3>3, <3>4, <3>5, <4>1, <5>1
      <4>5. QED
        BY <3>2, <4>2, <4>3, <4>4
    <3>8. QED
      BY <1>2, <3>6, <3>7
  <2>3. chpSize(c) = 2 ^ (22 + size)
    <3>1. 25 + c.cS = 22 + size
      BY <1>1, <1>2
    <3>2. QED
      BY <3>1 DEF chpSize
  <2>4. x = 2 ^ (22 + size) * 2 ^ (bus - width)
    BY <2>1, <2>2, <2>3 DEF Bytes
  <2>5. x \in Nat
    <3>1. 2 ^ (22 + size) \in Nat
      <4>1. 2 ^ 25 \in Nat /\ 2 ^ 26 \in Nat /\ 2 ^ 27 \in Nat /\ 2 ^ 28 \in Nat
        OBVIOUS
      <4>2. 22 + size = 25 \/ 22 + size = 26 \/ 22 + size = 27 \/ 22 + size = 28
        BY <1>1, <1>2
      <4>3. QED
        BY ONLY <4>1, <4>2
    <3>2. 2 ^ (bus - width) \in Nat
      <4>1. 2 ^ 0 \in Nat /\ 2 ^ 1 \in Nat /\ 2 ^ 2 \in Nat /\ 2 ^ 3 \in Nat
        OBVIOUS
      <4>2. bus - width = 0 \/ bus - width = 1 \/ bus - width = 2 \/ bus - width = 3
        BY <1>1, <1>2
      <4>3. QED
        BY ONLY <4>1, <4>2
    <3>3. QED
      BY <2>4, <3>1, <3>2
  <2>6. u \in Nat \ {0} /\ x % u = 0
    BY <2>1, DramAssumption
  <2>7. (x \div u) * u = x
    BY ONLY <2>5, <2>6
  <2>8. totalSize(c) = x \div u
    BY <2>1 DEF totalSize, Bytes
  <2>9. QED
    BY <2>1, <2>4, <2>7, <2>8
<1>7. 8 * Cardinality(column_mask(c)) = 2 ^ (bus + 2)
  <2>1. 2 ^ 4 = 16 /\ 2 ^ 5 = 32
    OBVIOUS
  <2>2. CASE c.bW = 0
    <3>1. column_mask(c) = 0 .. 1
      BY <2>2 DEF column_mask
    <3>2. PICK a, b : a = 0 /\ b = 1
      OBVIOUS
    <3>4. a \in Int /\ b \in Int
      BY <3>2
    <3>5. Cardinality(a .. b) = IF a > b THEN 0 ELSE b - a + 1
      BY ONLY <3>4, FS_Interval
    <3>6. Cardinality(0 .. 1) = 2
      BY ONLY <3>2, <3>5
    <3>3. bus + 2 = 4
      BY <1>1, <2>2
    <3>7. Cardinality(column_mask(c)) = 2
      BY <3>1, <3>6
    <3>8. 2 ^ (bus + 2) = 16
      BY <2>1, <3>3
    <3>9. QED
      BY <3>7, <3>8
  <2>3. CASE c.bW = 1
    <3>1. column_mask(c) = 0 .. 3
      BY <2>3 DEF column_mask
    <3>2. PICK a, b : a = 0 /\ b = 3
      OBVIOUS
    <3>4. a \in Int /\ b \in Int
      BY <3>2
    <3>5. Cardinality(a .. b) = IF a > b THEN 0 ELSE b - a + 1
      BY ONLY <3>4, FS_Interval
    <3>6. Cardinality(0 .. 3) = 4
      BY ONLY <3>2, <3>5
    <3>3. bus + 2 = 5
      BY <1>1, <2>3
    <3>7. Cardinality(column_mask(c)) = 4
      BY <3>1, <3>6
    <3>8. 2 ^ (bus + 2) = 32
      BY <2>1, <3>3
    <3>9. QED
      BY <3>7, <3>8
  <2>4. QED
    BY <1>2, <2>2, <2>3
<1>8. Number(Timing0(c) \cap (13 .. 18), 13) = RefreshClocks[size]
  BY <1>1, RefreshField
<1>9. c.bW = 0 <=> bus = 2
  BY <1>1, <1>2
<1>10. QED
  BY <1>3, <1>4, <1>5, <1>6, <1>7, <1>8, <1>9

(* An access is among those of a sequence.                                 *)
Occurs(s, x) == \E k \in 1 .. Len(s) : s[k] = x

LEMMA OccursJoined ==
  ASSUME NEW T, NEW s, NEW t, NEW u, NEW x, s \in Seq(T), t \in Seq(T), u = s \o t,
         Occurs(s, x) \/ Occurs(t, x)
  PROVE  Occurs(u, x)
<1>1. /\ Len(u) = Len(s) + Len(t) /\ Len(s) \in Nat /\ Len(t) \in Nat
      /\ \A k \in 1 .. Len(s) : u[k] = s[k]
      /\ \A k \in 1 .. Len(t) : u[Len(s) + k] = t[k]
  BY Joined
<1>2. CASE Occurs(s, x)
  <2>1. PICK k \in 1 .. Len(s) : s[k] = x
    BY <1>2 DEF Occurs
  <2>2. k \in 1 .. Len(u) /\ u[k] = x
    BY <1>1, <2>1
  <2>3. QED
    BY <2>2 DEF Occurs
<1>3. CASE Occurs(t, x)
  <2>1. PICK k \in 1 .. Len(t) : t[k] = x
    BY <1>3 DEF Occurs
  <2>2. Len(s) + k \in 1 .. Len(u) /\ u[Len(s) + k] = x
    BY <1>1, <2>1
  <2>3. QED
    BY <2>2 DEF Occurs
<1>4. QED
  BY <1>2, <1>3

(* A row of accesses over T, x among them.                                 *)
Row(T, x, s) == s \in Seq(T) /\ Occurs(s, x)

LEMMA RowGoesOn ==
  ASSUME NEW T, NEW x, NEW s, NEW t, Row(T, x, s), t \in Seq(T)
  PROVE  Row(T, x, s \o t)
<1>1. PICK u : u = s \o t
  OBVIOUS
<1>2. s \in Seq(T) /\ Occurs(s, x)
  BY DEF Row
<1>3. u \in Seq(T)
  BY ONLY <1>1, <1>2, t \in Seq(T), Joined
<1>4. Occurs(u, x)
  BY <1>1, <1>2, OccursJoined
<1>5. QED
  BY <1>1, <1>3, <1>4 DEF Row

LEMMA RowBegins ==
  ASSUME NEW T, NEW x, NEW s, NEW t, s \in Seq(T), Row(T, x, t)
  PROVE  Row(T, x, s \o t)
<1>1. PICK u : u = s \o t
  OBVIOUS
<1>2. t \in Seq(T) /\ Occurs(t, x)
  BY DEF Row
<1>3. u \in Seq(T)
  BY ONLY <1>1, <1>2, s \in Seq(T), Joined
<1>4. Occurs(u, x)
  BY <1>1, <1>2, OccursJoined
<1>5. QED
  BY <1>1, <1>3, <1>4 DEF Row

LEMMA OccursAlone ==
  ASSUME NEW x
  PROVE  Occurs(<<x>>, x)
BY DEF Occurs

(* Size, widths and refresh time are among what the controller is told.    *)
Telling(c) ==
  {StoreOf("mem_cfg0", Timing0(c)), StoreOf("mem_cfg1", Timing1(c))}
    \cup (IF c.bW = 0 THEN {ModifyOf("prf_ctrl", {}, DDRPHY_RDLAT_STG2_1CLK)} ELSE {})

LEMMA ProgrammingTells ==
  ASSUME NEW c, NEW x \in Telling(c)
  PROVE  Occurs(Programming(c), x)
<1>1. PICK p, q, r : /\ p = (IF c.bW = 0 THEN Or("prf_ctrl", DDRPHY_RDLAT_STG2_1CLK) ELSE <<>>)
                     /\ q = Store("mem_cfg0", Timing0(c))
                     /\ r = Store("mem_cfg1", Timing1(c))
  OBVIOUS
<1>2. PICK a, b, d, e : /\ a = Store("mem_cfg2", ModeWord(WITH_DLL_RESET))
                        /\ b = Store("mem_cfg2", ModeWord({}))
                        /\ d = Store("mem_cfg3", ExtendedModeWord)
                        /\ e = Store("mem_cfg4", FAW)
  OBVIOUS
<1>3. PICK f, g : f = Store("mem_cfg5", {}) /\ g = Store("mem_cfg6", {})
  OBVIOUS
<1>4. \/ Occurs(p, x) \/ Occurs(q, x) \/ Occurs(r, x)
  <2>1. CASE x = StoreOf("mem_cfg0", Timing0(c))
    <3>1. q = <<x>>
      BY <1>1, <2>1 DEF Store, StoreOf
    <3>2. QED
      BY <3>1, OccursAlone
  <2>2. CASE x = StoreOf("mem_cfg1", Timing1(c))
    <3>1. r = <<x>>
      BY <1>1, <2>2 DEF Store, StoreOf
    <3>2. QED
      BY <3>1, OccursAlone
  <2>3. CASE c.bW = 0 /\ x = ModifyOf("prf_ctrl", {}, DDRPHY_RDLAT_STG2_1CLK)
    <3>1. p = <<x>>
      BY <1>1, <2>3 DEF Or, Modify, ModifyOf
    <3>2. QED
      BY <3>1, OccursAlone
  <2>4. QED
    BY <2>1, <2>2, <2>3 DEF Telling
<1>5. PICK T : /\ p \in Seq(T) /\ q \in Seq(T) /\ r \in Seq(T)
               /\ a \in Seq(T) /\ b \in Seq(T) /\ d \in Seq(T)
               /\ e \in Seq(T) /\ f \in Seq(T) /\ g \in Seq(T)
  <2>1. PICK o1, o2, o3 : /\ o1 = ModifyOf("prf_ctrl", {}, DDRPHY_RDLAT_STG2_1CLK)
                          /\ o2 = StoreOf("mem_cfg0", Timing0(c))
                          /\ o3 = StoreOf("mem_cfg1", Timing1(c))
    OBVIOUS
  <2>2. PICK o4, o5, o6, o7 : /\ o4 = StoreOf("mem_cfg2", ModeWord(WITH_DLL_RESET))
                              /\ o5 = StoreOf("mem_cfg2", ModeWord({}))
                              /\ o6 = StoreOf("mem_cfg3", ExtendedModeWord)
                              /\ o7 = StoreOf("mem_cfg4", FAW)
    OBVIOUS
  <2>3. PICK o8, o9 : o8 = StoreOf("mem_cfg5", {}) /\ o9 = StoreOf("mem_cfg6", {})
    OBVIOUS
  <2>4. p = <<o1>> \/ p = <<>>
    BY <1>1, <2>1 DEF Or, Modify, ModifyOf
  <2>5. q = <<o2>> /\ r = <<o3>>
    BY <1>1, <2>1 DEF Store, StoreOf
  <2>6. a = <<o4>> /\ b = <<o5>> /\ d = <<o6>> /\ e = <<o7>>
    BY <1>2, <2>2 DEF Store, StoreOf
  <2>7. f = <<o8>> /\ g = <<o9>>
    BY <1>3, <2>3 DEF Store, StoreOf
  <2>8. PICK T : T = {o1, o2, o3, o4, o5, o6, o7, o8, o9}
    OBVIOUS
  <2>9. p \in Seq(T) /\ q \in Seq(T) /\ r \in Seq(T)
    <3>1. <<o1>> \in Seq(T) /\ <<>> \in Seq(T)
      BY ONLY <2>8
    <3>2. q \in Seq(T) /\ r \in Seq(T)
      BY ONLY <2>5, <2>8
    <3>3. QED
      BY ONLY <2>4, <3>1, <3>2
  <2>10. a \in Seq(T) /\ b \in Seq(T) /\ d \in Seq(T) /\ e \in Seq(T)
    BY ONLY <2>6, <2>8
  <2>11. f \in Seq(T) /\ g \in Seq(T)
    BY ONLY <2>7, <2>8
  <2>12. QED
    BY <2>9, <2>10, <2>11
<1>6. PICK s1, s2 : s1 = p \o q /\ s2 = s1 \o r
  OBVIOUS
<1>7. Row(T, x, s2)
  <2>1. s1 \in Seq(T)
    BY ONLY <1>5, <1>6, Joined
  <2>2. CASE Occurs(p, x)
    <3>1. Row(T, x, p)
      BY <1>5, <2>2 DEF Row
    <3>2. Row(T, x, s1)
      BY ONLY <1>5, <1>6, <3>1, RowGoesOn
    <3>3. QED
      BY ONLY <1>5, <1>6, <3>2, RowGoesOn
  <2>3. CASE Occurs(q, x)
    <3>1. Row(T, x, q)
      BY <1>5, <2>3 DEF Row
    <3>2. Row(T, x, s1)
      BY ONLY <1>5, <1>6, <3>1, RowBegins
    <3>3. QED
      BY ONLY <1>5, <1>6, <3>2, RowGoesOn
  <2>4. CASE Occurs(r, x)
    <3>1. Row(T, x, r)
      BY <1>5, <2>4 DEF Row
    <3>2. QED
      BY ONLY <1>6, <2>1, <3>1, RowBegins
  <2>5. QED
    BY <1>4, <2>2, <2>3, <2>4
<1>8. PICK s3, s4 : s3 = s2 \o a /\ s4 = s3 \o b
  OBVIOUS
<1>9. Row(T, x, s3)
  BY ONLY <1>5, <1>7, <1>8, RowGoesOn
<1>10. Row(T, x, s4)
  BY ONLY <1>5, <1>8, <1>9, RowGoesOn
<1>11. PICK s5, s6 : s5 = s4 \o d /\ s6 = s5 \o e
  OBVIOUS
<1>12. Row(T, x, s5)
  BY ONLY <1>5, <1>10, <1>11, RowGoesOn
<1>13. Row(T, x, s6)
  BY ONLY <1>5, <1>11, <1>12, RowGoesOn
<1>14. PICK s7, s8 : s7 = s6 \o f /\ s8 = s7 \o g
  OBVIOUS
<1>15. Row(T, x, s7)
  BY ONLY <1>5, <1>13, <1>14, RowGoesOn
<1>16. Row(T, x, s8)
  BY ONLY <1>5, <1>14, <1>15, RowGoesOn
<1>17. Programming(c) = s8
  BY <1>1, <1>2, <1>3, <1>6, <1>8, <1>11, <1>14 DEF Programming
<1>18. QED
  BY <1>16, <1>17 DEF Row

LEMMA SettingTells ==
  ASSUME NEW c, NEW x \in Telling(c)
  PROVE  Occurs(Setting(c), x)
<1>1. PICK p, q, r : p = ddr_phy_init /\ q = ddr_phy_polling_idle /\ r = Programming(c)
  OBVIOUS
<1>2. PICK T : T = Settings(c)
  OBVIOUS
<1>3. p \in Seq(T) /\ q \in Seq(T) /\ r \in Seq(T)
  BY <1>1, <1>2, SettingTyped
<1>4. PICK s, t : s = p \o q /\ t = s \o r
  OBVIOUS
<1>5. s \in Seq(T)
  BY ONLY <1>3, <1>4, Joined
<1>6. Row(T, x, r)
  BY <1>1, <1>3, ProgrammingTells DEF Row
<1>7. Occurs(t, x)
  <2>1. Row(T, x, t)
    BY ONLY <1>4, <1>5, <1>6, RowBegins
  <2>2. QED
    BY <2>1 DEF Row
<1>8. t = Setting(c)
  BY <1>1, <1>4 DEF Setting
<1>9. QED
  BY <1>7, <1>8

(* They are told before the power sequence starts.                         *)
LEMMA PrepareTells ==
  ASSUME NEW c, NEW x \in Telling(c)
  PROVE  Occurs(Prepare(c), x)
<1>1. PICK s, n, z : s = Prepare(c) /\ n = Len(Setting(c)) /\ z = Setting(c)
  OBVIOUS
<1>2. /\ n \in Nat /\ Len(s) = n + 8
      /\ \A k \in 1 .. n : s[6 + k] = z[k]
  BY <1>1, PrepareShape
<1>3. PICK k \in 1 .. n : z[k] = x
  BY <1>1, SettingTells DEF Occurs
<1>4. 6 + k \in 1 .. Len(s) /\ s[6 + k] = x
  BY <1>2, <1>3
<1>5. QED
  BY <1>1, <1>4 DEF Occurs

(* What an access that tells the controller of c has done to the words f.  *)
Heeded(f, c, x) ==
  /\ x = StoreOf("mem_cfg0", Timing0(c)) => f.mem_cfg0 = Timing0(c)
  /\ x = StoreOf("mem_cfg1", Timing1(c)) => f.mem_cfg1 = Timing1(c)
  /\ x = ModifyOf("prf_ctrl", {}, DDRPHY_RDLAT_STG2_1CLK)
       => DDRPHY_RDLAT_STG2_1CLK \subseteq f.prf_ctrl

(* The words f tell the controller of c.                                   *)
Told(f, c) ==
  /\ f.mem_cfg0 = Timing0(c)
  /\ f.mem_cfg1 = Timing1(c)
  /\ c.bW = 0 => DDRPHY_RDLAT_STG2_1CLK \subseteq f.prf_ctrl

(* A narrow configuration has been begun with.                             *)
NarrowTried == \E k \in DOMAIN Configs : k <= try /\ Configs[k].bW = 0

(* While a configuration is prepared, what is behind was heeded; from then *)
(* on the controller holds what it was told; the bit of a narrow bus was   *)
(* set for a configuration that was tried.                                 *)
ToldInv ==
  /\ dram = "try" /\ Fits =>
       \A n \in 1 .. Len(Preparing[try]) :
         n < at => Heeded(ddr, config, Preparing[try][n])
  /\ Believed => Told(ddr, config)
  /\ DDRPHY_RDLAT_STG2_1CLK \cap ddr.prf_ctrl # {} => NarrowTried

LEMMA TellingRegisters ==
  /\ {"mem_cfg0", "mem_cfg1", "prf_ctrl"} \subseteq DOMAIN ResetDdr
  /\ {"mem_cfg0", "mem_cfg1", "prf_ctrl"} \cap {"mem_cfg7", "scl_start", "status_perf"} = {}
  /\ {"mem_cfg0", "mem_cfg1", "prf_ctrl"} \cap {"rst_mask", "clkgate", "rst_vec"} = {}
BY DEF ResetDdr

(* An access of the set-up does what it says, and undoes none before it.   *)
LEMMA AccessHeeded ==
  ASSUME NEW f, NEW g, NEW c, NEW o, NEW x, DOMAIN f = DOMAIN ResetDdr,
         o \in Settings(c) \/ o = StoreOf("mem_cfg7", {}),
         g = Effect(f, o), Heeded(f, c, x) \/ x = o
  PROVE  /\ Heeded(g, c, x)
         /\ DDRPHY_RDLAT_STG2_1CLK \cap g.prf_ctrl # {}
              => DDRPHY_RDLAT_STG2_1CLK \cap f.prf_ctrl # {} \/ c.bW = 0
<1>1. \/ o.op = "store" /\ o.reg \in DOMAIN f /\ Meant(c, o)
      \/ o.op = "wait"
      \/ o.op = "modify" /\ c.bW = 0 /\ o = ModifyOf("prf_ctrl", {}, DDRPHY_RDLAT_STG2_1CLK)
  <2>1. CASE o = StoreOf("mem_cfg7", {})
    <3>1. o.op = "store" /\ o.reg = "mem_cfg7"
      BY <2>1 DEF StoreOf
    <3>2. "mem_cfg7" \in DOMAIN f
      BY DEF ResetDdr
    <3>3. QED
      BY <3>1, <3>2 DEF Meant
  <2>2. CASE o \in Settings(c)
    BY <2>2 DEF Settings, ModifyOf
  <2>3. QED
    BY <2>1, <2>2
<1>2. CASE o.op = "store" /\ o.reg \in DOMAIN f /\ Meant(c, o)
  <2>1. \A q \in DOMAIN f : q # o.reg => g[q] = f[q]
    BY OneRegister
  <2>2. o.reg \in {"mem_cfg0", "mem_cfg1"} => g[o.reg] = o.word
    BY <1>2 DEF Effect, Masked
  <2>3. g.prf_ctrl = f.prf_ctrl
    BY <1>2, <2>1, TellingRegisters DEF Meant
  <2>4. g.mem_cfg0 = f.mem_cfg0 \/ g.mem_cfg0 = Timing0(c)
    BY <1>2, <2>1, <2>2, TellingRegisters DEF Meant
  <2>5. g.mem_cfg1 = f.mem_cfg1 \/ g.mem_cfg1 = Timing1(c)
    BY <1>2, <2>1, <2>2, TellingRegisters DEF Meant
  <2>6. CASE Heeded(f, c, x)
    BY <2>3, <2>4, <2>5, <2>6 DEF Heeded
  <2>7. CASE x = o
    <3>1. ~ (x = ModifyOf("prf_ctrl", {}, DDRPHY_RDLAT_STG2_1CLK))
      BY <1>2, <2>7 DEF ModifyOf
    <3>2. x = StoreOf("mem_cfg0", Timing0(c)) => g.mem_cfg0 = Timing0(c)
      BY <2>2, <2>7 DEF StoreOf
    <3>3. x = StoreOf("mem_cfg1", Timing1(c)) => g.mem_cfg1 = Timing1(c)
      BY <2>2, <2>7 DEF StoreOf
    <3>4. QED
      BY <2>3, <3>1, <3>2, <3>3 DEF Heeded
  <2>8. QED
    BY <2>3, <2>6, <2>7
<1>3. CASE o.op = "wait"
  <2>1. g = f
    BY <1>3 DEF Effect
  <2>2. x = o => Heeded(g, c, x)
    BY <1>3 DEF Heeded, StoreOf, ModifyOf
  <2>3. QED
    BY <2>1, <2>2
<1>4. CASE o.op = "modify" /\ c.bW = 0 /\ o = ModifyOf("prf_ctrl", {}, DDRPHY_RDLAT_STG2_1CLK)
  <2>1. o.reg = "prf_ctrl"
    BY <1>4 DEF ModifyOf
  <2>2. g.mem_cfg0 = f.mem_cfg0 /\ g.mem_cfg1 = f.mem_cfg1
    BY <2>1, OneRegister, TellingRegisters
  <2>3. g.prf_ctrl = (f.prf_ctrl \ {}) \cup DDRPHY_RDLAT_STG2_1CLK
    BY <1>4, TellingRegisters, Modified
  <2>4. DDRPHY_RDLAT_STG2_1CLK \subseteq g.prf_ctrl
    BY <2>3
  <2>5. x = o => x # StoreOf("mem_cfg0", Timing0(c)) /\ x # StoreOf("mem_cfg1", Timing1(c))
    BY <1>4 DEF StoreOf
  <2>6. Heeded(g, c, x)
    BY <2>2, <2>4, <2>5 DEF Heeded
  <2>7. QED
    BY <1>4, <2>6
<1>5. QED
  BY <1>1, <1>2, <1>3, <1>4

(* An access elsewhere tells nothing.                                      *)
LEMMA ElsewhereTells ==
  ASSUME NEW f, NEW c, NEW o, NEW r \in {"rst_mask", "clkgate", "rst_vec"}, NEW a, NEW b,
         o = ModifyOf(r, a, b) \/ o = ADelay
  PROVE  Heeded(f, c, o)
<1>1. CASE o = ModifyOf(r, a, b)
  <2>1. o.op = "modify" /\ o.reg # "prf_ctrl"
    BY <1>1 DEF ModifyOf
  <2>2. QED
    BY <2>1 DEF Heeded, StoreOf, ModifyOf
<1>2. CASE o = ADelay
  <2>1. o.op = "delay"
    BY <1>2 DEF ADelay
  <2>2. QED
    BY <2>1 DEF Heeded, StoreOf, ModifyOf
<1>3. QED
  BY <1>1, <1>2

LEMMA ToldPrepare ==
  ASSUME SetUpInv, ToldInv, dram = "try", Fits,
         AccessScu \/ AccessDdr \/ DelayPasses \/ PollDdr
  PROVE  ToldInv'
<1>1. PICK L, o, c, s : L = Len(s) /\ o = Accesses[at] /\ c = config /\ s = Preparing[try]
  OBVIOUS
<1>2. /\ Accesses = s
      /\ L \in Nat /\ L >= 8
      /\ at <= L =>
           \/ at = 1 /\ o = ModifyOf("rst_mask", DdrResets, {})
           \/ at = 2 /\ o = ModifyOf("clkgate", {DDR_CTRL_CLK_SRC}, {})
           \/ at = 3 /\ o = ModifyOf("clkgate", {}, {DDR_CTRL_CLK_GATE})
           \/ at = 4 /\ o = ADelay
           \/ at = 5 /\ o = ModifyOf("rst_vec", {}, DdrResets)
           \/ at = 6 /\ o = ModifyOf("rst_mask", {}, DdrResets)
           \/ at >= 7 /\ at < L - 1 /\ o \in Settings(c)
           \/ at >= 7 /\ at = L - 1 /\ o = StoreOf("mem_cfg7", {})
           \/ at >= 8 /\ at = L /\ o = ADelay
  BY <1>1, NextAccess
<1>3. /\ at' = at + 1 /\ UNCHANGED memVars
      /\ at <= L
  <2>1. at' = at + 1 /\ ~ Done
    BY DEF AccessScu, AccessDdr, DelayPasses, PollDdr, Doing
  <2>2. UNCHANGED memVars
    BY DEF AccessScu, AccessDdr, DelayPasses, PollDdr
  <2>3. ~ (at > L)
    BY <1>1, <1>2, <2>1 DEF Done
  <2>4. at \in Nat
    BY DEF SetUpInv
  <2>5. at <= L
    BY ONLY <1>2, <2>3, <2>4
  <2>6. QED
    BY <2>1, <2>2, <2>5
<1>4. /\ at \in Nat \ {0}
      /\ DOMAIN regs = DOMAIN ResetRegs /\ DOMAIN ddr = DOMAIN ResetDdr
      /\ at >= 7 => Runs
  <2>1. at \in Nat
    BY DEF SetUpInv
  <2>2. at >= 7 => at >= 4 /\ at >= 6
    BY ONLY <2>1
  <2>3. QED
    BY <2>2 DEF SetUpInv, PrepareStages, Runs
<1>5. /\ dram' = dram /\ try' = try /\ config' = config /\ Preparing' = Preparing
      /\ ~ Believed'
  <2>1. dram' = dram /\ try' = try
    BY <1>3 DEF memVars, dramVars
  <2>2. QED
    BY <2>1 DEF config, Believed, Preparing
<1>6. /\ \A n \in 1 .. L : n < at => Heeded(ddr, c, s[n])
      /\ DDRPHY_RDLAT_STG2_1CLK \cap ddr.prf_ctrl # {} => NarrowTried
  BY <1>1 DEF ToldInv
<1>7. NarrowTried' <=> NarrowTried
  BY <1>5 DEF NarrowTried
<1>8. /\ \A n \in 1 .. L : n < at \/ s[n] = o => Heeded(ddr', c, s[n])
      /\ DDRPHY_RDLAT_STG2_1CLK \cap ddr'.prf_ctrl # {}
           => DDRPHY_RDLAT_STG2_1CLK \cap ddr.prf_ctrl # {} \/ c.bW = 0
  <2>1. CASE at >= 7 /\ at < L
    <3>1. o \in Settings(c) \/ o = StoreOf("mem_cfg7", {})
      BY <1>2, <1>3, <2>1
    <3>2. o.op \in {"store", "modify", "wait"} /\ o.reg \in DOMAIN ResetDdr
      <4>1. {"prf_ctrl", "status_perf", "mem_cfg7"} \subseteq DOMAIN ResetDdr
        BY DEF ResetDdr
      <4>2. CASE o \in Settings(c)
        BY <4>1, <4>2 DEF Settings
      <4>3. CASE o = StoreOf("mem_cfg7", {})
        BY <4>1, <4>3 DEF StoreOf
      <4>4. QED
        BY <3>1, <4>2, <4>3
    <3>3. o.op = "wait" => Effect(ddr, o) = ddr
      BY DEF Effect
    <3>4. ddr' = Effect(ddr, o)
      BY <1>1, <1>4, <2>1, <3>2, <3>3, Registers
         DEF AccessScu, AccessDdr, DelayPasses, PollDdr, Doing
    <3>5. ASSUME NEW n \in 1 .. L, n < at \/ s[n] = o
          PROVE  /\ Heeded(ddr', c, s[n])
                 /\ DDRPHY_RDLAT_STG2_1CLK \cap ddr'.prf_ctrl # {}
                      => DDRPHY_RDLAT_STG2_1CLK \cap ddr.prf_ctrl # {} \/ c.bW = 0
      <4>1. PICK f, g, x : f = ddr /\ g = ddr' /\ x = s[n]
        OBVIOUS
      <4>2. DOMAIN f = DOMAIN ResetDdr /\ g = Effect(f, o)
        BY <1>4, <3>4, <4>1
      <4>3. Heeded(f, c, x) \/ x = o
        BY <1>6, <3>5, <4>1
      <4>4. /\ Heeded(g, c, x)
            /\ DDRPHY_RDLAT_STG2_1CLK \cap g.prf_ctrl # {}
                 => DDRPHY_RDLAT_STG2_1CLK \cap f.prf_ctrl # {} \/ c.bW = 0
        BY ONLY <3>1, <4>2, <4>3, AccessHeeded
      <4>5. QED
        BY <4>1, <4>4
    <3>6. 1 \in 1 .. L /\ 1 < at
      BY ONLY <1>2, <1>4, <2>1
    <3>7. QED
      BY <3>5, <3>6
  <2>2. CASE at \in 1 .. 6 \/ at = L
    <3>1. PICK r, a, b : /\ r \in {"rst_mask", "clkgate", "rst_vec"}
                         /\ o = ModifyOf(r, a, b) \/ o = ADelay
      <4>1. \/ at = 1 /\ o = ModifyOf("rst_mask", DdrResets, {})
            \/ at = 2 /\ o = ModifyOf("clkgate", {DDR_CTRL_CLK_SRC}, {})
            \/ at = 3 /\ o = ModifyOf("clkgate", {}, {DDR_CTRL_CLK_GATE})
            \/ o = ADelay
            \/ at = 5 /\ o = ModifyOf("rst_vec", {}, DdrResets)
            \/ at = 6 /\ o = ModifyOf("rst_mask", {}, DdrResets)
        BY <1>2, <1>3, <2>2
      <4>2. QED
        BY <4>1
    <3>2. \A f : Heeded(f, c, o)
      BY <3>1, ElsewhereTells
    <3>3. ddr' = ddr
      <4>1. o.op = "delay" \/ (o.op = "modify" /\ o.reg \notin DOMAIN ResetDdr)
        BY <3>1, Registers DEF ModifyOf, ADelay
      <4>2. QED
        BY <1>1, <1>4, <4>1 DEF AccessScu, AccessDdr, DelayPasses, PollDdr, Doing
    <3>4. QED
      BY <1>6, <3>2, <3>3
  <2>3. at \in 1 .. 6 \/ at = L \/ (at >= 7 /\ at < L)
    BY ONLY <1>2, <1>3, <1>4
  <2>4. QED
    BY <2>1, <2>2, <2>3
<1>9. ASSUME NEW n \in 1 .. L, n < at + 1
      PROVE  Heeded(ddr', c, s[n])
  <2>1. n < at \/ n = at
    BY ONLY <1>4, <1>9
  <2>2. n = at => s[n] = o
    BY <1>1, <1>2
  <2>3. QED
    BY <1>8, <2>1, <2>2
<1>10. c.bW = 0 => NarrowTried
  <2>1. try \in DOMAIN Configs /\ try <= try
    BY ConfigFacts DEF SetUpInv, Fits
  <2>2. QED
    BY <1>1, <2>1 DEF NarrowTried, config
<1>11. QED
  BY <1>1, <1>3, <1>5, <1>6, <1>7, <1>8, <1>9, <1>10 DEF ToldInv

(* The bit of a narrow bus.                                                *)
LEMMA NarrowBit == DDRPHY_RDLAT_STG2_1CLK = {6}
<1>1. 1 \in 0 .. 7
  OBVIOUS
<1>2. /\ Hex(0, 1) \subseteq 0 .. 2
      /\ 0 \in Hex(0, 1) <=> 1 % 2 = 1
      /\ 1 \in Hex(0, 1) <=> (1 \div 2) % 2 = 1
      /\ 2 \in Hex(0, 1) <=> (1 \div 4) % 2 = 1
  BY ONLY <1>1, HexOfThree
<1>3. 1 % 2 = 1 /\ (1 \div 2) % 2 = 0 /\ (1 \div 4) % 2 = 0
  OBVIOUS
<1>4. PICK h : h = Hex(0, 1)
  OBVIOUS
<1>5. h = {0}
  BY ONLY <1>2, <1>3, <1>4
<1>6. QED
  BY <1>4, <1>5 DEF DDRPHY_RDLAT_STG2_1CLK, Field

(* The reset value of the PHY's control word.                              *)
LEMMA ResetTellsNothing == DDRPHY_RDLAT_STG2_1CLK \cap ResetDdr.prf_ctrl = {}
<1>1. PICK z, w : z = \h0320 /\ w = \h8027
  OBVIOUS
<1>2. PICK h : h = Hex(z, w)
  OBVIOUS
<1>3. 6 \in h <=> (w \div 64) % 2 = 1
  BY ONLY <1>2, HexBits
<1>4. 6 \notin h
  BY <1>1, <1>3
<1>5. DDRPHY_RDLAT_STG2_1CLK = {6}
  BY NarrowBit
<1>6. ResetDdr.prf_ctrl = h
  BY <1>1, <1>2 DEF ResetDdr
<1>7. QED
  BY <1>4, <1>5, <1>6

(* The search goes on, or begins.                                          *)
LEMMA ToldNewTry ==
  ASSUME ToldInv, at' = 1, dram' = "try", try \in Int, try' \in Int, try <= try', ddr' = ddr
  PROVE  ToldInv'
<1>1. \A k \in DOMAIN Configs : k <= try => k <= try'
  BY ConfigFacts
<1>2. NarrowTried => NarrowTried'
  BY <1>1 DEF NarrowTried
<1>3. \A n \in 1 .. Len(Preparing'[try']) : ~ (n < 1)
  OBVIOUS
<1>4. QED
  BY <1>2, <1>3 DEF ToldInv, Believed

LEMMA ToldPrepared ==
  ASSUME SetUpInv, ToldInv, Prepared
  PROVE  ToldInv'
<1>1. /\ dram = "try" /\ Fits /\ Done /\ dram' = "scl" /\ at' = 1
      /\ UNCHANGED <<try, ddr>>
  BY DEF Prepared, SetUp
<1>2. PICK L, c, s, f : L = Len(s) /\ c = config /\ s = Preparing[try] /\ f = ddr
  OBVIOUS
<1>3. L \in Nat /\ L >= 8 /\ Accesses = s
  BY <1>1, <1>2, NextAccess
<1>4. at \in Nat /\ at > L
  BY <1>1, <1>2, <1>3 DEF SetUpInv, Done
<1>5. ASSUME NEW x \in Telling(c) PROVE Heeded(f, c, x)
  <2>1. try \in DOMAIN Configs
    BY <1>1, ConfigFacts DEF SetUpInv, Fits
  <2>2. s = Prepare(c)
    BY <1>2, <2>1 DEF Preparing, config
  <2>3. PICK k \in 1 .. Len(s) : s[k] = x
    BY <2>2, PrepareTells DEF Occurs
  <2>4. k < at
    BY ONLY <1>2, <1>3, <1>4, <2>3
  <2>5. QED
    BY <1>1, <1>2, <2>3, <2>4 DEF ToldInv
<1>6. Told(f, c)
  <2>1. f.mem_cfg0 = Timing0(c)
    BY <1>5 DEF Telling, Heeded
  <2>2. f.mem_cfg1 = Timing1(c)
    BY <1>5 DEF Telling, Heeded
  <2>3. ASSUME c.bW = 0 PROVE DDRPHY_RDLAT_STG2_1CLK \subseteq f.prf_ctrl
    <3>1. ModifyOf("prf_ctrl", {}, DDRPHY_RDLAT_STG2_1CLK) \in Telling(c)
      BY <2>3 DEF Telling
    <3>2. QED
      BY <1>5, <3>1 DEF Heeded
  <2>4. QED
    BY <2>1, <2>2, <2>3 DEF Told
<1>7. config' = c /\ ddr' = f
  BY <1>1, <1>2 DEF config
<1>8. Told(ddr', config')
  BY <1>6, <1>7
<1>9. NarrowTried' <=> NarrowTried
  BY <1>1 DEF NarrowTried
<1>10. QED
  BY <1>1, <1>8, <1>9 DEF ToldInv

(* What is told stays told while nothing but the registers of the lanes    *)
(* and of the PHY's state changes.                                         *)
LEMMA ToldStays ==
  ASSUME ToldInv, try' = try, Believed' => Believed, dram' = dram \/ dram' # "try",
         dram' = dram => at' = at \/ dram # "try",
         \A r \in {"mem_cfg0", "mem_cfg1", "prf_ctrl"} : ddr'[r] = ddr[r]
  PROVE  ToldInv'
<1>1. config' = config /\ Preparing' = Preparing /\ (Fits' <=> Fits)
  BY DEF config, Preparing, Fits
<1>2. NarrowTried' <=> NarrowTried
  BY DEF NarrowTried
<1>3. PICK f, g, c : f = ddr /\ g = ddr' /\ c = config
  OBVIOUS
<1>4. f.mem_cfg0 = g.mem_cfg0 /\ f.mem_cfg1 = g.mem_cfg1 /\ f.prf_ctrl = g.prf_ctrl
  BY <1>3
<1>5. Told(f, c) => Told(g, c)
  BY <1>4 DEF Told
<1>6. \A x : Heeded(f, c, x) => Heeded(g, c, x)
  BY <1>4 DEF Heeded
<1>7. Believed' => Told(ddr', config')
  BY <1>1, <1>3, <1>5 DEF ToldInv
<1>8. DDRPHY_RDLAT_STG2_1CLK \cap ddr'.prf_ctrl # {} => NarrowTried'
  BY <1>2, <1>3, <1>4 DEF ToldInv
<1>9. ASSUME dram' = "try", Fits' PROVE \A n \in 1 .. Len(Preparing'[try']) :
        n < at' => Heeded(ddr', config', Preparing'[try'][n])
  <2>1. dram = "try" /\ Fits /\ at' = at
    BY <1>1, <1>9
  <2>2. \A n \in 1 .. Len(Preparing[try]) : n < at => Heeded(f, c, Preparing[try][n])
    BY <1>3, <2>1 DEF ToldInv
  <2>3. QED
    BY <1>1, <1>3, <1>6, <2>1, <2>2
<1>10. QED
  BY <1>7, <1>8, <1>9 DEF ToldInv

LEMMA ToldCalibration ==
  ASSUME SetUpInv, ToldInv, dram = "scl",
         AccessScu \/ AccessDdr \/ DelayPasses \/ PollDdr
  PROVE  ToldInv'
<1>1. Accesses = Calibrating
  BY DEF Accesses
<1>2. PICK o : o = Accesses[at]
  OBVIOUS
<1>3. ~ Done /\ UNCHANGED memVars
  BY DEF AccessScu, AccessDdr, DelayPasses, PollDdr, Doing
<1>4. at \in 1 .. 4
  BY <1>1, <1>3, CalibrationShape DEF Done, SetUpInv
<1>5. o.reg = "scl_start"
  <2>1. at = 1 \/ at = 2 \/ at = 3 \/ at = 4
    BY ONLY <1>4
  <2>2. o = Calibrating[at]
    BY <1>1, <1>2
  <2>3. QED
    BY <2>1, <2>2, CalibrationShape DEF StoreOf, WaitOf
<1>6. ddr' = ddr \/ ddr' = Effect(ddr, o)
  BY <1>2 DEF AccessScu, AccessDdr, DelayPasses, PollDdr, Doing
<1>7. \A r \in {"mem_cfg0", "mem_cfg1", "prf_ctrl"} : ddr'[r] = ddr[r]
  <2>1. DOMAIN ddr = DOMAIN ResetDdr
    BY DEF SetUpInv
  <2>2. QED
    BY <1>5, <1>6, <2>1, OneRegister, TellingRegisters
<1>8. dram' = dram /\ try' = try
  BY <1>3 DEF memVars, dramVars
<1>9. Believed' => Believed
  BY <1>8 DEF Believed
<1>10. QED
  BY <1>7, <1>8, <1>9, ToldStays

LEMMA ToldReadResult ==
  ASSUME SetUpInv, ToldInv, ReadResult
  PROVE  ToldInv'
<1>1. /\ dram = "scl" /\ at' = 1 /\ ddr' = ddr
      /\ ResultRead(column_mask(config) \subseteq ddr.scl_start)
  BY DEF ReadResult
<1>2. \/ dram' = "write" /\ try' = try
      \/ dram' = "try" /\ try' = try + 1
  BY <1>1 DEF ResultRead, NextTry
<1>3. try \in Int
  BY ConfigFacts DEF SetUpInv
<1>4. CASE dram' = "write" /\ try' = try
  <2>1. Believed
    BY <1>1 DEF Believed
  <2>2. QED
    BY <1>1, <1>4, <2>1, ToldStays
<1>5. CASE dram' = "try" /\ try' = try + 1
  <2>1. try' \in Int /\ try <= try'
    BY <1>3, <1>5
  <2>2. QED
    BY <1>1, <1>3, <1>5, <2>1, ToldNewTry
<1>6. QED
  BY <1>2, <1>4, <1>5

LEMMA ToldTestMemory ==
  ASSUME SetUpInv, ToldInv, TestMemory
  PROVE  ToldInv'
<1>1. at' = at /\ ddr' = ddr
  BY DEF TestMemory
<1>2. try \in Int
  BY ConfigFacts DEF SetUpInv
<1>3. \/ dram' \in {"write", "read", "ok"} /\ try' = try /\ dram \in {"write", "read"}
      \/ dram' = "failed" /\ try' = try
      \/ dram' = "try" /\ try' = try + 1 /\ at = 1
  <2>1. CASE SkipTooLarge
    <3>1. /\ dram = "try" /\ try <= Len(Configs)
          /\ dram' = "try" /\ try' = try + 1
          /\ totalSize(config) > SYS_MEM_MAX_SIZE
      BY <2>1 DEF SkipTooLarge, NextTry
    <3>2. try \in DOMAIN Configs
      BY <3>1, ConfigFacts DEF SetUpInv
    <3>3. totalSize(config) \in Nat /\ SYS_MEM_MAX_SIZE \in Nat
      BY <3>2, ConfigFacts, DramAssumption DEF config
    <3>4. ~ Fits
      BY <3>1, <3>3 DEF Fits
    <3>5. at = 1
      BY <3>1, <3>4 DEF SetUpInv
    <3>6. QED
      BY <3>1, <3>5
  <2>2. CASE Exhausted
    BY <2>2 DEF Exhausted
  <2>3. CASE Write
    <3>1. dram = "write" /\ at = 1
      BY <2>3 DEF Write, Written, SetUpInv
    <3>2. QED
      BY <2>3, <3>1 DEF Write, Written
  <2>4. CASE Read
    <3>1. PICK word : WordRead(word)
      BY <2>4 DEF Read
    <3>2. dram = "read" /\ at = 1
      BY <3>1 DEF WordRead, SetUpInv
    <3>3. QED
      BY <3>1, <3>2 DEF WordRead, NextTry
  <2>5. QED
    BY <2>1, <2>2, <2>3, <2>4 DEF TestMemory
<1>4. CASE dram' = "try" /\ try' = try + 1 /\ at = 1
  <2>1. try' \in Int /\ try <= try'
    BY <1>2, <1>4
  <2>2. QED
    BY <1>1, <1>2, <1>4, <2>1, ToldNewTry
<1>5. CASE \/ dram' \in {"write", "read", "ok"} /\ try' = try /\ dram \in {"write", "read"}
           \/ dram' = "failed" /\ try' = try
  <2>1. Believed' => Believed
    BY <1>5 DEF Believed
  <2>2. QED
    BY <1>1, <1>5, <2>1, ToldStays
<1>6. QED
  BY <1>3, <1>4, <1>5

LEMMA ToldHardware ==
  ASSUME SetUpInv, ToldInv, DdrHardware
  PROVE  ToldInv'
<1>1. at' = at /\ dram' = dram /\ try' = try
  BY DEF DdrHardware, PhyReady, SclEnds, memVars, dramVars
<1>2. DOMAIN ddr = DOMAIN ResetDdr
  BY DEF SetUpInv
<1>3. \A r \in {"mem_cfg0", "mem_cfg1", "prf_ctrl"} : ddr'[r] = ddr[r]
  BY <1>2, TellingRegisters DEF DdrHardware, PhyReady, SclEnds
<1>4. Believed' => Believed
  BY <1>1 DEF Believed
<1>5. QED
  BY <1>1, <1>3, <1>4, ToldStays

LEMMA ToldStep ==
  SetUpInv /\ ToldInv /\ [SetUpNext]_<<boardVars, pllVars, memVars, setUpVars>> => ToldInv'
<1> SUFFICES ASSUME SetUpInv, ToldInv,
                    [SetUpNext]_<<boardVars, pllVars, memVars, setUpVars>>
             PROVE  ToldInv'
  OBVIOUS
<1>1. CASE AccessScu \/ AccessDdr \/ DelayPasses \/ PollDdr
  <2>1. ~ Done
    BY <1>1 DEF AccessScu, AccessDdr, DelayPasses, PollDdr, Doing
  <2>2. (dram = "try" /\ Fits) \/ dram = "scl"
    <3>1. SUFFICES ASSUME ~ (dram = "try" /\ Fits), dram # "scl" PROVE Done
      BY <2>1
    <3>2. Accesses = <<>> /\ at = 1
      BY <3>1 DEF Accesses, SetUpInv
    <3>3. QED
      BY <3>2 DEF Done
  <2>3. QED
    BY <1>1, <2>2, ToldPrepare, ToldCalibration
<1>2. CASE Prepared
  BY <1>2, ToldPrepared
<1>3. CASE ReadResult
  BY <1>3, ToldReadResult
<1>4. CASE TestMemory
  BY <1>4, ToldTestMemory
<1>5. CASE DdrHardware
  BY <1>5, ToldHardware
<1>6. CASE UNCHANGED <<boardVars, pllVars, memVars, setUpVars>>
  <2>1. at' = at /\ dram' = dram /\ try' = try /\ ddr' = ddr
    BY <1>6 DEF memVars, dramVars, setUpVars
  <2>2. Believed' => Believed
    BY <2>1 DEF Believed
  <2>3. QED
    BY <2>1, <2>2, ToldStays
<1>7. QED
  BY <1>1, <1>2, <1>3, <1>4, <1>5, <1>6 DEF SetUpNext, SetUpDdr

LEMMA InitTold == SetUpInit => ToldInv
<1> SUFFICES ASSUME SetUpInit PROVE ToldInv
  OBVIOUS
<1>1. at = 1 /\ try = 1 /\ dram = "try" /\ ddr = ResetDdr
  BY DEF SetUpInit, DdrInit, DramInit
<1>2. \A n \in 1 .. Len(Preparing[try]) : ~ (n < at)
  BY <1>1
<1>3. ~ Believed
  BY <1>1 DEF Believed
<1>4. QED
  BY <1>1, <1>2, <1>3, ResetTellsNothing DEF ToldInv

(* Two facts of the table of configurations: each has whole units of       *)
(* address space, and those of a wide bus, if there are any, come before   *)
(* those of a narrow one.                                                  *)
UnitsWhole == \A k \in DOMAIN Configs : Bytes(Configs[k]) % Unit = 0

WideFirst ==
  \A j, k \in DOMAIN Configs : j <= k /\ Configs[j].bW = 0 => Configs[k].bW = 0

(* Whatever configuration is believed in, the chips were initialised with  *)
(* words that tell its capacity, its lanes, its refresh time and whether   *)
(* its bus is narrow: those the test goes by (c_auto_ddr of dram_ram.c).   *)
THEOREM SweptTheorem ==
  ASSUME UnitsWhole, WideFirst
  PROVE  SetUpSpec => []MemoryAsSwept
<1>1. SetUpInv /\ ToldInv => MemoryAsSwept
  <2> SUFFICES ASSUME SetUpInv, ToldInv, Believed PROVE MemoryAsSwept
    BY DEF MemoryAsSwept
  <2>1. PICK c : c = config
    OBVIOUS
  <2>2. try \in DOMAIN Configs /\ taken = Words
    BY DEF SetUpInv, ConfigTried, Believed
  <2>3. c \in ChipCodes
    <3>1. Configs \in Seq(ChipCodes)
      BY DramAssumption DEF ChipCodes
    <3>2. PICK T : T = ChipCodes
      OBVIOUS
    <3>3. Configs[try] \in T
      BY ONLY <2>2, <3>1, <3>2
    <3>4. QED
      BY <2>1, <3>2, <3>3 DEF config
  <2>4. Bytes(c) % Unit = 0
    BY <2>1, <2>2 DEF UnitsWhole, config
  <2>5. taken.mem_cfg0 = Timing0(c) /\ taken.mem_cfg1 = Timing1(c)
    BY <2>1, <2>2 DEF ToldInv, Told, Words, WordsTaken
  <2>6. 6 \in taken.prf_ctrl <=> c.bW = 0
    <3>1. taken.prf_ctrl = ddr.prf_ctrl
      BY <2>2 DEF Words, WordsTaken
    <3>2. c.bW = 0 => 6 \in ddr.prf_ctrl
      BY <2>1, NarrowBit DEF ToldInv, Told
    <3>3. ASSUME 6 \in ddr.prf_ctrl PROVE c.bW = 0
      <4>1. NarrowTried
        BY <3>3, NarrowBit DEF ToldInv
      <4>2. PICK k \in DOMAIN Configs : k <= try /\ Configs[k].bW = 0
        BY <4>1 DEF NarrowTried
      <4>3. QED
        BY <2>1, <2>2, <4>2 DEF WideFirst, config
    <3>4. QED
      BY <3>1, <3>2, <3>3
  <2>7. QED
    <3>1. PICK t0, t1, p : t0 = Timing0(c) /\ t1 = Timing1(c) /\ p = taken.prf_ctrl
      OBVIOUS
    <3>2. LET size  == Number(t1 \cap (18 .. 20), 18)
              width == Number(t1 \cap (16 .. 17), 16)
              bus   == Number(t1 \cap (12 .. 13), 12)
          IN  /\ totalSize(c) * Unit = 2 ^ (22 + size) * 2 ^ (bus - width)
              /\ 8 * Cardinality(column_mask(c)) = 2 ^ (bus + 2)
              /\ Number(t0 \cap (13 .. 18), 13) = RefreshClocks[size]
              /\ c.bW = 0 <=> bus = 2
      BY <2>3, <2>4, <3>1, SweptAsTold
    <3>3. PICK size, width, bus, refresh :
            /\ size = Number(t1 \cap (18 .. 20), 18)
            /\ width = Number(t1 \cap (16 .. 17), 16)
            /\ bus = Number(t1 \cap (12 .. 13), 12)
            /\ refresh = Number(t0 \cap (13 .. 18), 13)
      OBVIOUS
    <3>4. /\ totalSize(c) * Unit = 2 ^ (22 + size) * 2 ^ (bus - width)
          /\ 8 * Cardinality(column_mask(c)) = 2 ^ (bus + 2)
          /\ refresh = RefreshClocks[size]
          /\ 6 \in p <=> bus = 2
      BY <2>6, <3>1, <3>2, <3>3
    <3>5. taken.mem_cfg0 = t0 /\ taken.mem_cfg1 = t1 /\ config = c
      BY <2>1, <2>5, <3>1
    <3>6. QED
      BY <3>1, <3>3, <3>4, <3>5 DEF MemoryAsSwept
<1>2. SetUpInit => SetUpInv /\ ToldInv
  BY InitSetUp, InitTold
<1>3. SetUpInv /\ ToldInv /\ [SetUpNext]_<<boardVars, pllVars, memVars, setUpVars>>
        => (SetUpInv /\ ToldInv)'
  BY SetUpStep, ToldStep
<1>4. QED
  BY <1>1, <1>2, <1>3, PTL DEF SetUpSpec

-----------------------------------------------------------------------------
(* A number of sixteen bits has bits below the sixteenth.                  *)
LEMMA HexLow == \A n : Hex(0, n) \subseteq 0 .. 15
<1> SUFFICES ASSUME NEW n PROVE Hex(0, n) \subseteq 0 .. 15
  OBVIOUS
<1>1. PICK z : z = 0
  OBVIOUS
<1>2. PICK h : h = Hex(z, n)
  OBVIOUS
<1>3. h \subseteq 0 .. 15
  <2>1. /\ h \in SUBSET Ones
        /\ 16 \in h <=> (z \div 1) % 2 = 1
        /\ 17 \in h <=> (z \div 2) % 2 = 1
        /\ 18 \in h <=> (z \div 4) % 2 = 1
        /\ 19 \in h <=> (z \div 8) % 2 = 1
        /\ 20 \in h <=> (z \div 16) % 2 = 1
        /\ 21 \in h <=> (z \div 32) % 2 = 1
        /\ 22 \in h <=> (z \div 64) % 2 = 1
        /\ 23 \in h <=> (z \div 128) % 2 = 1
        /\ 24 \in h <=> (z \div 256) % 2 = 1
        /\ 25 \in h <=> (z \div 512) % 2 = 1
        /\ 26 \in h <=> (z \div 1024) % 2 = 1
        /\ 27 \in h <=> (z \div 2048) % 2 = 1
        /\ 28 \in h <=> (z \div 4096) % 2 = 1
        /\ 29 \in h <=> (z \div 8192) % 2 = 1
        /\ 30 \in h <=> (z \div 16384) % 2 = 1
        /\ 31 \in h <=> (z \div 32768) % 2 = 1
    BY ONLY <1>2, HexBits
  <2>2. ASSUME NEW k \in 16 .. 31 PROVE k \notin h
    <3>1. \/ k = 16 \/ k = 17 \/ k = 18 \/ k = 19 \/ k = 20 \/ k = 21 \/ k = 22 \/ k = 23
          \/ k = 24 \/ k = 25 \/ k = 26 \/ k = 27 \/ k = 28 \/ k = 29 \/ k = 30 \/ k = 31
      OBVIOUS
    <3>2. QED
      BY ONLY <1>1, <2>1, <3>1
  <2>3. h \subseteq 0 .. 31
    BY ONLY <2>1 DEF Ones
  <2>4. QED
    BY ONLY <2>2, <2>3
<1>4. QED
  BY <1>1, <1>2, <1>3

(* A field that fits its word.                                             *)
LEMMA FieldFits ==
  ASSUME NEW n, NEW sh \in Nat
  PROVE  /\ sh <= 16 => Field(n, sh) \in SUBSET Ones
         /\ n \in 0 .. 7 /\ sh <= 29 => Field(n, sh) \in SUBSET Ones
         /\ n \in 0 .. 3 /\ sh <= 30 => Field(n, sh) \in SUBSET Ones
<1>1. PICK z : z = 0
  OBVIOUS
<1>2. PICK h : h = Hex(z, n)
  OBVIOUS
<1>3. h \subseteq 0 .. 15
  BY <1>1, <1>2, HexLow
<1>4. Field(n, sh) = {sh + b : b \in h}
  BY <1>1, <1>2 DEF Field
<1>5. sh <= 16 => Field(n, sh) \in SUBSET Ones
  BY <1>3, <1>4 DEF Ones
<1>6. ASSUME n \in 0 .. 7, sh <= 29 PROVE Field(n, sh) \in SUBSET Ones
  <2>1. Field(n, sh) \subseteq {sh, sh + 1, sh + 2}
    BY <1>6, FieldOfThree
  <2>2. QED
    BY <1>6, <2>1 DEF Ones
<1>7. ASSUME n \in 0 .. 3, sh <= 30 PROVE Field(n, sh) \in SUBSET Ones
  <2>1. n \in 0 .. 7 /\ n < 4
    BY <1>7
  <2>2. Field(n, sh) \subseteq {sh, sh + 1}
    BY <2>1, FieldOfThree
  <2>3. QED
    BY <1>7, <2>2 DEF Ones
<1>8. QED
  BY <1>5, <1>6, <1>7

(* The two fields that end with their word.                                *)
LEMMA LastFields == Field(1, 31) \in SUBSET Ones /\ Field(11, 23) \in SUBSET Ones
<1>1. Field(1, 31) \in SUBSET Ones
  <2>1. 1 \in 0 .. 7 /\ 31 \in Nat /\ 1 < 4 /\ (1 \div 2) % 2 = 0
    OBVIOUS
  <2>2. PICK n, sh : n = 1 /\ sh = 31
    OBVIOUS
  <2>3. /\ Field(n, sh) \subseteq {sh, sh + 1}
        /\ sh + 1 \in Field(n, sh) <=> (n \div 2) % 2 = 1
    BY ONLY <2>1, <2>2, FieldOfThree
  <2>4. Field(n, sh) \subseteq {31}
    BY ONLY <2>1, <2>2, <2>3
  <2>5. QED
    BY <2>2, <2>4 DEF Ones
<1>2. Field(11, 23) \in SUBSET Ones
  <2>1. PICK z, n : z = 0 /\ n = 11
    OBVIOUS
  <2>2. PICK h : h = Hex(z, n)
    OBVIOUS
  <2>3. /\ h \in SUBSET Ones
        /\ 4 \in h <=> (n \div 16) % 2 = 1
        /\ 5 \in h <=> (n \div 32) % 2 = 1
        /\ 6 \in h <=> (n \div 64) % 2 = 1
        /\ 7 \in h <=> (n \div 128) % 2 = 1
        /\ 8 \in h <=> (n \div 256) % 2 = 1
        /\ 9 \in h <=> (n \div 512) % 2 = 1
        /\ 10 \in h <=> (n \div 1024) % 2 = 1
        /\ 11 \in h <=> (n \div 2048) % 2 = 1
        /\ 12 \in h <=> (n \div 4096) % 2 = 1
        /\ 13 \in h <=> (n \div 8192) % 2 = 1
        /\ 14 \in h <=> (n \div 16384) % 2 = 1
        /\ 15 \in h <=> (n \div 32768) % 2 = 1
    BY ONLY <2>2, HexBits
  <2>4. ASSUME NEW k \in 4 .. 15 PROVE k \notin h
    <3>1. \/ k = 4 \/ k = 5 \/ k = 6 \/ k = 7 \/ k = 8 \/ k = 9
          \/ k = 10 \/ k = 11 \/ k = 12 \/ k = 13 \/ k = 14 \/ k = 15
      OBVIOUS
    <3>2. QED
      BY ONLY <2>1, <2>3, <3>1
  <2>5. h \subseteq 0 .. 15
    BY <2>1, <2>2, HexLow
  <2>6. h \subseteq 0 .. 3
    BY ONLY <2>4, <2>5
  <2>7. Field(11, 23) = {23 + b : b \in h}
    BY <2>1, <2>2 DEF Field
  <2>8. QED
    BY <2>6, <2>7 DEF Ones
<1>3. QED
  BY <1>1, <1>2

(* The words of the set-up are of 32 bits, whatever chips are told of.     *)
LEMMA WordsTyped ==
  ASSUME NEW c \in ChipCodes
  PROVE  WordsOf(c) \subseteq SUBSET Ones
<1>1. /\ \A n : Field(n, 0) \in SUBSET Ones /\ Field(n, 13) \in SUBSET Ones
      /\ \A n : Field(n, 16) \in SUBSET Ones
  BY FieldFits
<1>2. ASSUME NEW n \in 0 .. 7, NEW sh \in 0 .. 29 PROVE Field(n, sh) \in SUBSET Ones
  BY FieldFits
<1>3. Field(1, 30) \in SUBSET Ones
  <2>1. 30 \in Nat /\ 30 <= 30 /\ 1 \in 0 .. 3
    OBVIOUS
  <2>2. QED
    BY <2>1, FieldFits
<1>4. Timing0(c) \in SUBSET Ones
  <2>1. Clocks(12) = 3 /\ Clocks(45) = 11 /\ Clocks(15) = 3 /\ Clocks(64000000 \div 8192) = 1953
    BY DEF Clocks, SYS_DRAM_BUS_CLK
  <2>2. Field(3, 28) \in SUBSET Ones /\ Field(3, 19) \in SUBSET Ones
    BY <1>2
  <2>3. Field(11, 23) \in SUBSET Ones
    BY LastFields
  <2>4. Field(a_tRFC[c.cS + 1], 13) \in SUBSET Ones /\ Field(1953, 0) \in SUBSET Ones
    BY <1>1
  <2>5. QED
    BY <2>1, <2>2, <2>3, <2>4 DEF Timing0
<1>5. Timing1(c) \in SUBSET Ones
  <2>1. Clocks(8) = 2 /\ Clocks(16) = 4
    BY DEF Clocks, SYS_DRAM_BUS_CLK
  <2>2. c.cS + 3 \in 0 .. 7 /\ c.cW \in 0 .. 7 /\ c.bW + 2 \in 0 .. 7
    BY DEF ChipCodes
  <2>3. Field(2, 28) \in SUBSET Ones /\ Field(2, 24) \in SUBSET Ones
    BY <1>2
  <2>4. Field(c.cS + 3, 18) \in SUBSET Ones /\ Field(c.cW, 16) \in SUBSET Ones
    BY <1>2, <2>2
  <2>5. Field(c.bW + 2, 12) \in SUBSET Ones /\ Field(4, 8) \in SUBSET Ones
    BY <1>2, <2>2
  <2>6. Field(2, 4) \in SUBSET Ones /\ Field(4, 0) \in SUBSET Ones
    BY <1>2
  <2>7. QED
    BY <2>1, <2>3, <2>4, <2>5, <2>6 DEF Timing1
<1>6. ASSUME NEW w \in {WITH_DLL_RESET, {}} PROVE ModeWord(w) \in SUBSET Ones
  <2>1. w \in SUBSET Ones
    BY <1>2 DEF WITH_DLL_RESET
  <2>2. Field(1, 31) \in SUBSET Ones
    BY LastFields
  <2>3. Field(4 + 2, 24) \in SUBSET Ones /\ Field(1, 12) \in SUBSET Ones
    BY <1>2
  <2>4. Field(2, 9) \in SUBSET Ones /\ Field(4, 4) \in SUBSET Ones
    BY <1>2
  <2>5. Field(2, 0) \in SUBSET Ones
    BY <1>2
  <2>6. QED
    BY <1>3, <2>1, <2>2, <2>3, <2>4, <2>5 DEF ModeWord, CAS_LATENCY
<1>7. LatencyWord \in SUBSET Ones
  <2>1. Field(4, 4) \in SUBSET Ones /\ Field(3, 0) \in SUBSET Ones
    BY <1>2
  <2>2. QED
    BY <2>1 DEF LatencyWord, SCL_MAIN_CLK_DLY, DRAM_MAX_LATENCY
<1>8. SclWord1 \in SUBSET Ones
  <2>1. Field(1, 24) \in SUBSET Ones /\ Field(4, 12) \in SUBSET Ones
    BY <1>2
  <2>2. Field(3, 8) \in SUBSET Ones /\ Field(4, 4) \in SUBSET Ones /\ Field(1, 1) \in SUBSET Ones
    BY <1>2
  <2>3. QED
    BY <2>1, <2>2 DEF SclWord1, DRAM_SYS_CS_BITMASK, ADDITIVE_LATENCY, RD_CAS_LATENCY
<1>9. SclWord2 \in SUBSET Ones
  <2>1. Field(3, 8) \in SUBSET Ones /\ Field(1, 0) \in SUBSET Ones
    BY <1>2
  <2>2. QED
    BY <2>1 DEF SclWord2, WR_CAS_LATENCY, RD_CAS_LATENCY, DRAM_SYS_CS_BITMASK
<1>10. PadWord \in SUBSET Ones /\ AnalogWord \in SUBSET Ones
  <2>1. Field(1, 9) \in SUBSET Ones /\ Field(2, 4) \in SUBSET Ones
    BY <1>2
  <2>2. Field(1, 24) \in SUBSET Ones
    BY <1>2
  <2>3. QED
    BY <2>1, <2>2 DEF PadWord, AnalogWord
<1>11. RecalibWord \in SUBSET Ones
  <2>1. Field(3, 28) \in SUBSET Ones
    BY <1>2
  <2>2. QED
    BY <1>1, <2>1 DEF RecalibWord
<1>12. ExtendedModeWord \in SUBSET Ones /\ FAW \in SUBSET Ones
  <2>1. Field(3, 3) \in SUBSET Ones
    BY <1>2
  <2>2. QED
    BY <1>1, <2>1 DEF ExtendedModeWord, ADDITIVE_LATENCY, FAW
<1>13. QED
  BY <1>4, <1>5, <1>6, <1>7, <1>8, <1>9, <1>10, <1>11, <1>12 DEF WordsOf

DdrTyped ==
  /\ ddr \in [DOMAIN ResetDdr -> SUBSET Ones]
  /\ taken \in [WordsTaken -> SUBSET Ones]

LEMMA ResetDdrTyped == ResetDdr \in [DOMAIN ResetDdr -> SUBSET Ones]
<1>1. \A high, low : Hex(high, low) \in SUBSET Ones
  BY DEF Hex, Ones
<1>2. QED
  BY <1>1 DEF ResetDdr

LEMMA DdrBegins == DdrInit => DdrTyped
<1> SUFFICES ASSUME DdrInit PROVE DdrTyped
  OBVIOUS
<1>1. ddr = ResetDdr /\ taken = [r \in WordsTaken |-> {}]
  BY DEF DdrInit
<1>2. taken \in [WordsTaken -> SUBSET Ones]
  BY <1>1
<1>3. QED
  BY <1>1, <1>2, ResetDdrTyped DEF DdrTyped

(* What an access brings to the DDR controller.                            *)
Brings(o) ==
  \/ o.op = "store" /\ o.word \in SUBSET Ones
  \/ o.op = "modify" /\ o.set \in SUBSET Ones

LEMMA AccessBrings ==
  ASSUME SetUpInv, ~ Done, Accesses[at].op \in {"store", "modify"},
         Accesses[at].reg \in DOMAIN ResetDdr
  PROVE  Brings(Accesses[at])
<1>1. PICK o : o = Accesses[at]
  OBVIOUS
<1>2. (dram = "try" /\ Fits) \/ dram = "scl"
  <2>1. SUFFICES ASSUME ~ (dram = "try" /\ Fits), dram # "scl" PROVE Done
    OBVIOUS
  <2>2. Accesses = <<>> /\ at = 1
    BY <2>1 DEF Accesses, SetUpInv
  <2>3. QED
    BY <2>2 DEF Done
<1>3. CASE dram = "try" /\ Fits
  <2>1. PICK L : L = Len(Preparing[try])
    OBVIOUS
  <2>2. /\ L \in Nat /\ at \in Nat /\ at <= L
        /\ \/ o.reg \in {"rst_mask", "clkgate", "rst_vec"}
           \/ o.op = "delay"
           \/ o \in Settings(config)
           \/ o = StoreOf("mem_cfg7", {})
    BY <1>1, <1>3, <2>1, NextAccess DEF Done, SetUpInv, ModifyOf, ADelay
  <2>3. CASE o \in Settings(config)
    <3>1. try \in DOMAIN Configs
      BY <1>3, ConfigFacts DEF SetUpInv, Fits
    <3>2. config \in ChipCodes
      <4>1. Configs \in Seq(ChipCodes)
        BY DramAssumption DEF ChipCodes
      <4>2. QED
        BY <3>1, <4>1 DEF config
    <3>3. WordsOf(config) \subseteq SUBSET Ones
      BY <3>2, WordsTyped
    <3>4. DDRPHY_RDLAT_STG2_1CLK \in SUBSET Ones
      BY FieldFits DEF DDRPHY_RDLAT_STG2_1CLK
    <3>5. QED
      BY <1>1, <2>3, <3>3, <3>4 DEF Settings, Brings
  <2>4. CASE o = StoreOf("mem_cfg7", {})
    BY <1>1, <2>4 DEF StoreOf, Brings
  <2>5. QED
    BY <1>1, <2>2, <2>3, <2>4, Registers
<1>4. CASE dram = "scl"
  <2>1. Accesses = Calibrating
    BY <1>4 DEF Accesses
  <2>2. at \in 1 .. 4
    BY <2>1, CalibrationShape DEF Done, SetUpInv
  <2>3. at = 1 \/ at = 2 \/ at = 3 \/ at = 4
    BY ONLY <2>2
  <2>4. o = Calibrating[at]
    BY <1>1, <2>1
  <2>5. \/ o = StoreOf("scl_start", {SCL_START_CONTINUOUS_R, SCL_START_GO_DONE})
        \/ o = StoreOf("scl_start", {SCL_START_GO_DONE})
        \/ o.op = "wait"
    BY <2>3, <2>4, CalibrationShape DEF WaitOf
  <2>6. QED
    BY <1>1, <2>5 DEF StoreOf, Brings, Ones, SCL_START_CONTINUOUS_R, SCL_START_GO_DONE
<1>5. QED
  BY <1>2, <1>3, <1>4

LEMMA StepDdrTyped ==
  SetUpInv /\ DdrTyped /\ [SetUpNext]_<<boardVars, pllVars, memVars, setUpVars>> => DdrTyped'
<1> SUFFICES ASSUME SetUpInv, DdrTyped,
                    [SetUpNext]_<<boardVars, pllVars, memVars, setUpVars>>
             PROVE  DdrTyped'
  OBVIOUS
<1>1. DOMAIN ddr = DOMAIN ResetDdr
  BY DEF SetUpInv
<1>2. CASE AccessDdr
  <2>1. PICK o : o = Accesses[at]
    OBVIOUS
  <2>2. o.op \in {"store", "modify"} /\ o.reg \in DOMAIN ResetDdr /\ ~ Done
    BY <1>1, <1>2, <2>1 DEF AccessDdr, Doing
  <2>3. Brings(o)
    BY <2>1, <2>2, AccessBrings
  <2>4. o.reg \notin {"cpu_ctl", "rst_vec"}
    BY <2>2 DEF ResetDdr
  <2>5. Effect(ddr, o) \in [DOMAIN ResetDdr -> SUBSET Ones]
    <3>1. CASE o.op = "store"
      BY <2>2, <2>3, <2>4, <3>1 DEF Effect, Masked, Brings, DdrTyped
    <3>2. CASE o.op = "modify"
      <4>1. PICK w : w = (ddr[o.reg] \ o.clear) \cup o.set
        OBVIOUS
      <4>2. ddr[o.reg] \in SUBSET Ones
        BY <2>2 DEF DdrTyped
      <4>3. w \in SUBSET Ones
        BY <2>3, <3>2, <4>1, <4>2 DEF Brings
      <4>4. Effect(ddr, o) = [ddr EXCEPT ![o.reg] = w]
        BY <2>4, <3>2, <4>1 DEF Effect, Masked
      <4>5. QED
        BY <2>2, <4>3, <4>4 DEF DdrTyped
    <3>3. QED
      BY <2>2, <3>1, <3>2
  <2>6. Words \in [WordsTaken -> SUBSET Ones]
    BY Registers DEF Words, DdrTyped
  <2>7. QED
    BY <1>2, <2>1, <2>5, <2>6 DEF AccessDdr, DdrTyped
<1>3. CASE DdrHardware
  <2>1. taken' = taken
    BY <1>3 DEF DdrHardware, PhyReady, SclEnds
  <2>2. ddr.status_perf \in SUBSET Ones /\ ddr.scl_start \in SUBSET Ones
    BY Registers DEF DdrTyped
  <2>3. CASE PhyReady
    <3>1. ddr' = [ddr EXCEPT !.status_perf = ddr.status_perf \cup {DDR_SCL_DONE}]
      BY <2>3 DEF PhyReady
    <3>2. ddr.status_perf \cup {DDR_SCL_DONE} \in SUBSET Ones
      BY <2>2 DEF DDR_SCL_DONE, Ones
    <3>3. QED
      BY <2>1, <3>1, <3>2 DEF DdrTyped
  <2>4. CASE SclEnds
    <3>1. PICK result \in IF SCL_START_CONTINUOUS_R \in ddr.scl_start
                          THEN {{}, Lanes} ELSE {GoodLanes} :
            ddr' = [ddr EXCEPT !.scl_start =
                      (ddr.scl_start \ {SCL_START_GO_DONE}) \cup result]
      BY <2>4 DEF SclEnds
    <3>2. result \in SUBSET Ones
      BY <3>1 DEF GoodLanes, Lanes, Ones
    <3>3. (ddr.scl_start \ {SCL_START_GO_DONE}) \cup result \in SUBSET Ones
      BY <2>2, <3>2
    <3>4. QED
      BY <2>1, <3>1, <3>3 DEF DdrTyped
  <2>5. QED
    BY <1>3, <2>3, <2>4 DEF DdrHardware
<1>4. CASE UNCHANGED <<ddr, taken>>
  BY <1>4 DEF DdrTyped
<1>5. QED
  BY <1>2, <1>3, <1>4
     DEF SetUpNext, SetUpDdr, AccessScu, DelayPasses, PollDdr, Prepared, ReadResult,
         TestMemory, setUpVars

(* Registers and words taken stay words of 32 bits through the set-up.     *)
THEOREM SetUpTypes == SetUpSpec => []SetUpTypeOK
<1>1. SetUpInv /\ DdrTyped => SetUpTypeOK
  BY DEF SetUpInv, DdrTyped, SetUpTypeOK
<1>2. SetUpInit => SetUpInv /\ DdrTyped
  BY InitSetUp, DdrBegins DEF SetUpInit
<1>3. SetUpInv /\ DdrTyped /\ [SetUpNext]_<<boardVars, pllVars, memVars, setUpVars>>
        => (SetUpInv /\ DdrTyped)'
  BY SetUpStep, StepDdrTyped
<1>4. QED
  BY <1>1, <1>2, <1>3, PTL DEF SetUpSpec
=============================================================================
