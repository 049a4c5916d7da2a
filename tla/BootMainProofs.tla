--------------------------- MODULE BootMainProofs ---------------------------
(***************************************************************************)
(* The console stays readable for every divisor of one byte, on every chip *)
(* and after either reset, and after a power-on gSysClock is the bus's     *)
(* frequency, and COUNT's where the processor runs at twice the bus: for   *)
(* main() of BootMain, and for that of Fboot, which implements it.         *)
(* boot_reset cannot be interrupted and leaves everything main() needs.    *)
(* No routine of the clock set-up takes a unit out of reset that has no    *)
(* clock, or changes another's bit of the control register; and a PLL that *)
(* is set up is left alone, and has locked if it was to be waited for; the *)
(* bus then has the frequency its dividers give.  A routine is a sequence  *)
(* of operations, so what is said of its programs is that a graph of       *)
(* stages can be walked along them, and walks are joined as programs are.  *)
(* The last part puts the types of all the parts together.                 *)
(***************************************************************************)
EXTENDS Fboot, DramProofs, BlockNumbers, SequenceTheorems, TLAPS

(* From init_plls on the two clocks are those of the chip, as long as it   *)
(* was init_plls that set them.                                            *)
Early == {"boot_reset", "detect_SoC", "init_plls"}

Timed ==
  /\ step = "init_plls" => gChipType = chip
  /\ cause # "soft" /\ step \notin Early =>
       /\ gSysClock = RatedBus(chip)
       /\ busClock = RatedBus(chip)
       /\ tickRate \in RatedTicks(chip)

ClockInv == TypeOK /\ Timed

(* What the steps before c_uart_init leave for it.                         *)
RateKept ==
  /\ step = "boot_reset" /\ serial => SameRate
  /\ ~ serial => console = UART_DIV_LOW_12M5
  /\ step \in Early /\ cause # "soft" => busClock = 1
  /\ step = "c_uart_init" => /\ divisor = console
                             /\ gSysClock = busClock
                             /\ busClock # 1

CInv ==
  /\ ClockInv
  /\ RateKept
  /\ ConsoleReadable

(* Scaling the divisor by 16 or 20 loses nothing of a one-byte divisor.    *)
LEMMA ScaleExact ==
  ASSUME NEW d \in 1 .. ByteMod - 1
  PROVE  /\ d % ByteMod = d
         /\ (d * 16) % (ByteMod * ByteMod) = d * 16
         /\ (d * 16 + d * 4) % (ByteMod * ByteMod) = d * 20
  BY DEF ByteMod

LEMMA RatedClocks ==
  ASSUME NEW c \in Nat
  PROVE  /\ RatedBus(c) \in {16, 20}
         /\ RatedTicks(c) \subseteq 16 .. 24
  BY DEF RatedBus, RatedTicks, CHIP_7173, CHIP_7183, CHIP_7185HP, CHIP_7175

LEMMA ChipsAreNat == Chips \subseteq Nat
  BY BoardAssumption DEF BoardAssumption

LEMMA InitClock == Init => ClockInv
<1> SUFFICES ASSUME Init PROVE ClockInv
  OBVIOUS
<1>1. chip \in Nat /\ console \in Nat
  <2>1. chip \in Nat
    BY ChipsAreNat DEF Init, BoardInit
  <2>2. Divisors \subseteq Nat
    <3>1. \A n : 1 .. n \subseteq Nat
      OBVIOUS
    <3> QED
      BY <3>1, BootAssumption DEF BootAssumption
  <2>3. console \in Divisors \cup {UART_DIV_LOW_12M5}
    BY DEF Init
  <2> QED
    BY <2>1, <2>2, <2>3 DEF UART_DIV_LOW_12M5
<1>2. busClock \in {1, 16, 20} /\ tickRate \in {1} \cup 16 .. 24
  BY <1>1, RatedClocks DEF Init
<1>3. divisor \in Nat
  <2>1. CASE serial
    <3>1. divisor = console * busClock /\ busClock \in Nat
      BY <1>2, <2>1 DEF Init
    <3>2. \A m, n \in Nat : m * n \in Nat
      OBVIOUS
    <3> QED
      BY <1>1, <3>1, <3>2
  <2>2. CASE ~ serial
    BY <2>2, BootAssumption DEF Init, BootAssumption
  <2> QED
    BY <2>1, <2>2
<1>4. console \in Divisors \cup {UART_DIV_LOW_12M5}
  BY DEF Init
<1>5. TypeOK
  BY <1>2, <1>3, <1>4 DEF Init, BoardInit, TypeOK
<1>6. Timed
  BY DEF Init, Timed, Early
<1> QED
  BY <1>5, <1>6 DEF ClockInv

LEMMA StepClock == ClockInv /\ [Next]_vars => ClockInv'
<1> SUFFICES ASSUME ClockInv, [Next]_vars PROVE ClockInv'
  OBVIOUS
<1> USE DEF ClockInv, TypeOK, Timed, Early, chosen, boardVars, clocks
<1>0. CASE a_uart_init
  BY <1>0 DEF a_uart_init, UART_DIV_LOW_12M5
<1>1. CASE detect_SoC
  BY <1>1 DEF detect_SoC
<1>2. CASE SkipPlls
  BY <1>2 DEF SkipPlls
<1>3. CASE ProgramPlls
  <2>1. /\ RatedBus(gChipType) \in {16, 20}
        /\ RatedTicks(gChipType) \subseteq 16 .. 24
    BY <1>3, ChipsAreNat, RatedClocks DEF ProgramPlls
  <2>2. gChipType = chip /\ serial' = serial
    BY <1>3 DEF ProgramPlls
  <2>3. RatedTicks(chip)' = RatedTicks(chip) /\ RatedBus(chip)' = RatedBus(chip)
    BY <1>3, <2>2 DEF ProgramPlls, RatedTicks, RatedBus
  <2> QED
    BY <1>3, <2>1, <2>2, <2>3 DEF ProgramPlls
<1>4. CASE c_uart_init
  <2>1. divisor' \in Nat
    BY <1>4 DEF c_uart_init, Scaled, ByteMod
  <2> QED
    BY <1>4, <2>1 DEF c_uart_init, RatedTicks
<1>5. CASE c_auto_ddr
  BY <1>5 DEF c_auto_ddr, RatedTicks
<1>6. CASE LoadSerial
  BY <1>6 DEF LoadSerial, RatedTicks
<1>7. CASE LoadNand
  BY <1>7 DEF LoadNand, RatedTicks
<1>8. CASE Jump
  BY <1>8 DEF Jump, RatedTicks
<1>9. CASE UNCHANGED vars
  BY <1>9 DEF vars, RatedTicks
<1> QED
  BY <1>0, <1>1, <1>2, <1>3, <1>4, <1>5, <1>6, <1>7, <1>8, <1>9 DEF Next

(* Types, for every set of chips and of divisors.                          *)
THEOREM BootTypes == Spec => []TypeOK
<1>1. ClockInv => TypeOK
  BY DEF ClockInv
<1> QED
  BY <1>1, InitClock, StepClock, PTL DEF Spec

(* When a download begins after a power-on gSysClock is the frequency of   *)
(* the bus on every chip, and the rate of COUNT on all but the two whose   *)
(* processor takes its clock from another PLL.                             *)
THEOREM SecondTheorem == Spec => []SecondIsSecond
<1>1. ClockInv => SecondIsSecond
  BY DEF ClockInv, Timed, Early, SecondIsSecond, RatedTicks, RatedBus
<1> QED
  BY <1>1, InitClock, StepClock, PTL DEF Spec

LEMMA InitCInv ==
  ASSUME Divisors \subseteq 1 .. ByteMod - 1
  PROVE  Init => CInv
<1> SUFFICES ASSUME Init PROVE CInv
  OBVIOUS
<1>1. ClockInv
  BY InitClock
<1>2. RateKept /\ ConsoleReadable
  BY DEF Init, RateKept, ConsoleReadable, SameRate, Early
<1> QED
  BY <1>1, <1>2 DEF CInv

LEMMA StepCInv ==
  ASSUME Divisors \subseteq 1 .. ByteMod - 1
  PROVE  CInv /\ [Next]_vars => CInv'
<1> SUFFICES ASSUME CInv, [Next]_vars PROVE CInv'
  OBVIOUS
<1>0. ClockInv /\ ClockInv'
  BY StepClock DEF CInv
<1>n. console \in 1 .. ByteMod - 1
  BY <1>0 DEF ClockInv, TypeOK, ByteMod, UART_DIV_LOW_12M5
<1>p. cause \in {"power", "soft"}
  BY <1>0, BoardAssumption DEF ClockInv, TypeOK, BoardAssumption
<1> SUFFICES RateKept' /\ ConsoleReadable'
  BY <1>0 DEF CInv
<1> USE DEF CInv, RateKept, ConsoleReadable, SameRate, Early, chosen, boardVars,
        clocks
<1>a. CASE a_uart_init
  BY <1>a, <1>n, <1>p DEF a_uart_init, UART_DIV_LOW_12M5, ByteMod
<1>1. CASE detect_SoC
  BY <1>1, <1>n DEF detect_SoC
<1>2. CASE SkipPlls
  BY <1>2, <1>p DEF SkipPlls
<1>3. CASE ProgramPlls
  <2>1. RatedBus(gChipType) \in {16, 20}
    BY <1>0, <1>3, ChipsAreNat, RatedClocks DEF ProgramPlls, ClockInv, TypeOK, Timed
  <2>2. busClock = 1 /\ divisor = console * 1
    BY <1>3, <1>p DEF ProgramPlls
  <2>3. divisor = console
    BY <2>2, <1>n DEF ByteMod
  <2> QED
    BY <1>3, <2>1, <2>3 DEF ProgramPlls
<1>4. CASE c_uart_init
  <2>1. /\ divisor = console /\ gSysClock = busClock
        /\ busClock \in {16, 20}
    BY <1>0, <1>4 DEF c_uart_init, ClockInv, TypeOK
  <2>2. divisor' = Scaled(console) % (ByteMod * ByteMod)
    BY <1>4, <1>n, <2>1, ScaleExact DEF c_uart_init
  <2>3. CASE gSysClock = 16
    <3>1. divisor' = console * 16
      BY <1>n, <2>2, <2>3, ScaleExact DEF Scaled
    <3> QED
      BY <1>4, <2>1, <2>3, <3>1 DEF c_uart_init
  <2>4. CASE gSysClock = 20
    <3>1. divisor' = console * 20
      BY <1>n, <2>2, <2>4, ScaleExact DEF Scaled
    <3> QED
      BY <1>4, <2>1, <2>4, <3>1 DEF c_uart_init
  <2> QED
    BY <2>1, <2>3, <2>4
<1>5. CASE c_auto_ddr
  BY <1>5 DEF c_auto_ddr
<1>6. CASE LoadSerial
  BY <1>6 DEF LoadSerial
<1>7. CASE LoadNand
  BY <1>7 DEF LoadNand
<1>8. CASE Jump
  BY <1>8 DEF Jump
<1>9. CASE UNCHANGED vars
  BY <1>9 DEF vars
<1> QED
  BY <1>a, <1>1, <1>2, <1>3, <1>4, <1>5, <1>6, <1>7, <1>8, <1>9 DEF Next

(* For divisors the boot ROM can set that fit the low divisor byte, the    *)
(* terminal can read the loader all the way to the jump: c_uart_init       *)
(* follows the bus clock that init_plls programs.                          *)
THEOREM ConsoleTheorem ==
  ASSUME Divisors \subseteq 1 .. ByteMod - 1
  PROVE  Spec => []ConsoleReadable
<1>1. Init => CInv
  BY InitCInv
<1>2. CInv /\ [Next]_vars => CInv'
  BY StepCInv
<1>3. CInv => ConsoleReadable
  BY DEF CInv
<1> QED
  BY <1>1, <1>2, <1>3, PTL DEF Spec

-----------------------------------------------------------------------------
(***************************************************************************)
(* The whole of main().  Each of its steps is one of BootMain or leaves    *)
(* what BootMain sees alone: a register access, a poll, a word of the      *)
(* memory test.                                                            *)
(***************************************************************************)
LEMMA FbootStep == [FbootNext]_allVars => [Next]_vars
<1> SUFFICES ASSUME [FbootNext]_allVars PROVE Next \/ UNCHANGED vars
  OBVIOUS
<1>1. CASE RunStart
  BY <1>1 DEF RunStart, Next
<1>2. CASE DetectChip
  BY <1>2 DEF DetectChip, Next
<1>3. CASE RunPlls
  BY <1>3 DEF RunPlls, AccessRegister, PollPll, CallUartInit, Next
<1>4. CASE RunDdr
  BY <1>4 DEF RunDdr, EnterDdr, SearchDdr, ReturnDdr, Next
<1>5. CASE PllHardware \/ DdrHardwareRuns
  BY <1>5 DEF PllHardware, DdrHardwareRuns
<1>6. CASE LoadAndJump
  BY <1>6 DEF LoadAndJump, Next
<1>7. CASE UNCHANGED allVars
  BY <1>7 DEF allVars
<1> QED
  BY <1>1, <1>2, <1>3, <1>4, <1>5, <1>6, <1>7 DEF FbootNext, LoaderRuns

(* main() with its routines in full implements main() of BootMain: init_plls *)
(* changes the clocks where BootMain has it, once, and the search for the  *)
(* memory disturbs neither clocks nor console.                             *)
THEOREM FbootImplements == FbootSpec => Spec
<1>1. FbootInit => Init
  BY DEF FbootInit
<1> QED
  BY <1>1, FbootStep, PTL DEF FbootSpec, Spec

(* So the console stays readable through every register access of the      *)
(* clock set-up, in whatever order the PLLs lock.                          *)
THEOREM FbootConsole ==
  ASSUME Divisors \subseteq 1 .. ByteMod - 1
  PROVE  FbootSpec => []ConsoleReadable
  BY FbootImplements, ConsoleTheorem, PTL

(* The same of gSysClock after init_plls in full.                          *)
THEOREM FbootSecond == FbootSpec => []SecondIsSecond
  BY FbootImplements, SecondTheorem, PTL

-----------------------------------------------------------------------------
(***************************************************************************)
(* From the reset to main().  The program of boot_reset is the four stores *)
(* to coprocessor 0 and, behind them, steps of other kinds.                *)
(***************************************************************************)
Flag == {"EXL", "ERL", "BEV", "IV", "IE", "IM", "WP", "SW", "TI", "DC", "WATCH"}
Shown ==
  {PRId} \cup {Config[b] : b \in Builds}
    \cup {AtReset[n] : n \in 1 .. Len(AtReset)}
    \cup {Digits(LineSize(c)) : c \in 0 .. 6}
    \cup {Digits(SetsPerWay(c)) : c \in 0 .. 6}
    \cup {Digits(a + 1) : a \in 0 .. 7}

Kinds == {"put", "K0", "stack", "main", "uart", "I", "D"}
Later == [op : Kinds] \cup [op : {"hex"}, word : Shown]
BootStep == Later \cup [op : {"mtc0"}, off : SUBSET Flag, on : SUBSET Flag]

Begins(s) ==
  /\ s \in Seq(BootStep) /\ Len(s) >= 4
  /\ s[1] = [op |-> "mtc0", off |-> {"WP", "SW", "DC"}, on |-> {"IV"}]
  /\ s[2] = [op |-> "mtc0", off |-> {"WATCH"}, on |-> {}]
  /\ s[3] = [op |-> "mtc0", off |-> {"TI"}, on |-> {}]
  /\ s[4] = [op |-> "mtc0", off |-> {"ERL", "EXL", "IE", "IM"}, on |-> {"BEV"}]
  /\ \A n \in 5 .. Len(s) : s[n] \in Later

Does(s, kind) == \E n \in 1 .. Len(s) : s[n].op = kind

LEMMA BeginsGrows ==
  ASSUME NEW s, Begins(s), NEW t \in Seq(Later)
  PROVE  /\ Begins(s \o t)
         /\ \A kind : Does(s, kind) \/ Does(t, kind) => Does(s \o t, kind)
<1>1. t \in Seq(BootStep) /\ s \in Seq(BootStep)
  BY SeqMonotonic DEF Begins, BootStep
<1>2. /\ s \o t \in Seq(BootStep)
      /\ Len(s) \in Nat /\ Len(t) \in Nat
      /\ Len(s \o t) = Len(s) + Len(t)
  BY <1>1
<1>3. /\ \A n \in 1 .. Len(s) : (s \o t)[n] = s[n]
      /\ \A n \in 1 .. Len(t) : (s \o t)[Len(s) + n] = t[n]
  BY <1>1
<1>4. \A n \in 5 .. Len(s \o t) : (s \o t)[n] \in Later
  <2>1. SUFFICES ASSUME NEW n \in 5 .. Len(s) + Len(t)
                 PROVE  (s \o t)[n] \in Later
    BY <1>2
  <2>2. CASE n <= Len(s)
    BY <1>2, <1>3, <2>2 DEF Begins
  <2>3. CASE n > Len(s)
    <3>1. n - Len(s) \in 1 .. Len(t) /\ n = Len(s) + (n - Len(s))
      BY <1>2, <2>1, <2>3
    <3>2. (s \o t)[n] = t[n - Len(s)]
      BY <1>3, <3>1
    <3> QED
      BY <3>1, <3>2, ElementOfSeq
  <2> QED
    BY <1>2, <2>2, <2>3
<1>5. Begins(s \o t)
  BY <1>2, <1>3, <1>4 DEF Begins
<1>6. ASSUME NEW kind, Does(s, kind) \/ Does(t, kind) PROVE Does(s \o t, kind)
  <2>1. CASE Does(s, kind)
    BY <1>2, <1>3, <2>1 DEF Does
  <2>2. CASE Does(t, kind)
    <3>1. PICK n \in 1 .. Len(t) : t[n].op = kind
      BY <2>2 DEF Does
    <3>2. Len(s) + n \in 1 .. Len(s \o t) /\ (s \o t)[Len(s) + n] = t[n]
      BY <1>2, <1>3
    <3> QED
      BY <3>1, <3>2 DEF Does
  <2> QED
    BY <1>6, <2>1, <2>2
<1> QED
  BY <1>5, <1>6

(* The same of two pieces behind the stores.                               *)
LEMMA PiecesJoin ==
  ASSUME NEW s \in Seq(Later), NEW t \in Seq(Later)
  PROVE  /\ s \o t \in Seq(Later)
         /\ \A kind : Does(s, kind) \/ Does(t, kind) => Does(s \o t, kind)
<1>1. /\ s \o t \in Seq(Later)
      /\ Len(s) \in Nat /\ Len(t) \in Nat
      /\ Len(s \o t) = Len(s) + Len(t)
      /\ \A n \in 1 .. Len(s) : (s \o t)[n] = s[n]
      /\ \A n \in 1 .. Len(t) : (s \o t)[Len(s) + n] = t[n]
  OBVIOUS
<1>2. ASSUME NEW kind, NEW n \in 1 .. Len(t), t[n].op = kind
      PROVE  Does(s \o t, kind)
  <2>1. Len(s) + n \in 1 .. Len(s \o t) /\ (s \o t)[Len(s) + n] = t[n]
    BY <1>1
  <2> QED
    BY <1>2, <2>1 DEF Does
<1>3. ASSUME NEW kind, NEW n \in 1 .. Len(s), s[n].op = kind
      PROVE  Does(s \o t, kind)
  BY <1>1, <1>3 DEF Does
<1> QED
  BY <1>1, <1>2, <1>3 DEF Does

LEMMA Pieces ==
  /\ Put \in Seq(Later)
  /\ \A kind \in Kinds : Do(kind) \in Seq(Later) /\ Does(Do(kind), kind)
  /\ \A w \in Shown : Hex8(w) \in Seq(Later)
  /\ \A s \in Seq(Later) : Verbose(s) \in Seq(Later)
  /\ Listed(AtReset) \in Seq(Later)
<1>1. Put \in Seq(Later)
  BY DEF Put, Later, Kinds
<1>2. ASSUME NEW kind \in Kinds
      PROVE  Do(kind) \in Seq(Later) /\ Does(Do(kind), kind)
  BY DEF Do, Later, Does
<1>3. ASSUME NEW w \in Shown PROVE Hex8(w) \in Seq(Later)
  BY DEF Hex8, Later
<1>4. ASSUME NEW s \in Seq(Later) PROVE Verbose(s) \in Seq(Later)
  BY DEF Verbose
<1>5. Listed(AtReset) \in Seq(Later)
  <2>1. Len(AtReset) \in Nat
    BY WordAssumption
  <2>2. ASSUME NEW n \in 1 .. 2 * Len(AtReset)
        PROVE  (IF n % 2 = 1 THEN Head(Put) ELSE Head(Hex8(AtReset[n \div 2])))
                 \in Later
    <3>1. CASE n % 2 = 1
      BY <1>1, <3>1 DEF Put, Later, Kinds
    <3>2. CASE n % 2 # 1
      <4>1. n \div 2 \in 1 .. Len(AtReset)
        BY <2>1, <3>2
      <4> QED
        BY <3>2, <4>1 DEF Hex8, Later, Shown
    <3> QED
      BY <3>1, <3>2
  <2> QED
    BY <2>1, <2>2 DEF Listed
<1> QED
  BY <1>1, <1>2, <1>3, <1>4, <1>5

LEMMA CacheSteps ==
  ASSUME NEW which \in {"I", "D"}, NEW lineCode \in 0 .. 6, NEW sets \in 0 .. 6,
         NEW ways \in 0 .. 7
  PROVE  /\ CacheStep(which, lineCode, sets, ways) \in Seq(Later)
         /\ lineCode # 0 => Does(CacheStep(which, lineCode, sets, ways), which)
<1> DEFINE n1 == Digits(LineSize(lineCode))
           n2 == Digits(SetsPerWay(sets))
           n3 == Digits(ways + 1)
           s1 == Put \o Hex8(n1) \o Put \o Hex8(n2) \o Put \o Hex8(n3)
                   \o Verbose(Put)
<1>1. n1 \in Shown /\ n2 \in Shown /\ n3 \in Shown
  BY DEF Shown
<1>2. which \in Kinds
  BY DEF Kinds
<1>3. /\ Put \in Seq(Later) /\ Do(which) \in Seq(Later) /\ Does(Do(which), which)
      /\ Hex8(n1) \in Seq(Later) /\ Hex8(n2) \in Seq(Later)
      /\ Hex8(n3) \in Seq(Later) /\ Verbose(Put) \in Seq(Later)
  BY <1>1, <1>2, Pieces
<1> HIDE DEF n1, n2, n3
<1>4. s1 \in Seq(Later)
  BY <1>3
<1> HIDE DEF s1
<1>5. s1 \o Do(which) \in Seq(Later) /\ Does(s1 \o Do(which), which)
  BY <1>3, <1>4, PiecesJoin
<1>6. CASE lineCode = 0
  <2>1. CacheStep(which, lineCode, sets, ways) = Put \o Put
    BY <1>6 DEF CacheStep
  <2>2. Put \o Put \in Seq(Later)
    BY <1>3, PiecesJoin
  <2> QED
    BY <1>6, <2>1, <2>2
<1>7. CASE lineCode # 0
  <2>1. CacheStep(which, lineCode, sets, ways) = Put \o (s1 \o Do(which))
    <3>1. CacheStep(which, lineCode, sets, ways)
            = Put \o (Put \o Hex8(n1) \o Put \o Hex8(n2) \o Put \o Hex8(n3)
                        \o Verbose(Put) \o Do(which))
      BY <1>7 DEF CacheStep, n1, n2, n3
    <3> QED
      BY <3>1 DEF s1
  <2> QED
    BY <1>3, <1>5, <2>1, PiecesJoin
<1> QED
  BY <1>6, <1>7

(* What the program of a build begins with, and what is in it.             *)
LEMMA BootProgram ==
  ASSUME NEW b \in Builds
  PROVE  /\ Begins(BootSteps[b])
         /\ Does(BootSteps[b], "stack")
         /\ b # "uncached" /\ Config1.IL # 0 => Does(BootSteps[b], "I")
         /\ b # "uncached" /\ Config1.DL # 0 => Does(BootSteps[b], "D")
<1> DEFINE cI == CacheStep("I", Config1.IL, Config1.IS, Config1.IA)
           cD == CacheStep("D", Config1.DL, Config1.DS, Config1.DA)
           caches == IF b = "uncached" THEN <<>> ELSE cI \o cD
           s1 == Coprocessor0 \o Do("uart") \o Put
                   \o Put \o Hex8(PRId)
                   \o Verbose(Listed(AtReset) \o Put)
                   \o Do("K0") \o Verbose(Put) \o Put \o Hex8(Config[b])
           s2 == s1 \o caches
           s3 == s2 \o Do("stack")
           s4 == s3 \o Put \o Do("main")
<1>1. Config1 \in [IL : 0 .. 6, IS : 0 .. 6, IA : 0 .. 7,
                   DL : 0 .. 6, DS : 0 .. 6, DA : 0 .. 7]
  BY StartAssumption
<1>2. /\ cI \in Seq(Later) /\ (Config1.IL # 0 => Does(cI, "I"))
      /\ cD \in Seq(Later) /\ (Config1.DL # 0 => Does(cD, "D"))
  BY <1>1, CacheSteps
<1> HIDE DEF cI, cD
<1>3. /\ caches \in Seq(Later)
      /\ b # "uncached" /\ Config1.IL # 0 => Does(caches, "I")
      /\ b # "uncached" /\ Config1.DL # 0 => Does(caches, "D")
  BY <1>2, PiecesJoin
<1> HIDE DEF caches
<1>4. Begins(Coprocessor0)
  BY DEF Begins, Coprocessor0, Mtc0, BootStep, Flag
<1>5. PRId \in Shown /\ Config[b] \in Shown
  BY DEF Shown
<1>6. /\ Put \in Seq(Later) /\ Hex8(PRId) \in Seq(Later)
      /\ Hex8(Config[b]) \in Seq(Later) /\ Listed(AtReset) \in Seq(Later)
      /\ Verbose(Put) \in Seq(Later)
  BY <1>5, Pieces
<1>7. Verbose(Listed(AtReset) \o Put) \in Seq(Later)
  BY <1>6, PiecesJoin, Pieces
<1>8. /\ Do("uart") \in Seq(Later) /\ Do("K0") \in Seq(Later)
      /\ Do("stack") \in Seq(Later) /\ Do("main") \in Seq(Later)
      /\ Does(Do("stack"), "stack")
  BY Pieces DEF Kinds
<1>9. Begins(s1)
  BY <1>4, <1>6, <1>7, <1>8, BeginsGrows
<1> HIDE DEF s1
<1>10. /\ Begins(s2)
       /\ b # "uncached" /\ Config1.IL # 0 => Does(s2, "I")
       /\ b # "uncached" /\ Config1.DL # 0 => Does(s2, "D")
  BY <1>3, <1>9, BeginsGrows
<1> HIDE DEF s2
<1>11. /\ Begins(s3) /\ Does(s3, "stack")
       /\ b # "uncached" /\ Config1.IL # 0 => Does(s3, "I")
       /\ b # "uncached" /\ Config1.DL # 0 => Does(s3, "D")
  BY <1>8, <1>10, BeginsGrows
<1> HIDE DEF s3
<1>12. /\ Begins(s3 \o Put) /\ Does(s3 \o Put, "stack")
       /\ b # "uncached" /\ Config1.IL # 0 => Does(s3 \o Put, "I")
       /\ b # "uncached" /\ Config1.DL # 0 => Does(s3 \o Put, "D")
  BY <1>6, <1>11, BeginsGrows
<1>13. /\ Begins(s4) /\ Does(s4, "stack")
       /\ b # "uncached" /\ Config1.IL # 0 => Does(s4, "I")
       /\ b # "uncached" /\ Config1.DL # 0 => Does(s4, "D")
  BY <1>8, <1>12, BeginsGrows
<1>14. BootSteps[b] = s4
  BY DEF BootSteps, boot_reset, s1, s2, s3, caches, cI, cD
<1> HIDE DEF s4
<1> QED
  BY <1>13, <1>14

(* The loop over the tags of a cache visits every set of every way, and    *)
(* nothing else, whatever the size of a line.                              *)
LEMMA LoopClears ==
  ASSUME NEW line \in Nat \ {0}, NEW sets \in Nat \ {0}, NEW ways \in Nat \ {0}
  PROVE  AllCleared(line, sets, ways)
<1> DEFINE Tag(k) == <<((line * k) \div line) % sets,
                       ((line * k) \div (line * sets)) % ways>>
           Loop == 0 .. sets * ways - 1
<1>1. ASSUME NEW k \in Nat
      PROVE  Tag(k) = <<k % sets, (k \div sets) % ways>>
  <2>1. (line * k) \div line = k
    OBVIOUS
  <2>2. (line * k) \div (line * sets) = k \div sets
    OBVIOUS
  <2> QED
    BY <2>1, <2>2
<1>2. sets * ways \in Nat
  OBVIOUS
<1>3. Cleared(line, sets, ways, Steps(sets, ways)) = {Tag(k) : k \in Loop}
  BY DEF Cleared, Steps
<1> HIDE DEF Tag
<1>4. \A k \in Loop : Tag(k) \in (0 .. sets - 1) \X (0 .. ways - 1)
  <2>1. SUFFICES ASSUME NEW k \in Nat
                 PROVE  Tag(k) \in (0 .. sets - 1) \X (0 .. ways - 1)
    BY <1>2
  <2>2. k % sets \in 0 .. sets - 1 /\ k \div sets \in Nat
    OBVIOUS
  <2>3. (k \div sets) % ways \in 0 .. ways - 1
    BY <2>2
  <2> DEFINE s == k % sets
             w == (k \div sets) % ways
  <2>4. Tag(k) = <<s, w>> /\ s \in 0 .. sets - 1 /\ w \in 0 .. ways - 1
    BY <1>1, <2>2, <2>3
  <2> HIDE DEF s, w
  <2> QED
    BY <2>4
<1>5. ASSUME NEW set \in 0 .. sets - 1, NEW way \in 0 .. ways - 1
      PROVE  \E k \in Loop : <<set, way>> = Tag(k)
  <2>1. sets * way + set \in Nat
    OBVIOUS
  <2>2. (sets * way + set) % sets = set /\ (sets * way + set) \div sets = way
    OBVIOUS
  <2>3. way % ways = way
    OBVIOUS
  <2>4. sets * way + set < sets * ways
    <3>1. sets * (way + 1) <= sets * ways
      OBVIOUS
    <3>2. sets * (way + 1) = sets * way + sets
      OBVIOUS
    <3> QED
      BY <2>1, <1>2, <3>1, <3>2
  <2>5. Tag(sets * way + set) = <<set, way>>
    BY <1>1, <2>1, <2>2, <2>3
  <2> QED
    BY <1>2, <2>1, <2>4, <2>5
<1>6. \A t \in (0 .. sets - 1) \X (0 .. ways - 1) : \E k \in Loop : t = Tag(k)
  BY <1>5
<1> HIDE DEF Loop
<1>7. {Tag(k) : k \in Loop} = (0 .. sets - 1) \X (0 .. ways - 1)
  BY <1>4, <1>6
<1> QED
  BY <1>3, <1>7 DEF AllCleared

LEMMA PowersOfTwo ==
  ASSUME NEW code \in 0 .. 6
  PROVE  2 ^ code \in Nat \ {0}
<1>1. /\ 2 ^ 0 = 1 /\ 2 ^ 1 = 2 /\ 2 ^ 2 = 4 /\ 2 ^ 3 = 8
      /\ 2 ^ 4 = 16 /\ 2 ^ 5 = 32 /\ 2 ^ 6 = 64
  OBVIOUS
<1>2. CASE code = 0
  BY <1>1, <1>2
<1>3. CASE code = 1
  BY <1>1, <1>3
<1>4. CASE code = 2
  BY <1>1, <1>4
<1>5. CASE code = 3
  BY <1>1, <1>5
<1>6. CASE code = 4
  BY <1>1, <1>6
<1>7. CASE code = 5
  BY <1>1, <1>7
<1>8. CASE code = 6
  BY <1>1, <1>8
<1> QED
  BY <1>2, <1>3, <1>4, <1>5, <1>6, <1>7, <1>8

LEMMA EveryTag == AllOf.I /\ AllOf.D
<1>1. Config1 \in [IL : 0 .. 6, IS : 0 .. 6, IA : 0 .. 7,
                   DL : 0 .. 6, DS : 0 .. 6, DA : 0 .. 7]
  BY StartAssumption
<1>2. ASSUME NEW code \in 0 .. 6
      PROVE  LineSize(code) \in Nat \ {0} /\ SetsPerWay(code) \in Nat \ {0}
  <2>1. 2 ^ code \in Nat \ {0}
    BY PowersOfTwo
  <2>2. \A n \in Nat \ {0} : 2 * n \in Nat \ {0} /\ 64 * n \in Nat \ {0}
    OBVIOUS
  <2> QED
    BY <2>1, <2>2 DEF LineSize, SetsPerWay
<1>3. \A a \in 0 .. 7 : a + 1 \in Nat \ {0}
  OBVIOUS
<1>4. /\ AllCleared(LineSize(Config1.IL), SetsPerWay(Config1.IS), Config1.IA + 1)
      /\ AllCleared(LineSize(Config1.DL), SetsPerWay(Config1.DS), Config1.DA + 1)
  BY <1>1, <1>2, <1>3, LoopClears
<1> QED
  BY <1>4 DEF AllOf

(* What has been done of the program shows in coprocessor 0 and in the     *)
(* caches: ERL is not cleared before everything that could then raise an   *)
(* exception is.                                                           *)
Masked0 ==
  /\ boot <= 4 => "ERL" \in cp0
  /\ boot > 1 => cp0 \cap {"WP", "SW", "DC"} = {}
  /\ boot > 2 => "WATCH" \notin cp0
  /\ boot > 3 => "TI" \notin cp0

Prepares ==
  \A n \in 1 .. Len(BootSteps[build]) :
    n < boot /\ BootSteps[build][n].op \in {"stack", "I", "D"}
      => BootSteps[build][n].op \in clean

SInv == build \in Builds /\ boot \in Nat \ {0} /\ Masked0 /\ Prepares

LEMMA InitSInv == FbootInit => SInv
<1> SUFFICES ASSUME FbootInit PROVE SInv
  OBVIOUS
<1>1. build \in Builds /\ boot = 1 /\ "ERL" \in cp0
  BY DEF FbootInit, CacheInit, StartInit
<1>2. \A n \in 1 .. Len(BootSteps[build]) : ~ n < boot
  BY <1>1
<1> QED
  BY <1>1, <1>2 DEF SInv, Masked0, Prepares

(* The number of the build is not touched by the memory test.              *)
LEMMA BuildKept == [FbootNext]_allVars => build' = build
BY DEF allVars, hardVars, ddrVars, memVars, cacheVars,
       FbootNext, LoaderRuns, RunStart, DetectChip, RunPlls, AccessRegister, PollPll,
       CallUartInit, RunDdr, EnterDdr, SearchDdr, ReturnDdr, PllHardware,
       DdrHardwareRuns, LoadAndJump,
       SetUpDdr, AccessScu, AccessDdr, DelayPasses, PollDdr, Prepared, ReadResult,
       InvalidateIf, TestMemory, Write, Read, DdrHardware, PhyReady, SclEnds

LEMMA StartVarsKept ==
  [FbootNext]_allVars => RunStart \/ UNCHANGED startVars
BY DEF allVars, hardVars,
       FbootNext, LoaderRuns, RunStart, DetectChip, RunPlls, AccessRegister, PollPll,
       CallUartInit, RunDdr, EnterDdr, SearchDdr, ReturnDdr, PllHardware,
       DdrHardwareRuns, LoadAndJump

(* The step that is next is one of the four stores, or of a later kind.    *)
LEMMA NextStep ==
  ASSUME SInv, ~ Booted
  PROVE  /\ boot \in 1 .. Len(BootSteps[build])
         /\ boot = 1 => Next0 = [op |-> "mtc0", off |-> {"WP", "SW", "DC"}, on |-> {"IV"}]
         /\ boot = 2 => Next0 = [op |-> "mtc0", off |-> {"WATCH"}, on |-> {}]
         /\ boot = 3 => Next0 = [op |-> "mtc0", off |-> {"TI"}, on |-> {}]
         /\ boot = 4 => Next0 = [op |-> "mtc0", off |-> {"ERL", "EXL", "IE", "IM"},
                                 on |-> {"BEV"}]
         /\ boot > 4 => Next0.op # "mtc0"
<1>1. Begins(BootSteps[build])
  BY BootProgram DEF SInv
<1>2. Len(BootSteps[build]) \in Nat
  BY <1>1 DEF Begins
<1>3. boot \in 1 .. Len(BootSteps[build])
  BY <1>2 DEF SInv, Booted
<1>4. boot > 4 => Next0 \in Later
  BY <1>1, <1>2, <1>3 DEF Begins, Next0
<1>5. \A s \in Later : s.op # "mtc0"
  BY DEF Later, Kinds
<1> QED
  BY <1>1, <1>3, <1>4, <1>5 DEF Begins, Next0

LEMMA StepSInv == SInv /\ [FbootNext]_allVars => SInv'
<1> SUFFICES ASSUME SInv, [FbootNext]_allVars PROVE SInv'
  OBVIOUS
<1>1. build' = build
  BY BuildKept
<1>2. CASE UNCHANGED startVars
  BY <1>1, <1>2 DEF SInv, Masked0, Prepares, startVars
<1>3. CASE RunStart
  <2>1. StartNext
    BY <1>3 DEF RunStart
  <2>2. ~ Booted
    BY <2>1 DEF StartNext, StoreCp0, Passes, PutDigit, ClearTags, AtStep
  <2>3. boot \in 1 .. Len(BootSteps[build]) /\ Len(BootSteps[build]) \in Nat
    BY <2>2, NextStep, BootProgram DEF SInv, Begins
  <2>4. CASE boot' = boot /\ UNCHANGED <<cp0, clean>>
    BY <1>1, <2>4 DEF SInv, Masked0, Prepares
  <2>5. CASE StoreCp0
    <3>1. /\ boot' = boot + 1 /\ clean' = clean
          /\ cp0' = (cp0 \ Next0.off) \cup Next0.on
          /\ Next0.op = "mtc0"
      BY <2>5 DEF StoreCp0, AtStep
    <3>2. boot \in 1 .. 4
      BY <2>2, <3>1, NextStep DEF SInv
    <3>3. Masked0'
      <4>1. CASE boot = 1
        BY <2>2, <3>1, <4>1, NextStep DEF SInv, Masked0
      <4>2. CASE boot = 2
        BY <2>2, <3>1, <4>2, NextStep DEF SInv, Masked0
      <4>3. CASE boot = 3
        BY <2>2, <3>1, <4>3, NextStep DEF SInv, Masked0
      <4>4. CASE boot = 4
        BY <2>2, <3>1, <4>4, NextStep DEF SInv, Masked0
      <4> QED
        BY <3>2, <4>1, <4>2, <4>3, <4>4
    <3>4. Prepares'
      <4>1. SUFFICES ASSUME NEW n \in 1 .. Len(BootSteps[build]), n < boot + 1,
                            BootSteps[build][n].op \in {"stack", "I", "D"}
                     PROVE  BootSteps[build][n].op \in clean
        BY <1>1, <3>1 DEF Prepares
      <4>2. n # boot
        BY <3>1, <4>1 DEF Next0
      <4> QED
        BY <2>3, <4>1, <4>2 DEF SInv, Prepares
    <3> QED
      BY <1>1, <3>1, <3>3, <3>4 DEF SInv
  <2>6. CASE /\ boot' = boot + 1 /\ cp0' = cp0 /\ clean \subseteq clean'
             /\ Next0.op # "mtc0"
             /\ Next0.op \in {"stack", "I", "D"} => Next0.op \in clean'
    <3>1. boot > 4
      BY <2>2, <2>3, <2>6, NextStep
    <3>2. Masked0'
      BY <2>6, <3>1 DEF SInv, Masked0
    <3>3. Prepares'
      <4>1. SUFFICES ASSUME NEW n \in 1 .. Len(BootSteps[build]), n < boot + 1,
                            BootSteps[build][n].op \in {"stack", "I", "D"}
                     PROVE  BootSteps[build][n].op \in clean'
        BY <1>1, <2>6 DEF Prepares
      <4>2. CASE n = boot
        BY <2>6, <4>1, <4>2 DEF Next0
      <4>3. CASE n < boot
        BY <2>6, <4>1, <4>3 DEF SInv, Prepares
      <4> QED
        BY <2>3, <4>1, <4>2, <4>3
    <3> QED
      BY <1>1, <2>6, <3>2, <3>3 DEF SInv
  <2>7. CASE Passes
    BY <2>6, <2>7 DEF Passes, AtStep
  <2>8. CASE PutDigit
    BY <2>4, <2>6, <2>8 DEF PutDigit, AtStep
  <2>9. CASE ClearTags
    <3>1. Next0.op = "I" \/ Next0.op = "D"
      BY <2>9 DEF ClearTags, AtStep
    <3>2. clean' = clean \cup {Next0.op}
      BY <2>9, <3>1, EveryTag DEF ClearTags
    <3> QED
      BY <2>6, <2>9, <3>1, <3>2 DEF ClearTags
  <2> QED
    BY <2>1, <2>5, <2>7, <2>8, <2>9 DEF StartNext
<1> QED
  BY <1>2, <1>3, StartVarsKept

(* Whatever flags a reset leaves, whatever the caches are like and however *)
(* much is printed: nothing interrupts boot_reset.                         *)
THEOREM StartTheorem == FbootSpec => []NotInterrupted
<1>1. SInv => NotInterrupted
  <2> SUFFICES ASSUME SInv, cp0 \cap {"ERL", "EXL"} = {}
               PROVE  /\ cp0 \cap {"WP", "WATCH"} = {}
                      /\ cp0 \cap {"SW", "TI"} = {}
    BY DEF NotInterrupted, ExceptionDue
  <2>1. boot > 4
    BY DEF SInv, Masked0
  <2> QED
    BY <2>1 DEF SInv, Masked0
<1> QED
  BY <1>1, InitSInv, StepSInv, PTL DEF FbootSpec

(* And main() is not entered before it can be: then there is a stack,      *)
(* COUNT runs, and no tag is left in a cache the build uses, for every     *)
(* size of line and every number of sets and ways.                         *)
THEOREM PreparedTheorem == FbootSpec => [](Booted => MainIsPrepared)
<1>1. SInv => (Booted => MainIsPrepared)
  <2> SUFFICES ASSUME SInv, Booted PROVE MainIsPrepared
    OBVIOUS
  <2>1. /\ Begins(BootSteps[build])
        /\ Does(BootSteps[build], "stack")
        /\ build # "uncached" /\ Config1.IL # 0 => Does(BootSteps[build], "I")
        /\ build # "uncached" /\ Config1.DL # 0 => Does(BootSteps[build], "D")
    BY BootProgram DEF SInv
  <2>2. Len(BootSteps[build]) \in Nat /\ Len(BootSteps[build]) >= 4
    BY <2>1 DEF Begins
  <2>3. \A kind \in {"stack", "I", "D"} :
          Does(BootSteps[build], kind) => kind \in clean
    BY <2>2 DEF Does, SInv, Prepares, Booted
  <2>4. "DC" \notin cp0
    BY <2>2 DEF SInv, Masked0, Booted
  <2> QED
    BY <2>1, <2>3, <2>4 DEF MainIsPrepared
<1> QED
  BY <1>1, InitSInv, StepSInv, PTL DEF FbootSpec

-----------------------------------------------------------------------------
-----------------------------------------------------------------------------
(* FlattenSeq, unfolded.                                                   *)
Flattens(g, seqs, n) ==
  g = [k \in 1 .. n |-> IF k = 1 THEN seqs[k] ELSE g[k - 1] \o seqs[k]]

LEMMA FlattensExist ==
  ASSUME NEW seqs
  PROVE  \A n \in Nat : \E g : Flattens(g, seqs, n)
<1> DEFINE Bad == {n \in Nat : ~ \E g : Flattens(g, seqs, n)}
<1>1. SUFFICES ASSUME Bad # {} PROVE FALSE
  OBVIOUS
<1>2. PICK n \in Bad : \A k \in Bad : n <= k
  BY <1>1, LeastNumber
<1>3. n \in Nat /\ ~ \E g : Flattens(g, seqs, n)
  BY <1>2
<1>4. CASE n = 0
  <2>1. Flattens([k \in 1 .. 0 |-> seqs], seqs, 0)
    BY DEF Flattens
  <2>2. QED
    BY <1>3, <1>4, <2>1
<1>5. CASE n # 0
  <2>1. n - 1 \in Nat /\ n - 1 \notin Bad
    BY <1>2, <1>3, <1>5
  <2>2. PICK g : Flattens(g, seqs, n - 1)
    BY <2>1
  <2> DEFINE h == [k \in 1 .. n |->
                     IF k = n THEN (IF n = 1 THEN seqs[n] ELSE g[n - 1] \o seqs[n])
                     ELSE g[k]]
  <2>3. ASSUME NEW k \in 1 .. n
        PROVE  h[k] = IF k = 1 THEN seqs[k] ELSE h[k - 1] \o seqs[k]
    <3>1. CASE k = n
      <4>1. n # 1 => n - 1 \in 1 .. n /\ n - 1 # n
        BY <1>3, <1>5
      <4>2. n # 1 => h[n - 1] = g[n - 1]
        BY <4>1
      <4>3. h[n] = IF n = 1 THEN seqs[n] ELSE g[n - 1] \o seqs[n]
        BY <3>1
      <4> HIDE DEF h
      <4>4. QED
        BY <3>1, <4>2, <4>3
    <3>2. CASE k # n
      <4>1. k \in 1 .. n - 1
        BY <1>3, <3>2
      <4>2. h[k] = g[k]
        BY <3>2
      <4>3. g[k] = IF k = 1 THEN seqs[k] ELSE g[k - 1] \o seqs[k]
        BY <2>2, <4>1 DEF Flattens
      <4>4. k # 1 => k - 1 \in 1 .. n /\ k - 1 # n
        BY <1>3, <4>1
      <4>5. k # 1 => h[k - 1] = g[k - 1]
        BY <4>4
      <4> HIDE DEF h
      <4>6. QED
        BY <4>2, <4>3, <4>5
    <3>3. QED
      BY <3>1, <3>2
  <2>4. h = [k \in 1 .. n |-> h[k]]
    OBVIOUS
  <2> HIDE DEF h
  <2>5. Flattens(h, seqs, n)
    BY <2>3, <2>4 DEF Flattens
  <2>6. QED
    BY <1>3, <2>5
<1>6. QED
  BY <1>4, <1>5

LEMMA FlattenSteps ==
  ASSUME NEW S, NEW seqs \in Seq(S), Len(seqs) # 0
  PROVE  \E g : /\ g[1] = seqs[1]
                /\ \A k \in 2 .. Len(seqs) : g[k] = g[k - 1] \o seqs[k]
                /\ FlattenSeq(seqs) = g[Len(seqs)]
<1> DEFINE g == CHOOSE g : Flattens(g, seqs, Len(seqs))
<1>1. Len(seqs) \in Nat
  OBVIOUS
<1>2. Flattens(g, seqs, Len(seqs))
  BY <1>1, FlattensExist
<1>3. FlattenSeq(seqs) = g[Len(seqs)]
  BY DEF FlattenSeq, Flattens
<1> HIDE DEF g
<1>4. ASSUME NEW k \in 1 .. Len(seqs)
      PROVE  g[k] = IF k = 1 THEN seqs[k] ELSE g[k - 1] \o seqs[k]
  BY <1>2 DEF Flattens
<1>5. g[1] = seqs[1] /\ \A k \in 2 .. Len(seqs) : g[k] = g[k - 1] \o seqs[k]
  <2>1. 1 \in 1 .. Len(seqs)
    BY <1>1
  <2>2. ASSUME NEW k \in 2 .. Len(seqs) PROVE k \in 1 .. Len(seqs) /\ k # 1
    BY <1>1
  <2>3. QED
    BY <1>4, <2>1, <2>2
<1>6. QED
  BY <1>3, <1>5

LEMMA FlattenTyped ==
  ASSUME NEW B, NEW seqs \in Seq(Seq(B))
  PROVE  FlattenSeq(seqs) \in Seq(B)
<1>1. CASE Len(seqs) = 0
  <2>1. FlattenSeq(seqs) = seqs /\ seqs = <<>>
    BY <1>1 DEF FlattenSeq
  <2>2. QED
    BY <2>1
<1>2. CASE Len(seqs) # 0
  <2>1. PICK g : /\ g[1] = seqs[1]
                 /\ \A k \in 2 .. Len(seqs) : g[k] = g[k - 1] \o seqs[k]
                 /\ FlattenSeq(seqs) = g[Len(seqs)]
    BY <1>2, FlattenSteps
  <2> DEFINE Bad == {k \in 1 .. Len(seqs) : g[k] \notin Seq(B)}
  <2>2. Len(seqs) \in Nat /\ \A k \in 1 .. Len(seqs) : seqs[k] \in Seq(B)
    OBVIOUS
  <2>3. Bad = {}
    <3>1. SUFFICES ASSUME Bad # {} PROVE FALSE
      OBVIOUS
    <3>2. Bad \subseteq Nat
      OBVIOUS
    <3>3. PICK k \in Bad : \A l \in Bad : k <= l
      BY <3>1, <3>2, LeastNumber
    <3>4. k \in 1 .. Len(seqs) /\ g[k] \notin Seq(B) /\ seqs[k] \in Seq(B)
      BY <2>2, <3>3
    <3>5. k # 1
      BY <2>1, <3>4
    <3>6. k \in 2 .. Len(seqs) /\ k - 1 \in 1 .. Len(seqs) /\ k - 1 \notin Bad
      BY <2>2, <3>3, <3>4, <3>5
    <3>7. g[k - 1] \in Seq(B) /\ g[k] = g[k - 1] \o seqs[k]
      BY <2>1, <3>6
    <3>8. g[k] \in Seq(B)
      BY <3>4, <3>7
    <3>9. QED
      BY <3>4, <3>8
  <2>4. g[Len(seqs)] \in Seq(B)
    BY <1>2, <2>2, <2>3
  <2>5. QED
    BY <2>1, <2>4
<1>3. QED
  BY <1>1, <1>2

-----------------------------------------------------------------------------
(* What a routine may do to the registers that are shared: it gates no     *)
(* clock and takes no unit out of reset that has none, and opens no more   *)
(* of the control register than what is its own.                           *)
Units == {ResetAndGate[u] : u \in DOMAIN ResetAndGate}
Clocked == (2 .. 23) \cup {27}
NotItsOwn == Ones \ (GIGE2_XMII \cup {AMC_CS0_MAP, VCXO_COMMON_CLOCK})

Harmless(o) ==
  /\ o.op = "store" =>
       /\ o.reg = "clkgate" => Clocked \subseteq o.word
       /\ o.reg = "rst_vec" => o.word \cap Units \subseteq Clocked
       /\ o.reg = "cpu_ctl_mask" => NotItsOwn \subseteq o.word
  /\ o.op = "modify" =>
       /\ o.reg = "clkgate" => o.clear \cap Clocked = {}
       /\ o.reg = "rst_vec" => o.set \cap Units \subseteq Clocked
       /\ o.reg = "cpu_ctl_mask" => o.clear \cap NotItsOwn = {}

Operations ==
  [op : {"store"}, reg : DOMAIN ResetRegs, word : SUBSET Ones]
    \cup [op : {"modify"}, reg : DOMAIN ResetRegs,
          clear : SUBSET Ones, set : SUBSET Ones]
    \cup [op : {"poll"}, pll : PLL, flag : {"calibrated", "locked"}]
    \cup [op : {"call"}, routine : {"c_uart_init"}]

SafeOps == {o \in Operations : Harmless(o)}

Shared == {"clkgate", "rst_vec", "cpu_ctl_mask"}

LEMMA RegisterNames ==
  DOMAIN ResetRegs =
    {"pll_pwr_rst", "pll_vcxo_sigmadelta", "pll_dsp_sigmadelta",
     "pll_post_divider1", "pll_post_divider2", "pll_post_divider3",
     "pll_fixed_analog", "pll_vcxo_analog", "pll_gateway_analog",
     "pll_bme_analog", "pll_dsp_analog", "rst_mask", "rst_vec",
     "cpu_ctl_mask", "cpu_ctl", "clkgate", "bme_map0", "por_status", "spare0"}
BY DEF ResetRegs

LEMMA UnitBits == Units \subseteq 2 .. 27
BY DEF Units, ResetAndGate

LEMMA SafeOp ==
  /\ \A r \in DOMAIN ResetRegs \ Shared, w \in SUBSET Ones : Store(r, w) \in Seq(SafeOps)
  /\ \A r \in DOMAIN ResetRegs \ Shared, c, w \in SUBSET Ones :
       Modify(r, c, w) \in Seq(SafeOps)
  /\ \A p \in PLL, f \in {"calibrated", "locked"} : Poll(p, f) \in Seq(SafeOps)
  /\ Call("c_uart_init") \in Seq(SafeOps)
<1>1. ASSUME NEW r \in DOMAIN ResetRegs \ Shared, NEW w \in SUBSET Ones
      PROVE  Store(r, w) \in Seq(SafeOps)
  <2>1. [op |-> "store", reg |-> r, word |-> w] \in SafeOps
    BY DEF SafeOps, Operations, Harmless, Shared
  <2>2. QED
    BY <2>1 DEF Store
<1>2. ASSUME NEW r \in DOMAIN ResetRegs \ Shared, NEW c \in SUBSET Ones, NEW w \in SUBSET Ones
      PROVE  Modify(r, c, w) \in Seq(SafeOps)
  <2>1. [op |-> "modify", reg |-> r, clear |-> c, set |-> w] \in SafeOps
    BY DEF SafeOps, Operations, Harmless, Shared
  <2>2. QED
    BY <2>1 DEF Modify
<1>3. ASSUME NEW p \in PLL, NEW f \in {"calibrated", "locked"}
      PROVE  Poll(p, f) \in Seq(SafeOps)
  <2>1. [op |-> "poll", pll |-> p, flag |-> f] \in SafeOps
    BY DEF SafeOps, Operations, Harmless
  <2>2. QED
    BY <2>1 DEF Poll
<1>4. Call("c_uart_init") \in Seq(SafeOps)
  <2>1. [op |-> "call", routine |-> "c_uart_init"] \in SafeOps
    BY DEF SafeOps, Operations, Harmless
  <2>2. QED
    BY <2>1 DEF Call
<1>5. QED
  BY <1>1, <1>2, <1>3, <1>4

(* The stores to the shared registers.                                     *)
LEMMA SharedStores ==
  /\ Store("cpu_ctl_mask", Hex(\hFFFC, \hFEFF)) \in Seq(SafeOps)
  /\ Store("cpu_ctl_mask", Ones) \in Seq(SafeOps)
  /\ Store("clkgate", Hex(\h08FF, \hFFFC)) \in Seq(SafeOps)
  /\ Store("rst_vec", Hex(\h1823, \h0C8F)) \in Seq(SafeOps)
  /\ And("cpu_ctl_mask", {VCXO_COMMON_CLOCK}) \in Seq(SafeOps)
  /\ Or("cpu_ctl_mask", {VCXO_COMMON_CLOCK}) \in Seq(SafeOps)
  /\ Or("rst_vec", {31}) \in Seq(SafeOps)
<1>0. Shared \subseteq DOMAIN ResetRegs
  BY RegisterNames DEF Shared
<1>1. ASSUME NEW w \in SUBSET Ones, NotItsOwn \subseteq w
      PROVE  Store("cpu_ctl_mask", w) \in Seq(SafeOps)
  <2>1. [op |-> "store", reg |-> "cpu_ctl_mask", word |-> w] \in SafeOps
    BY <1>0, <1>1 DEF SafeOps, Operations, Harmless, Shared
  <2>2. QED
    BY <2>1 DEF Store
<1>2. NotItsOwn \subseteq Hex(\hFFFC, \hFEFF) /\ Hex(\hFFFC, \hFEFF) \in SUBSET Ones
  BY HexBits DEF NotItsOwn, Ones, GIGE2_XMII, AMC_CS0_MAP, VCXO_COMMON_CLOCK
<1>3. NotItsOwn \subseteq Ones /\ VCXO_COMMON_CLOCK \notin NotItsOwn
  BY DEF NotItsOwn
<1>4. Store("clkgate", Hex(\h08FF, \hFFFC)) \in Seq(SafeOps)
  <2>1. PICK w : w = Hex(\h08FF, \hFFFC)
    OBVIOUS
  <2>2. Clocked \subseteq w /\ w \in SUBSET Ones
    BY <2>1, HexBits DEF Clocked
  <2>3. [op |-> "store", reg |-> "clkgate", word |-> w] \in SafeOps
    BY <1>0, <2>2 DEF SafeOps, Operations, Harmless, Shared
  <2>4. QED
    BY <2>1, <2>3 DEF Store
<1>5. Store("rst_vec", Hex(\h1823, \h0C8F)) \in Seq(SafeOps)
  <2>1. PICK w : w = Hex(\h1823, \h0C8F)
    OBVIOUS
  <2>2. w \in SUBSET Ones /\ 24 \notin w /\ 25 \notin w /\ 26 \notin w
    BY <2>1, HexBits
  <2>3. w \cap Units \subseteq Clocked
    <3>1. ASSUME NEW b \in 2 .. 27, b \in w PROVE b \in (2 .. 23) \cup {27}
      BY <2>2, <3>1
    <3>2. QED
      BY <3>1, UnitBits DEF Clocked
  <2>4. [op |-> "store", reg |-> "rst_vec", word |-> w] \in SafeOps
    BY <1>0, <2>2, <2>3 DEF SafeOps, Operations, Harmless, Shared
  <2>5. QED
    BY <2>1, <2>4 DEF Store
<1>6. VCXO_COMMON_CLOCK \in Ones /\ 31 \in Ones
  BY DEF VCXO_COMMON_CLOCK, Ones
<1>7. And("cpu_ctl_mask", {VCXO_COMMON_CLOCK}) \in Seq(SafeOps)
  <2>1. [op |-> "modify", reg |-> "cpu_ctl_mask", clear |-> {VCXO_COMMON_CLOCK}, set |-> {}]
          \in SafeOps
    BY <1>0, <1>3, <1>6 DEF SafeOps, Operations, Harmless, Shared
  <2>2. QED
    BY <2>1 DEF And, Modify
<1>8. Or("cpu_ctl_mask", {VCXO_COMMON_CLOCK}) \in Seq(SafeOps)
  <2>1. [op |-> "modify", reg |-> "cpu_ctl_mask", clear |-> {}, set |-> {VCXO_COMMON_CLOCK}]
          \in SafeOps
    BY <1>0, <1>3, <1>6 DEF SafeOps, Operations, Harmless, Shared
  <2>2. QED
    BY <2>1 DEF Or, Modify
<1>9. Or("rst_vec", {31}) \in Seq(SafeOps)
  <2>1. {31} \cap Units \subseteq Clocked
    BY UnitBits
  <2>2. [op |-> "modify", reg |-> "rst_vec", clear |-> {}, set |-> {31}] \in SafeOps
    BY <1>0, <1>6, <2>1 DEF SafeOps, Operations, Harmless, Shared
  <2>3. QED
    BY <2>2 DEF Or, Modify
<1>10. QED
  BY <1>1, <1>2, <1>3, <1>4, <1>5, <1>7, <1>8, <1>9

(* In short, with S for the sequences of safe operations.                  *)
LEMMA SafeSequences ==
  \E S :
    /\ S = Seq(SafeOps)
    /\ <<>> \in S
    /\ \A s, t \in S : s \o t \in S
    /\ \A r \in DOMAIN ResetRegs \ Shared, w \in SUBSET Ones : Store(r, w) \in S
    /\ \A r \in DOMAIN ResetRegs \ Shared, w \in SUBSET Ones : Or(r, w) \in S /\ And(r, w) \in S
    /\ \A r \in DOMAIN ResetRegs \ Shared, c, w \in SUBSET Ones : Modify(r, c, w) \in S
    /\ \A p \in PLL, f \in {"calibrated", "locked"} : Poll(p, f) \in S
    /\ Call("c_uart_init") \in S
<1>1. PICK S : S = Seq(SafeOps)
  OBVIOUS
<1>2. <<>> \in S /\ \A s, t \in S : s \o t \in S
  BY <1>1
<1>3. \A r \in DOMAIN ResetRegs \ Shared, w \in SUBSET Ones : Or(r, w) \in S /\ And(r, w) \in S
  BY <1>1, SafeOp DEF Or, And
<1>4. QED
  BY <1>1, <1>2, <1>3, SafeOp

-----------------------------------------------------------------------------
(* A program walks from a to b: every operation of it is a step of R.      *)
Walks(R, a, s, b) ==
  \E through \in [1 .. Len(s) + 1 -> {x[1] : x \in R} \cup {x[3] : x \in R} \cup {a, b}] :
    /\ through[1] = a /\ through[Len(s) + 1] = b
    /\ \A n \in 1 .. Len(s) : <<through[n], s[n], through[n + 1]>> \in R

LEMMA WalkOf ==
  ASSUME NEW R, NEW T, NEW s \in Seq(T), NEW f,
         \A n \in 1 .. Len(s) : <<f[n], s[n], f[n + 1]>> \in R
  PROVE  Walks(R, f[1], s, f[Len(s) + 1])
<1> DEFINE P == {x[1] : x \in R} \cup {x[3] : x \in R} \cup {f[1], f[Len(s) + 1]}
           g == [n \in 1 .. Len(s) + 1 |-> f[n]]
<1>1. Len(s) \in Nat
  OBVIOUS
<1>2. ASSUME NEW n \in 1 .. Len(s) + 1 PROVE f[n] \in P
  <2>1. CASE n \in 1 .. Len(s)
    <3>1. PICK x \in R : x = <<f[n], s[n], f[n + 1]>>
      BY <2>1
    <3>2. x[1] = f[n]
      BY <3>1
    <3>3. QED
      BY <3>2
  <2>2. CASE n = Len(s) + 1
    BY <2>2
  <2>3. QED
    BY <1>1, <2>1, <2>2
<1>3. g \in [1 .. Len(s) + 1 -> P]
  BY <1>2
<1>4. 1 \in 1 .. Len(s) + 1 /\ Len(s) + 1 \in 1 .. Len(s) + 1
  BY <1>1
<1>5. ASSUME NEW n \in 1 .. Len(s)
      PROVE  n \in 1 .. Len(s) + 1 /\ n + 1 \in 1 .. Len(s) + 1
  BY <1>1
<1>6. /\ g[1] = f[1] /\ g[Len(s) + 1] = f[Len(s) + 1]
      /\ \A n \in 1 .. Len(s) : <<g[n], s[n], g[n + 1]>> \in R
  BY <1>4, <1>5
<1> HIDE DEF g
<1>7. QED
  BY <1>3, <1>6 DEF Walks

LEMMA WalkNone ==
  ASSUME NEW R, NEW a, NEW b
  PROVE  Walks(R, a, <<>>, b) <=> a = b
<1>1. ASSUME Walks(R, a, <<>>, b) PROVE a = b
  BY <1>1 DEF Walks
<1>2. Walks(R, a, <<>>, a)
  <2>1. PICK f : f = [n \in {1} |-> a]
    OBVIOUS
  <2>2. f[1] = a
    BY <2>1
  <2>3. <<>> \in Seq({}) /\ Len(<<>>) = 0 /\ 1 .. 0 = {}
    OBVIOUS
  <2>4. \A n \in 1 .. Len(<<>>) : <<f[n], <<>>[n], f[n + 1]>> \in R
    BY <2>3
  <2>5. Walks(R, f[1], <<>>, f[Len(<<>>) + 1])
    BY <2>3, <2>4, WalkOf
  <2>6. QED
    BY <2>2, <2>3, <2>5
<1>3. QED
  BY <1>1, <1>2

LEMMA WalkOne ==
  ASSUME NEW R, NEW a, NEW o, NEW b, <<a, o, b>> \in R
  PROVE  Walks(R, a, <<o>>, b)
<1>1. PICK f : f = [n \in {1, 2} |-> IF n = 1 THEN a ELSE b]
  OBVIOUS
<1>2. f[1] = a /\ f[2] = b
  BY <1>1
<1>3. PICK s : s = <<o>>
  OBVIOUS
<1>4. s \in Seq({o}) /\ Len(s) = 1 /\ s[1] = o
  BY <1>3
<1>5. \A n \in 1 .. Len(s) : <<f[n], s[n], f[n + 1]>> \in R
  BY <1>2, <1>4
<1>6. Walks(R, f[1], s, f[Len(s) + 1])
  BY <1>4, <1>5, WalkOf
<1>7. QED
  BY <1>2, <1>3, <1>4, <1>6

LEMMA WalkJoin ==
  ASSUME NEW R, NEW T, NEW s \in Seq(T), NEW t \in Seq(T), NEW a, NEW b, NEW c,
         Walks(R, a, s, b), Walks(R, b, t, c)
  PROVE  Walks(R, a, s \o t, c)
<1>1. PICK f : /\ f[1] = a /\ f[Len(s) + 1] = b
               /\ \A n \in 1 .. Len(s) : <<f[n], s[n], f[n + 1]>> \in R
  BY DEF Walks
<1>2. PICK g : /\ g[1] = b /\ g[Len(t) + 1] = c
               /\ \A n \in 1 .. Len(t) : <<g[n], t[n], g[n + 1]>> \in R
  BY DEF Walks
<1>3. PICK u : u = s \o t
  OBVIOUS
<1>4. /\ u \in Seq(T) /\ Len(s) \in Nat /\ Len(t) \in Nat
      /\ Len(u) = Len(s) + Len(t)
      /\ \A n \in 1 .. Len(s) : u[n] = s[n]
      /\ \A n \in 1 .. Len(t) : u[Len(s) + n] = t[n]
  BY <1>3
<1>5. PICK l, m : l = Len(s) /\ m = Len(t)
  OBVIOUS
<1>6. PICK h : h = [n \in 1 .. l + m + 1 |-> IF n <= l THEN f[n] ELSE g[n - l]]
  OBVIOUS
<1>7. /\ h[1] = a /\ h[l + m + 1] = c
  <2>1. 1 \in 1 .. l + m + 1 /\ l + m + 1 \in 1 .. l + m + 1 /\ ~ (l + m + 1 <= l)
        /\ (l + m + 1) - l = m + 1
    BY <1>4, <1>5
  <2>2. h[l + m + 1] = g[m + 1]
    BY <1>6, <2>1
  <2>3. h[1] = IF 1 <= l THEN f[1] ELSE g[1 - l]
    BY <1>6, <2>1
  <2>4. ~ (1 <= l) => l = 0 /\ 1 - l = 1
    BY <1>4, <1>5
  <2>5. l = 0 => a = b
    BY <1>1, <1>5
  <2>6. QED
    BY <1>1, <1>2, <1>5, <2>2, <2>3, <2>4, <2>5
<1>8. ASSUME NEW n \in 1 .. l + m PROVE <<h[n], u[n], h[n + 1]>> \in R
  <2>1. n \in 1 .. l + m + 1 /\ n + 1 \in 1 .. l + m + 1
    BY <1>4, <1>5
  <2>2. /\ h[n] = IF n <= l THEN f[n] ELSE g[n - l]
        /\ h[n + 1] = IF n + 1 <= l THEN f[n + 1] ELSE g[(n + 1) - l]
    BY <1>6, <2>1
  <2>3. CASE n + 1 <= l
    <3>1. n \in 1 .. l /\ n <= l
      BY <1>4, <1>5, <2>3
    <3>2. QED
      BY <1>1, <1>4, <1>5, <2>2, <2>3, <3>1
  <2>4. CASE n = l
    <3>1. n \in 1 .. l /\ n <= l /\ ~ (n + 1 <= l) /\ (n + 1) - l = 1
      BY <1>4, <1>5, <2>4
    <3>2. h[n] = f[n] /\ h[n + 1] = f[l + 1]
      BY <1>1, <1>2, <1>5, <2>2, <3>1
    <3>3. QED
      BY <1>1, <1>4, <1>5, <2>4, <3>1, <3>2
  <2>5. CASE n > l
    <3>1. n - l \in 1 .. m /\ ~ (n <= l) /\ ~ (n + 1 <= l) /\ (n + 1) - l = (n - l) + 1
          /\ l + (n - l) = n
      BY <1>4, <1>5, <2>5
    <3>2. u[n] = t[n - l]
      BY <1>4, <1>5, <3>1
    <3>3. QED
      BY <1>2, <1>5, <2>2, <3>1, <3>2
  <2>6. n + 1 <= l \/ n = l \/ n > l
    BY <1>4, <1>5
  <2>7. QED
    BY <2>3, <2>4, <2>5, <2>6
<1>9. Walks(R, h[1], u, h[Len(u) + 1])
  <2>1. Len(u) = l + m
    BY <1>4, <1>5
  <2>2. QED
    BY <1>4, <1>8, <2>1, WalkOf
<1>10. QED
  BY <1>3, <1>4, <1>5, <1>7, <1>9

LEMMA WalkStays ==
  ASSUME NEW R, NEW T, NEW s \in Seq(T), NEW a, \A o \in T : <<a, o, a>> \in R
  PROVE  Walks(R, a, s, a)
<1>1. PICK f : f = [n \in Nat |-> a]
  OBVIOUS
<1>2. \A n \in Nat : f[n] = a
  BY <1>1
<1>3. Len(s) \in Nat
  OBVIOUS
<1>4. ASSUME NEW n \in 1 .. Len(s) PROVE <<f[n], s[n], f[n + 1]>> \in R
  <2>1. n \in Nat /\ n + 1 \in Nat /\ s[n] \in T
    BY <1>3
  <2>2. f[n] = a /\ f[n + 1] = a
    BY <1>2, <2>1
  <2>3. QED
    BY <2>1, <2>2
<1>5. Walks(R, f[1], s, f[Len(s) + 1])
  BY <1>4, WalkOf
<1>6. f[1] = a /\ f[Len(s) + 1] = a
  BY <1>2, <1>3
<1>7. QED
  BY <1>5, <1>6

LEMMA WalkOn ==
  ASSUME NEW R, NEW T, NEW s \in Seq(T), s # <<>>, NEW a, NEW b, Walks(R, a, s, b)
  PROVE  \E c : <<a, Head(s), c>> \in R /\ Walks(R, c, Tail(s), b)
<1>1. PICK f : /\ f[1] = a /\ f[Len(s) + 1] = b
               /\ \A n \in 1 .. Len(s) : <<f[n], s[n], f[n + 1]>> \in R
  BY DEF Walks
<1>2. PICK t : t = Tail(s)
  OBVIOUS
<1>3. /\ Len(s) \in Nat \ {0} /\ t \in Seq(T) /\ Len(t) = Len(s) - 1
      /\ \A n \in 1 .. Len(t) : t[n] = s[n + 1]
      /\ Head(s) = s[1]
  BY <1>2
<1>4. PICK g : g = [n \in 1 .. Len(s) |-> f[n + 1]]
  OBVIOUS
<1>5. ASSUME NEW n \in 1 .. Len(t) PROVE <<g[n], t[n], g[n + 1]>> \in R
  <2>1. n \in 1 .. Len(s) /\ n + 1 \in 1 .. Len(s)
    BY <1>3
  <2>2. g[n] = f[n + 1] /\ g[n + 1] = f[(n + 1) + 1] /\ t[n] = s[n + 1]
    BY <1>3, <1>4, <2>1
  <2>3. QED
    BY <1>1, <2>1, <2>2
<1>6. Walks(R, g[1], t, g[Len(t) + 1])
  BY <1>3, <1>5, WalkOf
<1>7. g[1] = f[2] /\ g[Len(t) + 1] = b
  BY <1>1, <1>3, <1>4
<1>8. <<a, Head(s), f[2]>> \in R
  BY <1>1, <1>3
<1>9. QED
  BY <1>2, <1>6, <1>7, <1>8

(* A sequence of pieces, each of which walks where another program steps.  *)
LEMMA WalkFlat ==
  ASSUME NEW R, NEW T, NEW seqs \in Seq(Seq(T)), NEW f,
         \A n \in 1 .. Len(seqs) : Walks(R, f[n], seqs[n], f[n + 1])
  PROVE  Walks(R, f[1], FlattenSeq(seqs), f[Len(seqs) + 1])
<1>1. CASE Len(seqs) = 0
  <2>1. FlattenSeq(seqs) = seqs /\ seqs = <<>>
    BY <1>1 DEF FlattenSeq
  <2>2. QED
    BY <1>1, <2>1, WalkNone
<1>2. CASE Len(seqs) # 0
  <2>1. PICK g : /\ g[1] = seqs[1]
                 /\ \A k \in 2 .. Len(seqs) : g[k] = g[k - 1] \o seqs[k]
                 /\ FlattenSeq(seqs) = g[Len(seqs)]
    BY <1>2, FlattenSteps
  <2> DEFINE Bad == {k \in 1 .. Len(seqs) :
                       ~ (g[k] \in Seq(T) /\ Walks(R, f[1], g[k], f[k + 1]))}
  <2>2. Len(seqs) \in Nat /\ \A k \in 1 .. Len(seqs) : seqs[k] \in Seq(T)
    OBVIOUS
  <2>3. Bad = {}
    <3>1. SUFFICES ASSUME Bad # {} PROVE FALSE
      OBVIOUS
    <3>2. Bad \subseteq Nat
      OBVIOUS
    <3>3. PICK k \in Bad : \A l \in Bad : k <= l
      BY <3>1, <3>2, LeastNumber
    <3>4. /\ k \in 1 .. Len(seqs) /\ seqs[k] \in Seq(T)
          /\ ~ (g[k] \in Seq(T) /\ Walks(R, f[1], g[k], f[k + 1]))
      BY <2>2, <3>3
    <3>5. k # 1
      <4>1. Walks(R, f[1], seqs[1], f[1 + 1])
        BY <1>2, <2>2
      <4>2. QED
        BY <2>1, <3>4, <4>1
    <3>6. k \in 2 .. Len(seqs) /\ k - 1 \in 1 .. Len(seqs) /\ k - 1 \notin Bad
          /\ (k - 1) + 1 = k
      BY <2>2, <3>3, <3>4, <3>5
    <3>7. /\ g[k - 1] \in Seq(T) /\ g[k] = g[k - 1] \o seqs[k]
          /\ Walks(R, f[1], g[k - 1], f[(k - 1) + 1])
      BY <2>1, <3>6
    <3>8. g[k] \in Seq(T)
      BY <3>4, <3>7
    <3>9. Walks(R, f[k], seqs[k], f[k + 1])
      BY <3>4
    <3>10. Walks(R, f[1], g[k], f[k + 1])
      BY <3>4, <3>6, <3>7, <3>9, WalkJoin
    <3>11. QED
      BY <3>4, <3>8, <3>10
  <2>4. Len(seqs) \in 1 .. Len(seqs)
    BY <1>2, <2>2
  <2>5. Walks(R, f[1], g[Len(seqs)], f[Len(seqs) + 1])
    BY <2>3, <2>4
  <2>6. QED
    BY <2>1, <2>5
<1>3. QED
  BY <1>1, <1>2

-----------------------------------------------------------------------------
(* What a program leaves: the fold, operation by operation.                *)
LeftAfter(r, s) == FoldLeft(Effect, r, s)

EffectsTo(g, r, s, n) ==
  g = [t \in SUBSET (1 .. n) |->
         IF t = {} THEN r ELSE Effect(g[t \ {Max(t)}], s[Max(t)])]

LEMMA LastOfSet ==
  ASSUME NEW n \in Nat, NEW s \in SUBSET (1 .. n), n \in s
  PROVE  Max(s) = n
<1>1. \A x \in s : x \in Int /\ x <= n
  OBVIOUS
<1>2. \A x \in s : (\A y \in s : x >= y) => x = n
  BY <1>1
<1>3. n \in s /\ \A y \in s : n >= y
  BY <1>1
<1>4. QED
  BY <1>2, <1>3 DEF Max

LEMMA EffectsExist ==
  ASSUME NEW r, NEW s
  PROVE  \A n \in Nat : \E g : EffectsTo(g, r, s, n)
<1> DEFINE Bad == {n \in Nat : ~ \E g : EffectsTo(g, r, s, n)}
<1>1. SUFFICES ASSUME Bad # {} PROVE FALSE
  OBVIOUS
<1>2. PICK n \in Bad : \A k \in Bad : n <= k
  BY <1>1, LeastNumber
<1>3. n \in Nat /\ ~ \E g : EffectsTo(g, r, s, n)
  BY <1>2
<1>4. CASE n = 0
  <2> DEFINE h == [t \in SUBSET (1 .. 0) |-> r]
  <2>1. \A t \in SUBSET (1 .. 0) : t = {}
    OBVIOUS
  <2>2. EffectsTo(h, r, s, 0)
    BY <2>1 DEF EffectsTo
  <2>3. QED
    BY <1>3, <1>4, <2>2
<1>5. CASE n # 0
  <2>1. n - 1 \in Nat /\ n - 1 \notin Bad
    BY <1>2, <1>3, <1>5
  <2>2. PICK g : EffectsTo(g, r, s, n - 1)
    BY <2>1
  <2> DEFINE h == [t \in SUBSET (1 .. n) |->
                     IF n \in t THEN Effect(g[t \ {n}], s[n]) ELSE g[t]]
  <2>3. ASSUME NEW t \in SUBSET (1 .. n)
        PROVE  h[t] = IF t = {} THEN r ELSE Effect(h[t \ {Max(t)}], s[Max(t)])
    <3>1. CASE n \in t
      <4>1. Max(t) = n
        BY <1>3, <3>1, LastOfSet
      <4>2. t \ {n} \in SUBSET (1 .. n) /\ n \notin t \ {n}
        OBVIOUS
      <4>3. h[t \ {n}] = g[t \ {n}]
        BY <4>2
      <4>4. h[t] = Effect(g[t \ {n}], s[n])
        BY <3>1
      <4> HIDE DEF h
      <4>5. QED
        BY <3>1, <4>1, <4>3, <4>4
    <3>2. CASE n \notin t /\ t # {}
      <4>1. t \in SUBSET (1 .. n - 1)
        BY <1>3, <3>2
      <4>2. h[t] = g[t]
        BY <3>2
      <4>3. h[t \ {Max(t)}] = g[t \ {Max(t)}]
        BY <3>2
      <4>4. g[t] = Effect(g[t \ {Max(t)}], s[Max(t)])
        BY <2>2, <3>2, <4>1 DEF EffectsTo
      <4> HIDE DEF h
      <4>5. QED
        BY <3>2, <4>2, <4>3, <4>4
    <3>3. CASE n \notin t /\ t = {}
      <4>1. t \in SUBSET (1 .. n - 1)
        BY <3>3
      <4>2. h[t] = g[t] /\ g[t] = r
        BY <2>2, <3>3, <4>1 DEF EffectsTo
      <4> HIDE DEF h
      <4>3. QED
        BY <3>3, <4>2
    <3>4. QED
      BY <3>1, <3>2, <3>3
  <2>4. h = [t \in SUBSET (1 .. n) |-> h[t]]
    OBVIOUS
  <2> HIDE DEF h
  <2>5. EffectsTo(h, r, s, n)
    BY <2>3, <2>4 DEF EffectsTo
  <2>6. QED
    BY <1>3, <2>5
<1>6. QED
  BY <1>4, <1>5

LEMMA EffectSteps ==
  ASSUME NEW T, NEW r, NEW s \in Seq(T)
  PROVE  \E f : /\ f[0] = r
                /\ \A k \in 1 .. Len(s) : f[k] = Effect(f[k - 1], s[k])
                /\ LeftAfter(r, s) = f[Len(s)]
<1> DEFINE g == CHOOSE g : EffectsTo(g, r, s, Len(s))
           f == [k \in 0 .. Len(s) |-> g[1 .. k]]
<1>1. Len(s) \in Nat /\ DOMAIN s = 1 .. Len(s)
  OBVIOUS
<1>2. EffectsTo(g, r, s, Len(s))
  BY <1>1, EffectsExist
<1>3. LeftAfter(r, s) = g[1 .. Len(s)]
  BY <1>1 DEF LeftAfter, FoldLeft, MapThenFoldSet, EffectsTo
<1> HIDE DEF g
<1>4. ASSUME NEW k \in 0 .. Len(s)
      PROVE  f[k] = IF k = 0 THEN r ELSE Effect(f[k - 1], s[k])
  <2>1. 1 .. k \in SUBSET (1 .. Len(s))
    BY <1>1
  <2>2. CASE k = 0
    <3>1. 1 .. k = {}
      BY <2>2
    <3>2. QED
      BY <1>2, <2>1, <2>2, <3>1 DEF EffectsTo
  <2>3. CASE k # 0
    <3>1. k \in 1 .. k /\ k \in Nat /\ k - 1 \in 0 .. Len(s)
      BY <1>1, <2>3
    <3>2. Max(1 .. k) = k
      BY <3>1, LastOfSet
    <3>3. (1 .. k) \ {k} = 1 .. k - 1
      BY <3>1
    <3>4. g[1 .. k] = Effect(g[1 .. k - 1], s[k])
      BY <1>2, <2>1, <3>1, <3>2, <3>3 DEF EffectsTo
    <3>5. QED
      BY <2>3, <3>1, <3>4
  <2>4. QED
    BY <2>2, <2>3
<1>5. f[Len(s)] = g[1 .. Len(s)]
  BY <1>1
<1> HIDE DEF f
<1>6. f[0] = r /\ \A k \in 1 .. Len(s) : f[k] = Effect(f[k - 1], s[k])
  <2>1. 0 \in 0 .. Len(s)
    BY <1>1
  <2>2. ASSUME NEW k \in 1 .. Len(s)
        PROVE  k \in 0 .. Len(s) /\ k # 0
    BY <1>1
  <2>3. QED
    BY <1>4, <2>1, <2>2
<1>7. QED
  BY <1>3, <1>5, <1>6

(* What each step of a walk keeps holds of what its end leaves.            *)
LEMMA WalkLeaves ==
  ASSUME NEW R, NEW K, NEW T, NEW s \in Seq(T), NEW a, NEW b, NEW r,
         Walks(R, a, s, b), <<a, r>> \in K,
         ASSUME NEW x, NEW o, NEW y, NEW q, <<x, o, y>> \in R, <<x, q>> \in K
         PROVE  <<y, Effect(q, o)>> \in K
  PROVE  <<b, LeftAfter(r, s)>> \in K
<1>1. PICK f : /\ f[0] = r
               /\ \A k \in 1 .. Len(s) : f[k] = Effect(f[k - 1], s[k])
               /\ LeftAfter(r, s) = f[Len(s)]
  BY EffectSteps
<1>2. PICK g : /\ g[1] = a /\ g[Len(s) + 1] = b
               /\ \A n \in 1 .. Len(s) : <<g[n], s[n], g[n + 1]>> \in R
  BY DEF Walks
<1> DEFINE Bad == {k \in 0 .. Len(s) : <<g[k + 1], f[k]>> \notin K}
<1>3. Len(s) \in Nat
  OBVIOUS
<1>4. Bad = {}
  <2>1. SUFFICES ASSUME Bad # {} PROVE FALSE
    OBVIOUS
  <2>2. Bad \subseteq Nat
    OBVIOUS
  <2>3. PICK k \in Bad : \A l \in Bad : k <= l
    BY <2>1, <2>2, LeastNumber
  <2>4. k \in 0 .. Len(s) /\ <<g[k + 1], f[k]>> \notin K
    BY <2>3
  <2>5. k # 0
    <3>1. 0 + 1 = 1
      OBVIOUS
    <3>2. g[0 + 1] = a /\ f[0] = r
      BY <1>1, <1>2, <3>1
    <3>3. <<g[0 + 1], f[0]>> \in K
      BY <3>2
    <3>4. QED
      BY <2>4, <3>3
  <2>6. k \in 1 .. Len(s) /\ k - 1 \in 0 .. Len(s) /\ k - 1 \notin Bad /\ (k - 1) + 1 = k
    BY <1>3, <2>3, <2>4, <2>5
  <2>7. <<g[k], f[k - 1]>> \in K
    BY <2>6
  <2>8. <<g[k], s[k], g[k + 1]>> \in R /\ f[k] = Effect(f[k - 1], s[k])
    BY <1>1, <1>2, <2>6
  <2>9. QED
    BY <2>4, <2>7, <2>8
<1>5. <<g[Len(s) + 1], f[Len(s)]>> \in K
  BY <1>3, <1>4
<1>6. QED
  BY <1>1, <1>2, <1>5

-----------------------------------------------------------------------------
(* Every program is made of harmless operations.                           *)
LEMMA HexTyped == \A high, low : Hex(high, low) \in SUBSET Ones
BY HexBits

LEMMA ShiftOf ==
  /\ Shift["fixed"] = 0 /\ Shift["vcxo"] = 6 /\ Shift["gateway"] = 12
  /\ Shift["bme"] = 18 /\ Shift["dsp"] = 24
BY DEF Shift

LEMMA BitsTyped ==
  ASSUME NEW p \in PLL, NEW bits \in SUBSET (0 .. 5)
  PROVE  BitsOf(p, bits) \in SUBSET Ones
<1>1. Shift[p] \in {0, 6, 12, 18, 24}
  BY ShiftOf DEF PLL
<1>2. \A b \in 0 .. 5 : Shift[p] + b \in 0 .. 31
  BY <1>1
<1>3. QED
  BY <1>2 DEF BitsOf, Ones

LEMMA ModesTyped ==
  /\ {SIGMADELTA_DOWN, POSTDIVIDER_UP} \in SUBSET (0 .. 5)
  /\ {POSTDIVIDER_UP} \in SUBSET (0 .. 5)
  /\ {SIGMADELTA_DOWN} \in SUBSET (0 .. 5)
  /\ {LOCKDETECTOR_DOWN} \in SUBSET (0 .. 5)
  /\ {CALIBRATION, LOCKDETECTOR_DOWN} \in SUBSET (0 .. 5)
  /\ {POWER_UP} \in SUBSET (0 .. 5)
  /\ 0 .. 5 \in SUBSET (0 .. 5)
BY DEF SIGMADELTA_DOWN, POSTDIVIDER_UP, LOCKDETECTOR_DOWN, CALIBRATION, POWER_UP

LEMMA DividerBits ==
  /\ {Enable.GIGE, Enable.USB} \in SUBSET Ones
  /\ {BypassDiv2.gateway} \in SUBSET Ones /\ {BypassSigmaDelta.gateway} \in SUBSET Ones
  /\ {BypassDiv2.bme} \in SUBSET Ones /\ {BypassSigmaDelta.bme} \in SUBSET Ones
  /\ {BypassDiv2.dsp} \in SUBSET Ones /\ {BypassSigmaDelta.dsp} \in SUBSET Ones
  /\ {Enable.SYS, Enable.AP, Enable.HOST_MIPS} \in SUBSET Ones
  /\ {Enable.SPI_SLOW, Enable.SPI0} \in SUBSET Ones
  /\ {Enable.SYN_REF} \in SUBSET Ones /\ {Enable.VCXO} \in SUBSET Ones
  /\ {Enable.BME_MIPS, Enable.BME_FD} \in SUBSET Ones
  /\ {Enable.DSP} \in SUBSET Ones
BY DEF Enable, BypassDiv2, BypassSigmaDelta, Ones

(* PowerUp, for a mode of any number of steps.                             *)
LEMMA PowerUpTyped ==
  ASSUME NEW p \in PLL, NEW mode \in Seq(SUBSET (0 .. 5))
  PROVE  PowerUp(p, mode) \in Seq(SafeOps)
<1>1. "pll_pwr_rst" \in DOMAIN ResetRegs \ Shared
  BY RegisterNames DEF Shared
<1>2. ASSUME NEW bits \in SUBSET (0 .. 5)
      PROVE  Or("pll_pwr_rst", BitsOf(p, bits)) \in Seq(SafeOps)
             /\ And("pll_pwr_rst", BitsOf(p, bits)) \in Seq(SafeOps)
  <2>1. BitsOf(p, bits) \in SUBSET Ones
    BY BitsTyped
  <2>2. QED
    BY <1>1, <2>1, SafeOp DEF Or, And
<1>3. PICK q : q = [k \in DOMAIN mode |-> Or("pll_pwr_rst", BitsOf(p, mode[k]))]
  OBVIOUS
<1>4. q \in Seq(Seq(SafeOps))
  <2>1. DOMAIN mode = 1 .. Len(mode) /\ Len(mode) \in Nat
    OBVIOUS
  <2>2. \A k \in 1 .. Len(mode) : q[k] \in Seq(SafeOps)
    BY <1>2, <1>3, <2>1
  <2>3. q = [k \in 1 .. Len(mode) |-> q[k]]
    BY <1>3, <2>1
  <2>4. PICK n : n = Len(mode)
    OBVIOUS
  <2>5. n \in Nat /\ q = [k \in 1 .. n |-> q[k]] /\ \A k \in 1 .. n : q[k] \in Seq(SafeOps)
    BY <2>1, <2>2, <2>3, <2>4
  <2>6. PICK S : S = Seq(SafeOps)
    OBVIOUS
  <2>7. q \in [1 .. n -> S]
    BY ONLY <2>5, <2>6
  <2>8. q \in Seq(S)
    BY ONLY <2>5, <2>7
  <2>9. QED
    BY <2>6, <2>8
<1>5. FlattenSeq(q) \in Seq(SafeOps)
  BY <1>4, FlattenTyped
<1>6. PICK S, x, y, z : /\ S = Seq(SafeOps) /\ y = FlattenSeq(q)
                        /\ x = And("pll_pwr_rst", BitsOf(p, 0 .. 5))
                        /\ z = Or("pll_pwr_rst", BitsOf(p, {POWER_UP}))
  OBVIOUS
<1>7. x \in S /\ y \in S /\ z \in S
  BY <1>2, <1>5, <1>6, ModesTyped
<1>8. PowerUp(p, mode) = x \o y \o z
  BY <1>3, <1>6 DEF PowerUp
<1>9. QED
  BY <1>6, <1>7, <1>8, SafeSequences

LEMMA CalibrateTyped ==
  ASSUME NEW p \in PLL, NEW mode \in Seq(SUBSET (0 .. 5))
  PROVE  CalibrateAndLock(p, mode) \in Seq(SafeOps)
<1>1. mode \o <<{CALIBRATION, LOCKDETECTOR_DOWN}>> \in Seq(SUBSET (0 .. 5))
  <2>1. PICK c : c = {CALIBRATION, LOCKDETECTOR_DOWN}
    OBVIOUS
  <2>2. c \in SUBSET (0 .. 5)
    BY <2>1, ModesTyped
  <2>3. PICK B : B = SUBSET (0 .. 5)
    OBVIOUS
  <2>4. mode \o <<c>> \in Seq(B)
    BY ONLY mode \in Seq(SUBSET (0 .. 5)), <2>2, <2>3
  <2>5. QED
    BY <2>1, <2>3, <2>4
<1>2. PICK S, x, y : /\ S = Seq(SafeOps)
                     /\ x = PowerUp(p, mode \o <<{CALIBRATION, LOCKDETECTOR_DOWN}>>)
                     /\ y = PowerUp(p, mode)
  OBVIOUS
<1>3. x \in S /\ y \in S
  BY <1>1, <1>2, PowerUpTyped
<1>4. Poll(p, "calibrated") \in S /\ Poll(p, "locked") \in S
  BY <1>2, SafeOp
<1>5. CalibrateAndLock(p, mode) = x \o Poll(p, "calibrated") \o y \o Poll(p, "locked")
  BY <1>2 DEF CalibrateAndLock
<1>6. QED
  BY <1>2, <1>3, <1>4, <1>5, SafeSequences

LEMMA NonShared ==
  {"pll_pwr_rst", "pll_vcxo_sigmadelta", "pll_dsp_sigmadelta",
   "pll_post_divider1", "pll_post_divider2", "pll_post_divider3",
   "pll_fixed_analog", "pll_vcxo_analog", "pll_gateway_analog",
   "pll_bme_analog", "pll_dsp_analog", "rst_mask", "cpu_ctl", "bme_map0",
   "por_status", "spare0"} \subseteq DOMAIN ResetRegs \ Shared
BY RegisterNames DEF Shared

LEMMA OtherWords ==
  /\ {5} \in SUBSET Ones /\ Ones \in SUBSET Ones /\ {VCXO_COMMON_CLOCK} \in SUBSET Ones
  /\ {} \in SUBSET Ones
BY DEF Ones, VCXO_COMMON_CLOCK

(* The pieces of init_plls and of its older forms.                         *)
LEMMA SharedPieces ==
  ASSUME NEW S, S = Seq(SafeOps)
  PROVE  /\ ClockAndReset \in S /\ ResetThreshold \in S
         /\ Divide400 \in S /\ Divide500 \in S /\ OpenCommonClock \in S
         /\ \A c : HostSource(c) \in S /\ Dividers(c) \in S
<1>1. /\ <<>> \in S /\ \A s, t \in S : s \o t \in S
      /\ \A r \in DOMAIN ResetRegs \ Shared, w \in SUBSET Ones : Store(r, w) \in S
      /\ \A r \in DOMAIN ResetRegs \ Shared, w \in SUBSET Ones : Or(r, w) \in S /\ And(r, w) \in S
  BY SafeSequences
<1>2. ClockAndReset \in S
  <2>1. /\ Store("bme_map0", Hex(\hAF80, \h0000)) \in S
        /\ Store("cpu_ctl", Hex(\h0002, \h0100)) \in S
        /\ Store("rst_mask", Hex(\hC7DC, \hF370)) \in S
    BY <1>1, NonShared, HexTyped
  <2>2. /\ Store("cpu_ctl_mask", Hex(\hFFFC, \hFEFF)) \in S
        /\ Store("cpu_ctl_mask", Ones) \in S
        /\ Store("clkgate", Hex(\h08FF, \hFFFC)) \in S
        /\ Store("rst_vec", Hex(\h1823, \h0C8F)) \in S
    BY SharedStores
  <2>3. QED
    BY <1>1, <2>1, <2>2 DEF ClockAndReset
<1>3. ResetThreshold \in S
  BY <1>1, NonShared, OtherWords DEF ResetThreshold
<1>4. Divide400 \in S /\ Divide500 \in S
  <2>1. \A h, l : Store("pll_post_divider1", Hex(h, l)) \in S
                  /\ Store("pll_post_divider2", Hex(h, l)) \in S
    BY <1>1, NonShared, HexTyped
  <2>2. QED
    BY <1>1, <2>1 DEF Divide400, Divide500
<1>5. OpenCommonClock \in S
  <2>1. Or("cpu_ctl", {VCXO_COMMON_CLOCK}) \in S
    BY <1>1, NonShared, OtherWords
  <2>2. /\ And("cpu_ctl_mask", {VCXO_COMMON_CLOCK}) \in S
        /\ Or("cpu_ctl_mask", {VCXO_COMMON_CLOCK}) \in S
    BY SharedStores
  <2>3. QED
    BY <1>1, <2>1, <2>2 DEF OpenCommonClock
<1>6. \A c : HostSource(c) \in S
  <2>1. Store("spare0", Hex(\h0000, \h4009)) \in S
    BY <1>1, NonShared, HexTyped
  <2>2. QED
    BY <1>1, <2>1 DEF HostSource
<1>7. \A c : Dividers(c) \in S
  BY <1>4 DEF Dividers
<1>8. QED
  BY <1>2, <1>3, <1>4, <1>5, <1>6, <1>7

LEMMA OneMode ==
  ASSUME NEW bits \in SUBSET (0 .. 5)
  PROVE  <<bits>> \in Seq(SUBSET (0 .. 5))
OBVIOUS

LEMMA PartPieces ==
  ASSUME NEW S, S = Seq(SafeOps), NEW s
  PROVE  /\ init_pll0_fixed \in S /\ init_pll1_gateway \in S /\ init_pll2_vcxo(s) \in S
         /\ init_pll3_bme \in S /\ init_pll4_dsp \in S
<1>0. \A x, t \in S : x \o t \in S
  BY SafeSequences
<1>1. /\ <<>> \in S /\ \A x, t \in S : x \o t \in S
      /\ \A r \in DOMAIN ResetRegs \ Shared, w \in SUBSET Ones : Store(r, w) \in S
      /\ \A r \in DOMAIN ResetRegs \ Shared, w \in SUBSET Ones : Or(r, w) \in S /\ And(r, w) \in S
      /\ Call("c_uart_init") \in S
  BY SafeSequences
<1>c. Call("c_uart_init") \in S
  BY <1>1
<1>2. \A h, l : /\ Store("pll_fixed_analog", Hex(h, l)) \in S
                /\ Store("pll_gateway_analog", Hex(h, l)) \in S
                /\ Store("pll_vcxo_analog", Hex(h, l)) \in S
                /\ Store("pll_bme_analog", Hex(h, l)) \in S
                /\ Store("pll_dsp_analog", Hex(h, l)) \in S
                /\ Store("pll_dsp_sigmadelta", Hex(h, l)) \in S
                /\ Store("pll_vcxo_sigmadelta", Hex(h, l)) \in S
  BY <1>1, NonShared, HexTyped
<1>3. \A w \in SUBSET Ones : Or("pll_post_divider3", w) \in S /\ And("pll_post_divider3", w) \in S
  BY <1>1, NonShared
<1>4. /\ {"fixed", "gateway", "vcxo", "bme", "dsp"} \subseteq PLL
      /\ <<>> \in Seq(SUBSET (0 .. 5))
      /\ <<{SIGMADELTA_DOWN, POSTDIVIDER_UP}>> \in Seq(SUBSET (0 .. 5))
      /\ <<{POSTDIVIDER_UP}>> \in Seq(SUBSET (0 .. 5))
  BY ModesTyped, OneMode DEF PLL
<1>5. /\ CalibrateAndLock("fixed", <<>>) \in S
      /\ CalibrateAndLock("gateway", <<{SIGMADELTA_DOWN, POSTDIVIDER_UP}>>) \in S
      /\ CalibrateAndLock("vcxo", <<>>) \in S
      /\ CalibrateAndLock("bme", <<{SIGMADELTA_DOWN, POSTDIVIDER_UP}>>) \in S
      /\ CalibrateAndLock("dsp", <<{POSTDIVIDER_UP}>>) \in S
  BY <1>4, CalibrateTyped
<1>6. init_pll0_fixed \in S
  <2>1. /\ Or("pll_post_divider3", {Enable.GIGE, Enable.USB}) \in S
    BY <1>3, DividerBits
  <2>2. QED
    BY <1>0, <1>2, <1>5, <1>c, <2>1 DEF init_pll0_fixed
<1>7. init_pll1_gateway \in S
  <2>1. /\ Or("pll_post_divider3", {BypassSigmaDelta.gateway}) \in S
        /\ And("pll_post_divider3", {BypassDiv2.gateway}) \in S
        /\ Or("pll_post_divider3", {Enable.SYS, Enable.AP, Enable.HOST_MIPS}) \in S
        /\ Or("pll_post_divider3", {Enable.SPI_SLOW, Enable.SPI0}) \in S
    BY <1>3, DividerBits
  <2>2. QED
    BY <1>0, <1>2, <1>5, <1>c, <2>1 DEF init_pll1_gateway
<1>8. init_pll3_bme \in S
  <2>1. /\ Or("pll_post_divider3", {BypassSigmaDelta.bme}) \in S
        /\ And("pll_post_divider3", {BypassDiv2.bme}) \in S
        /\ Or("pll_post_divider3", {Enable.BME_MIPS, Enable.BME_FD}) \in S
    BY <1>3, DividerBits
  <2>2. QED
    BY <1>0, <1>2, <1>5, <1>c, <2>1 DEF init_pll3_bme
<1>9. init_pll4_dsp \in S
  <2>1. /\ And("pll_post_divider3", {BypassSigmaDelta.dsp}) \in S
        /\ And("pll_post_divider3", {BypassDiv2.dsp}) \in S
        /\ Or("pll_post_divider3", {Enable.DSP}) \in S
    BY <1>3, DividerBits
  <2>2. QED
    BY <1>0, <1>2, <1>5, <1>c, <2>1 DEF init_pll4_dsp
<1>10. init_pll2_vcxo(s) \in S
  <2>1. PowerUp("vcxo", <<{SIGMADELTA_DOWN}, {LOCKDETECTOR_DOWN}>>) \in S
    <3>1. <<{SIGMADELTA_DOWN}, {LOCKDETECTOR_DOWN}>> \in Seq(SUBSET (0 .. 5))
      <4>1. PICK x, y, B : x = {SIGMADELTA_DOWN} /\ y = {LOCKDETECTOR_DOWN} /\ B = SUBSET (0 .. 5)
        OBVIOUS
      <4>2. x \in B /\ y \in B
        BY <4>1, ModesTyped
      <4>3. <<x, y>> \in Seq(B)
        BY ONLY <4>2
      <4>4. QED
        BY <4>1, <4>3
    <3>2. QED
      BY <1>4, <3>1, PowerUpTyped
  <2>2. OpenCommonClock \in S
    BY SharedPieces
  <2>3. QED
    BY <1>1, <1>2, <1>3, <1>5, <2>1, <2>2, DividerBits DEF init_pll2_vcxo
<1>11. QED
  BY <1>6, <1>7, <1>8, <1>9, <1>10

(* Clearing and setting in two stores.                                     *)
Halves(o) ==
  IF o.op = "modify" /\ o.clear # {} /\ o.set # {}
  THEN And(o.reg, o.clear) \o Or(o.reg, o.set) ELSE <<o>>

LEMMA HalvesTyped ==
  ASSUME NEW o \in SafeOps
  PROVE  Halves(o) \in Seq(SafeOps)
<1>1. CASE o.op = "modify" /\ o.clear # {} /\ o.set # {}
  <2>1. /\ o.reg \in DOMAIN ResetRegs /\ o.clear \in SUBSET Ones /\ o.set \in SUBSET Ones
        /\ Harmless(o)
    BY <1>1 DEF SafeOps, Operations
  <2>2. PICK x : x = [op |-> "modify", reg |-> o.reg, clear |-> o.clear, set |-> {}]
    OBVIOUS
  <2>3. PICK y : y = [op |-> "modify", reg |-> o.reg, clear |-> {}, set |-> o.set]
    OBVIOUS
  <2>4. x \in SafeOps
    BY <1>1, <2>1, <2>2 DEF SafeOps, Operations, Harmless
  <2>5. y \in SafeOps
    BY <1>1, <2>1, <2>3 DEF SafeOps, Operations, Harmless
  <2>6. Halves(o) = <<x>> \o <<y>>
    BY <1>1, <2>2, <2>3 DEF Halves, And, Or, Modify
  <2>7. QED
    BY <2>4, <2>5, <2>6
<1>2. CASE ~ (o.op = "modify" /\ o.clear # {} /\ o.set # {})
  BY <1>2 DEF Halves
<1>3. QED
  BY <1>1, <1>2

LEMMA HalvesOf ==
  ASSUME NEW program \in Seq(SafeOps)
  PROVE  \E q \in Seq(Seq(SafeOps)) :
           /\ Len(q) = Len(program)
           /\ \A k \in 1 .. Len(program) : q[k] = Halves(program[k])
           /\ InTwoStores(program) = FlattenSeq(q)
<1>1. PICK q : q = [k \in DOMAIN program |-> Halves(program[k])]
  OBVIOUS
<1>2. DOMAIN program = 1 .. Len(program) /\ Len(program) \in Nat
      /\ \A k \in 1 .. Len(program) : program[k] \in SafeOps
  OBVIOUS
<1>3. \A k \in 1 .. Len(program) : q[k] = Halves(program[k])
  BY <1>1, <1>2
<1>4. PICK n, S : n = Len(program) /\ S = Seq(SafeOps)
  OBVIOUS
<1>5. n \in Nat /\ q = [k \in 1 .. n |-> q[k]] /\ \A k \in 1 .. n : q[k] \in S
  <2>1. q = [k \in 1 .. n |-> q[k]]
    BY <1>1, <1>2, <1>4
  <2>2. \A k \in 1 .. n : q[k] \in S
    BY <1>2, <1>3, <1>4, HalvesTyped
  <2>3. QED
    BY <1>2, <1>4, <2>1, <2>2
<1>6. q \in [1 .. n -> S]
  BY ONLY <1>5
<1>7. q \in Seq(S) /\ Len(q) = n
  BY ONLY <1>5, <1>6
<1>8. InTwoStores(program) = FlattenSeq(q)
  BY <1>1 DEF InTwoStores, Halves
<1>9. QED
  BY <1>3, <1>4, <1>7, <1>8

LEMMA TwoStoresTyped ==
  ASSUME NEW program \in Seq(SafeOps)
  PROVE  InTwoStores(program) \in Seq(SafeOps)
BY HalvesOf, FlattenTyped

LEMMA WordRanges ==
  /\ 0 .. 3 \in SUBSET Ones /\ 0 .. 4 \in SUBSET Ones /\ 0 .. 5 \in SUBSET Ones
  /\ 4 .. 11 \in SUBSET Ones /\ 12 .. 16 \in SUBSET Ones /\ 18 .. 23 \in SUBSET Ones
  /\ 24 .. 31 \in SUBSET Ones
  /\ {0} \in SUBSET Ones /\ {0, 1, 2} \in SUBSET Ones /\ {6} \in SUBSET Ones
  /\ {6, 7, 8} \in SUBSET Ones /\ {6, 7, 9} \in SUBSET Ones
  /\ {12, 15, 16} \in SUBSET Ones /\ {12, 13, 14, 15, 16} \in SUBSET Ones
  /\ {18, 19, 20, 21} \in SUBSET Ones /\ {18, 21, 22} \in SUBSET Ones
  /\ {24, 25, 26, 28} \in SUBSET Ones /\ {24, 28} \in SUBSET Ones
BY DEF Ones

LEMMA PollTyped ==
  ASSUME NEW p \in PLL
  PROVE  Poll(p, "calibrated") \in Seq(SafeOps) /\ Poll(p, "locked") \in Seq(SafeOps)
BY SafeOp

LEMMA StoreAndWaitTyped ==
  ASSUME NEW p \in PLL, NEW clear \in SUBSET Ones, NEW cal \in SUBSET Ones,
         NEW run \in SUBSET Ones
  PROVE  StoreAndWait(p, clear, cal, run) \in Seq(SafeOps)
<1>1. /\ Modify("pll_pwr_rst", clear, cal) \in Seq(SafeOps)
      /\ Modify("pll_pwr_rst", clear, run) \in Seq(SafeOps)
  BY SafeOp, NonShared
<1>2. \A x, t \in Seq(SafeOps) : x \o t \in Seq(SafeOps)
  BY SafeSequences
<1>3. QED
  BY <1>1, <1>2, PollTyped DEF StoreAndWait

(* The pieces of init_pll and of the two older forms.                      *)
LEMMA WordPieces ==
  ASSUME NEW S, S = Seq(SafeOps), NEW s
  PROVE  /\ Analogs \in S /\ AllClocksOn \in S
         /\ FixedPll \in S /\ SynthPll(s) \in S /\ BmePll \in S /\ GatewayPll \in S
         /\ DspPll \in S /\ WordsGatewayPll \in S
         /\ WordsFixedPll(0 .. 3) \in S /\ WordsFixedPll(0 .. 4) \in S
<1>1. \A x, t \in S : x \o t \in S
  BY SafeSequences
<1>2. PLL = {"fixed", "vcxo", "gateway", "bme", "dsp"}
  BY DEF PLL
<1>3. \A p \in PLL : Poll(p, "calibrated") \in S /\ Poll(p, "locked") \in S
  BY PollTyped
<1>4. \A c, w \in SUBSET Ones : Modify("pll_pwr_rst", c, w) \in S
  BY SafeOp, NonShared
<1>5. \A r \in DOMAIN ResetRegs \ Shared, w \in SUBSET Ones : Store(r, w) \in S
  BY SafeSequences
<1>6. \A h, l : /\ Store("pll_fixed_analog", Hex(h, l)) \in S
                /\ Store("pll_gateway_analog", Hex(h, l)) \in S
                /\ Store("pll_vcxo_analog", Hex(h, l)) \in S
                /\ Store("pll_bme_analog", Hex(h, l)) \in S
                /\ Store("pll_dsp_analog", Hex(h, l)) \in S
                /\ Store("pll_dsp_sigmadelta", Hex(h, l)) \in S
                /\ Store("pll_vcxo_sigmadelta", Hex(h, l)) \in S
                /\ Store("pll_post_divider3", Hex(h, l)) \in S
  BY <1>5, NonShared, HexTyped
<1>7. Analogs \in S /\ AllClocksOn \in S
  BY <1>1, <1>6 DEF Analogs, AllClocksOn
<1>8. \A p \in PLL, clear, cal, run \in SUBSET Ones : StoreAndWait(p, clear, cal, run) \in S
  BY StoreAndWaitTyped
<1>9. FixedPll \in S
  <2>1. /\ Modify("pll_pwr_rst", 0 .. 5, {0, 1, 2}) \in S
        /\ Modify("pll_pwr_rst", 0 .. 3, {0}) \in S
    BY <1>4, WordRanges
  <2>2. Poll("fixed", "calibrated") \in S /\ Poll("fixed", "locked") \in S
    BY <1>2, <1>3
  <2>3. QED
    BY <1>1, <2>1, <2>2 DEF FixedPll
<1>10. SynthPll(s) \in S
  <2>1. StoreAndWait("vcxo", 4 .. 11, {6, 7, 8}, {6}) \in S
    BY <1>2, <1>8, WordRanges
  <2>2. Modify("pll_pwr_rst", 4 .. 11, {6, 7, 9}) \in S
    BY <1>4, WordRanges
  <2>3. OpenCommonClock \in S
    BY SharedPieces
  <2>4. QED
    BY <1>1, <2>1, <2>2, <2>3 DEF SynthPll
<1>11. BmePll \in S
  BY <1>2, <1>8, WordRanges DEF BmePll
<1>12. GatewayPll \in S
  BY <1>2, <1>8, WordRanges DEF GatewayPll
<1>13. DspPll \in S
  BY <1>2, <1>8, WordRanges DEF DspPll
<1>14. WordsFixedPll(0 .. 3) \in S /\ WordsFixedPll(0 .. 4) \in S
  BY <1>2, <1>8, WordRanges DEF WordsFixedPll
<1>15. WordsGatewayPll \in S
  <2>1. /\ Modify("pll_pwr_rst", 12 .. 16, 12 .. 16) \in S
        /\ Modify("pll_pwr_rst", 12 .. 16, {12, 15, 16}) \in S
    BY <1>4, WordRanges
  <2>2. Poll("gateway", "calibrated") \in S /\ Poll("bme", "locked") \in S
    BY <1>2, <1>3
  <2>3. QED
    BY <1>1, <2>1, <2>2 DEF WordsGatewayPll
<1>16. QED
  BY <1>7, <1>9, <1>10, <1>11, <1>12, <1>13, <1>14, <1>15

(* A chain of eighteen pieces.                                             *)
LEMMA LongChain ==
  ASSUME NEW S, \A x, t \in S : x \o t \in S,
         NEW p1 \in S, NEW p2 \in S, NEW p3 \in S, NEW p4 \in S, NEW p5 \in S,
         NEW p6 \in S, NEW p7 \in S, NEW p8 \in S, NEW p9 \in S, NEW q1 \in S,
         NEW q2 \in S, NEW q3 \in S, NEW q4 \in S, NEW q5 \in S, NEW q6 \in S,
         NEW q7 \in S, NEW q8 \in S, NEW q9 \in S
  PROVE  p1 \o p2 \o p3 \o p4 \o p5 \o p6 \o p7 \o p8 \o p9
           \o q1 \o q2 \o q3 \o q4 \o q5 \o q6 \o q7 \o q8 \o q9 \in S
<1>1. p1 \o p2 \o p3 \o p4 \o p5 \in S
  OBVIOUS
<1>2. p1 \o p2 \o p3 \o p4 \o p5 \o p6 \o p7 \o p8 \o p9 \in S
  BY <1>1
<1>3. p1 \o p2 \o p3 \o p4 \o p5 \o p6 \o p7 \o p8 \o p9 \o q1 \o q2 \o q3 \o q4 \in S
  BY <1>2
<1>4. QED
  BY <1>3

LEMMA ProgramsTyped ==
  ASSUME NEW r \in AllRoutines, NEW c, NEW why, NEW uartboot, NEW s
  PROVE  ProgramOf(r, c, why, uartboot, s) \in Seq(SafeOps)
<1>1. PICK S : S = Seq(SafeOps)
  OBVIOUS
<1>2. /\ <<>> \in S /\ \A x, t \in S : x \o t \in S
      /\ Call("c_uart_init") \in S
      /\ \A q \in DOMAIN ResetRegs \ Shared, w \in SUBSET Ones : Store(q, w) \in S
  BY <1>1, SafeSequences
<1>3. /\ ClockAndReset \in S /\ ResetThreshold \in S
      /\ Divide400 \in S /\ Divide500 \in S /\ OpenCommonClock \in S
      /\ HostSource(c) \in S /\ Dividers(c) \in S
  BY <1>1, SharedPieces
<1>4. CASE r = "init_plls"
  <2>1. /\ init_pll0_fixed \in S /\ init_pll1_gateway \in S /\ init_pll2_vcxo(s) \in S
        /\ init_pll3_bme \in S /\ init_pll4_dsp \in S
    BY <1>1, PartPieces
  <2>2. init_plls(c, why, uartboot, s) \in S
    BY <1>2, <1>3, <2>1 DEF init_plls
  <2>3. QED
    BY <1>1, <1>4, <2>2 DEF ProgramOf
<1>5. /\ Analogs \in S /\ AllClocksOn \in S
      /\ FixedPll \in S /\ SynthPll(s) \in S /\ BmePll \in S /\ GatewayPll \in S
      /\ DspPll \in S /\ WordsGatewayPll \in S
      /\ WordsFixedPll(0 .. 3) \in S /\ WordsFixedPll(0 .. 4) \in S
  BY <1>1, WordPieces
<1>6. CASE r = "init_pll"
  <2>1. Or("rst_vec", {31}) \in S
    BY <1>1, SharedStores
  <2>2. init_pll(c, why, s) \in S
    BY <1>2, <1>3, <1>5, <2>1 DEF init_pll
  <2>3. QED
    BY <1>1, <1>6, <2>2 DEF ProgramOf
<1>7. \A x \in S : InTwoStores(x) \in S
  BY <1>1, TwoStoresTyped
<1>8. \A h, l : /\ Store("pll_fixed_analog", Hex(h, l)) \in S
                /\ Store("pll_gateway_analog", Hex(h, l)) \in S
                /\ Store("pll_vcxo_analog", Hex(h, l)) \in S
                /\ Store("pll_bme_analog", Hex(h, l)) \in S
                /\ Store("pll_dsp_analog", Hex(h, l)) \in S
                /\ Store("pll_dsp_sigmadelta", Hex(h, l)) \in S
                /\ Store("pll_vcxo_sigmadelta", Hex(h, l)) \in S
  BY <1>2, NonShared, HexTyped
<1>9. CASE r = "init_plls_words"
  <2>1. InTwoStores(WordsFixedPll(0 .. 3) \o SynthPll(s) \o BmePll
                      \o WordsGatewayPll \o Call("c_uart_init") \o DspPll) \in S
    BY <1>2, <1>5, <1>7
  <2>2. init_plls_words(c, why, s) \in S
    BY <1>2, <1>3, <1>5, <1>8, <2>1 DEF init_plls_words
  <2>3. QED
    BY <1>1, <1>9, <2>2 DEF ProgramOf
<1>10. CASE r = "init_plls_parts"
  <2>1. /\ InTwoStores(WordsFixedPll(0 .. 4)) \in S /\ InTwoStores(WordsGatewayPll) \in S
        /\ InTwoStores(SynthPll(s)) \in S /\ InTwoStores(BmePll) \in S
        /\ InTwoStores(DspPll) \in S
    BY <1>5, <1>7
  <2>2. /\ Store("pll_fixed_analog", Hex(\h003F, \hC442)) \in S
        /\ Store("pll_gateway_analog", Hex(\h002C, \hC642)) \in S
        /\ Store("pll_vcxo_analog", Hex(\h001C, \hCA88)) \in S
        /\ Store("pll_vcxo_sigmadelta", Hex(\h0016, \h54D6)) \in S
        /\ Store("pll_bme_analog", Hex(\h002C, \hC642)) \in S
        /\ Store("pll_dsp_analog", Hex(\h0026, \hCE20)) \in S
        /\ Store("pll_dsp_sigmadelta", Hex(\h0001, \h2B52)) \in S
    BY <1>8
  <2>3. <<>> \in S /\ \A x, t \in S : x \o t \in S
    BY <1>2
  <2>4. CASE why = "soft"
    <3>1. init_plls_parts(c, why, s) = <<>>
      BY <2>4 DEF init_plls_parts
    <3>2. QED
      BY <1>1, <1>10, <2>3, <3>1 DEF ProgramOf
  <2>5. CASE why # "soft"
    <3>1. init_plls_parts(c, why, s) \in S
      BY <1>3, <1>5, <2>1, <2>2, <2>3, <2>5, LongChain DEF init_plls_parts
    <3>2. QED
      BY <1>1, <1>10, <3>1 DEF ProgramOf
  <2>6. QED
    BY <2>4, <2>5
<1>11. QED
  BY <1>4, <1>6, <1>9, <1>10 DEF AllRoutines

-----------------------------------------------------------------------------
(* The control register is stored to only when its mask is closed but for  *)
(* the loader's own bits: a program comes from "any" mask to "own".        *)
NoControl ==
  {o \in SafeOps : o.op \in {"store", "modify"} => o.reg # "cpu_ctl"}

MaskStores == {[op |-> "store", reg |-> "cpu_ctl_mask", word |-> w] :
                 w \in {v \in SUBSET Ones : NotItsOwn \subseteq v}}

ControlSteps ==
  ({"any"} \X NoControl \X {"any"}) \cup ({"any"} \X MaskStores \X {"own"})
    \cup ({"own"} \X SafeOps \X {"own"})

Controlled(s) == s \in Seq(SafeOps) /\ Walks(ControlSteps, "any", s, "own")

LEMMA ControlledThen ==
  ASSUME NEW s, Controlled(s), NEW t \in Seq(SafeOps)
  PROVE  Controlled(s \o t)
<1>1. Walks(ControlSteps, "own", t, "own")
  BY WalkStays DEF ControlSteps
<1>2. Walks(ControlSteps, "any", s \o t, "own")
  BY <1>1, WalkJoin DEF Controlled
<1>3. s \o t \in Seq(SafeOps)
  BY DEF Controlled
<1>4. QED
  BY <1>2, <1>3 DEF Controlled

LEMMA ThenControlled ==
  ASSUME NEW s \in Seq(NoControl), NEW t, Controlled(t)
  PROVE  Controlled(s \o t)
<1>1. Walks(ControlSteps, "any", s, "any")
  BY WalkStays DEF ControlSteps
<1>2. s \in Seq(SafeOps)
  BY DEF NoControl
<1>3. Walks(ControlSteps, "any", s \o t, "own")
  BY <1>1, <1>2, WalkJoin DEF Controlled
<1>4. s \o t \in Seq(SafeOps)
  BY <1>2 DEF Controlled
<1>5. QED
  BY <1>3, <1>4 DEF Controlled

LEMMA StoreNoControl ==
  ASSUME NEW r \in DOMAIN ResetRegs \ (Shared \cup {"cpu_ctl"}), NEW w \in SUBSET Ones
  PROVE  Store(r, w) \in Seq(NoControl)
<1>1. [op |-> "store", reg |-> r, word |-> w] \in SafeOps
  BY DEF SafeOps, Operations, Harmless, Shared
<1>2. [op |-> "store", reg |-> r, word |-> w] \in NoControl
  BY <1>1 DEF NoControl
<1>3. QED
  BY <1>2 DEF Store

LEMMA ClockAndResetControlled == Controlled(ClockAndReset)
<1>1. Hex(\hFFFC, \hFEFF) \in SUBSET Ones /\ NotItsOwn \subseteq Hex(\hFFFC, \hFEFF)
  BY HexBits, HexTyped DEF NotItsOwn, Ones, GIGE2_XMII, AMC_CS0_MAP, VCXO_COMMON_CLOCK
<1>2. Store("cpu_ctl_mask", Hex(\hFFFC, \hFEFF)) \in Seq(SafeOps)
  BY SharedStores
<1>3. Controlled(Store("cpu_ctl_mask", Hex(\hFFFC, \hFEFF)))
  <2>1. PICK w : w = Hex(\hFFFC, \hFEFF)
    OBVIOUS
  <2>2. <<"any", [op |-> "store", reg |-> "cpu_ctl_mask", word |-> w], "own">>
          \in ControlSteps
    BY <1>1, <2>1 DEF ControlSteps, MaskStores
  <2>3. QED
    BY <1>2, <2>1, <2>2, WalkOne DEF Controlled, Store
<1>4. /\ Store("cpu_ctl", Hex(\h0002, \h0100)) \in Seq(SafeOps)
      /\ Store("cpu_ctl_mask", Ones) \in Seq(SafeOps)
      /\ Store("rst_mask", Hex(\hC7DC, \hF370)) \in Seq(SafeOps)
      /\ Store("clkgate", Hex(\h08FF, \hFFFC)) \in Seq(SafeOps)
      /\ Store("rst_vec", Hex(\h1823, \h0C8F)) \in Seq(SafeOps)
  <2>1. "cpu_ctl" \in DOMAIN ResetRegs \ Shared /\ "rst_mask" \in DOMAIN ResetRegs \ Shared
    BY RegisterNames DEF Shared
  <2>2. /\ Store("cpu_ctl", Hex(\h0002, \h0100)) \in Seq(SafeOps)
        /\ Store("rst_mask", Hex(\hC7DC, \hF370)) \in Seq(SafeOps)
    BY <2>1, SafeOp, HexTyped
  <2>3. Store("clkgate", Hex(\h08FF, \hFFFC)) \in Seq(SafeOps)
    BY SharedStores
  <2>4. Store("rst_vec", Hex(\h1823, \h0C8F)) \in Seq(SafeOps)
    BY SharedStores
  <2>5. Store("cpu_ctl_mask", Ones) \in Seq(SafeOps)
    BY SharedStores
  <2>6. QED
    BY <2>2, <2>3, <2>4, <2>5
<1>5. Store("bme_map0", Hex(\hAF80, \h0000)) \in Seq(NoControl)
  BY StoreNoControl, HexTyped, RegisterNames DEF Shared
<1>6. Controlled(Store("bme_map0", Hex(\hAF80, \h0000))
                   \o Store("cpu_ctl_mask", Hex(\hFFFC, \hFEFF)))
  BY <1>3, <1>5, ThenControlled
<1>7. Controlled(Store("bme_map0", Hex(\hAF80, \h0000))
                   \o Store("cpu_ctl_mask", Hex(\hFFFC, \hFEFF))
                   \o Store("cpu_ctl", Hex(\h0002, \h0100))
                   \o Store("cpu_ctl_mask", Ones))
  BY <1>4, <1>6, ControlledThen
<1>8. QED
  BY <1>4, <1>7, ControlledThen DEF ClockAndReset

LEMMA ProgramsControlled ==
  ASSUME NEW r \in AllRoutines, NEW c, NEW why, NEW uartboot, NEW s
  PROVE  \/ Controlled(ProgramOf(r, c, why, uartboot, s))
         \/ ProgramOf(r, c, why, uartboot, s) = <<>>
<1>1. PICK S : S = Seq(SafeOps)
  OBVIOUS
<1>2. /\ <<>> \in S /\ \A x, t \in S : x \o t \in S
      /\ Call("c_uart_init") \in S
      /\ \A q \in DOMAIN ResetRegs \ Shared, w \in SUBSET Ones : Store(q, w) \in S
  BY <1>1, SafeSequences
<1>3. /\ ClockAndReset \in S /\ ResetThreshold \in S
      /\ Divide400 \in S /\ Divide500 \in S /\ OpenCommonClock \in S
      /\ HostSource(c) \in S /\ Dividers(c) \in S
  BY <1>1, SharedPieces
<1>4. /\ Analogs \in S /\ AllClocksOn \in S
      /\ FixedPll \in S /\ SynthPll(s) \in S /\ BmePll \in S /\ GatewayPll \in S
      /\ DspPll \in S /\ WordsGatewayPll \in S
      /\ WordsFixedPll(0 .. 3) \in S /\ WordsFixedPll(0 .. 4) \in S
  BY <1>1, WordPieces
<1>5. \A x \in S : InTwoStores(x) \in S
  BY <1>1, TwoStoresTyped
<1>6. \A h, l : /\ Store("pll_fixed_analog", Hex(h, l)) \in S
                /\ Store("pll_gateway_analog", Hex(h, l)) \in S
                /\ Store("pll_vcxo_analog", Hex(h, l)) \in S
                /\ Store("pll_bme_analog", Hex(h, l)) \in S
                /\ Store("pll_dsp_analog", Hex(h, l)) \in S
                /\ Store("pll_dsp_sigmadelta", Hex(h, l)) \in S
                /\ Store("pll_vcxo_sigmadelta", Hex(h, l)) \in S
  BY <1>2, NonShared, HexTyped
<1>7. Controlled(ClockAndReset \o ResetThreshold)
  BY <1>1, <1>3, ClockAndResetControlled, ControlledThen
<1>8. \A x, t : Controlled(x) /\ t \in S => Controlled(x \o t)
  BY <1>1, ControlledThen
<1>9. CASE r = "init_plls"
  <2>1. /\ init_pll0_fixed \in S /\ init_pll1_gateway \in S /\ init_pll2_vcxo(s) \in S
        /\ init_pll3_bme \in S /\ init_pll4_dsp \in S
    BY <1>1, PartPieces
  <2>2. Controlled(init_plls(c, why, uartboot, s))
    <3>1. (IF uartboot THEN <<>> ELSE init_pll2_vcxo(s) \o init_pll3_bme \o init_pll4_dsp)
             \in S
      BY <1>2, <2>1
    <3>2. HostSource(c) \o Dividers(c) \o init_pll0_fixed \o init_pll1_gateway
            \o (IF uartboot
                THEN <<>>
                ELSE init_pll2_vcxo(s) \o init_pll3_bme \o init_pll4_dsp) \in S
      BY <1>2, <1>3, <2>1, <3>1
    <3>3. QED
      BY <1>2, <1>7, <1>8, <3>2 DEF init_plls
  <2>3. QED
    BY <1>9, <2>2 DEF ProgramOf
<1>10. CASE r = "init_pll"
  <2>1. Or("rst_vec", {31}) \in S
    BY <1>1, SharedStores
  <2>2. (IF c = 0 THEN Divide500 ELSE Divide400)
          \o Analogs \o FixedPll \o SynthPll(s) \o BmePll \o GatewayPll \o DspPll \in S
    BY <1>2, <1>3, <1>4
  <2>3. Controlled(init_pll(c, why, s))
    BY <1>2, <1>7, <1>8, <2>1, <2>2 DEF init_pll
  <2>4. QED
    BY <1>10, <2>3 DEF ProgramOf
<1>11. CASE r = "init_plls_words"
  <2>1. InTwoStores(WordsFixedPll(0 .. 3) \o SynthPll(s) \o BmePll
                      \o WordsGatewayPll \o Call("c_uart_init") \o DspPll) \in S
    BY <1>2, <1>4, <1>5
  <2>3. CASE why = "soft"
    BY <1>2, <1>7, <1>8, <1>11, <2>3 DEF init_plls_words, ProgramOf
  <2>4. CASE why # "soft"
    <3>1. Controlled(init_plls_words(c, why, s))
      <4>1. /\ Store("pll_fixed_analog", Hex(\h003F, \hC442)) \in S
            /\ Store("pll_vcxo_analog", Hex(\h001C, \hCA88)) \in S
            /\ Store("pll_gateway_analog", Hex(\h002C, \hC642)) \in S
            /\ Store("pll_dsp_analog", Hex(\h0026, \hCE20)) \in S
            /\ Store("pll_bme_analog", Hex(\h002C, \hC642)) \in S
            /\ Store("pll_dsp_sigmadelta", Hex(\h0001, \h2B52)) \in S
            /\ Store("pll_vcxo_sigmadelta", Hex(\h0016, \h54D6)) \in S
        BY <1>6
      <4>2. Store("pll_fixed_analog", Hex(\h003F, \hC442))
              \o Store("pll_vcxo_analog", Hex(\h001C, \hCA88))
              \o Store("pll_gateway_analog", Hex(\h002C, \hC642))
              \o Store("pll_dsp_analog", Hex(\h0026, \hCE20))
              \o Store("pll_bme_analog", Hex(\h002C, \hC642))
              \o Dividers(c)
              \o Store("pll_dsp_sigmadelta", Hex(\h0001, \h2B52))
              \o Store("pll_vcxo_sigmadelta", Hex(\h0016, \h54D6))
              \o AllClocksOn
              \o InTwoStores(WordsFixedPll(0 .. 3) \o SynthPll(s) \o BmePll
                   \o WordsGatewayPll \o Call("c_uart_init") \o DspPll) \in S
        BY <1>2, <1>3, <1>4, <2>1, <4>1
      <4>3. QED
        BY <1>7, <1>8, <2>4, <4>2 DEF init_plls_words
    <3>2. QED
      BY <1>11, <3>1 DEF ProgramOf
  <2>5. QED
    BY <2>3, <2>4
<1>12. CASE r = "init_plls_parts"
  <2>1. /\ InTwoStores(WordsFixedPll(0 .. 4)) \in S /\ InTwoStores(WordsGatewayPll) \in S
        /\ InTwoStores(SynthPll(s)) \in S /\ InTwoStores(BmePll) \in S
        /\ InTwoStores(DspPll) \in S
    BY <1>4, <1>5
  <2>2. /\ Store("pll_fixed_analog", Hex(\h003F, \hC442)) \in S
        /\ Store("pll_gateway_analog", Hex(\h002C, \hC642)) \in S
        /\ Store("pll_vcxo_analog", Hex(\h001C, \hCA88)) \in S
        /\ Store("pll_vcxo_sigmadelta", Hex(\h0016, \h54D6)) \in S
        /\ Store("pll_bme_analog", Hex(\h002C, \hC642)) \in S
        /\ Store("pll_dsp_analog", Hex(\h0026, \hCE20)) \in S
        /\ Store("pll_dsp_sigmadelta", Hex(\h0001, \h2B52)) \in S
    BY <1>6
  <2>3. Controlled(ResetThreshold \o HostSource(c) \o ClockAndReset)
    <3>1. ResetThreshold \in Seq(NoControl)
      <4>1. "por_status" \in DOMAIN ResetRegs \ (Shared \cup {"cpu_ctl"})
        BY RegisterNames DEF Shared
      <4>2. {5} \in SUBSET Ones
        BY DEF Ones
      <4>3. QED
        BY <4>1, <4>2, StoreNoControl DEF ResetThreshold
    <3>2. HostSource(c) \in Seq(NoControl)
      <4>1. "spare0" \in DOMAIN ResetRegs \ (Shared \cup {"cpu_ctl"})
        BY RegisterNames DEF Shared
      <4>2. Store("spare0", Hex(\h0000, \h4009)) \in Seq(NoControl)
        BY <4>1, HexTyped, StoreNoControl
      <4>3. <<>> \in Seq(NoControl)
        OBVIOUS
      <4>4. QED
        BY <4>2, <4>3 DEF HostSource
    <3>3. ResetThreshold \o HostSource(c) \in Seq(NoControl)
      <4>1. \A x, t \in Seq(NoControl) : x \o t \in Seq(NoControl)
        OBVIOUS
      <4>2. QED
        BY <3>1, <3>2, <4>1
    <3>4. QED
      BY <3>3, ClockAndResetControlled, ThenControlled
  <2>4. CASE why = "soft"
    BY <1>12, <2>4 DEF init_plls_parts, ProgramOf
  <2>5. CASE why # "soft"
    <3>1. Controlled(ResetThreshold \o HostSource(c) \o ClockAndReset \o Dividers(c)
                       \o Store("pll_fixed_analog", Hex(\h003F, \hC442))
                       \o InTwoStores(WordsFixedPll(0 .. 4)))
      BY <1>3, <1>8, <2>1, <2>2, <2>3
    <3>2. Controlled(ResetThreshold \o HostSource(c) \o ClockAndReset \o Dividers(c)
                       \o Store("pll_fixed_analog", Hex(\h003F, \hC442))
                       \o InTwoStores(WordsFixedPll(0 .. 4))
                       \o Store("pll_gateway_analog", Hex(\h002C, \hC642))
                       \o AllClocksOn
                       \o InTwoStores(WordsGatewayPll)
                       \o Store("pll_vcxo_analog", Hex(\h001C, \hCA88))
                       \o Store("pll_vcxo_sigmadelta", Hex(\h0016, \h54D6))
                       \o InTwoStores(SynthPll(s)))
      BY <1>4, <1>8, <2>1, <2>2, <3>1
    <3>3. QED
      BY <1>4, <1>8, <1>12, <2>1, <2>2, <2>5, <3>2 DEF init_plls_parts, ProgramOf
  <2>6. QED
    BY <2>4, <2>5
<1>13. QED
  BY <1>9, <1>10, <1>11, <1>12 DEF AllRoutines

-----------------------------------------------------------------------------
(* What the steps of a routine keep of the registers.                      *)
RegsSafe(r) ==
  /\ r \in [DOMAIN ResetRegs -> SUBSET Ones]
  /\ Clocked \subseteq r.clkgate
  /\ r.rst_vec \cap Units \subseteq Clocked

MaskAt(x, r) == x = "own" => NotItsOwn \subseteq r.cpu_ctl_mask

LEMMA EffectSafe ==
  ASSUME NEW r, RegsSafe(r), NEW o \in SafeOps
  PROVE  RegsSafe(Effect(r, o))
<1>1. {"clkgate", "rst_vec", "cpu_ctl", "cpu_ctl_mask", "rst_mask"} \subseteq DOMAIN ResetRegs
  BY RegisterNames
<1>2. r \in [DOMAIN ResetRegs -> SUBSET Ones]
  BY DEF RegsSafe
<1>3. CASE o.op = "store"
  <2>1. o.reg \in DOMAIN ResetRegs /\ o.word \in SUBSET Ones
    BY <1>3 DEF SafeOps, Operations
  <2>2. Effect(r, o) = [r EXCEPT ![o.reg] = Masked(r, o.reg, o.word)]
    BY <1>3 DEF Effect
  <2>3. Masked(r, o.reg, o.word) \in SUBSET Ones
    BY <1>1, <1>2, <2>1 DEF Masked
  <2>4. Effect(r, o) \in [DOMAIN ResetRegs -> SUBSET Ones]
    BY <1>2, <2>1, <2>2, <2>3
  <2>5. Clocked \subseteq Effect(r, o).clkgate
    <3>1. CASE o.reg = "clkgate"
      <4>1. Clocked \subseteq o.word
        BY <1>3, <3>1 DEF SafeOps, Harmless
      <4>2. Effect(r, o).clkgate = o.word
        BY <1>1, <1>2, <2>2, <3>1 DEF Masked
      <4>3. QED
        BY <4>1, <4>2
    <3>2. CASE o.reg # "clkgate"
      BY <1>1, <1>2, <2>2, <3>2 DEF RegsSafe
    <3>3. QED
      BY <3>1, <3>2
  <2>6. Effect(r, o).rst_vec \cap Units \subseteq Clocked
    <3>1. CASE o.reg = "rst_vec"
      <4>1. o.word \cap Units \subseteq Clocked
        BY <1>3, <3>1 DEF SafeOps, Harmless
      <4>2. Effect(r, o).rst_vec = (r.rst_vec \cap r.rst_mask) \cup (o.word \ r.rst_mask)
        BY <1>1, <1>2, <2>2, <3>1 DEF Masked
      <4>3. QED
        BY <4>1, <4>2 DEF RegsSafe
    <3>2. CASE o.reg # "rst_vec"
      BY <1>1, <1>2, <2>2, <3>2 DEF RegsSafe
    <3>3. QED
      BY <3>1, <3>2
  <2>7. QED
    BY <2>4, <2>5, <2>6 DEF RegsSafe
<1>4. CASE o.op = "modify"
  <2>1. o.reg \in DOMAIN ResetRegs /\ o.clear \in SUBSET Ones /\ o.set \in SUBSET Ones
    BY <1>4 DEF SafeOps, Operations
  <2>2. Effect(r, o) = [r EXCEPT ![o.reg] =
                          Masked(r, o.reg, (r[o.reg] \ o.clear) \cup o.set)]
    BY <1>4 DEF Effect
  <2>3. Masked(r, o.reg, (r[o.reg] \ o.clear) \cup o.set) \in SUBSET Ones
    <3>1. (r[o.reg] \ o.clear) \cup o.set \in SUBSET Ones
      BY <1>2, <2>1
    <3>2. QED
      BY <1>1, <1>2, <2>1, <3>1 DEF Masked
  <2>4. Effect(r, o) \in [DOMAIN ResetRegs -> SUBSET Ones]
    BY <1>2, <2>1, <2>2, <2>3
  <2>5. Clocked \subseteq Effect(r, o).clkgate
    <3>1. CASE o.reg = "clkgate"
      <4>1. o.clear \cap Clocked = {}
        BY <1>4, <3>1 DEF SafeOps, Harmless
      <4>2. Effect(r, o).clkgate = (r.clkgate \ o.clear) \cup o.set
        BY <1>1, <1>2, <2>2, <3>1 DEF Masked
      <4>3. QED
        BY <4>1, <4>2 DEF RegsSafe
    <3>2. CASE o.reg # "clkgate"
      BY <1>1, <1>2, <2>2, <3>2 DEF RegsSafe
    <3>3. QED
      BY <3>1, <3>2
  <2>6. Effect(r, o).rst_vec \cap Units \subseteq Clocked
    <3>1. CASE o.reg = "rst_vec"
      <4>1. o.set \cap Units \subseteq Clocked
        BY <1>4, <3>1 DEF SafeOps, Harmless
      <4>2. Effect(r, o).rst_vec = (r.rst_vec \cap r.rst_mask)
                                     \cup (((r.rst_vec \ o.clear) \cup o.set) \ r.rst_mask)
        BY <1>1, <1>2, <2>2, <3>1 DEF Masked
      <4>3. QED
        BY <4>1, <4>2 DEF RegsSafe
    <3>2. CASE o.reg # "rst_vec"
      BY <1>1, <1>2, <2>2, <3>2 DEF RegsSafe
    <3>3. QED
      BY <3>1, <3>2
  <2>7. QED
    BY <2>4, <2>5, <2>6 DEF RegsSafe
<1>5. CASE o.op \notin {"store", "modify"}
  BY <1>5 DEF Effect
<1>6. QED
  BY <1>3, <1>4, <1>5

(* The mask of the control register, and what it keeps.                    *)
LEMMA StepControlled ==
  ASSUME NEW x, NEW o, NEW y, NEW r, <<x, o, y>> \in ControlSteps,
         RegsSafe(r), MaskAt(x, r)
  PROVE  /\ o \in SafeOps
         /\ y \in {"any", "own"}
         /\ MaskAt(y, Effect(r, o))
         /\ Effect(r, o).cpu_ctl \cap NotItsOwn = r.cpu_ctl \cap NotItsOwn
<1>1. {"cpu_ctl", "cpu_ctl_mask"} \subseteq DOMAIN ResetRegs
  BY RegisterNames
<1>2. r \in [DOMAIN ResetRegs -> SUBSET Ones]
  BY DEF RegsSafe
<1>3. CASE x = "any" /\ o \in NoControl /\ y = "any"
  <2>1. o \in SafeOps /\ (o.op \in {"store", "modify"} => o.reg # "cpu_ctl")
    BY <1>3 DEF NoControl
  <2>2. Effect(r, o).cpu_ctl = r.cpu_ctl
    BY <1>1, <1>2, <2>1 DEF Effect
  <2>3. MaskAt(y, Effect(r, o))
    BY <1>3 DEF MaskAt
  <2>4. QED
    BY <1>3, <2>1, <2>2, <2>3
<1>4. CASE x = "any" /\ o \in MaskStores /\ y = "own"
  <2>1. PICK w \in SUBSET Ones :
          /\ o = [op |-> "store", reg |-> "cpu_ctl_mask", word |-> w]
          /\ NotItsOwn \subseteq w
    BY <1>4 DEF MaskStores
  <2>2. o \in SafeOps
    BY <1>1, <2>1 DEF SafeOps, Operations, Harmless
  <2>3. Effect(r, o) = [r EXCEPT !["cpu_ctl_mask"] = w]
    BY <2>1 DEF Effect, Masked
  <2>4. Effect(r, o).cpu_ctl = r.cpu_ctl /\ Effect(r, o).cpu_ctl_mask = w
    BY <1>1, <1>2, <2>3
  <2>5. QED
    BY <1>4, <2>1, <2>2, <2>4 DEF MaskAt
<1>5. CASE x = "own" /\ o \in SafeOps /\ y = "own"
  <2>1. NotItsOwn \subseteq r.cpu_ctl_mask
    BY <1>5 DEF MaskAt
  <2>2. CASE o.op = "store"
    <3>1. Effect(r, o) = [r EXCEPT ![o.reg] = Masked(r, o.reg, o.word)]
      BY <2>2 DEF Effect
    <3>2. CASE o.reg = "cpu_ctl"
      <4>1. Effect(r, o).cpu_ctl = (r.cpu_ctl \cap r.cpu_ctl_mask)
                                     \cup (o.word \ r.cpu_ctl_mask)
        BY <1>1, <1>2, <3>1, <3>2 DEF Masked
      <4>2. Effect(r, o).cpu_ctl_mask = r.cpu_ctl_mask
        BY <1>1, <1>2, <3>1, <3>2
      <4>3. QED
        BY <1>5, <2>1, <4>1, <4>2 DEF MaskAt
    <3>3. CASE o.reg = "cpu_ctl_mask"
      <4>1. NotItsOwn \subseteq o.word
        BY <1>5, <2>2, <3>3 DEF SafeOps, Harmless
      <4>2. Effect(r, o).cpu_ctl_mask = o.word /\ Effect(r, o).cpu_ctl = r.cpu_ctl
        BY <1>1, <1>2, <3>1, <3>3 DEF Masked
      <4>3. QED
        BY <1>5, <4>1, <4>2 DEF MaskAt
    <3>4. CASE o.reg \notin {"cpu_ctl", "cpu_ctl_mask"}
      <4>1. /\ Effect(r, o).cpu_ctl_mask = r.cpu_ctl_mask
            /\ Effect(r, o).cpu_ctl = r.cpu_ctl
        BY <1>1, <1>2, <3>1, <3>4
      <4>2. QED
        BY <1>5, <2>1, <4>1 DEF MaskAt
    <3>5. QED
      BY <3>2, <3>3, <3>4
  <2>3. CASE o.op = "modify"
    <3>1. Effect(r, o) = [r EXCEPT ![o.reg] =
                            Masked(r, o.reg, (r[o.reg] \ o.clear) \cup o.set)]
      BY <2>3 DEF Effect
    <3>2. CASE o.reg = "cpu_ctl"
      <4>1. Effect(r, o).cpu_ctl = (r.cpu_ctl \cap r.cpu_ctl_mask)
                \cup (((r.cpu_ctl \ o.clear) \cup o.set) \ r.cpu_ctl_mask)
        BY <1>1, <1>2, <3>1, <3>2 DEF Masked
      <4>2. Effect(r, o).cpu_ctl_mask = r.cpu_ctl_mask
        BY <1>1, <1>2, <3>1, <3>2
      <4>3. QED
        BY <1>5, <2>1, <4>1, <4>2 DEF MaskAt
    <3>3. CASE o.reg = "cpu_ctl_mask"
      <4>1. o.clear \cap NotItsOwn = {}
        BY <1>5, <2>3, <3>3 DEF SafeOps, Harmless
      <4>2. /\ Effect(r, o).cpu_ctl_mask = (r.cpu_ctl_mask \ o.clear) \cup o.set
            /\ Effect(r, o).cpu_ctl = r.cpu_ctl
        BY <1>1, <1>2, <3>1, <3>3 DEF Masked
      <4>3. QED
        BY <1>5, <2>1, <4>1, <4>2 DEF MaskAt
    <3>4. CASE o.reg \notin {"cpu_ctl", "cpu_ctl_mask"}
      <4>1. /\ Effect(r, o).cpu_ctl_mask = r.cpu_ctl_mask
            /\ Effect(r, o).cpu_ctl = r.cpu_ctl
        BY <1>1, <1>2, <3>1, <3>4
      <4>2. QED
        BY <1>5, <2>1, <4>1 DEF MaskAt
    <3>5. QED
      BY <3>2, <3>3, <3>4
  <2>4. CASE o.op \notin {"store", "modify"}
    BY <1>5, <2>1, <2>4 DEF Effect, MaskAt
  <2>5. QED
    BY <2>2, <2>3, <2>4
<1>6. QED
  BY <1>3, <1>4, <1>5 DEF ControlSteps

LEMMA ResetSafe == RegsSafe(ResetRegs)
<1>1. Clocked \subseteq ResetRegs.clkgate
  <2>1. PICK w : w = Hex(\h0FFF, \hFFFC)
    OBVIOUS
  <2>2. Clocked \subseteq w
    BY <2>1, HexBits DEF Clocked
  <2>3. QED
    BY <2>1, <2>2 DEF ResetRegs
<1>2. ResetRegs.rst_vec \cap Units \subseteq Clocked
  BY UnitBits DEF ResetRegs
<1>3. ResetRegs \in [DOMAIN ResetRegs -> SUBSET Ones]
  <2>1. Ones \in SUBSET Ones /\ {0, 1} \in SUBSET Ones /\ {} \in SUBSET Ones
    BY DEF Ones
  <2>2. \A q \in DOMAIN ResetRegs : ResetRegs[q] \in SUBSET Ones
    BY <2>1, HexTyped DEF ResetRegs
  <2>3. ResetRegs = [q \in DOMAIN ResetRegs |-> ResetRegs[q]]
    BY DEF ResetRegs
  <2>4. QED
    BY <2>2, <2>3
<1>4. QED
  BY <1>1, <1>2, <1>3 DEF RegsSafe

(* So after the whole of a program.                                        *)
LEMMA LeftSafe ==
  ASSUME NEW r \in AllRoutines, NEW c, NEW u, NEW s
  PROVE  RegsSafe(LeftBy(r, c, u, s))
<1> DEFINE Kept == {z \in {"any", "own"} \X [DOMAIN ResetRegs -> SUBSET Ones] :
                      RegsSafe(z[2]) /\ MaskAt(z[1], z[2])}
           program == ProgramOf(r, c, "power", u, s)
<1>1. RegsSafe(LeftAfter(ResetRegs, program))
  <2>1. CASE program = <<>>
    <3>1. LeftAfter(ResetRegs, <<>>) = ResetRegs
      <4>1. <<>> \in Seq({}) /\ Len(<<>>) = 0
        OBVIOUS
      <4>2. PICK none, start : none = <<>> /\ start = ResetRegs
        OBVIOUS
      <4>3. none \in Seq({})
        BY <4>1, <4>2
      <4>4. PICK f : f[0] = start /\ LeftAfter(start, none) = f[Len(none)]
        BY <4>3, EffectSteps
      <4>5. Len(none) = 0
        BY <4>1, <4>2
      <4>6. QED
        BY <4>2, <4>4, <4>5
    <3>2. QED
      BY <2>1, <3>1, ResetSafe
  <2>2. CASE Controlled(program)
    <3>1. program \in Seq(SafeOps) /\ Walks(ControlSteps, "any", program, "own")
      BY <2>2 DEF Controlled
    <3>2. <<"any", ResetRegs>> \in Kept
      BY ResetSafe DEF MaskAt, RegsSafe
    <3>3. ASSUME NEW x, NEW o, NEW y, NEW q, <<x, o, y>> \in ControlSteps, <<x, q>> \in Kept
          PROVE  <<y, Effect(q, o)>> \in Kept
      <4>1. RegsSafe(q) /\ MaskAt(x, q)
        BY <3>3
      <4>2. o \in SafeOps /\ y \in {"any", "own"} /\ MaskAt(y, Effect(q, o))
        BY <3>3, <4>1, StepControlled
      <4>3. RegsSafe(Effect(q, o))
        BY <4>1, <4>2, EffectSafe
      <4>4. QED
        BY <4>2, <4>3 DEF RegsSafe
    <3> HIDE DEF Kept, program
    <3>4. <<"own", LeftAfter(ResetRegs, program)>> \in Kept
      BY <3>1, <3>2, <3>3, WalkLeaves
    <3>5. QED
      BY <3>4 DEF Kept
  <2>3. QED
    BY <2>1, <2>2, ProgramsControlled
<1>2. PICK left : left = LeftAfter(ResetRegs, program)
  OBVIOUS
<1>3. LeftBy(r, c, u, s) = [reg \in DOMAIN ResetRegs |-> left[reg]]
  BY <1>2 DEF LeftBy, LeftAfter
<1>4. LeftBy(r, c, u, s) = left
  BY <1>1, <1>2, <1>3 DEF RegsSafe
<1>5. QED
  BY <1>1, <1>2, <1>4

(* The memory set-up resets its controller only.                           *)
LEMMA ScuAccess ==
  ASSUME SetUpInv, AccessScu
  PROVE  /\ Accesses[at] \in NoControl
         /\ Accesses[at].reg \in {"rst_mask", "clkgate", "rst_vec"}
<1>1. PICK o : o = Accesses[at]
  OBVIOUS
<1>2. /\ at <= Len(Accesses) /\ o.op \in {"store", "modify"} /\ o.reg \in DOMAIN ResetRegs
  <2>1. ~ (at > Len(Accesses)) /\ o.op \in {"store", "modify"} /\ o.reg \in DOMAIN regs
    BY <1>1 DEF AccessScu, Doing, Done
  <2>2. DOMAIN regs = DOMAIN ResetRegs /\ at \in Nat
    BY DEF SetUpInv
  <2>3. Len(Accesses) \in Nat
    <3>1. CASE dram = "try" /\ Fits
      BY <3>1, NextAccess
    <3>2. CASE dram = "scl"
      <4>1. Accesses = Calibrating
        BY <3>2 DEF Accesses
      <4>2. QED
        BY <4>1, CalibrationShape
    <3>3. CASE ~ (dram = "try" /\ Fits) /\ dram # "scl"
      <4>1. Accesses = <<>>
        BY <3>3 DEF Accesses
      <4>2. QED
        BY <4>1
    <3>4. QED
      BY <3>1, <3>2, <3>3
  <2>4. QED
    BY <2>1, <2>2, <2>3
<1>3. CASE dram = "scl"
  <2>1. Accesses = Calibrating /\ at \in 1 .. 4
    <3>1. Accesses = Calibrating
      BY <1>3 DEF Accesses
    <3>2. at \in Nat \ {0} /\ at <= 4
      BY <1>2, <3>1, CalibrationShape DEF SetUpInv
    <3>3. QED
      BY <3>1, <3>2
  <2>2. at = 1 \/ at = 2 \/ at = 3 \/ at = 4
    BY <2>1
  <2>3. o.reg = "scl_start"
    BY <1>1, <2>1, <2>2, CalibrationShape DEF StoreOf, WaitOf
  <2>4. QED
    BY <1>2, <2>3, Registers
<1>4. CASE dram = "try" /\ Fits
  <2>1. {"prf_ctrl", "status_perf", "mem_cfg7"} \subseteq DOMAIN ResetDdr
    BY DEF ResetDdr
  <2>2. PICK L : L = Len(Preparing[try])
    OBVIOUS
  <2>3. /\ Accesses = Preparing[try]
        /\ at <= L =>
             \/ at = 1 /\ o = ModifyOf("rst_mask", DdrResets, {})
             \/ at = 2 /\ o = ModifyOf("clkgate", {DDR_CTRL_CLK_SRC}, {})
             \/ at = 3 /\ o = ModifyOf("clkgate", {}, {DDR_CTRL_CLK_GATE})
             \/ at = 4 /\ o = ADelay
             \/ at = 5 /\ o = ModifyOf("rst_vec", {}, DdrResets)
             \/ at = 6 /\ o = ModifyOf("rst_mask", {}, DdrResets)
             \/ at >= 7 /\ at < L - 1 /\ o \in Settings(config)
             \/ at >= 7 /\ at = L - 1 /\ o = StoreOf("mem_cfg7", {})
             \/ at >= 8 /\ at = L /\ o = ADelay
    BY <1>1, <1>4, <2>2, NextAccess
  <2>4. \/ o = ModifyOf("rst_mask", DdrResets, {})
        \/ o = ModifyOf("clkgate", {DDR_CTRL_CLK_SRC}, {})
        \/ o = ModifyOf("clkgate", {}, {DDR_CTRL_CLK_GATE})
        \/ o = ModifyOf("rst_vec", {}, DdrResets)
        \/ o = ModifyOf("rst_mask", {}, DdrResets)
    <3>1. o # ADelay
      BY <1>2 DEF ADelay
    <3>2. o \notin Settings(config)
      BY <1>2, <2>1, Registers DEF Settings
    <3>3. o # StoreOf("mem_cfg7", {})
      BY <1>2, <2>1, Registers DEF StoreOf
    <3>4. at <= L
      BY <1>2, <2>2, <2>3
    <3>5. QED
      BY <2>3, <3>1, <3>2, <3>3, <3>4
  <2>5. DdrResets = {27, 28} /\ DDR_CTRL_CLK_SRC = 29 /\ DDR_CTRL_CLK_GATE = 27
    BY DEF DdrResets, DDR_CTRL_CLK_SRC, DDR_CTRL_CLK_GATE, RST_CLKGATE_MSK_DDR_CTRL,
           RST_MSK_DDR_CTRL_AHB
  <2>6. /\ {27, 28} \in SUBSET Ones /\ {27} \in SUBSET Ones /\ {29} \in SUBSET Ones
        /\ {} \in SUBSET Ones
    BY DEF Ones
  <2>7. {29} \cap Clocked = {} /\ {27, 28} \cap Units \subseteq Clocked
    <3>1. 28 \notin Units /\ 29 \notin Clocked /\ 27 \in Clocked
      BY UnitBits DEF Clocked
    <3>2. QED
      BY <3>1
  <2>8. ASSUME NEW r \in {"rst_mask", "clkgate", "rst_vec"}, NEW c \in SUBSET Ones,
               NEW s \in SUBSET Ones,
               r = "clkgate" => c \cap Clocked = {},
               r = "rst_vec" => s \cap Units \subseteq Clocked
        PROVE  ModifyOf(r, c, s) \in NoControl
    <3>1. r \in DOMAIN ResetRegs
      BY Registers
    <3>2. ModifyOf(r, c, s) \in SafeOps
      BY <2>8, <3>1 DEF SafeOps, Operations, Harmless, ModifyOf
    <3>3. QED
      BY <3>2 DEF NoControl, ModifyOf
  <2>9. /\ ModifyOf("rst_mask", {27, 28}, {}) \in NoControl
        /\ ModifyOf("clkgate", {29}, {}) \in NoControl
        /\ ModifyOf("clkgate", {}, {27}) \in NoControl
        /\ ModifyOf("rst_vec", {}, {27, 28}) \in NoControl
        /\ ModifyOf("rst_mask", {}, {27, 28}) \in NoControl
    BY <2>6, <2>7, <2>8
  <2>10. o.reg \in {"rst_mask", "clkgate", "rst_vec"}
    BY <2>4 DEF ModifyOf
  <2>11. QED
    BY <1>1, <2>4, <2>5, <2>9, <2>10
<1>5. CASE ~ (dram = "try" /\ Fits) /\ dram # "scl"
  <2>1. Accesses = <<>> /\ at \in Nat \ {0}
    BY <1>5 DEF Accesses, SetUpInv
  <2>2. QED
    BY <1>2, <2>1
<1>6. QED
  BY <1>3, <1>4, <1>5

-----------------------------------------------------------------------------
(* The state between boot_reset and the download: a routine that goes on   *)
(* as its program does, then the search of the memory.                     *)
PllsInv ==
  /\ routine \in Routines /\ strap \in Straps
  /\ status \in [PLL -> SUBSET {"calibrated", "locked"}]
  /\ RegsSafe(regs)
  /\ todo \in Seq(SafeOps)
  /\ \/ todo = <<>>
     \/ \E x : Walks(ControlSteps, x, todo, "own") /\ MaskAt(x, regs)

DdrInv ==
  /\ dram = "off" => MemoryOff /\ CacheInit /\ DdrInit
  /\ dram # "off" => todo = <<>> /\ SetUpInv /\ CacheInv

ControlUntouched == regs'.cpu_ctl \cap NotItsOwn = regs.cpu_ctl \cap NotItsOwn

LEMMA InitPllsInv == FbootInit => PllsInv
<1> SUFFICES ASSUME FbootInit PROVE PllsInv
  OBVIOUS
<1>1. PllInit /\ BoardInit
  BY DEF FbootInit, Init
<1>2. /\ routine \in AllRoutines /\ strap \in Straps /\ chip \in Chips
      /\ cause \in ResetCauses /\ serial \in BOOLEAN
  BY <1>1, PllAssumption, BoardAssumption DEF PllInit, BoardInit
<1>3. todo = ProgramOf(routine, chip, cause, serial, strap)
  BY <1>1, <1>2 DEF PllInit, Program
<1>4. regs = ResetRegs \/ regs = LeftBy(routine, chip, serial, strap)
  BY <1>1, <1>2 DEF PllInit, Outcome
<1>5. RegsSafe(regs)
  BY <1>2, <1>4, ResetSafe, LeftSafe
<1>6. \/ Controlled(todo)
      \/ todo = <<>>
  BY <1>2, <1>3, ProgramsControlled
<1>7. todo \in Seq(SafeOps)
  <2>1. <<>> \in Seq(SafeOps)
    OBVIOUS
  <2>2. QED
    BY <1>6, <2>1 DEF Controlled
<1>8. todo = <<>> \/ \E x : Walks(ControlSteps, x, todo, "own") /\ MaskAt(x, regs)
  BY <1>6 DEF Controlled, MaskAt
<1>9. status \in [PLL -> SUBSET {"calibrated", "locked"}]
  BY <1>1 DEF PllInit
<1>10. QED
  BY <1>1, <1>5, <1>7, <1>8, <1>9 DEF PllsInv, PllInit

(* One access of a routine.                                                *)
LEMMA StepAccess ==
  ASSUME PllsInv, Access
  PROVE  PllsInv' /\ ControlUntouched
<1>1. todo # <<>> /\ todo' = Tail(todo) /\ regs' = Effect(regs, Head(todo))
  BY DEF Access, Step
<1>2. todo \in Seq(SafeOps) /\ RegsSafe(regs)
  BY DEF PllsInv
<1>3. PICK x : Walks(ControlSteps, x, todo, "own") /\ MaskAt(x, regs)
  BY <1>1 DEF PllsInv
<1>4. PICK y : <<x, Head(todo), y>> \in ControlSteps /\ Walks(ControlSteps, y, Tail(todo), "own")
  BY <1>1, <1>2, <1>3, WalkOn
<1>5. /\ Head(todo) \in SafeOps
      /\ MaskAt(y, regs')
      /\ ControlUntouched
  BY <1>1, <1>2, <1>3, <1>4, StepControlled DEF ControlUntouched
<1>6. RegsSafe(regs')
  BY <1>1, <1>2, <1>5, EffectSafe
<1>7. todo' \in Seq(SafeOps)
  BY <1>1, <1>2
<1>8. status' \in [PLL -> SUBSET {"calibrated", "locked"}]
  <2>1. \A p \in PLL : status[p] \in SUBSET {"calibrated", "locked"}
    BY DEF PllsInv
  <2>2. \A p \in PLL : \A b, a : Reacts(p, b, a) \in SUBSET {"calibrated", "locked"}
    BY <2>1 DEF Reacts
  <2>3. QED
    BY <2>2 DEF Access
<1>9. UNCHANGED <<routine, strap>>
  BY DEF Access
<1>10. QED
  BY <1>1, <1>4, <1>5, <1>6, <1>7, <1>8, <1>9 DEF PllsInv

(* A poll that succeeds, and the call.                                     *)
LEMMA StepPasses ==
  ASSUME PllsInv, PollSet \/ CallRoutine
  PROVE  PllsInv' /\ ControlUntouched
<1>1. /\ todo # <<>> /\ todo' = Tail(todo) /\ Head(todo).op \in {"poll", "call"}
      /\ UNCHANGED <<routine, strap, regs, status>>
  BY DEF PollSet, CallRoutine, Step
<1>2. todo \in Seq(SafeOps) /\ RegsSafe(regs)
  BY DEF PllsInv
<1>3. PICK x : Walks(ControlSteps, x, todo, "own") /\ MaskAt(x, regs)
  BY <1>1 DEF PllsInv
<1>4. PICK y : <<x, Head(todo), y>> \in ControlSteps /\ Walks(ControlSteps, y, Tail(todo), "own")
  BY <1>1, <1>2, <1>3, WalkOn
<1>5. MaskAt(y, Effect(regs, Head(todo)))
  BY <1>2, <1>3, <1>4, StepControlled
<1>6. Effect(regs, Head(todo)) = regs
  BY <1>1 DEF Effect
<1>7. todo' \in Seq(SafeOps)
  BY <1>1, <1>2
<1>8. QED
  BY <1>1, <1>4, <1>5, <1>6, <1>7 DEF PllsInv, ControlUntouched

LEMMA StepHardwareLocks ==
  ASSUME PllsInv, NEW p \in PLL, Calibrates(p) \/ Locks(p)
  PROVE  PllsInv' /\ ControlUntouched
<1>1. UNCHANGED <<routine, strap, todo, regs>>
  BY DEF Calibrates, Locks
<1>2. status' \in [PLL -> SUBSET {"calibrated", "locked"}]
  BY DEF PllsInv, Calibrates, Locks
<1>3. QED
  BY <1>1, <1>2 DEF PllsInv, ControlUntouched

LEMMA StepScu ==
  ASSUME PllsInv, SetUpInv, todo = <<>>, AccessScu
  PROVE  PllsInv' /\ ControlUntouched
<1>1. regs' = Effect(regs, Accesses[at]) /\ UNCHANGED <<routine, strap, todo, status>>
  BY DEF AccessScu
<1>2. Accesses[at] \in NoControl
  BY ScuAccess
<1>3. RegsSafe(regs) /\ RegsSafe(regs')
  BY <1>1, <1>2, EffectSafe DEF PllsInv, NoControl
<1>4. <<"any", Accesses[at], "any">> \in ControlSteps
  BY <1>2 DEF ControlSteps
<1>5. ControlUntouched
  BY <1>1, <1>3, <1>4, StepControlled DEF ControlUntouched, MaskAt
<1>6. QED
  BY <1>1, <1>3, <1>5 DEF PllsInv

LEMMA PllsLeft ==
  ASSUME PllsInv, UNCHANGED pllVars
  PROVE  PllsInv' /\ ControlUntouched
BY DEF PllsInv, ControlUntouched, pllVars

LEMMA StepPllsInv ==
  PllsInv /\ DdrInv /\ [FbootNext]_allVars => PllsInv' /\ ControlUntouched
<1> SUFFICES ASSUME PllsInv, DdrInv, [FbootNext]_allVars
             PROVE  PllsInv' /\ ControlUntouched
  OBVIOUS
<1>1. CASE RunPlls
  BY <1>1, StepAccess, StepPasses DEF RunPlls, AccessRegister, PollPll, CallUartInit
<1>2. CASE PllHardware
  BY <1>2, StepHardwareLocks DEF PllHardware
<1>3. CASE SearchDdr
  <2>1. dram # "off" /\ SetUpInv /\ todo = <<>> /\ SetUpDdr
    BY <1>3 DEF SearchDdr, DdrInv
  <2>2. CASE AccessScu
    BY <2>1, <2>2, StepScu
  <2>3. CASE ~ AccessScu
    <3>1. UNCHANGED pllVars
      BY <2>1, <2>3 DEF SetUpDdr, AccessDdr, DelayPasses, PollDdr, Prepared, ReadResult,
                        TestMemory
    <3>2. QED
      BY <3>1, PllsLeft
  <2>4. QED
    BY <2>2, <2>3
<1>4. CASE RunStart \/ DetectChip \/ EnterDdr \/ ReturnDdr \/ DdrHardwareRuns \/ LoadAndJump
           \/ UNCHANGED allVars
  <2>1. UNCHANGED pllVars
    BY <1>4 DEF RunStart, DetectChip, EnterDdr, ReturnDdr, DdrHardwareRuns, DdrHardware,
                PhyReady, SclEnds, LoadAndJump, allVars
  <2>2. QED
    BY <2>1, PllsLeft
<1>5. QED
  BY <1>1, <1>2, <1>3, <1>4 DEF FbootNext, LoaderRuns, RunDdr

(* The search begins when the routine has returned, and is the search of   *)
(* DramSetUp from then on.                                                 *)
LEMMA StepDdrInv ==
  RegsSafe(regs) /\ DdrInv /\ [FbootNext]_allVars => DdrInv'
<1>1. DramInit' /\ DdrInit' /\ (DOMAIN regs = DOMAIN ResetRegs)' => SetUpInv'
  BY SearchBegins, PTL
<1>2. DramInit' /\ CacheInit' => CacheInv'
  BY LinesBegin, PTL
<1> SUFFICES ASSUME RegsSafe(regs), DdrInv, [FbootNext]_allVars PROVE DdrInv'
  OBVIOUS
<1>3. CASE EnterDdr
  <2>1. /\ dram = "off" /\ dram' = "try" /\ todo = <<>>
        /\ fault' \in Faults /\ mem' \in PowerUpContents
        /\ UNCHANGED <<pllVars, cacheVars, setUpVars, try, i, inverse, p32>>
    BY <1>3 DEF EnterDdr, Returned
  <2>2. MemoryOff /\ CacheInit /\ DdrInit
    BY <2>1 DEF DdrInv
  <2>3. DramInit'
    BY <2>1, <2>2 DEF MemoryOff, DramInit
  <2>4. DdrInit' /\ CacheInit'
    BY <2>1, <2>2 DEF DdrInit, setUpVars, CacheInit, cacheVars
  <2>5. DOMAIN regs' = DOMAIN ResetRegs /\ todo' = <<>>
    BY <2>1 DEF RegsSafe, pllVars
  <2>6. SetUpInv' /\ CacheInv'
    BY <1>1, <1>2, <2>3, <2>4, <2>5
  <2>7. QED
    BY <2>1, <2>5, <2>6 DEF DdrInv
<1>4. CASE SearchDdr \/ DdrHardwareRuns
  <2>1. dram # "off" /\ todo = <<>> /\ SetUpInv /\ CacheInv
    BY <1>4 DEF SearchDdr, DdrHardwareRuns, DdrInv
  <2>2. SetUpNext
    BY <1>4 DEF SearchDdr, DdrHardwareRuns, SetUpNext, vars, chosen
  <2>3. SetUpInv' /\ CacheInv'
    BY <2>1, <2>2, SetUpStep, LinesStep
  <2>4. todo' = todo
    BY <2>2 DEF SetUpNext, SetUpDdr, AccessScu, AccessDdr, DelayPasses, PollDdr, Prepared,
                ReadResult, TestMemory, DdrHardware, PhyReady, SclEnds, pllVars
  <2>5. dram' # "off"
    <3>1. dram' \in {"try", "scl", "write", "read", "ok", "failed"}
      BY <2>3 DEF CacheInv, Typed, DramTypeOK
    <3>2. QED
      BY <3>1
  <2>6. QED
    BY <2>1, <2>3, <2>4, <2>5 DEF DdrInv
<1>5. CASE RunPlls
  <2>1. todo # <<>> /\ UNCHANGED hardVars
    BY <1>5 DEF RunPlls, AccessRegister, PollPll, CallUartInit, Access, PollSet,
                CallRoutine, Step
  <2>2. dram = "off" /\ MemoryOff /\ CacheInit /\ DdrInit
    BY <2>1 DEF DdrInv
  <2>3. UNCHANGED <<fault, mem, try, dram, i, inverse, p32, build, dcache, at, ddr, taken>>
    BY <2>1 DEF hardVars, ddrVars, memVars, dramVars, cacheVars, setUpVars
  <2>4. dram' = "off" /\ MemoryOff' /\ CacheInit' /\ DdrInit'
    BY <2>2, <2>3 DEF MemoryOff, CacheInit, DdrInit
  <2>5. QED
    BY <2>4 DEF DdrInv
<1>6. CASE \/ RunStart \/ DetectChip \/ PllHardware \/ ReturnDdr \/ LoadAndJump
           \/ UNCHANGED allVars
  <2>1. UNCHANGED <<todo, regs>> /\ UNCHANGED ddrVars
    BY <1>6 DEF RunStart, DetectChip, PllHardware, Calibrates, Locks, ReturnDdr,
                LoadAndJump, allVars, hardVars, ddrVars, pllVars
  <2>2. UNCHANGED <<fault, mem, try, dram, i, inverse, p32, build, dcache, at, ddr, taken>>
    BY <2>1 DEF ddrVars, memVars, dramVars, cacheVars, setUpVars
  <2>3. CASE dram = "off"
    <3>1. MemoryOff' /\ CacheInit' /\ DdrInit' /\ dram' = "off"
      BY <2>2, <2>3 DEF DdrInv, MemoryOff, CacheInit, DdrInit
    <3>2. QED
      BY <3>1 DEF DdrInv
  <2>4. CASE dram # "off"
    <3>1. SetUpInv' /\ CacheInv'
      BY <2>1, <2>2, <2>4, SetUpLeft, CacheLeft
         DEF DdrInv, memVars, dramVars, cacheVars
    <3>2. QED
      BY <2>1, <2>2, <2>4, <3>1 DEF DdrInv
  <2>5. QED
    BY <2>3, <2>4
<1>7. QED
  BY <1>3, <1>4, <1>5, <1>6 DEF FbootNext, LoaderRuns, RunDdr

LEMMA InitDdrInv == FbootInit => DdrInv
BY DEF FbootInit, DdrInv, MemoryOff

(* The invariant of the routine and of the search.                         *)
HardInv == PllsInv /\ DdrInv

LEMMA HardInvariance == FbootSpec => []HardInv
<1>1. FbootInit => HardInv
  BY InitPllsInv, InitDdrInv DEF HardInv
<1>2. HardInv /\ [FbootNext]_allVars => HardInv'
  BY StepPllsInv, StepDdrInv DEF HardInv, PllsInv
<1>3. QED
  BY <1>1, <1>2, PTL DEF FbootSpec

(* Whatever routine is run, on whatever chip, after either reset and in    *)
(* whatever order the PLLs lock: no unit is out of reset without clock, in *)
(* the clock set-up and, later, when the memory controller is reset.       *)
THEOREM ClockedTheorem == FbootSpec => []OutOfResetIsClocked
<1>1. HardInv => OutOfResetIsClocked
  <2> SUFFICES ASSUME RegsSafe(regs), NEW u \in DOMAIN ResetAndGate,
                      ResetAndGate[u] \in regs.rst_vec
               PROVE  ResetAndGate[u] \in regs.clkgate
    BY DEF HardInv, PllsInv, OutOfResetIsClocked
  <2>1. ResetAndGate[u] \in Units
    BY DEF Units
  <2>2. QED
    BY <2>1 DEF RegsSafe
<1>2. QED
  BY <1>1, HardInvariance, PTL

(* And whole words stored to the control register change its own bits only. *)
THEOREM ControlTheorem == FbootSpec => ControlKept
<1>1. HardInv /\ [FbootNext]_allVars
        => [LET Others == Ones \ (GIGE2_XMII \cup {AMC_CS0_MAP, VCXO_COMMON_CLOCK})
            IN  regs'.cpu_ctl \cap Others = regs.cpu_ctl \cap Others]_pllVars
  BY StepPllsInv DEF HardInv, ControlUntouched, NotItsOwn
<1>2. QED
  BY <1>1, HardInvariance, PTL DEF FbootSpec, ControlKept

(* Once the search runs in the whole of main(), what is proved of it alone *)
(* is true: the chips hold the words the controller has, and the image     *)
(* that is downloaded next is safe.                                        *)
THEOREM FbootImage == FbootSpec => [](dram # "off" => TakenAsHeld /\ ImageIsSafe)
<1>1. HardInv => (dram # "off" => TakenAsHeld /\ ImageIsSafe)
  BY DEF HardInv, DdrInv, SetUpInv, CacheInv, TakenAsHeld, ControllerReady
<1>2. QED
  BY <1>1, HardInvariance, PTL

-----------------------------------------------------------------------------
(* How far a PLL has come.  It is new until it calibrates; with set its    *)
(* clocks have their final word too; off, the calibrated PLL is powered    *)
(* down; run, it is powered to lock; and seen, it was found locked.        *)
Stages == {"new", "set", "cal", "off", "run", "seen"}

Pow(p) == Shift[p] + POWER_UP
Lck(p) == Shift[p] + LOCKDETECTOR_DOWN
Cal(p) == Shift[p] + CALIBRATION
Low(p) == {Pow(p), Lck(p), Cal(p)}

Divided == {"gateway", "bme", "dsp"}
Bypass(p) == IF p \in Divided THEN {BypassDiv2[p], BypassSigmaDelta[p]} ELSE {}
SettingRegs(p) ==
  CASE p = "fixed"   -> {"pll_fixed_analog"}
    [] p = "vcxo"    -> {"pll_vcxo_analog", "pll_vcxo_sigmadelta"}
    [] p = "gateway" -> {"pll_gateway_analog"}
    [] p = "bme"     -> {"pll_bme_analog"}
    [] p = "dsp"     -> {"pll_dsp_analog", "pll_dsp_sigmadelta"}

Writes(o) == o.op \in {"store", "modify"}
Powers(o) == o.op = "modify" /\ o.reg = "pll_pwr_rst"
ClocksOn == [op |-> "store", reg |-> "pll_post_divider3", word |-> Hex(\h4D60, \h0FFF)]

(* Operations that leave alone: the bits of the power register by which a  *)
(* PLL runs, its bits among the clocks, its dividers and settings.         *)
Quiet(p, o) ==
  Writes(o) /\ o.reg = "pll_pwr_rst" =>
    o.op = "modify" /\ o.clear \cap Low(p) = {} /\ o.set \cap Low(p) = {}
ClocksSpared(p, w, o) ==
  Writes(o) /\ o.reg = "pll_post_divider3" /\ p \in Divided =>
    \/ w /\ o = ClocksOn
    \/ o.op = "modify" /\ o.clear \cap Bypass(p) = {} /\ o.set \cap Bypass(p) = {}
SettingsSpared(p, o) ==
  Writes(o) => /\ o.reg \notin SettingRegs(p)
               /\ p \in Divided => o.reg \notin {"pll_post_divider1", "pll_post_divider2"}
Calm(p, o) ==
  Writes(o) /\ o.reg = "pll_pwr_rst" => o.op = "modify" /\ Cal(p) \notin o.set

(* From one stage to the next.                                             *)
StageStep(p, w, x, o, y) ==
  CASE x = "new" /\ y = "new" -> Calm(p, o)
    [] x = "new" /\ y = "set" -> o = ClocksOn
    [] x = "set" /\ y = "set" -> Calm(p, o) /\ ClocksSpared(p, w, o)
    [] x \in {"new", "set"} /\ y = "cal" -> /\ w => x = "set"
                                            /\ Powers(o) /\ Cal(p) \in o.set
    [] x = "cal" /\ y = "cal" -> /\ ClocksSpared(p, w, o) /\ SettingsSpared(p, o)
                                 /\ Quiet(p, o) \/ (Powers(o) /\ Cal(p) \notin o.clear)
    [] x = "cal" /\ y = "off" -> /\ Powers(o) /\ Low(p) \subseteq o.clear
                                 /\ o.set \cap Low(p) = {}
    [] x = "off" /\ y = "off" -> /\ ClocksSpared(p, w, o) /\ SettingsSpared(p, o)
                                 /\ Quiet(p, o) \/ (Powers(o) /\ o.set \cap Low(p) = {})
    [] x = "cal" /\ y = "run" -> /\ Powers(o) /\ Low(p) \subseteq o.clear
                                 /\ o.set \cap Low(p) = {Pow(p)}
    [] x = "off" /\ y = "run" -> Powers(o) /\ o.set \cap Low(p) = {Pow(p)}
    [] x = "run" /\ y = "seen" -> o = [op |-> "poll", pll |-> p, flag |-> "locked"]
    [] x \in {"run", "seen"} /\ y = x ->
         ClocksSpared(p, w, o) /\ SettingsSpared(p, o) /\ Quiet(p, o)
    [] OTHER -> FALSE

StageSteps(p, w) ==
  {t \in Stages \X SafeOps \X Stages : StageStep(p, w, t[1], t[2], t[3])}

LEMMA IsStageStep ==
  ASSUME NEW p, NEW w, NEW x, NEW o, NEW y
  PROVE  <<x, o, y>> \in StageSteps(p, w)
           <=> x \in Stages /\ o \in SafeOps /\ y \in Stages /\ StageStep(p, w, x, o, y)
BY DEF StageSteps

(* What a stage means for the registers, and for the status.               *)
RegsAt(p, w, x, r) ==
  /\ x \in {"new", "set"} => Cal(p) \notin r.pll_pwr_rst
  /\ x = "cal" => Cal(p) \in r.pll_pwr_rst
  /\ x = "off" => r.pll_pwr_rst \cap Low(p) = {}
  /\ x \in {"run", "seen"} => r.pll_pwr_rst \cap Low(p) = {Pow(p)}
  /\ w /\ x # "new" =>
       r.pll_post_divider3 \cap Bypass(p) = ClocksOn.word \cap Bypass(p)

StatusAt(x, st) ==
  /\ x \in {"new", "set"} => st = {}
  /\ x \in {"cal", "off"} => "locked" \notin st
  /\ x = "seen" => "locked" \in st

LEMMA LowBits ==
  ASSUME NEW p \in PLL
  PROVE  /\ Pow(p) \in Low(p) /\ Lck(p) \in Low(p) /\ Cal(p) \in Low(p)
         /\ Pow(p) # Lck(p) /\ Pow(p) # Cal(p) /\ Lck(p) # Cal(p)
<1>1. Shift[p] \in Nat
  BY ShiftOf DEF PLL
<1>2. QED
  BY <1>1 DEF Pow, Lck, Cal, Low, POWER_UP, LOCKDETECTOR_DOWN, CALIBRATION

(* The effect of an operation on a register without a mask.                *)
LEMMA EffectOn ==
  ASSUME NEW r, RegsSafe(r), NEW o \in SafeOps,
         NEW g \in DOMAIN ResetRegs \ {"cpu_ctl", "rst_vec"}
  PROVE  /\ o.op = "store" /\ o.reg = g => Effect(r, o)[g] = o.word
         /\ o.op = "modify" /\ o.reg = g => Effect(r, o)[g] = (r[g] \ o.clear) \cup o.set
         /\ ~ (Writes(o) /\ o.reg = g) => Effect(r, o)[g] = r[g]
<1>1. DOMAIN r = DOMAIN ResetRegs /\ r = [q \in DOMAIN ResetRegs |-> r[q]]
  BY DEF RegsSafe
<1>2. CASE o.op = "store"
  <2>1. Effect(r, o) = [r EXCEPT ![o.reg] = Masked(r, o.reg, o.word)]
    BY <1>2 DEF Effect
  <2>2. QED
    BY <1>1, <1>2, <2>1 DEF Masked, Writes
<1>3. CASE o.op = "modify"
  <2>1. Effect(r, o) = [r EXCEPT ![o.reg] =
                          Masked(r, o.reg, (r[o.reg] \ o.clear) \cup o.set)]
    BY <1>3 DEF Effect
  <2>2. QED
    BY <1>1, <1>3, <2>1 DEF Masked, Writes
<1>4. CASE o.op \notin {"store", "modify"}
  BY <1>4 DEF Effect, Writes
<1>5. QED
  BY <1>2, <1>3, <1>4

(* The power register, and the one that clocks are enabled by.             *)
LEMMA PowerWord ==
  ASSUME NEW r, RegsSafe(r), NEW o \in SafeOps
  PROVE  /\ Powers(o) => Effect(r, o).pll_pwr_rst = (r.pll_pwr_rst \ o.clear) \cup o.set
         /\ ~ (Writes(o) /\ o.reg = "pll_pwr_rst") =>
              Effect(r, o).pll_pwr_rst = r.pll_pwr_rst
<1>1. "pll_pwr_rst" \in DOMAIN ResetRegs \ {"cpu_ctl", "rst_vec"}
  BY RegisterNames
<1>2. PICK g : g = "pll_pwr_rst"
  OBVIOUS
<1>3. /\ Powers(o) => Effect(r, o)[g] = (r[g] \ o.clear) \cup o.set
      /\ ~ (Writes(o) /\ o.reg = g) => Effect(r, o)[g] = r[g]
  BY <1>1, <1>2, EffectOn DEF Powers
<1>4. QED
  BY <1>2, <1>3

LEMMA ClocksWord ==
  ASSUME NEW r, RegsSafe(r), NEW o \in SafeOps
  PROVE  /\ o.op = "store" /\ o.reg = "pll_post_divider3" =>
              Effect(r, o).pll_post_divider3 = o.word
         /\ o.op = "modify" /\ o.reg = "pll_post_divider3" =>
              Effect(r, o).pll_post_divider3 = (r.pll_post_divider3 \ o.clear) \cup o.set
         /\ ~ (Writes(o) /\ o.reg = "pll_post_divider3") =>
              Effect(r, o).pll_post_divider3 = r.pll_post_divider3
<1>1. "pll_post_divider3" \in DOMAIN ResetRegs \ {"cpu_ctl", "rst_vec"}
  BY RegisterNames
<1>2. PICK g : g = "pll_post_divider3"
  OBVIOUS
<1>3. /\ o.op = "store" /\ o.reg = g => Effect(r, o)[g] = o.word
      /\ o.op = "modify" /\ o.reg = g => Effect(r, o)[g] = (r[g] \ o.clear) \cup o.set
      /\ ~ (Writes(o) /\ o.reg = g) => Effect(r, o)[g] = r[g]
  BY <1>1, <1>2, EffectOn
<1>4. QED
  BY <1>2, <1>3

LEMMA QuietKeeps ==
  ASSUME NEW p \in PLL, NEW r, RegsSafe(r), NEW o \in SafeOps, Quiet(p, o)
  PROVE  Effect(r, o).pll_pwr_rst \cap Low(p) = r.pll_pwr_rst \cap Low(p)
<1>1. CASE Writes(o) /\ o.reg = "pll_pwr_rst"
  <2>1. Powers(o) /\ o.clear \cap Low(p) = {} /\ o.set \cap Low(p) = {}
    BY <1>1 DEF Quiet, Powers
  <2>2. Effect(r, o).pll_pwr_rst = (r.pll_pwr_rst \ o.clear) \cup o.set
    BY <2>1, PowerWord
  <2>3. QED
    BY <2>1, <2>2
<1>2. CASE ~ (Writes(o) /\ o.reg = "pll_pwr_rst")
  BY <1>2, PowerWord
<1>3. QED
  BY <1>1, <1>2

(* The bits of a divided clock change in the stage "new" alone.            *)
LEMMA ClocksKeep ==
  ASSUME NEW p \in PLL, NEW w \in BOOLEAN, NEW r, RegsSafe(r), NEW o \in SafeOps,
         ClocksSpared(p, w, o),
         w => r.pll_post_divider3 \cap Bypass(p) = ClocksOn.word \cap Bypass(p)
  PROVE  Effect(r, o).pll_post_divider3 \cap Bypass(p) = r.pll_post_divider3 \cap Bypass(p)
<1>2. CASE p \notin Divided
  BY <1>2 DEF Bypass
<1>3. CASE Writes(o) /\ o.reg = "pll_post_divider3" /\ p \in Divided
  <2>1. CASE w /\ o = ClocksOn
    <3>1. o.op = "store" /\ o.reg = "pll_post_divider3" /\ o.word = ClocksOn.word
      BY <2>1 DEF ClocksOn
    <3>2. Effect(r, o).pll_post_divider3 = ClocksOn.word
      BY <3>1, ClocksWord
    <3>3. QED
      BY <2>1, <3>2
  <2>2. CASE o.op = "modify" /\ o.clear \cap Bypass(p) = {} /\ o.set \cap Bypass(p) = {}
    <3>1. Effect(r, o).pll_post_divider3 = (r.pll_post_divider3 \ o.clear) \cup o.set
      BY <1>3, <2>2, ClocksWord
    <3>2. QED
      BY <2>2, <3>1
  <2>3. QED
    BY <1>3, <2>1, <2>2 DEF ClocksSpared
<1>4. CASE ~ (Writes(o) /\ o.reg = "pll_post_divider3")
  <2>1. Effect(r, o).pll_post_divider3 = r.pll_post_divider3
    BY <1>4, ClocksWord
  <2>2. QED
    BY <2>1
<1>5. QED
  BY <1>2, <1>3, <1>4

LEMMA StageClocks ==
  ASSUME NEW p \in PLL, NEW w \in BOOLEAN, NEW x, NEW o, NEW y, NEW r, RegsSafe(r),
         <<x, o, y>> \in StageSteps(p, w), RegsAt(p, w, x, r)
  PROVE  w /\ y # "new" =>
           Effect(r, o).pll_post_divider3 \cap Bypass(p) = ClocksOn.word \cap Bypass(p)
<1>1. o \in SafeOps /\ StageStep(p, w, x, o, y)
  BY IsStageStep
<1>2. SUFFICES ASSUME w, y # "new"
               PROVE  Effect(r, o).pll_post_divider3 \cap Bypass(p)
                        = ClocksOn.word \cap Bypass(p)
  OBVIOUS
<1>4. CASE o = ClocksOn
  <2>1. o.op = "store" /\ o.reg = "pll_post_divider3" /\ o.word = ClocksOn.word
    BY <1>4 DEF ClocksOn
  <2>2. Effect(r, o).pll_post_divider3 = ClocksOn.word
    BY <1>1, <2>1, ClocksWord
  <2>3. QED
    BY <2>2
<1>5. CASE o # ClocksOn
  <2>1. x # "new"
    BY <1>1, <1>2, <1>5 DEF StageStep
  <2>2. r.pll_post_divider3 \cap Bypass(p) = ClocksOn.word \cap Bypass(p)
    BY <1>2, <2>1 DEF RegsAt
  <2>3. ClocksSpared(p, w, o) \/ Powers(o) \/ o = [op |-> "poll", pll |-> p, flag |-> "locked"]
    BY <1>1, <1>2, <2>1 DEF StageStep
  <2>4. ClocksSpared(p, w, o)
    BY <2>3 DEF ClocksSpared, Powers, Writes
  <2>5. QED
    BY <1>1, <2>2, <2>4, ClocksKeep
<1>6. QED
  BY <1>4, <1>5

(* Where the power register comes to.                                      *)
LEMMA StagePower ==
  ASSUME NEW p \in PLL, NEW w \in BOOLEAN, NEW x, NEW o, NEW y, NEW r, RegsSafe(r),
         <<x, o, y>> \in StageSteps(p, w), RegsAt(p, w, x, r),
         NEW b, b = r.pll_pwr_rst, NEW a, a = Effect(r, o).pll_pwr_rst
  PROVE  /\ y \in {"new", "set"} => x \in {"new", "set"} /\ Cal(p) \notin a
         /\ y = "cal" => Cal(p) \in a
         /\ y = "off" => a \cap Low(p) = {}
         /\ y \in {"run", "seen"} => a \cap Low(p) = {Pow(p)}
         /\ x \in {"run", "seen"} => y \in {"run", "seen"}
         /\ x = "seen" => y = "seen"
         /\ x \in {"cal", "off"} => y \in {"cal", "off", "run"}
<1>1. /\ o \in SafeOps /\ StageStep(p, w, x, o, y) /\ x \in Stages /\ y \in Stages
  BY IsStageStep
<1>2. /\ Powers(o) => a = (b \ o.clear) \cup o.set
      /\ ~ (Writes(o) /\ o.reg = "pll_pwr_rst") => a = b
      /\ Quiet(p, o) => a \cap Low(p) = b \cap Low(p)
  BY <1>1, PowerWord, QuietKeeps
<1>3. /\ Pow(p) \in Low(p) /\ Lck(p) \in Low(p) /\ Cal(p) \in Low(p)
      /\ Pow(p) # Cal(p)
  BY LowBits
<1>4. CASE x \in {"new", "set"} /\ y \in {"new", "set"}
  <2>1. Cal(p) \notin b
    BY <1>4 DEF RegsAt
  <2>2. Calm(p, o) \/ o = ClocksOn
    BY <1>1, <1>4 DEF StageStep
  <2>3. Calm(p, o)
    BY <2>2 DEF Calm, ClocksOn
  <2>4. (Powers(o) /\ Cal(p) \notin o.set) \/ ~ (Writes(o) /\ o.reg = "pll_pwr_rst")
    BY <2>3 DEF Calm, Powers, Writes
  <2>5. Cal(p) \notin a
    BY <1>2, <2>1, <2>4
  <2>6. QED
    BY <1>4, <2>5
<1>5. CASE x \in {"new", "set"} /\ y \notin {"new", "set"}
  <2>1. y = "cal" /\ Powers(o) /\ Cal(p) \in o.set
    BY <1>1, <1>5 DEF StageStep
  <2>2. QED
    BY <1>2, <1>5, <2>1
<1>6. CASE x = "cal"
  <2>1. Cal(p) \in b
    BY <1>6 DEF RegsAt
  <2>2. \/ y = "cal" /\ (Quiet(p, o) \/ (Powers(o) /\ Cal(p) \notin o.clear))
        \/ y = "off" /\ Powers(o) /\ Low(p) \subseteq o.clear /\ o.set \cap Low(p) = {}
        \/ y = "run" /\ Powers(o) /\ Low(p) \subseteq o.clear /\ o.set \cap Low(p) = {Pow(p)}
    BY <1>1, <1>6 DEF StageStep
  <2>3. QED
    BY <1>2, <1>3, <1>6, <2>1, <2>2
<1>7. CASE x = "off"
  <2>1. b \cap Low(p) = {}
    BY <1>7 DEF RegsAt
  <2>2. \/ y = "off" /\ (Quiet(p, o) \/ (Powers(o) /\ o.set \cap Low(p) = {}))
        \/ y = "run" /\ Powers(o) /\ o.set \cap Low(p) = {Pow(p)}
    BY <1>1, <1>7 DEF StageStep
  <2>3. QED
    BY <1>2, <1>3, <1>7, <2>1, <2>2
<1>8. CASE x \in {"run", "seen"}
  <2>1. b \cap Low(p) = {Pow(p)}
    BY <1>8 DEF RegsAt
  <2>2. \/ y = x /\ Quiet(p, o)
        \/ x = "run" /\ y = "seen" /\ o = [op |-> "poll", pll |-> p, flag |-> "locked"]
    BY <1>1, <1>8 DEF StageStep
  <2>3. Quiet(p, o)
    BY <2>2 DEF Quiet, Writes
  <2>4. QED
    BY <1>2, <1>8, <2>1, <2>2, <2>3
<1>9. QED
  BY <1>1, <1>4, <1>5, <1>6, <1>7, <1>8 DEF Stages

LEMMA StageRegs ==
  ASSUME NEW p \in PLL, NEW w \in BOOLEAN, NEW x, NEW o, NEW y, NEW r, RegsSafe(r),
         <<x, o, y>> \in StageSteps(p, w), RegsAt(p, w, x, r)
  PROVE  RegsAt(p, w, y, Effect(r, o))
<1>1. PICK a, q : a = Effect(r, o).pll_pwr_rst /\ q = Effect(r, o)
  OBVIOUS
<1>2. /\ y \in {"new", "set"} => x \in {"new", "set"} /\ Cal(p) \notin a
      /\ y = "cal" => Cal(p) \in a
      /\ y = "off" => a \cap Low(p) = {}
      /\ y \in {"run", "seen"} => a \cap Low(p) = {Pow(p)}
  BY <1>1, StagePower
<1>3. w /\ y # "new" => q.pll_post_divider3 \cap Bypass(p) = ClocksOn.word \cap Bypass(p)
  BY <1>1, StageClocks
<1>4. QED
  BY <1>1, <1>2, <1>3 DEF RegsAt

(* Once it calibrates, a PLL keeps its settings, its dividers and its      *)
(* bits among the clocks.                                                  *)
LEMMA StageSpares ==
  ASSUME NEW p \in PLL, NEW w \in BOOLEAN, NEW x, NEW o, NEW y,
         <<x, o, y>> \in StageSteps(p, w), x \notin {"new", "set"}
  PROVE  ClocksSpared(p, w, o) /\ SettingsSpared(p, o)
<1>1. x \in Stages /\ StageStep(p, w, x, o, y)
  BY IsStageStep
<1>2. \/ ClocksSpared(p, w, o) /\ SettingsSpared(p, o)
      \/ Powers(o)
      \/ o = [op |-> "poll", pll |-> p, flag |-> "locked"]
  BY <1>1 DEF StageStep, Stages
<1>3. CASE Powers(o)
  BY <1>3 DEF Powers, ClocksSpared, SettingsSpared, Writes, SettingRegs, PLL
<1>4. CASE o = [op |-> "poll", pll |-> p, flag |-> "locked"]
  BY <1>4 DEF ClocksSpared, SettingsSpared, Writes
<1>5. QED
  BY <1>2, <1>3, <1>4

Spares(p, r, q) ==
  /\ SettingsOf(p, q) = SettingsOf(p, r)
  /\ p \in Divided => DividersOf(p, q) = DividersOf(p, r)

LEMMA StageKeeps ==
  ASSUME NEW p \in PLL, NEW w \in BOOLEAN, NEW x, NEW o, NEW y, NEW r, RegsSafe(r),
         <<x, o, y>> \in StageSteps(p, w), RegsAt(p, w, x, r), x \notin {"new", "set"}
  PROVE  Spares(p, r, Effect(r, o))
<1>1. PICK q : q = Effect(r, o)
  OBVIOUS
<1>2. o \in SafeOps /\ ClocksSpared(p, w, o) /\ SettingsSpared(p, o)
  BY IsStageStep, StageSpares
<1>3. \A g \in DOMAIN ResetRegs \ {"cpu_ctl", "rst_vec"} :
        ~ (Writes(o) /\ o.reg = g) => q[g] = r[g]
  BY <1>1, <1>2, EffectOn
<1>4. SettingsOf(p, q) = SettingsOf(p, r)
  <2>1. \A g \in SettingRegs(p) : q[g] = r[g]
    <3>1. SettingRegs(p) \subseteq DOMAIN ResetRegs \ {"cpu_ctl", "rst_vec"}
      BY RegisterNames DEF SettingRegs, PLL
    <3>2. \A g \in SettingRegs(p) : ~ (Writes(o) /\ o.reg = g)
      BY <1>2 DEF SettingsSpared
    <3>3. QED
      BY <1>3, <3>1, <3>2
  <2>2. QED
    BY <2>1 DEF SettingsOf, SettingRegs, PLL
<1>5. ASSUME p \in Divided PROVE DividersOf(p, q) = DividersOf(p, r)
  <2>1. \A g \in {"pll_post_divider1", "pll_post_divider2"} : q[g] = r[g]
    <3>1. {"pll_post_divider1", "pll_post_divider2"}
             \subseteq DOMAIN ResetRegs \ {"cpu_ctl", "rst_vec"}
      BY RegisterNames
    <3>2. \A g \in {"pll_post_divider1", "pll_post_divider2"} : ~ (Writes(o) /\ o.reg = g)
      BY <1>2, <1>5 DEF SettingsSpared
    <3>3. QED
      BY <1>3, <3>1, <3>2
  <2>2. q.pll_post_divider3 \cap Bypass(p) = r.pll_post_divider3 \cap Bypass(p)
    BY <1>1, <1>2, ClocksKeep DEF RegsAt
  <2>3. q.pll_post_divider1 = r.pll_post_divider1 /\ q.pll_post_divider2 = r.pll_post_divider2
    BY <2>1
  <2>4. Bypass(p) = {BypassDiv2[p], BypassSigmaDelta[p]}
    BY <1>5 DEF Bypass
  <2>5. QED
    BY <2>2, <2>3, <2>4 DEF DividersOf
<1>6. QED
  BY <1>1, <1>4, <1>5 DEF Spares

(* What a walk of stages loses nothing by: bits cleared by one store and   *)
(* set by another.                                                         *)
LEMMA HalfSteps ==
  ASSUME NEW p \in PLL, NEW w, NEW x, NEW o, NEW y, <<x, o, y>> \in StageSteps(p, w),
         o.op = "modify", NEW c, NEW s,
         c = [op |-> "modify", reg |-> o.reg, clear |-> o.clear, set |-> {}],
         s = [op |-> "modify", reg |-> o.reg, clear |-> {}, set |-> o.set]
  PROVE  \E z \in Stages : <<x, c, z>> \in StageSteps(p, w) /\ <<z, s, y>> \in StageSteps(p, w)
<1>1. x \in Stages /\ y \in Stages /\ o \in SafeOps /\ StageStep(p, w, x, o, y)
  BY IsStageStep
<1>2. c \in SafeOps /\ s \in SafeOps
  <2>1. o.reg \in DOMAIN ResetRegs /\ o.clear \in SUBSET Ones /\ o.set \in SUBSET Ones
        /\ Harmless(o)
    BY <1>1 DEF SafeOps, Operations
  <2>2. QED
    BY <2>1 DEF SafeOps, Operations, Harmless
<1>3. /\ Quiet(p, o) => Quiet(p, c) /\ Quiet(p, s)
      /\ SettingsSpared(p, o) => SettingsSpared(p, c) /\ SettingsSpared(p, s)
      /\ Calm(p, o) => Calm(p, c) /\ Calm(p, s)
      /\ Powers(o) => Powers(c) /\ Powers(s)
  BY DEF Quiet, SettingsSpared, Calm, Powers, Writes
<1>4. ClocksSpared(p, w, o) => ClocksSpared(p, w, c) /\ ClocksSpared(p, w, s)
  <2>1. o # ClocksOn
    BY DEF ClocksOn
  <2>2. QED
    BY <2>1 DEF ClocksSpared, Writes
<1>5. ASSUME Powers(o) PROVE /\ SettingsSpared(p, o) /\ ClocksSpared(p, w, o)
  BY <1>5 DEF Powers, ClocksSpared, SettingsSpared, Writes, SettingRegs, PLL
<1>6. \A q : Powers(q) /\ q.set = {} => Calm(p, q)
  BY DEF Calm, Powers
<1>7. o # ClocksOn /\ o # [op |-> "poll", pll |-> p, flag |-> "locked"]
  BY DEF ClocksOn
<1>8. c.set = {} /\ c.clear = o.clear /\ s.clear = {} /\ s.set = o.set
  OBVIOUS
<1>9. CASE x = y
  <2>1. StageStep(p, w, x, c, x) /\ StageStep(p, w, x, s, x)
    BY <1>1, <1>3, <1>4, <1>8, <1>9 DEF StageStep, Stages
  <2>2. QED
    BY <1>1, <1>2, <1>9, <2>1, IsStageStep
<1>10. CASE x # y
  <2>1. Powers(o) /\ Powers(c) /\ Powers(s)
    BY <1>1, <1>3, <1>7, <1>10 DEF StageStep, Stages
  <2>2. /\ SettingsSpared(p, c) /\ SettingsSpared(p, s)
        /\ ClocksSpared(p, w, c) /\ ClocksSpared(p, w, s) /\ Calm(p, c)
    BY <1>3, <1>4, <1>5, <1>6, <1>8, <2>1
  <2>3. CASE x \in {"new", "set"}
    <3>1. y = "cal" /\ (w => x = "set") /\ Cal(p) \in o.set
      BY <1>1, <1>7, <1>10, <2>3 DEF StageStep, Powers, Stages
    <3>2. StageStep(p, w, x, c, x) /\ StageStep(p, w, x, s, y)
      BY <1>8, <2>1, <2>2, <2>3, <3>1 DEF StageStep
    <3>3. QED
      BY <1>1, <1>2, <3>2, IsStageStep
  <2>4. CASE x = "cal"
    <3>1. \/ y = "off" /\ Low(p) \subseteq o.clear /\ o.set \cap Low(p) = {}
          \/ y = "run" /\ Low(p) \subseteq o.clear /\ o.set \cap Low(p) = {Pow(p)}
      BY <1>1, <1>10, <2>4 DEF StageStep, Stages
    <3>2. StageStep(p, w, x, c, "off")
      BY <1>8, <2>1, <2>4, <3>1 DEF StageStep
    <3>3. StageStep(p, w, "off", s, y)
      BY <1>8, <2>1, <2>2, <3>1 DEF StageStep
    <3>4. "off" \in Stages
      BY DEF Stages
    <3>5. QED
      BY <1>1, <1>2, <3>2, <3>3, <3>4, IsStageStep
  <2>5. CASE x = "off"
    <3>1. y = "run" /\ o.set \cap Low(p) = {Pow(p)}
      BY <1>1, <1>10, <2>5 DEF StageStep, Stages
    <3>2. StageStep(p, w, x, c, "off")
      BY <1>8, <2>1, <2>2, <2>5 DEF StageStep
    <3>3. StageStep(p, w, "off", s, y)
      BY <1>8, <2>1, <3>1 DEF StageStep
    <3>4. "off" \in Stages
      BY DEF Stages
    <3>5. QED
      BY <1>1, <1>2, <3>2, <3>3, <3>4, IsStageStep
  <2>6. CASE x \in {"run", "seen"}
    BY <1>1, <1>7, <1>10, <2>6 DEF StageStep
  <2>7. QED
    BY <1>1, <2>3, <2>4, <2>5, <2>6 DEF Stages
<1>11. QED
  BY <1>9, <1>10

LEMMA HalvesWalk ==
  ASSUME NEW p \in PLL, NEW w, NEW x, NEW o, NEW y, <<x, o, y>> \in StageSteps(p, w)
  PROVE  Walks(StageSteps(p, w), x, Halves(o), y)
<1>1. CASE o.op = "modify" /\ o.clear # {} /\ o.set # {}
  <2>1. PICK c : c = [op |-> "modify", reg |-> o.reg, clear |-> o.clear, set |-> {}]
    OBVIOUS
  <2>2. PICK s : s = [op |-> "modify", reg |-> o.reg, clear |-> {}, set |-> o.set]
    OBVIOUS
  <2>3. PICK z : <<x, c, z>> \in StageSteps(p, w) /\ <<z, s, y>> \in StageSteps(p, w)
    BY <1>1, <2>1, <2>2, HalfSteps
  <2>4. Walks(StageSteps(p, w), x, <<c>>, z) /\ Walks(StageSteps(p, w), z, <<s>>, y)
    BY <2>3, WalkOne
  <2>5. <<c>> \in Seq({c, s}) /\ <<s>> \in Seq({c, s})
    OBVIOUS
  <2>6. Walks(StageSteps(p, w), x, <<c>> \o <<s>>, y)
    BY <2>4, <2>5, WalkJoin
  <2>7. Halves(o) = <<c>> \o <<s>>
    BY <1>1, <2>1, <2>2 DEF Halves, And, Or, Modify
  <2>8. QED
    BY <2>6, <2>7
<1>2. CASE ~ (o.op = "modify" /\ o.clear # {} /\ o.set # {})
  BY <1>2, WalkOne DEF Halves
<1>3. QED
  BY <1>1, <1>2

LEMMA TwoStoresWalk ==
  ASSUME NEW p \in PLL, NEW w, NEW program \in Seq(SafeOps), NEW x, NEW y,
         Walks(StageSteps(p, w), x, program, y)
  PROVE  Walks(StageSteps(p, w), x, InTwoStores(program), y)
<1>1. PICK q \in Seq(Seq(SafeOps)) :
        /\ Len(q) = Len(program)
        /\ \A k \in 1 .. Len(program) : q[k] = Halves(program[k])
        /\ InTwoStores(program) = FlattenSeq(q)
  BY HalvesOf
<1>2. PICK f : /\ f[1] = x /\ f[Len(program) + 1] = y
               /\ \A n \in 1 .. Len(program) :
                    <<f[n], program[n], f[n + 1]>> \in StageSteps(p, w)
  BY DEF Walks
<1>3. \A n \in 1 .. Len(q) : Walks(StageSteps(p, w), f[n], q[n], f[n + 1])
  BY <1>1, <1>2, HalvesWalk
<1>4. Walks(StageSteps(p, w), f[1], FlattenSeq(q), f[Len(q) + 1])
  BY <1>3, WalkFlat
<1>5. QED
  BY <1>1, <1>2, <1>4

-----------------------------------------------------------------------------
(* All five PLLs on their way; w tells of which the clocks have a final    *)
(* word.                                                                   *)
Moves(w, f, s, g) ==
  /\ s \in Seq(SafeOps)
  /\ \A p \in PLL : Walks(StageSteps(p, w[p]), f[p], s, g[p])

LEMMA MovesJoin ==
  ASSUME NEW w, NEW f, NEW g, NEW h, NEW s, NEW t, Moves(w, f, s, g), Moves(w, g, t, h)
  PROVE  Moves(w, f, s \o t, h)
<1>1. s \in Seq(SafeOps) /\ t \in Seq(SafeOps)
  BY DEF Moves
<1>2. s \o t \in Seq(SafeOps)
  BY <1>1
<1>3. ASSUME NEW p \in PLL
      PROVE  Walks(StageSteps(p, w[p]), f[p], s \o t, h[p])
  BY <1>1, WalkJoin DEF Moves
<1>4. QED
  BY <1>2, <1>3 DEF Moves

LEMMA MovesTwo ==
  ASSUME NEW w, NEW f, NEW g, NEW s, Moves(w, f, s, g)
  PROVE  Moves(w, f, InTwoStores(s), g)
BY TwoStoresTyped, TwoStoresWalk DEF Moves

LEMMA MovesNot ==
  ASSUME NEW w, NEW f
  PROVE  Moves(w, f, <<>>, f)
<1>1. <<>> \in Seq(SafeOps)
  OBVIOUS
<1>2. QED
  BY <1>1, WalkNone DEF Moves

(* Operations that leave every PLL alone but one, or all of them.          *)
Own(q) ==
  {o \in SafeOps : \A p \in PLL \ {q} :
     Quiet(p, o) /\ ClocksSpared(p, FALSE, o) /\ SettingsSpared(p, o)}

LEMMA OwnSafe ==
  ASSUME NEW q, NEW s \in Seq(Own(q))
  PROVE  s \in Seq(SafeOps)
<1>1. Own(q) \subseteq SafeOps
  BY DEF Own
<1>2. PICK T, B : T = Own(q) /\ B = SafeOps
  OBVIOUS
<1>3. T \subseteq B /\ s \in Seq(T)
  BY <1>1, <1>2
<1>4. s \in Seq(B)
  BY ONLY <1>3
<1>5. QED
  BY <1>2, <1>4

LEMMA OthersStay ==
  ASSUME NEW q, NEW p \in PLL, p # q, NEW o \in Own(q), NEW w, NEW x \in Stages
  PROVE  <<x, o, x>> \in StageSteps(p, w)
<1>1. /\ o \in SafeOps /\ Quiet(p, o) /\ ClocksSpared(p, FALSE, o) /\ SettingsSpared(p, o)
  BY DEF Own
<1>2. ClocksSpared(p, w, o)
  BY <1>1 DEF ClocksSpared
<1>3. Calm(p, o)
  BY <1>1, LowBits DEF Calm, Quiet
<1>4. StageStep(p, w, x, o, x)
  BY <1>1, <1>2, <1>3 DEF StageStep, Stages
<1>5. QED
  BY <1>1, <1>4, IsStageStep

(* A piece of one PLL takes that PLL on.                                   *)
LEMMA PieceMoves ==
  ASSUME NEW q \in PLL, NEW w, NEW f, NEW g, NEW s \in Seq(Own(q)),
         \A p \in PLL : f[p] \in Stages,
         \A p \in PLL \ {q} : g[p] = f[p],
         Walks(StageSteps(q, w[q]), f[q], s, g[q])
  PROVE  Moves(w, f, s, g)
<1>1. s \in Seq(SafeOps)
  BY OwnSafe
<1>2. ASSUME NEW p \in PLL, p # q
      PROVE  Walks(StageSteps(p, w[p]), f[p], s, g[p])
  <2>1. \A o \in Own(q) : <<f[p], o, f[p]>> \in StageSteps(p, w[p])
    BY <1>2, OthersStay
  <2>2. Walks(StageSteps(p, w[p]), f[p], s, f[p])
    BY <2>1, WalkStays
  <2>3. QED
    BY <1>2, <2>2
<1>3. QED
  BY <1>1, <1>2 DEF Moves

LEMMA PieceApart ==
  ASSUME NEW w, NEW f, NEW s \in Seq(Own("none")), \A p \in PLL : f[p] \in Stages
  PROVE  Moves(w, f, s, f)
<1>1. s \in Seq(SafeOps)
  BY OwnSafe
<1>2. ASSUME NEW p \in PLL
      PROVE  Walks(StageSteps(p, w[p]), f[p], s, f[p])
  <2>1. p # "none"
    BY DEF PLL
  <2>2. \A o \in Own("none") : <<f[p], o, f[p]>> \in StageSteps(p, w[p])
    BY <2>1, OthersStay
  <2>3. QED
    BY <2>2, WalkStays
<1>3. QED
  BY <1>1, <1>2 DEF Moves

(* Which registers an operation of one PLL may write, so that it is no     *)
(* step of another: clocks and settings of its own, and the shared power   *)
(* register with bits of its own.                                          *)
(* The registers of the PLLs.                                              *)
PllWords ==
  {"pll_pwr_rst", "pll_vcxo_sigmadelta", "pll_dsp_sigmadelta",
   "pll_post_divider1", "pll_post_divider2", "pll_post_divider3",
   "pll_fixed_analog", "pll_vcxo_analog", "pll_gateway_analog",
   "pll_bme_analog", "pll_dsp_analog"}

LEMMA SettingNames ==
  ASSUME NEW p \in PLL
  PROVE  /\ SettingRegs(p) \subseteq PllWords
         /\ "pll_pwr_rst" \notin SettingRegs(p)
         /\ "pll_post_divider1" \notin SettingRegs(p)
         /\ "pll_post_divider2" \notin SettingRegs(p)
         /\ "pll_post_divider3" \notin SettingRegs(p)
         /\ \A q \in PLL \ {p} : SettingRegs(p) \cap SettingRegs(q) = {}
BY DEF SettingRegs, PllWords, PLL

LEMMA OwnNone ==
  ASSUME NEW o \in SafeOps, Writes(o) => o.reg \notin PllWords, NEW q
  PROVE  o \in Own(q)
<1>1. ASSUME NEW p \in PLL
      PROVE  Quiet(p, o) /\ ClocksSpared(p, FALSE, o) /\ SettingsSpared(p, o)
  <2>1. Writes(o) => /\ o.reg \notin {"pll_pwr_rst", "pll_post_divider1",
                                      "pll_post_divider2", "pll_post_divider3"}
                     /\ o.reg \notin SettingRegs(p)
    BY SettingNames DEF PllWords
  <2>2. QED
    BY <2>1 DEF Quiet, ClocksSpared, SettingsSpared
<1>2. QED
  BY <1>1 DEF Own

(* Those of them that leave the power register alone.                      *)
Unpowered(q) == {o \in Own(q) : Writes(o) => o.reg # "pll_pwr_rst"}

LEMMA OwnSettings ==
  ASSUME NEW q \in PLL, NEW g \in SettingRegs(q), NEW word \in SUBSET Ones
  PROVE  Store(g, word) \in Seq(Unpowered(q))
<1>1. PICK o : o = [op |-> "store", reg |-> g, word |-> word]
  OBVIOUS
<1>2. o \in SafeOps
  <2>1. g \in DOMAIN ResetRegs \ Shared
    BY SettingNames, NonShared DEF PllWords
  <2>2. QED
    BY <1>1, <2>1 DEF SafeOps, Operations, Harmless, Shared
<1>3. ASSUME NEW p \in PLL \ {q}
      PROVE  Quiet(p, o) /\ ClocksSpared(p, FALSE, o) /\ SettingsSpared(p, o)
  <2>1. o.reg = g /\ g \notin {"pll_pwr_rst", "pll_post_divider1",
                               "pll_post_divider2", "pll_post_divider3"}
        /\ g \notin SettingRegs(p)
    BY <1>1, SettingNames
  <2>2. QED
    BY <2>1 DEF Quiet, ClocksSpared, SettingsSpared
<1>4. o \in Unpowered(q)
  BY <1>1, <1>2, <1>3, SettingNames DEF Own, Unpowered
<1>5. QED
  BY <1>1, <1>4 DEF Store

LEMMA OwnPower ==
  ASSUME NEW q, NEW c \in SUBSET Ones, NEW s \in SUBSET Ones,
         \A p \in PLL \ {q} : c \cap Low(p) = {} /\ s \cap Low(p) = {}
  PROVE  Modify("pll_pwr_rst", c, s) \in Seq(Own(q))
<1>1. PICK o : o = [op |-> "modify", reg |-> "pll_pwr_rst", clear |-> c, set |-> s]
  OBVIOUS
<1>2. o \in SafeOps
  BY <1>1, NonShared DEF SafeOps, Operations, Harmless, Shared
<1>3. ASSUME NEW p \in PLL \ {q}
      PROVE  Quiet(p, o) /\ ClocksSpared(p, FALSE, o) /\ SettingsSpared(p, o)
  BY <1>1, SettingNames DEF Quiet, ClocksSpared, SettingsSpared
<1>4. o \in Own(q)
  BY <1>2, <1>3 DEF Own
<1>5. QED
  BY <1>1, <1>4 DEF Modify

LEMMA OwnClocks ==
  ASSUME NEW q, NEW c \in SUBSET Ones, NEW s \in SUBSET Ones,
         \A p \in Divided \ {q} : c \cap Bypass(p) = {} /\ s \cap Bypass(p) = {}
  PROVE  Modify("pll_post_divider3", c, s) \in Seq(Unpowered(q))
<1>1. PICK o : o = [op |-> "modify", reg |-> "pll_post_divider3", clear |-> c, set |-> s]
  OBVIOUS
<1>2. o \in SafeOps
  BY <1>1, NonShared DEF SafeOps, Operations, Harmless, Shared
<1>3. ASSUME NEW p \in PLL \ {q}
      PROVE  Quiet(p, o) /\ ClocksSpared(p, FALSE, o) /\ SettingsSpared(p, o)
  BY <1>1, SettingNames DEF Quiet, ClocksSpared, SettingsSpared
<1>4. o \in Unpowered(q)
  BY <1>1, <1>2, <1>3 DEF Own, Unpowered
<1>5. QED
  BY <1>1, <1>4 DEF Modify

LEMMA OwnPolls ==
  ASSUME NEW q, NEW p \in PLL
  PROVE  /\ Poll(p, "calibrated") \in Seq(Own(q)) /\ Poll(p, "locked") \in Seq(Own(q))
         /\ Call("c_uart_init") \in Seq(Own(q))
<1>1. ASSUME NEW f \in {"calibrated", "locked"}
      PROVE  Poll(p, f) \in Seq(Own(q))
  <2>1. PICK o : o = [op |-> "poll", pll |-> p, flag |-> f]
    OBVIOUS
  <2>2. o \in SafeOps /\ ~ Writes(o)
    BY <2>1 DEF SafeOps, Operations, Harmless, Writes
  <2>3. o \in Own(q)
    BY <2>2, OwnNone
  <2>4. QED
    BY <2>1, <2>3 DEF Poll
<1>2. Call("c_uart_init") \in Seq(Own(q))
  <2>1. PICK o : o = [op |-> "call", routine |-> "c_uart_init"]
    OBVIOUS
  <2>2. o \in SafeOps /\ ~ Writes(o)
    BY <2>1 DEF SafeOps, Operations, Harmless, Writes
  <2>3. o \in Own(q)
    BY <2>2, OwnNone
  <2>4. QED
    BY <2>1, <2>3 DEF Call
<1>3. QED
  BY <1>1, <1>2

LEMMA OwnOthers ==
  ASSUME NEW q, NEW g \in DOMAIN ResetRegs \ PllWords, NEW o \in SafeOps,
         o.op \in {"store", "modify"}, o.reg = g
  PROVE  <<o>> \in Seq(Own(q))
<1>1. o \in Own(q)
  BY OwnNone
<1>2. QED
  BY <1>1

(* The bits of each PLL, as numbers.                                       *)
LEMMA LowOf ==
  /\ Low("fixed") = {0, 1, 2} /\ Low("vcxo") = {6, 7, 8} /\ Low("gateway") = {12, 13, 14}
  /\ Low("bme") = {18, 19, 20} /\ Low("dsp") = {24, 25, 26}
  /\ Pow("fixed") = 0 /\ Pow("vcxo") = 6 /\ Pow("gateway") = 12 /\ Pow("bme") = 18
  /\ Pow("dsp") = 24
  /\ Cal("fixed") = 2 /\ Cal("vcxo") = 8 /\ Cal("gateway") = 14 /\ Cal("bme") = 20
  /\ Cal("dsp") = 26
BY ShiftOf DEF Low, Pow, Cal, Lck, POWER_UP, LOCKDETECTOR_DOWN, CALIBRATION

LEMMA BypassOf ==
  /\ Bypass("gateway") = {12, 21} /\ Bypass("bme") = {13, 22} /\ Bypass("dsp") = {14, 23}
  /\ Bypass("fixed") = {} /\ Bypass("vcxo") = {}
BY DEF Bypass, BypassDiv2, BypassSigmaDelta, Divided

(* A PLL's six bits are none of the low bits of another.                   *)
LEMMA BitsApart ==
  ASSUME NEW q \in PLL, NEW bits \in SUBSET (0 .. 5), NEW p \in PLL \ {q}
  PROVE  BitsOf(q, bits) \cap Low(p) = {}
<1>1. \A b \in 0 .. 5 : Shift[q] + b \notin Low(p)
  BY LowOf, ShiftOf DEF PLL
<1>2. QED
  BY <1>1 DEF BitsOf

LEMMA OwnBits ==
  ASSUME NEW q \in PLL, NEW bits \in SUBSET (0 .. 5)
  PROVE  /\ Or("pll_pwr_rst", BitsOf(q, bits)) \in Seq(Own(q))
         /\ And("pll_pwr_rst", BitsOf(q, bits)) \in Seq(Own(q))
<1>1. BitsOf(q, bits) \in SUBSET Ones /\ {} \in SUBSET Ones
  BY BitsTyped
<1>2. \A p \in PLL \ {q} : BitsOf(q, bits) \cap Low(p) = {} /\ {} \cap Low(p) = {}
  BY BitsApart
<1>3. QED
  BY <1>1, <1>2, OwnPower DEF Or, And

-----------------------------------------------------------------------------
(* The steps of a PLL whose bits are changed one kind at a time.           *)
LEMMA BitsLow ==
  ASSUME NEW q \in PLL
  PROVE  /\ Low(q) \subseteq BitsOf(q, 0 .. 5)
         /\ BitsOf(q, {POWER_UP}) \cap Low(q) = {Pow(q)}
         /\ Cal(q) \in BitsOf(q, {CALIBRATION, LOCKDETECTOR_DOWN})
         /\ \A m \in SUBSET {SIGMADELTA_DOWN, POSTDIVIDER_UP} : BitsOf(q, m) \cap Low(q) = {}
         /\ \A m \in SUBSET (0 .. 5) : CALIBRATION \notin m => Cal(q) \notin BitsOf(q, m)
<1>1. Shift[q] \in Nat
  BY ShiftOf DEF PLL
<1>2. QED
  BY <1>1 DEF BitsOf, Low, Pow, Lck, Cal, POWER_UP, LOCKDETECTOR_DOWN, CALIBRATION,
              SIGMADELTA_DOWN, POSTDIVIDER_UP

(* Where it calibrates from.                                               *)
Fresh(w) == IF w THEN "set" ELSE "new"

LEMMA BitSteps ==
  ASSUME NEW q \in PLL, NEW w \in BOOLEAN, NEW R, R = StageSteps(q, w), NEW c, c \in SUBSET Ones, NEW s,
         s \in SUBSET Ones
  PROVE  /\ Cal(q) \notin s => Walks(R, Fresh(w), Modify("pll_pwr_rst", c, s), Fresh(w))
         /\ Cal(q) \in s => Walks(R, Fresh(w), Modify("pll_pwr_rst", c, s), "cal")
         /\ Cal(q) \notin c => Walks(R, "cal", Modify("pll_pwr_rst", c, s), "cal")
         /\ Low(q) \subseteq c /\ s \cap Low(q) = {} =>
              Walks(R, "cal", Modify("pll_pwr_rst", c, s), "off")
         /\ s \cap Low(q) = {} => Walks(R, "off", Modify("pll_pwr_rst", c, s), "off")
         /\ Low(q) \subseteq c /\ s \cap Low(q) = {Pow(q)} =>
              Walks(R, "cal", Modify("pll_pwr_rst", c, s), "run")
         /\ s \cap Low(q) = {Pow(q)} => Walks(R, "off", Modify("pll_pwr_rst", c, s), "run")
<1>1. PICK o : o = [op |-> "modify", reg |-> "pll_pwr_rst", clear |-> c, set |-> s]
  OBVIOUS
<1>2. o \in SafeOps
  BY <1>1, NonShared DEF SafeOps, Operations, Harmless, Shared
<1>3. Modify("pll_pwr_rst", c, s) = <<o>>
  BY <1>1 DEF Modify
<1>4. Powers(o) /\ o.set = s /\ o.clear = c
  BY <1>1 DEF Powers
<1>5. ClocksSpared(q, w, o) /\ SettingsSpared(q, o)
  BY <1>1, SettingNames DEF ClocksSpared, SettingsSpared
<1>6. /\ Cal(q) \notin s => StageStep(q, w, Fresh(w), o, Fresh(w))
      /\ Cal(q) \in s => StageStep(q, w, Fresh(w), o, "cal")
      /\ Cal(q) \notin c => StageStep(q, w, "cal", o, "cal")
      /\ Low(q) \subseteq c /\ s \cap Low(q) = {} => StageStep(q, w, "cal", o, "off")
      /\ s \cap Low(q) = {} => StageStep(q, w, "off", o, "off")
      /\ Low(q) \subseteq c /\ s \cap Low(q) = {Pow(q)} => StageStep(q, w, "cal", o, "run")
      /\ s \cap Low(q) = {Pow(q)} => StageStep(q, w, "off", o, "run")
  <2>1. Cal(q) \notin s => Calm(q, o)
    BY <1>4 DEF Calm, Powers
  <2>2. QED
    BY <1>4, <1>5, <2>1 DEF StageStep, Fresh
<1>7. {Fresh(w), "cal", "off", "run"} \subseteq Stages
  BY DEF Stages, Fresh
<1>8. \A x, y \in {Fresh(w), "cal", "off", "run"} :
        StageStep(q, w, x, o, y) => Walks(R, x, <<o>>, y)
  BY <1>2, <1>7, IsStageStep, WalkOne
<1>9. QED
  BY <1>3, <1>6, <1>8

LEMMA PollSteps ==
  ASSUME NEW q \in PLL, NEW w
  PROVE  /\ Walks(StageSteps(q, w), "cal", Poll(q, "calibrated"), "cal")
         /\ Walks(StageSteps(q, w), "run", Poll(q, "locked"), "seen")
<1>1. PICK o : o = [op |-> "poll", pll |-> q, flag |-> "calibrated"]
  OBVIOUS
<1>2. PICK l : l = [op |-> "poll", pll |-> q, flag |-> "locked"]
  OBVIOUS
<1>3. o \in SafeOps /\ l \in SafeOps
  BY <1>1, <1>2 DEF SafeOps, Operations, Harmless
<1>4. StageStep(q, w, "cal", o, "cal")
  BY <1>1 DEF StageStep, ClocksSpared, SettingsSpared, Quiet, Writes
<1>5. StageStep(q, w, "run", l, "seen")
  BY <1>2 DEF StageStep
<1>6. <<"cal", o, "cal">> \in StageSteps(q, w) /\ <<"run", l, "seen">> \in StageSteps(q, w)
  BY <1>3, <1>4, <1>5, IsStageStep DEF Stages
<1>7. QED
  BY <1>1, <1>2, <1>6, WalkOne DEF Poll

LEMMA OrsOwn ==
  ASSUME NEW q \in PLL, NEW bits \in Seq(SUBSET (0 .. 5)), NEW ors,
         ors = [k \in DOMAIN bits |-> Or("pll_pwr_rst", BitsOf(q, bits[k]))]
  PROVE  /\ ors \in Seq(Seq(Own(q))) /\ Len(ors) = Len(bits)
         /\ \A k \in 1 .. Len(bits) : ors[k] = Or("pll_pwr_rst", BitsOf(q, bits[k]))
<1>1. DOMAIN bits = 1 .. Len(bits) /\ Len(bits) \in Nat
  OBVIOUS
<1>2. \A k \in 1 .. Len(bits) : ors[k] = Or("pll_pwr_rst", BitsOf(q, bits[k]))
  BY <1>1
<1>3. \A k \in 1 .. Len(bits) : ors[k] \in Seq(Own(q))
  BY <1>1, <1>2, OwnBits
<1>4. ors = [k \in 1 .. Len(bits) |-> ors[k]]
  BY <1>1
<1>5. PICK n, S : n = Len(bits) /\ S = Seq(Own(q))
  OBVIOUS
<1>6. n \in Nat /\ ors = [k \in 1 .. n |-> ors[k]] /\ \A k \in 1 .. n : ors[k] \in S
  BY <1>1, <1>3, <1>4, <1>5
<1>7. ors \in [1 .. n -> S]
  BY ONLY <1>6
<1>8. ors \in Seq(S) /\ Len(ors) = n
  BY ONLY <1>6, <1>7
<1>9. QED
  BY <1>2, <1>5, <1>8

(* PowerUp, for a mode of any number of steps.                             *)
LEMMA PowerUpOwn ==
  ASSUME NEW q \in PLL, NEW bits \in Seq(SUBSET (0 .. 5))
  PROVE  PowerUp(q, bits) \in Seq(Own(q))
<1>1. PICK ors : ors = [k \in DOMAIN bits |-> Or("pll_pwr_rst", BitsOf(q, bits[k]))]
  OBVIOUS
<1>2. PICK S, x, y, z : /\ S = Seq(Own(q)) /\ y = FlattenSeq(ors)
                        /\ x = And("pll_pwr_rst", BitsOf(q, 0 .. 5))
                        /\ z = Or("pll_pwr_rst", BitsOf(q, {POWER_UP}))
  OBVIOUS
<1>3. y \in S
  BY <1>1, <1>2, OrsOwn, FlattenTyped
<1>4. x \in S /\ z \in S
  BY <1>2, ModesTyped, OwnBits
<1>5. x \o y \o z \in S
  BY <1>2, <1>3, <1>4
<1>6. PowerUp(q, bits) = x \o y \o z
  BY <1>1, <1>2 DEF PowerUp
<1>7. QED
  BY <1>2, <1>5, <1>6

LEMMA PowerUpWalk ==
  ASSUME NEW q \in PLL, NEW R, NEW bits \in Seq(SUBSET (0 .. 5)), NEW f, NEW x, NEW y,
         Walks(R, x, And("pll_pwr_rst", BitsOf(q, 0 .. 5)), f[1]),
         \A k \in 1 .. Len(bits) :
           Walks(R, f[k], Or("pll_pwr_rst", BitsOf(q, bits[k])), f[k + 1]),
         Walks(R, f[Len(bits) + 1], Or("pll_pwr_rst", BitsOf(q, {POWER_UP})), y)
  PROVE  Walks(R, x, PowerUp(q, bits), y)
<1>1. PICK ors : ors = [k \in DOMAIN bits |-> Or("pll_pwr_rst", BitsOf(q, bits[k]))]
  OBVIOUS
<1>2. PICK u, v, z : /\ v = FlattenSeq(ors)
                     /\ u = And("pll_pwr_rst", BitsOf(q, 0 .. 5))
                     /\ z = Or("pll_pwr_rst", BitsOf(q, {POWER_UP}))
  OBVIOUS
<1>3. /\ ors \in Seq(Seq(Own(q))) /\ Len(ors) = Len(bits)
      /\ \A k \in 1 .. Len(bits) : ors[k] = Or("pll_pwr_rst", BitsOf(q, bits[k]))
  BY <1>1, OrsOwn
<1>4. v \in Seq(Own(q)) /\ u \in Seq(Own(q)) /\ z \in Seq(Own(q))
  BY <1>2, <1>3, FlattenTyped, ModesTyped, OwnBits
<1>5. Walks(R, f[1], v, f[Len(bits) + 1])
  <2>1. \A k \in 1 .. Len(ors) : Walks(R, f[k], ors[k], f[k + 1])
    BY <1>3
  <2>2. Walks(R, f[1], FlattenSeq(ors), f[Len(ors) + 1])
    BY <1>3, <2>1, WalkFlat
  <2>3. QED
    BY <1>2, <1>3, <2>2
<1>6. Walks(R, x, u \o v, f[Len(bits) + 1])
  BY <1>2, <1>4, <1>5, WalkJoin
<1>7. u \o v \in Seq(Own(q))
  BY <1>4
<1>8. Walks(R, x, (u \o v) \o z, y)
  BY <1>2, <1>4, <1>6, <1>7, WalkJoin
<1>9. PowerUp(q, bits) = u \o v \o z
  BY <1>1, <1>2 DEF PowerUp
<1>10. QED
  BY <1>8, <1>9

(* The C routines set up one PLL as CalibrateAndLock does.                 *)
Modes == SUBSET {SIGMADELTA_DOWN, POSTDIVIDER_UP}

LEMMA CalibrateWalk ==
  ASSUME NEW q \in PLL, NEW mode \in Seq(Modes)
  PROVE  /\ CalibrateAndLock(q, mode) \in Seq(Own(q))
         /\ Walks(StageSteps(q, FALSE), "new", CalibrateAndLock(q, mode), "seen")
<1>1. PICK R : R = StageSteps(q, FALSE)
  OBVIOUS
<1>2. PICK m : m = {CALIBRATION, LOCKDETECTOR_DOWN}
  OBVIOUS
<1>3. PICK first : first = mode \o <<m>>
  OBVIOUS
<1>4. m \in SUBSET (0 .. 5) /\ Modes \subseteq SUBSET (0 .. 5)
  BY <1>2, ModesTyped DEF Modes, SIGMADELTA_DOWN, POSTDIVIDER_UP
<1>5. Len(mode) \in Nat /\ \A k \in 1 .. Len(mode) : mode[k] \in Modes
  OBVIOUS
<1>6. mode \in Seq(SUBSET (0 .. 5)) /\ first \in Seq(SUBSET (0 .. 5))
  <2>1. PICK B, M : B = SUBSET (0 .. 5) /\ M = Modes
    OBVIOUS
  <2>2. mode \in Seq(M) /\ M \subseteq B /\ m \in B
    BY <1>4, <2>1
  <2>3. mode \in Seq(B)
    BY ONLY <2>2
  <2>4. mode \o <<m>> \in Seq(B)
    BY ONLY <2>2, <2>3
  <2>5. QED
    BY <1>3, <2>1, <2>3, <2>4
<1>7. /\ Len(first) = Len(mode) + 1 /\ first[Len(mode) + 1] = m
      /\ \A k \in 1 .. Len(mode) : first[k] = mode[k]
  BY <1>3, <1>5
<1>8. PICK clear, power, cal :
        /\ clear = BitsOf(q, 0 .. 5) /\ power = BitsOf(q, {POWER_UP}) /\ cal = BitsOf(q, m)
  OBVIOUS
<1>9. /\ clear \in SUBSET Ones /\ power \in SUBSET Ones /\ cal \in SUBSET Ones
      /\ {} \in SUBSET Ones
  BY <1>4, <1>8, BitsTyped, ModesTyped
<1>10. /\ Low(q) \subseteq clear /\ power \cap Low(q) = {Pow(q)} /\ Cal(q) \in cal
  BY <1>2, <1>8, BitsLow
<1>11. /\ Walks(R, "new", And("pll_pwr_rst", clear), "new")
       /\ Walks(R, "new", Or("pll_pwr_rst", cal), "cal")
       /\ Walks(R, "cal", Or("pll_pwr_rst", power), "cal")
       /\ Walks(R, "cal", And("pll_pwr_rst", clear), "off")
       /\ Walks(R, "off", Or("pll_pwr_rst", power), "run")
  BY <1>1, <1>9, <1>10, BitSteps DEF And, Or, Fresh
<1>12. ASSUME NEW k \in 1 .. Len(mode)
       PROVE  /\ Walks(R, "new", Or("pll_pwr_rst", BitsOf(q, mode[k])), "new")
              /\ Walks(R, "off", Or("pll_pwr_rst", BitsOf(q, mode[k])), "off")
  <2>1. PICK s : s = BitsOf(q, mode[k])
    OBVIOUS
  <2>2. s \in SUBSET Ones
    BY <1>4, <1>5, <2>1, BitsTyped
  <2>3. s \cap Low(q) = {}
    BY <1>5, <2>1, BitsLow DEF Modes
  <2>4. Cal(q) \notin s
    BY <2>3, LowBits
  <2>5. QED
    BY <1>1, <1>9, <2>1, <2>2, <2>3, <2>4, BitSteps DEF Or, Fresh
<1>13. Walks(R, "new", PowerUp(q, first), "cal")
  <2>1. PICK f : f = [k \in 1 .. Len(mode) + 2 |-> IF k = Len(mode) + 2 THEN "cal" ELSE "new"]
    OBVIOUS
  <2>2. /\ f[1] = "new" /\ f[Len(first) + 1] = "cal" /\ f[Len(mode) + 1] = "new"
        /\ f[(Len(mode) + 1) + 1] = "cal"
    BY <1>5, <1>7, <2>1
  <2>3. \A k \in 1 .. Len(mode) : f[k] = "new" /\ f[k + 1] = "new"
    BY <1>5, <2>1
  <2>4. ASSUME NEW k \in 1 .. Len(first)
        PROVE  Walks(R, f[k], Or("pll_pwr_rst", BitsOf(q, first[k])), f[k + 1])
    <3>1. CASE k \in 1 .. Len(mode)
      <4>1. first[k] = mode[k] /\ f[k] = "new" /\ f[k + 1] = "new"
        BY <1>7, <2>3, <3>1
      <4>2. QED
        BY <1>12, <3>1, <4>1
    <3>2. CASE k = Len(mode) + 1
      BY <1>7, <1>8, <1>11, <2>2, <3>2
    <3>3. QED
      BY <1>5, <1>7, <3>1, <3>2
  <2>5. /\ Walks(R, "new", And("pll_pwr_rst", BitsOf(q, 0 .. 5)), f[1])
        /\ Walks(R, f[Len(first) + 1], Or("pll_pwr_rst", BitsOf(q, {POWER_UP})), "cal")
    BY <1>8, <1>11, <2>2
  <2>6. QED
    BY <1>6, <2>4, <2>5, PowerUpWalk
<1>14. Walks(R, "cal", PowerUp(q, mode), "run")
  <2>1. PICK f : f = [k \in 1 .. Len(mode) + 1 |-> "off"]
    OBVIOUS
  <2>2. /\ f[1] = "off" /\ f[Len(mode) + 1] = "off"
        /\ \A k \in 1 .. Len(mode) : f[k] = "off" /\ f[k + 1] = "off"
    BY <1>5, <2>1
  <2>3. \A k \in 1 .. Len(mode) :
          Walks(R, f[k], Or("pll_pwr_rst", BitsOf(q, mode[k])), f[k + 1])
    BY <1>12, <2>2
  <2>4. /\ Walks(R, "cal", And("pll_pwr_rst", BitsOf(q, 0 .. 5)), f[1])
        /\ Walks(R, f[Len(mode) + 1], Or("pll_pwr_rst", BitsOf(q, {POWER_UP})), "run")
    BY <1>8, <1>11, <2>2
  <2>5. QED
    BY <1>6, <2>3, <2>4, PowerUpWalk
<1>15. PICK a, b, c, d : /\ a = PowerUp(q, first) /\ b = Poll(q, "calibrated")
                         /\ c = PowerUp(q, mode) /\ d = Poll(q, "locked")
  OBVIOUS
<1>16. /\ a \in Seq(Own(q)) /\ b \in Seq(Own(q)) /\ c \in Seq(Own(q)) /\ d \in Seq(Own(q))
  BY <1>6, <1>15, PowerUpOwn, OwnPolls
<1>17. /\ Walks(R, "new", a, "cal") /\ Walks(R, "cal", b, "cal")
       /\ Walks(R, "cal", c, "run") /\ Walks(R, "run", d, "seen")
  BY <1>1, <1>13, <1>14, <1>15, PollSteps
<1>18. a \o b \in Seq(Own(q)) /\ Walks(R, "new", a \o b, "cal")
  BY <1>16, <1>17, WalkJoin
<1>19. (a \o b) \o c \in Seq(Own(q)) /\ Walks(R, "new", (a \o b) \o c, "run")
  <2>1. (a \o b) \o c \in Seq(Own(q))
    BY <1>16, <1>18
  <2>2. QED
    BY <1>16, <1>17, <1>18, <2>1, WalkJoin
<1>20. ((a \o b) \o c) \o d \in Seq(Own(q)) /\ Walks(R, "new", ((a \o b) \o c) \o d, "seen")
  <2>1. ((a \o b) \o c) \o d \in Seq(Own(q))
    BY <1>16, <1>19
  <2>2. QED
    BY <1>16, <1>17, <1>19, <2>1, WalkJoin
<1>21. CalibrateAndLock(q, mode) = a \o b \o c \o d
  BY <1>2, <1>3, <1>15 DEF CalibrateAndLock
<1>22. QED
  BY <1>1, <1>20, <1>21

(* The assembly changes all bits of a PLL by one store.                    *)
LEMMA WaitWalk ==
  ASSUME NEW q \in PLL, NEW w \in BOOLEAN, NEW c, c \in SUBSET Ones, NEW s, s \in SUBSET Ones,
         NEW t, t \in SUBSET Ones,
         Low(q) \subseteq c, Cal(q) \in s, t \cap Low(q) = {Pow(q)},
         \A p \in PLL \ {q} : c \cap Low(p) = {} /\ s \cap Low(p) = {} /\ t \cap Low(p) = {}
  PROVE  /\ StoreAndWait(q, c, s, t) \in Seq(Own(q))
         /\ Walks(StageSteps(q, w), Fresh(w), StoreAndWait(q, c, s, t), "seen")
<1>1. PICK R, a, b, d, e : /\ R = StageSteps(q, w)
                           /\ a = Modify("pll_pwr_rst", c, s) /\ b = Poll(q, "calibrated")
                           /\ d = Modify("pll_pwr_rst", c, t) /\ e = Poll(q, "locked")
  OBVIOUS
<1>2. /\ a \in Seq(Own(q)) /\ b \in Seq(Own(q)) /\ d \in Seq(Own(q)) /\ e \in Seq(Own(q))
  <2>1. a \in Seq(Own(q)) /\ d \in Seq(Own(q))
    BY <1>1, OwnPower
  <2>2. QED
    BY <1>1, <2>1, OwnPolls
<1>3. /\ Walks(R, Fresh(w), a, "cal") /\ Walks(R, "cal", b, "cal")
      /\ Walks(R, "cal", d, "run") /\ Walks(R, "run", e, "seen")
  BY <1>1, BitSteps, PollSteps
<1>4. a \o b \in Seq(Own(q)) /\ Walks(R, Fresh(w), a \o b, "cal")
  BY <1>2, <1>3, WalkJoin
<1>5. (a \o b) \o d \in Seq(Own(q)) /\ Walks(R, Fresh(w), (a \o b) \o d, "run")
  <2>1. (a \o b) \o d \in Seq(Own(q))
    BY <1>2, <1>4
  <2>2. QED
    BY <1>2, <1>3, <1>4, <2>1, WalkJoin
<1>6. ((a \o b) \o d) \o e \in Seq(Own(q)) /\ Walks(R, Fresh(w), ((a \o b) \o d) \o e, "seen")
  <2>1. ((a \o b) \o d) \o e \in Seq(Own(q))
    BY <1>2, <1>5
  <2>2. QED
    BY <1>2, <1>3, <1>5, <2>1, WalkJoin
<1>7. StoreAndWait(q, c, s, t) = a \o b \o d \o e
  BY <1>1 DEF StoreAndWait
<1>8. QED
  BY <1>1, <1>6, <1>7

-----------------------------------------------------------------------------
(* A piece of a program that is about one PLL.                             *)
Goes(q, w, s, x, y) == s \in Seq(Own(q)) /\ Walks(StageSteps(q, w), x, s, y)

LEMMA GoesJoin ==
  ASSUME NEW q, NEW w, NEW s, NEW t, NEW x, NEW y, NEW z,
         Goes(q, w, s, x, y), Goes(q, w, t, y, z)
  PROVE  Goes(q, w, s \o t, x, z)
<1>1. s \in Seq(Own(q)) /\ t \in Seq(Own(q))
  BY DEF Goes
<1>2. s \o t \in Seq(Own(q))
  BY <1>1
<1>3. Walks(StageSteps(q, w), x, s \o t, z)
  BY <1>1, WalkJoin DEF Goes
<1>4. QED
  BY <1>2, <1>3 DEF Goes

LEMMA GoesEarly ==
  ASSUME NEW q \in PLL, NEW w, NEW s \in Seq(Unpowered(q))
  PROVE  Goes(q, w, s, "new", "new")
<1>1. \A o \in Unpowered(q) : <<"new", o, "new">> \in StageSteps(q, w)
  <2>1. \A o \in Unpowered(q) : o \in SafeOps /\ StageStep(q, w, "new", o, "new")
    BY DEF Unpowered, Own, StageStep, Calm
  <2>2. QED
    BY <2>1, IsStageStep DEF Stages
<1>2. Walks(StageSteps(q, w), "new", s, "new")
  BY <1>1, WalkStays
<1>3. s \in Seq(Own(q))
  <2>1. Unpowered(q) \subseteq Own(q)
    BY DEF Unpowered
  <2>2. PICK T, B : T = Unpowered(q) /\ B = Own(q)
    OBVIOUS
  <2>3. s \in Seq(T) /\ T \subseteq B
    BY <2>1, <2>2
  <2>4. s \in Seq(B)
    BY ONLY <2>3
  <2>5. QED
    BY <2>2, <2>4
<1>4. QED
  BY <1>2, <1>3 DEF Goes

LEMMA GoesCalls ==
  ASSUME NEW q \in PLL, NEW w, NEW x \in {"run", "seen"}
  PROVE  /\ Goes(q, w, Call("c_uart_init"), x, x)
         /\ \A p \in PLL \ {q} : Goes(q, w, Poll(p, "locked"), x, x)
<1>1. ASSUME NEW o \in SafeOps, ~ Writes(o), x \in {"run", "seen"}
      PROVE  Walks(StageSteps(q, w), x, <<o>>, x)
  <2>1. StageStep(q, w, x, o, x)
    BY <1>1 DEF StageStep, ClocksSpared, SettingsSpared, Quiet
  <2>2. QED
    BY <1>1, <2>1, IsStageStep, WalkOne DEF Stages
<1>2. Goes(q, w, Call("c_uart_init"), x, x)
  <2>1. PICK o : o = [op |-> "call", routine |-> "c_uart_init"]
    OBVIOUS
  <2>2. o \in SafeOps /\ ~ Writes(o)
    BY <2>1 DEF SafeOps, Operations, Harmless, Writes
  <2>3. QED
    BY <1>1, <2>1, <2>2, OwnPolls DEF Call, Goes
<1>3. ASSUME NEW p \in PLL \ {q}
      PROVE  Goes(q, w, Poll(p, "locked"), x, x)
  <2>1. PICK o : o = [op |-> "poll", pll |-> p, flag |-> "locked"]
    OBVIOUS
  <2>2. o \in SafeOps /\ ~ Writes(o)
    BY <2>1 DEF SafeOps, Operations, Harmless, Writes
  <2>3. QED
    BY <1>1, <2>1, <2>2, OwnPolls DEF Poll, Goes
<1>4. QED
  BY <1>2, <1>3

(* Registers that are not about the PLLs.                                  *)
LEMMA ElseUnpowered ==
  ASSUME NEW q, NEW g \in DOMAIN ResetRegs \ PllWords, NEW c, NEW w
  PROVE  /\ Store(g, w) \in Seq(SafeOps) => Store(g, w) \in Seq(Unpowered(q))
         /\ Modify(g, c, w) \in Seq(SafeOps) => Modify(g, c, w) \in Seq(Unpowered(q))
<1>1. ASSUME NEW o, <<o>> \in Seq(SafeOps), o.reg = g
      PROVE  <<o>> \in Seq(Unpowered(q))
  <2>1. o \in SafeOps
    <3>1. PICK s : s = <<o>>
      OBVIOUS
    <3>2. s \in Seq(SafeOps) /\ Len(s) = 1 /\ s[1] = o
      BY <1>1, <3>1
    <3>3. QED
      BY <3>2
  <2>2. o \in Own(q)
    BY <1>1, <2>1, OwnNone
  <2>3. o \in Unpowered(q)
    BY <1>1, <2>2 DEF Unpowered, PllWords
  <2>4. QED
    BY <2>3
<1>2. QED
  BY <1>1 DEF Store, Modify

LEMMA ElseNames ==
  {"rst_mask", "rst_vec", "cpu_ctl_mask", "cpu_ctl", "clkgate", "bme_map0", "por_status",
   "spare0"} = DOMAIN ResetRegs \ PllWords
BY RegisterNames DEF PllWords

LEMMA ElseStores ==
  ASSUME NEW q, NEW w
  PROVE  /\ Store("rst_mask", w) \in Seq(SafeOps)
              => Store("rst_mask", w) \in Seq(Unpowered(q))
         /\ Store("rst_vec", w) \in Seq(SafeOps)
              => Store("rst_vec", w) \in Seq(Unpowered(q))
         /\ Store("cpu_ctl_mask", w) \in Seq(SafeOps)
              => Store("cpu_ctl_mask", w) \in Seq(Unpowered(q))
         /\ Store("cpu_ctl", w) \in Seq(SafeOps)
              => Store("cpu_ctl", w) \in Seq(Unpowered(q))
         /\ Store("clkgate", w) \in Seq(SafeOps)
              => Store("clkgate", w) \in Seq(Unpowered(q))
         /\ Store("bme_map0", w) \in Seq(SafeOps)
              => Store("bme_map0", w) \in Seq(Unpowered(q))
         /\ Store("por_status", w) \in Seq(SafeOps)
              => Store("por_status", w) \in Seq(Unpowered(q))
         /\ Store("spare0", w) \in Seq(SafeOps)
              => Store("spare0", w) \in Seq(Unpowered(q))
<1>1. \A g \in DOMAIN ResetRegs \ PllWords :
        Store(g, w) \in Seq(SafeOps) => Store(g, w) \in Seq(Unpowered(q))
  BY ElseUnpowered
<1>2. \A g \in {"rst_mask", "rst_vec", "cpu_ctl_mask", "cpu_ctl", "clkgate", "bme_map0",
                "por_status", "spare0"} :
        Store(g, w) \in Seq(SafeOps) => Store(g, w) \in Seq(Unpowered(q))
  BY <1>1, ElseNames
<1>3. QED
  BY <1>2

LEMMA ElseChanges ==
  ASSUME NEW q, NEW c, NEW w
  PROVE  /\ Modify("rst_vec", c, w) \in Seq(SafeOps)
              => Modify("rst_vec", c, w) \in Seq(Unpowered(q))
         /\ Modify("cpu_ctl_mask", c, w) \in Seq(SafeOps)
              => Modify("cpu_ctl_mask", c, w) \in Seq(Unpowered(q))
         /\ Modify("cpu_ctl", c, w) \in Seq(SafeOps)
              => Modify("cpu_ctl", c, w) \in Seq(Unpowered(q))
<1>1. \A g \in DOMAIN ResetRegs \ PllWords :
        Modify(g, c, w) \in Seq(SafeOps) => Modify(g, c, w) \in Seq(Unpowered(q))
  BY ElseUnpowered
<1>2. \A g \in {"rst_vec", "cpu_ctl_mask", "cpu_ctl"} :
        Modify(g, c, w) \in Seq(SafeOps) => Modify(g, c, w) \in Seq(Unpowered(q))
  BY <1>1, ElseNames
<1>3. QED
  BY <1>2

LEMMA CommonPieces ==
  ASSUME NEW q, NEW S, S = Seq(Unpowered(q))
  PROVE  /\ ClockAndReset \in S /\ ResetThreshold \in S /\ OpenCommonClock \in S
         /\ Or("rst_vec", {31}) \in S
         /\ \A c : HostSource(c) \in S
<1>1. \A s, t \in S : s \o t \in S
  OBVIOUS
<1>3. \A g \in {"rst_mask", "cpu_ctl", "bme_map0", "por_status", "spare0"},
         w \in SUBSET Ones : Store(g, w) \in Seq(SafeOps)
  BY SafeOp, NonShared
<1>4. ResetThreshold \in S
  <2>1. Store("por_status", {5}) \in Seq(SafeOps)
    BY <1>3, OtherWords
  <2>2. QED
    BY <2>1, ElseStores DEF ResetThreshold
<1>5. \A c : HostSource(c) \in S
  <2>1. PICK w : w = Hex(\h0000, \h4009)
    OBVIOUS
  <2>2. w \in SUBSET Ones
    BY <2>1, HexTyped
  <2>3. Store("spare0", w) \in Seq(SafeOps)
    BY <1>3, <2>2
  <2>4. Store("spare0", w) \in S /\ <<>> \in S
    BY <2>3, ElseStores
  <2>5. QED
    BY <2>1, <2>4 DEF HostSource
<1>6. ClockAndReset \in S
  <2>1. PICK w1, w2, w3, w4, w5, w6 :
          /\ w1 = Hex(\hAF80, \h0000) /\ w2 = Hex(\hFFFC, \hFEFF)
          /\ w3 = Hex(\h0002, \h0100) /\ w4 = Hex(\hC7DC, \hF370)
          /\ w5 = Hex(\h08FF, \hFFFC) /\ w6 = Hex(\h1823, \h0C8F)
    OBVIOUS
  <2>2. w1 \in SUBSET Ones /\ w3 \in SUBSET Ones /\ w4 \in SUBSET Ones
    BY <2>1, HexTyped
  <2>3. /\ Store("bme_map0", w1) \in Seq(SafeOps)
        /\ Store("cpu_ctl", w3) \in Seq(SafeOps)
        /\ Store("rst_mask", w4) \in Seq(SafeOps)
    BY <1>3, <2>2
  <2>4. /\ Store("cpu_ctl_mask", w2) \in Seq(SafeOps)
        /\ Store("cpu_ctl_mask", Ones) \in Seq(SafeOps)
        /\ Store("clkgate", w5) \in Seq(SafeOps)
        /\ Store("rst_vec", w6) \in Seq(SafeOps)
    BY <2>1, SharedStores
  <2>5. PICK a, b, c, d, e, f, g :
          /\ a = Store("bme_map0", w1) /\ b = Store("cpu_ctl_mask", w2)
          /\ c = Store("cpu_ctl", w3) /\ d = Store("cpu_ctl_mask", Ones)
          /\ e = Store("rst_mask", w4) /\ f = Store("clkgate", w5)
          /\ g = Store("rst_vec", w6)
    OBVIOUS
  <2>6. /\ a \in S /\ b \in S /\ c \in S /\ d \in S /\ e \in S /\ f \in S /\ g \in S
    BY <2>3, <2>4, <2>5, ElseStores
  <2>7. a \o b \o c \o d \o e \o f \o g \in S
    BY <1>1, <2>6
  <2>8. QED
    BY <2>1, <2>5, <2>7 DEF ClockAndReset
<1>7. OpenCommonClock \in S
  <2>1. PICK u : u = {VCXO_COMMON_CLOCK}
    OBVIOUS
  <2>2. Modify("cpu_ctl", {}, u) \in Seq(SafeOps)
    BY <2>1, SafeOp, NonShared, OtherWords
  <2>3. /\ Modify("cpu_ctl_mask", u, {}) \in Seq(SafeOps)
        /\ Modify("cpu_ctl_mask", {}, u) \in Seq(SafeOps)
    BY <2>1, SharedStores DEF And, Or
  <2>4. /\ Modify("cpu_ctl", {}, u) \in S
        /\ Modify("cpu_ctl_mask", u, {}) \in S
        /\ Modify("cpu_ctl_mask", {}, u) \in S
    BY <2>2, <2>3, ElseChanges
  <2>5. QED
    BY <1>1, <2>1, <2>4 DEF OpenCommonClock, And, Or
<1>8. Or("rst_vec", {31}) \in S
  <2>1. PICK u : u = {31}
    OBVIOUS
  <2>2. Modify("rst_vec", {}, u) \in Seq(SafeOps)
    BY <2>1, SharedStores DEF Or
  <2>3. Modify("rst_vec", {}, u) \in S
    BY <2>2, ElseChanges
  <2>4. QED
    BY <2>1, <2>3 DEF Or
<1>9. QED
  BY <1>4, <1>5, <1>6, <1>7, <1>8

-----------------------------------------------------------------------------
(* The clocks by which a routine enables units, and those of one PLL.      *)
LEMMA UnitClocks ==
  ASSUME NEW q, NEW s \in SUBSET (0 .. 11)
  PROVE  Or("pll_post_divider3", s) \in Seq(Unpowered(q))
<1>1. s \in SUBSET Ones /\ {} \in SUBSET Ones
  BY DEF Ones
<1>2. \A p \in Divided \ {q} : {} \cap Bypass(p) = {} /\ s \cap Bypass(p) = {}
  BY BypassOf DEF Divided
<1>3. QED
  BY <1>1, <1>2, OwnClocks DEF Or

LEMMA ItsClocks ==
  ASSUME NEW q \in Divided, NEW b \in {BypassDiv2[q], BypassSigmaDelta[q]}
  PROVE  /\ Or("pll_post_divider3", {b}) \in Seq(Unpowered(q))
         /\ And("pll_post_divider3", {b}) \in Seq(Unpowered(q))
<1>1. b \in Bypass(q)
  BY DEF Bypass
<1>2. b \in 12 .. 23
  BY <1>1, BypassOf DEF Divided
<1>3. {b} \in SUBSET Ones /\ {} \in SUBSET Ones
  BY <1>2 DEF Ones
<1>4. \A p \in Divided \ {q} : b \notin Bypass(p)
  BY <1>1, BypassOf DEF Divided
<1>5. \A p \in Divided \ {q} : {} \cap Bypass(p) = {} /\ {b} \cap Bypass(p) = {}
  BY <1>4
<1>6. QED
  BY <1>3, <1>5, OwnClocks DEF Or, And

LEMMA EnableBits ==
  /\ {Enable.GIGE, Enable.USB} \in SUBSET (0 .. 11)
  /\ {Enable.SYS, Enable.AP, Enable.HOST_MIPS} \in SUBSET (0 .. 11)
  /\ {Enable.SPI_SLOW, Enable.SPI0} \in SUBSET (0 .. 11)
  /\ {Enable.SYN_REF} \in SUBSET (0 .. 11) /\ {Enable.VCXO} \in SUBSET (0 .. 11)
  /\ {Enable.BME_MIPS, Enable.BME_FD} \in SUBSET (0 .. 11)
  /\ {Enable.DSP} \in SUBSET (0 .. 11)
  /\ BypassSigmaDelta.gateway = BypassSigmaDelta["gateway"]
  /\ BypassDiv2.gateway = BypassDiv2["gateway"]
  /\ BypassSigmaDelta.bme = BypassSigmaDelta["bme"] /\ BypassDiv2.bme = BypassDiv2["bme"]
  /\ BypassSigmaDelta.dsp = BypassSigmaDelta["dsp"] /\ BypassDiv2.dsp = BypassDiv2["dsp"]
BY DEF Enable

LEMMA ClockPieces ==
  /\ Or("pll_post_divider3", {Enable.GIGE, Enable.USB}) \in Seq(Unpowered("fixed"))
  /\ Or("pll_post_divider3", {BypassSigmaDelta.gateway}) \in Seq(Unpowered("gateway"))
  /\ And("pll_post_divider3", {BypassDiv2.gateway}) \in Seq(Unpowered("gateway"))
  /\ Or("pll_post_divider3", {Enable.SYS, Enable.AP, Enable.HOST_MIPS})
       \in Seq(Unpowered("gateway"))
  /\ Or("pll_post_divider3", {Enable.SPI_SLOW, Enable.SPI0}) \in Seq(Unpowered("gateway"))
  /\ Or("pll_post_divider3", {Enable.SYN_REF}) \in Seq(Unpowered("vcxo"))
  /\ Or("pll_post_divider3", {Enable.VCXO}) \in Seq(Unpowered("vcxo"))
  /\ Or("pll_post_divider3", {BypassSigmaDelta.bme}) \in Seq(Unpowered("bme"))
  /\ And("pll_post_divider3", {BypassDiv2.bme}) \in Seq(Unpowered("bme"))
  /\ Or("pll_post_divider3", {Enable.BME_MIPS, Enable.BME_FD}) \in Seq(Unpowered("bme"))
  /\ And("pll_post_divider3", {BypassSigmaDelta.dsp}) \in Seq(Unpowered("dsp"))
  /\ And("pll_post_divider3", {BypassDiv2.dsp}) \in Seq(Unpowered("dsp"))
  /\ Or("pll_post_divider3", {Enable.DSP}) \in Seq(Unpowered("dsp"))
<1>1. \A q : \A s \in SUBSET (0 .. 11) : Or("pll_post_divider3", s) \in Seq(Unpowered(q))
  BY UnitClocks
<1>2. \A q \in Divided : \A b \in {BypassDiv2[q], BypassSigmaDelta[q]} :
        /\ Or("pll_post_divider3", {b}) \in Seq(Unpowered(q))
        /\ And("pll_post_divider3", {b}) \in Seq(Unpowered(q))
  BY ItsClocks
<1>3. "gateway" \in Divided /\ "bme" \in Divided /\ "dsp" \in Divided
  BY DEF Divided
<1>4. /\ Or("pll_post_divider3", {BypassSigmaDelta.gateway}) \in Seq(Unpowered("gateway"))
      /\ And("pll_post_divider3", {BypassDiv2.gateway}) \in Seq(Unpowered("gateway"))
  BY <1>2, <1>3, EnableBits
<1>5. /\ Or("pll_post_divider3", {BypassSigmaDelta.bme}) \in Seq(Unpowered("bme"))
      /\ And("pll_post_divider3", {BypassDiv2.bme}) \in Seq(Unpowered("bme"))
  BY <1>2, <1>3, EnableBits
<1>6. /\ And("pll_post_divider3", {BypassSigmaDelta.dsp}) \in Seq(Unpowered("dsp"))
      /\ And("pll_post_divider3", {BypassDiv2.dsp}) \in Seq(Unpowered("dsp"))
  BY <1>2, <1>3, EnableBits
<1>7. Or("pll_post_divider3", {Enable.GIGE, Enable.USB}) \in Seq(Unpowered("fixed"))
  BY <1>1, EnableBits
<1>8. /\ Or("pll_post_divider3", {Enable.SYS, Enable.AP, Enable.HOST_MIPS})
           \in Seq(Unpowered("gateway"))
      /\ Or("pll_post_divider3", {Enable.SPI_SLOW, Enable.SPI0}) \in Seq(Unpowered("gateway"))
  BY <1>1, EnableBits
<1>9. /\ Or("pll_post_divider3", {Enable.SYN_REF}) \in Seq(Unpowered("vcxo"))
      /\ Or("pll_post_divider3", {Enable.VCXO}) \in Seq(Unpowered("vcxo"))
  BY <1>1, EnableBits
<1>10. /\ Or("pll_post_divider3", {Enable.BME_MIPS, Enable.BME_FD}) \in Seq(Unpowered("bme"))
       /\ Or("pll_post_divider3", {Enable.DSP}) \in Seq(Unpowered("dsp"))
  BY <1>1, EnableBits
<1>11. QED
  BY <1>4, <1>5, <1>6, <1>7, <1>8, <1>9, <1>10

(* Settings come first, then the PLL is calibrated and locked.             *)
LEMMA EarlyThenLock ==
  ASSUME NEW q \in PLL, NEW s \in Seq(Unpowered(q)), NEW mode \in Seq(Modes)
  PROVE  Goes(q, FALSE, s \o CalibrateAndLock(q, mode), "new", "seen")
<1>1. Goes(q, FALSE, s, "new", "new")
  BY GoesEarly
<1>2. Goes(q, FALSE, CalibrateAndLock(q, mode), "new", "seen")
  BY CalibrateWalk DEF Goes
<1>3. QED
  BY <1>1, <1>2, GoesJoin

LEMMA ModesOf ==
  /\ <<>> \in Seq(Modes) /\ <<{SIGMADELTA_DOWN, POSTDIVIDER_UP}>> \in Seq(Modes)
  /\ <<{POSTDIVIDER_UP}>> \in Seq(Modes)
  /\ {"fixed", "gateway", "vcxo", "bme", "dsp"} \subseteq PLL
<1>1. \A m \in Modes : <<m>> \in Seq(Modes)
  OBVIOUS
<1>2. /\ {SIGMADELTA_DOWN, POSTDIVIDER_UP} \in Modes /\ {POSTDIVIDER_UP} \in Modes
  BY DEF Modes
<1>3. QED
  BY <1>1, <1>2 DEF PLL

LEMMA SettingWords ==
  ASSUME NEW h, NEW l
  PROVE  /\ Store("pll_fixed_analog", Hex(h, l)) \in Seq(Unpowered("fixed"))
         /\ Store("pll_gateway_analog", Hex(h, l)) \in Seq(Unpowered("gateway"))
         /\ Store("pll_vcxo_analog", Hex(h, l)) \in Seq(Unpowered("vcxo"))
         /\ Store("pll_vcxo_sigmadelta", Hex(h, l)) \in Seq(Unpowered("vcxo"))
         /\ Store("pll_bme_analog", Hex(h, l)) \in Seq(Unpowered("bme"))
         /\ Store("pll_dsp_analog", Hex(h, l)) \in Seq(Unpowered("dsp"))
         /\ Store("pll_dsp_sigmadelta", Hex(h, l)) \in Seq(Unpowered("dsp"))
<1>1. Hex(h, l) \in SUBSET Ones
  BY HexTyped
<1>2. \A q \in PLL : \A g \in SettingRegs(q) : Store(g, Hex(h, l)) \in Seq(Unpowered(q))
  BY <1>1, OwnSettings
<1>3. /\ "pll_fixed_analog" \in SettingRegs("fixed")
      /\ "pll_gateway_analog" \in SettingRegs("gateway")
      /\ "pll_vcxo_analog" \in SettingRegs("vcxo")
      /\ "pll_vcxo_sigmadelta" \in SettingRegs("vcxo")
      /\ "pll_bme_analog" \in SettingRegs("bme")
      /\ "pll_dsp_analog" \in SettingRegs("dsp")
      /\ "pll_dsp_sigmadelta" \in SettingRegs("dsp")
  BY DEF SettingRegs
<1>4. QED
  BY <1>2, <1>3, ModesOf

LEMMA FixedGoes == Goes("fixed", FALSE, init_pll0_fixed, "new", "seen")
<1>1. PICK a, b : /\ a = Store("pll_fixed_analog", Hex(\h003F, \hC442))
                  /\ b = Or("pll_post_divider3", {Enable.GIGE, Enable.USB})
  OBVIOUS
<1>2. a \in Seq(Unpowered("fixed")) /\ b \in Seq(Unpowered("fixed"))
  BY <1>1, SettingWords, ClockPieces
<1>3. a \o b \in Seq(Unpowered("fixed"))
  BY <1>2
<1>4. Goes("fixed", FALSE, (a \o b) \o CalibrateAndLock("fixed", <<>>), "new", "seen")
  BY <1>3, EarlyThenLock, ModesOf
<1>5. init_pll0_fixed = (a \o b) \o CalibrateAndLock("fixed", <<>>)
  BY <1>1 DEF init_pll0_fixed
<1>6. QED
  BY <1>4, <1>5

LEMMA BmeGoes == Goes("bme", FALSE, init_pll3_bme, "new", "seen")
<1>1. PICK a, b, c, d : /\ a = Store("pll_bme_analog", Hex(\h002C, \hC642))
                        /\ b = Or("pll_post_divider3", {BypassSigmaDelta.bme})
                        /\ c = And("pll_post_divider3", {BypassDiv2.bme})
                        /\ d = Or("pll_post_divider3", {Enable.BME_MIPS, Enable.BME_FD})
  OBVIOUS
<1>2. PICK S : S = Seq(Unpowered("bme"))
  OBVIOUS
<1>4. b \in S /\ c \in S
  BY <1>1, <1>2, ClockPieces
<1>5. a \in S /\ d \in S
  BY <1>1, <1>2, SettingWords, ClockPieces
<1>6. a \o b \o c \o d \in S
  BY <1>2, <1>4, <1>5
<1>7. PICK l : l = CalibrateAndLock("bme", <<{SIGMADELTA_DOWN, POSTDIVIDER_UP}>>)
  OBVIOUS
<1>8. Goes("bme", FALSE, (a \o b \o c \o d) \o l, "new", "seen")
  BY <1>2, <1>6, <1>7, EarlyThenLock, ModesOf
<1>9. init_pll3_bme = (a \o b \o c \o d) \o l
  BY <1>1, <1>7 DEF init_pll3_bme
<1>10. QED
  BY <1>8, <1>9

LEMMA DspGoes == Goes("dsp", FALSE, init_pll4_dsp, "new", "seen")
<1>1. PICK a, b, c, d, e : /\ a = Store("pll_dsp_analog", Hex(\h0026, \hCE20))
                           /\ b = Store("pll_dsp_sigmadelta", Hex(\h0001, \h2B52))
                           /\ c = And("pll_post_divider3", {BypassSigmaDelta.dsp})
                           /\ d = And("pll_post_divider3", {BypassDiv2.dsp})
                           /\ e = Or("pll_post_divider3", {Enable.DSP})
  OBVIOUS
<1>2. PICK S : S = Seq(Unpowered("dsp"))
  OBVIOUS
<1>4. c \in S /\ d \in S
  BY <1>1, <1>2, ClockPieces
<1>5. a \in S /\ b \in S /\ e \in S
  BY <1>1, <1>2, SettingWords, ClockPieces
<1>6. a \o b \o c \o d \o e \in S
  BY <1>2, <1>4, <1>5
<1>7. PICK l : l = CalibrateAndLock("dsp", <<{POSTDIVIDER_UP}>>)
  OBVIOUS
<1>8. Goes("dsp", FALSE, (a \o b \o c \o d \o e) \o l, "new", "seen")
  BY <1>2, <1>6, <1>7, EarlyThenLock, ModesOf
<1>9. init_pll4_dsp = (a \o b \o c \o d \o e) \o l
  BY <1>1, <1>7 DEF init_pll4_dsp
<1>10. QED
  BY <1>8, <1>9

LEMMA GatewayGoes == Goes("gateway", FALSE, init_pll1_gateway, "new", "seen")
<1>1. PICK a, b, c, d, e :
        /\ a = Store("pll_gateway_analog", Hex(\h002C, \hC642))
        /\ b = Or("pll_post_divider3", {BypassSigmaDelta.gateway})
        /\ c = And("pll_post_divider3", {BypassDiv2.gateway})
        /\ d = Or("pll_post_divider3", {Enable.SYS, Enable.AP, Enable.HOST_MIPS})
        /\ e = Or("pll_post_divider3", {Enable.SPI_SLOW, Enable.SPI0})
  OBVIOUS
<1>2. PICK S : S = Seq(Unpowered("gateway"))
  OBVIOUS
<1>4. b \in S /\ c \in S
  BY <1>1, <1>2, ClockPieces
<1>5. a \in S /\ d \in S /\ e \in S
  BY <1>1, <1>2, SettingWords, ClockPieces
<1>6. a \o b \o c \o d \o e \in S
  BY <1>2, <1>4, <1>5
<1>7. PICK l : l = CalibrateAndLock("gateway", <<{SIGMADELTA_DOWN, POSTDIVIDER_UP}>>)
  OBVIOUS
<1>8. Goes("gateway", FALSE, (a \o b \o c \o d \o e) \o l, "new", "seen")
  BY <1>2, <1>6, <1>7, EarlyThenLock, ModesOf
<1>9. Goes("gateway", FALSE, Call("c_uart_init"), "seen", "seen")
  BY GoesCalls, ModesOf
<1>10. Goes("gateway", FALSE, ((a \o b \o c \o d \o e) \o l) \o Call("c_uart_init"),
            "new", "seen")
  BY <1>8, <1>9, GoesJoin
<1>11. init_pll1_gateway = ((a \o b \o c \o d \o e) \o l) \o Call("c_uart_init")
  BY <1>1, <1>7 DEF init_pll1_gateway
<1>12. QED
  BY <1>10, <1>11

(* The VCXO without a clock of its own is powered, but never calibrated.   *)
LEMMA VcxoGoes ==
  ASSUME NEW s
  PROVE  Goes("vcxo", FALSE, init_pll2_vcxo(s), "new", IF 10 \in s THEN "seen" ELSE "new")
<1>1. PICK a, b, c, d : /\ a = Store("pll_vcxo_analog", Hex(\h001C, \hCA88))
                        /\ b = Store("pll_vcxo_sigmadelta", Hex(\h0016, \h54D6))
                        /\ c = Or("pll_post_divider3", {Enable.SYN_REF})
                        /\ d = Or("pll_post_divider3", {Enable.VCXO})
  OBVIOUS
<1>2. PICK S : S = Seq(Unpowered("vcxo"))
  OBVIOUS
<1>3. a \in S /\ b \in S /\ c \in S /\ d \in S
  BY <1>1, <1>2, SettingWords, ClockPieces
<1>4. a \o b \o c \o d \in S
  BY <1>2, <1>3
<1>5. CASE 10 \in s
  <2>1. Goes("vcxo", FALSE, (a \o b \o c \o d) \o CalibrateAndLock("vcxo", <<>>),
             "new", "seen")
    BY <1>2, <1>4, EarlyThenLock, ModesOf
  <2>2. init_pll2_vcxo(s) = (a \o b \o c \o d) \o CalibrateAndLock("vcxo", <<>>)
    BY <1>1, <1>5 DEF init_pll2_vcxo
  <2>3. QED
    BY <1>5, <2>1, <2>2
<1>6. CASE 10 \notin s
  <2>1. PICK x, y, z, modes : /\ x = {SIGMADELTA_DOWN} /\ y = {LOCKDETECTOR_DOWN}
                              /\ z = PowerUp("vcxo", modes) /\ modes = <<x, y>>
    OBVIOUS
  <2>2. x \in SUBSET (0 .. 5) /\ y \in SUBSET (0 .. 5)
    BY <2>1, ModesTyped
  <2>3. /\ modes \in Seq(SUBSET (0 .. 5)) /\ Len(modes) = 2 /\ modes[1] = x /\ modes[2] = y
    BY <2>1, <2>2
  <2>4. CALIBRATION \notin x /\ CALIBRATION \notin y
    BY <2>1 DEF CALIBRATION, SIGMADELTA_DOWN, LOCKDETECTOR_DOWN
  <2>5. PICK clear, power, down, off, R :
          /\ clear = BitsOf("vcxo", 0 .. 5) /\ power = BitsOf("vcxo", {POWER_UP})
          /\ down = BitsOf("vcxo", x) /\ off = BitsOf("vcxo", y)
          /\ R = StageSteps("vcxo", FALSE)
    OBVIOUS
  <2>6. /\ clear \in SUBSET Ones /\ power \in SUBSET Ones /\ down \in SUBSET Ones
        /\ off \in SUBSET Ones /\ {} \in SUBSET Ones
    BY <2>2, <2>5, BitsTyped, ModesTyped, ModesOf
  <2>7. /\ Cal("vcxo") \notin down /\ Cal("vcxo") \notin off
        /\ Cal("vcxo") \notin power
    <3>1. Cal("vcxo") \notin down /\ Cal("vcxo") \notin off
      BY <2>2, <2>4, <2>5, BitsLow, ModesOf
    <3>2. power \cap Low("vcxo") = {Pow("vcxo")}
      BY <2>5, BitsLow, ModesOf
    <3>3. QED
      BY <3>1, <3>2, LowBits, ModesOf
  <2>8. /\ Walks(R, "new", And("pll_pwr_rst", clear), "new")
        /\ Walks(R, "new", Or("pll_pwr_rst", down), "new")
        /\ Walks(R, "new", Or("pll_pwr_rst", off), "new")
        /\ Walks(R, "new", Or("pll_pwr_rst", power), "new")
    BY <2>5, <2>6, <2>7, BitSteps, ModesOf DEF And, Or, Fresh
  <2>9. PICK f : f = [k \in 1 .. 3 |-> "new"]
    OBVIOUS
  <2>10. /\ f[1] = "new" /\ f[Len(modes) + 1] = "new"
         /\ \A k \in 1 .. Len(modes) : f[k] = "new" /\ f[k + 1] = "new"
    BY <2>3, <2>9
  <2>11. \A k \in 1 .. Len(modes) :
           Walks(R, f[k], Or("pll_pwr_rst", BitsOf("vcxo", modes[k])), f[k + 1])
    <3>1. SUFFICES ASSUME NEW k \in 1 .. Len(modes)
                   PROVE  Walks(R, f[k], Or("pll_pwr_rst", BitsOf("vcxo", modes[k])), f[k + 1])
      OBVIOUS
    <3>2. f[k] = "new" /\ f[k + 1] = "new"
      BY <2>10
    <3>3. k = 1 \/ k = 2
      BY <2>3
    <3>4. Or("pll_pwr_rst", BitsOf("vcxo", modes[k]))
            \in {Or("pll_pwr_rst", down), Or("pll_pwr_rst", off)}
      BY <2>3, <2>5, <3>3
    <3>5. QED
      BY <2>8, <3>2, <3>4
  <2>12. Goes("vcxo", FALSE, z, "new", "new")
    <3>1. /\ Walks(R, "new", And("pll_pwr_rst", BitsOf("vcxo", 0 .. 5)), f[1])
          /\ Walks(R, f[Len(modes) + 1], Or("pll_pwr_rst", BitsOf("vcxo", {POWER_UP})), "new")
      BY <2>5, <2>8, <2>10
    <3>2. Walks(R, "new", z, "new")
      BY <2>1, <2>3, <2>11, <3>1, PowerUpWalk, ModesOf
    <3>3. z \in Seq(Own("vcxo"))
      BY <2>1, <2>3, PowerUpOwn, ModesOf
    <3>4. QED
      BY <2>5, <3>2, <3>3 DEF Goes
  <2>13. OpenCommonClock \in S
    BY <1>2, CommonPieces
  <2>14. Goes("vcxo", FALSE, OpenCommonClock, "new", "new")
    BY <1>2, <2>13, GoesEarly, ModesOf
  <2>15. Goes("vcxo", FALSE, a \o b \o c \o d, "new", "new")
    BY <1>2, <1>4, GoesEarly, ModesOf
  <2>16. Goes("vcxo", FALSE, (a \o b \o c \o d) \o (OpenCommonClock \o z), "new", "new")
    BY <2>12, <2>14, <2>15, GoesJoin
  <2>17. init_pll2_vcxo(s) = (a \o b \o c \o d) \o (OpenCommonClock \o z)
    BY <1>1, <1>6, <2>1 DEF init_pll2_vcxo
  <2>18. QED
    BY <1>6, <2>16, <2>17
<1>7. QED
  BY <1>5, <1>6

-----------------------------------------------------------------------------
(* The words of the assembly, which reach as far as the bits of one PLL,   *)
(* or a little beyond where there are none.                                *)
LEMMA WaitGoes ==
  ASSUME NEW w \in BOOLEAN
  PROVE  /\ Goes("fixed", w, WordsFixedPll(0 .. 3), Fresh(w), "seen")
         /\ Goes("fixed", w, WordsFixedPll(0 .. 4), Fresh(w), "seen")
         /\ Goes("vcxo", w, StoreAndWait("vcxo", 4 .. 11, {6, 7, 8}, {6}), Fresh(w), "seen")
         /\ Goes("gateway", w, GatewayPll, Fresh(w), "seen")
         /\ Goes("bme", w, BmePll, Fresh(w), "seen")
         /\ Goes("dsp", w, DspPll, Fresh(w), "seen")
<1>1. ASSUME NEW q \in PLL, NEW c \in SUBSET Ones, NEW s \in SUBSET Ones, NEW t \in SUBSET Ones,
             Low(q) \subseteq c, Cal(q) \in s, t \cap Low(q) = {Pow(q)},
             \A p \in PLL \ {q} :
               c \cap Low(p) = {} /\ s \cap Low(p) = {} /\ t \cap Low(p) = {}
      PROVE  Goes(q, w, StoreAndWait(q, c, s, t), Fresh(w), "seen")
  BY <1>1, WaitWalk DEF Goes
<1>2. \A p \in PLL : p \in {"fixed", "vcxo", "gateway", "bme", "dsp"}
  BY DEF PLL
<1>3. Goes("fixed", w, WordsFixedPll(0 .. 3), Fresh(w), "seen")
  <2>1. PICK c, s, t : c = 0 .. 3 /\ s = {0, 1, 2} /\ t = {0}
    OBVIOUS
  <2>2. c \in SUBSET Ones /\ s \in SUBSET Ones /\ t \in SUBSET Ones
    BY <2>1, WordRanges
  <2>3. Low("fixed") \subseteq c /\ Cal("fixed") \in s /\ t \cap Low("fixed") = {Pow("fixed")}
    BY <2>1, LowOf
  <2>4. \A p \in PLL \ {"fixed"} : c \cap Low(p) = {} /\ s \cap Low(p) = {} /\ t \cap Low(p) = {}
    BY <1>2, <2>1, LowOf
  <2>5. Goes("fixed", w, StoreAndWait("fixed", c, s, t), Fresh(w), "seen")
    BY <1>1, <2>2, <2>3, <2>4, ModesOf
  <2>6. QED
    BY <2>1, <2>5 DEF WordsFixedPll
<1>4. Goes("fixed", w, WordsFixedPll(0 .. 4), Fresh(w), "seen")
  <2>1. PICK c, s, t : c = 0 .. 4 /\ s = {0, 1, 2} /\ t = {0}
    OBVIOUS
  <2>2. c \in SUBSET Ones /\ s \in SUBSET Ones /\ t \in SUBSET Ones
    BY <2>1, WordRanges
  <2>3. Low("fixed") \subseteq c /\ Cal("fixed") \in s /\ t \cap Low("fixed") = {Pow("fixed")}
    BY <2>1, LowOf
  <2>4. \A p \in PLL \ {"fixed"} : c \cap Low(p) = {} /\ s \cap Low(p) = {} /\ t \cap Low(p) = {}
    BY <1>2, <2>1, LowOf
  <2>5. Goes("fixed", w, StoreAndWait("fixed", c, s, t), Fresh(w), "seen")
    BY <1>1, <2>2, <2>3, <2>4, ModesOf
  <2>6. QED
    BY <2>1, <2>5 DEF WordsFixedPll
<1>5. Goes("vcxo", w, StoreAndWait("vcxo", 4 .. 11, {6, 7, 8}, {6}), Fresh(w), "seen")
  <2>1. PICK c, s, t : c = 4 .. 11 /\ s = {6, 7, 8} /\ t = {6}
    OBVIOUS
  <2>2. c \in SUBSET Ones /\ s \in SUBSET Ones /\ t \in SUBSET Ones
    BY <2>1, WordRanges
  <2>3. Low("vcxo") \subseteq c /\ Cal("vcxo") \in s /\ t \cap Low("vcxo") = {Pow("vcxo")}
    BY <2>1, LowOf
  <2>4. \A p \in PLL \ {"vcxo"} : c \cap Low(p) = {} /\ s \cap Low(p) = {} /\ t \cap Low(p) = {}
    BY <1>2, <2>1, LowOf
  <2>5. Goes("vcxo", w, StoreAndWait("vcxo", c, s, t), Fresh(w), "seen")
    BY <1>1, <2>2, <2>3, <2>4, ModesOf
  <2>6. QED
    BY <2>1, <2>5
<1>6. Goes("gateway", w, GatewayPll, Fresh(w), "seen")
  <2>1. PICK c, s, t : c = 12 .. 16 /\ s = {12, 13, 14, 15, 16} /\ t = {12, 15, 16}
    OBVIOUS
  <2>2. c \in SUBSET Ones /\ s \in SUBSET Ones /\ t \in SUBSET Ones
    BY <2>1, WordRanges
  <2>3. Low("gateway") \subseteq c /\ Cal("gateway") \in s /\ t \cap Low("gateway") = {Pow("gateway")}
    BY <2>1, LowOf
  <2>4. \A p \in PLL \ {"gateway"} : c \cap Low(p) = {} /\ s \cap Low(p) = {} /\ t \cap Low(p) = {}
    BY <1>2, <2>1, LowOf
  <2>5. Goes("gateway", w, StoreAndWait("gateway", c, s, t), Fresh(w), "seen")
    BY <1>1, <2>2, <2>3, <2>4, ModesOf
  <2>6. QED
    BY <2>1, <2>5 DEF GatewayPll
<1>7. Goes("bme", w, BmePll, Fresh(w), "seen")
  <2>1. PICK c, s, t : c = 18 .. 23 /\ s = {18, 19, 20, 21} /\ t = {18, 21, 22}
    OBVIOUS
  <2>2. c \in SUBSET Ones /\ s \in SUBSET Ones /\ t \in SUBSET Ones
    BY <2>1, WordRanges
  <2>3. Low("bme") \subseteq c /\ Cal("bme") \in s /\ t \cap Low("bme") = {Pow("bme")}
    BY <2>1, LowOf
  <2>4. \A p \in PLL \ {"bme"} : c \cap Low(p) = {} /\ s \cap Low(p) = {} /\ t \cap Low(p) = {}
    BY <1>2, <2>1, LowOf
  <2>5. Goes("bme", w, StoreAndWait("bme", c, s, t), Fresh(w), "seen")
    BY <1>1, <2>2, <2>3, <2>4, ModesOf
  <2>6. QED
    BY <2>1, <2>5 DEF BmePll
<1>8. Goes("dsp", w, DspPll, Fresh(w), "seen")
  <2>1. PICK c, s, t : c = 24 .. 31 /\ s = {24, 25, 26, 28} /\ t = {24, 28}
    OBVIOUS
  <2>2. c \in SUBSET Ones /\ s \in SUBSET Ones /\ t \in SUBSET Ones
    BY <2>1, WordRanges
  <2>3. Low("dsp") \subseteq c /\ Cal("dsp") \in s /\ t \cap Low("dsp") = {Pow("dsp")}
    BY <2>1, LowOf
  <2>4. \A p \in PLL \ {"dsp"} : c \cap Low(p) = {} /\ s \cap Low(p) = {} /\ t \cap Low(p) = {}
    BY <1>2, <2>1, LowOf
  <2>5. Goes("dsp", w, StoreAndWait("dsp", c, s, t), Fresh(w), "seen")
    BY <1>1, <2>2, <2>3, <2>4, ModesOf
  <2>6. QED
    BY <2>1, <2>5 DEF DspPll
<1>9. QED
  BY <1>3, <1>4, <1>5, <1>6, <1>7, <1>8

(* The assembly waits twice for the calibration of the first PLL.          *)
LEMMA FixedWordsGo == Goes("fixed", FALSE, FixedPll, "new", "seen")
<1>1. PICK c, d, s, t, R : /\ c = 0 .. 5 /\ d = 0 .. 3 /\ s = {0, 1, 2} /\ t = {0}
                           /\ R = StageSteps("fixed", FALSE)
  OBVIOUS
<1>2. c \in SUBSET Ones /\ d \in SUBSET Ones /\ s \in SUBSET Ones /\ t \in SUBSET Ones
  BY <1>1, WordRanges
<1>3. /\ Low("fixed") \subseteq d /\ Cal("fixed") \in s
      /\ t \cap Low("fixed") = {Pow("fixed")}
  BY <1>1, LowOf
<1>4. \A p \in PLL \ {"fixed"} :
        /\ c \cap Low(p) = {} /\ s \cap Low(p) = {}
        /\ d \cap Low(p) = {} /\ t \cap Low(p) = {}
  BY <1>1, LowOf DEF PLL
<1>5. PICK a, b, e, l : /\ a = Modify("pll_pwr_rst", c, s) /\ b = Poll("fixed", "calibrated")
                        /\ e = Modify("pll_pwr_rst", d, t) /\ l = Poll("fixed", "locked")
  OBVIOUS
<1>6. a \in Seq(Own("fixed")) /\ e \in Seq(Own("fixed"))
  BY <1>2, <1>4, <1>5, OwnPower
<1>7. b \in Seq(Own("fixed")) /\ l \in Seq(Own("fixed"))
  BY <1>5, OwnPolls, ModesOf
<1>8. Walks(R, "new", a, "cal") /\ Walks(R, "cal", e, "run")
  BY <1>1, <1>2, <1>3, <1>5, BitSteps, ModesOf DEF Fresh
<1>9. Walks(R, "cal", b, "cal") /\ Walks(R, "run", l, "seen")
  BY <1>1, <1>5, PollSteps, ModesOf
<1>10. /\ Goes("fixed", FALSE, a, "new", "cal") /\ Goes("fixed", FALSE, b, "cal", "cal")
       /\ Goes("fixed", FALSE, e, "cal", "run") /\ Goes("fixed", FALSE, l, "run", "seen")
  BY <1>1, <1>6, <1>7, <1>8, <1>9 DEF Goes
<1>11. Goes("fixed", FALSE, (a \o b) \o b, "new", "cal")
  BY <1>10, GoesJoin
<1>12. Goes("fixed", FALSE, (((a \o b) \o b) \o e) \o l, "new", "seen")
  BY <1>10, <1>11, GoesJoin
<1>13. FixedPll = (((a \o b) \o b) \o e) \o l
  BY <1>1, <1>5 DEF FixedPll
<1>14. QED
  BY <1>12, <1>13

LEMMA SynthGoes ==
  ASSUME NEW s
  PROVE  Goes("vcxo", FALSE, SynthPll(s), "new", IF 7 \in s THEN "seen" ELSE "new")
<1>1. CASE 7 \in s
  BY <1>1, WaitGoes DEF SynthPll, Fresh
<1>2. CASE 7 \notin s
  <2>1. PICK c, t, z, R : /\ c = 4 .. 11 /\ t = {6, 7, 9} /\ z = Modify("pll_pwr_rst", c, t)
                          /\ R = StageSteps("vcxo", FALSE)
    OBVIOUS
  <2>2. c \in SUBSET Ones /\ t \in SUBSET Ones
    BY <2>1, WordRanges
  <2>3. Cal("vcxo") \notin t
    BY <2>1, LowOf
  <2>4. \A p \in PLL \ {"vcxo"} : c \cap Low(p) = {} /\ t \cap Low(p) = {}
    BY <2>1, LowOf DEF PLL
  <2>5. z \in Seq(Own("vcxo"))
    BY <2>1, <2>2, <2>4, OwnPower
  <2>6. Walks(R, "new", z, "new")
    BY <2>1, <2>2, <2>3, BitSteps, ModesOf DEF Fresh
  <2>7. Goes("vcxo", FALSE, z, "new", "new")
    BY <2>1, <2>5, <2>6 DEF Goes
  <2>8. Goes("vcxo", FALSE, OpenCommonClock, "new", "new")
    BY CommonPieces, GoesEarly, ModesOf
  <2>9. Goes("vcxo", FALSE, OpenCommonClock \o z, "new", "new")
    BY <2>7, <2>8, GoesJoin
  <2>10. SynthPll(s) = OpenCommonClock \o z
    BY <1>2, <2>1 DEF SynthPll
  <2>11. QED
    BY <1>2, <2>9, <2>10
<1>3. QED
  BY <1>1, <1>2

(* The older forms do not look at the lock of the gateway PLL itself.      *)
LEMMA WordsGatewayGoes ==
  ASSUME NEW w \in BOOLEAN
  PROVE  Goes("gateway", w, WordsGatewayPll, Fresh(w), "run")
<1>1. PICK c, s, t, R : /\ c = 12 .. 16 /\ s = 12 .. 16 /\ t = {12, 15, 16}
                        /\ R = StageSteps("gateway", w)
  OBVIOUS
<1>2. c \in SUBSET Ones /\ s \in SUBSET Ones /\ t \in SUBSET Ones
  BY <1>1, WordRanges
<1>3. /\ Low("gateway") \subseteq c /\ Cal("gateway") \in s
      /\ t \cap Low("gateway") = {Pow("gateway")}
  BY <1>1, LowOf
<1>4. \A p \in PLL \ {"gateway"} : c \cap Low(p) = {} /\ s \cap Low(p) = {} /\ t \cap Low(p) = {}
  BY <1>1, LowOf DEF PLL
<1>5. PICK a, b, e, l :
        /\ a = Modify("pll_pwr_rst", c, s) /\ b = Poll("gateway", "calibrated")
        /\ e = Modify("pll_pwr_rst", c, t) /\ l = Poll("bme", "locked")
  OBVIOUS
<1>6. a \in Seq(Own("gateway")) /\ e \in Seq(Own("gateway"))
  BY <1>2, <1>4, <1>5, OwnPower
<1>7. b \in Seq(Own("gateway"))
  BY <1>5, OwnPolls, ModesOf
<1>8. Walks(R, Fresh(w), a, "cal") /\ Walks(R, "cal", e, "run")
  BY <1>1, <1>2, <1>3, <1>5, BitSteps, ModesOf
<1>9. Walks(R, "cal", b, "cal")
  BY <1>1, <1>5, PollSteps, ModesOf
<1>10. /\ Goes("gateway", w, a, Fresh(w), "cal") /\ Goes("gateway", w, b, "cal", "cal")
       /\ Goes("gateway", w, e, "cal", "run")
  BY <1>1, <1>6, <1>7, <1>8, <1>9 DEF Goes
<1>11. Goes("gateway", w, l, "run", "run")
  <2>1. "bme" \in PLL \ {"gateway"}
    BY DEF PLL
  <2>2. QED
    BY <1>5, <2>1, GoesCalls, ModesOf
<1>12. Goes("gateway", w, (a \o b) \o e, Fresh(w), "run")
  BY <1>10, GoesJoin
<1>13. Goes("gateway", w, ((a \o b) \o e) \o l, Fresh(w), "run")
  BY <1>11, <1>12, GoesJoin
<1>14. WordsGatewayPll = ((a \o b) \o e) \o l
  BY <1>1, <1>5 DEF WordsGatewayPll
<1>15. QED
  BY <1>13, <1>14

-----------------------------------------------------------------------------
(* The stages of fixed, VCXO, gateway, BME and DSP PLL.                    *)
Way(a, b, c, d, e) ==
  [p \in PLL |-> CASE p = "fixed"   -> a
                   [] p = "vcxo"    -> b
                   [] p = "gateway" -> c
                   [] p = "bme"     -> d
                   [] p = "dsp"     -> e]

AllNew == Way("new", "new", "new", "new", "new")

LEMMA WayAt ==
  ASSUME NEW a, NEW b, NEW c, NEW d, NEW e
  PROVE  /\ Way(a, b, c, d, e)["fixed"] = a /\ Way(a, b, c, d, e)["vcxo"] = b
         /\ Way(a, b, c, d, e)["gateway"] = c /\ Way(a, b, c, d, e)["bme"] = d
         /\ Way(a, b, c, d, e)["dsp"] = e
         /\ a \in Stages /\ b \in Stages /\ c \in Stages /\ d \in Stages /\ e \in Stages
              => \A p \in PLL : Way(a, b, c, d, e)[p] \in Stages
<1>1. PLL = {"fixed", "vcxo", "gateway", "bme", "dsp"}
  BY DEF PLL
<1>2. /\ Way(a, b, c, d, e)["fixed"] = a /\ Way(a, b, c, d, e)["vcxo"] = b
      /\ Way(a, b, c, d, e)["gateway"] = c /\ Way(a, b, c, d, e)["bme"] = d
      /\ Way(a, b, c, d, e)["dsp"] = e
  BY <1>1 DEF Way
<1>3. QED
  BY <1>1, <1>2

(* A piece of one PLL, in the midst of all five.                           *)
LEMMA FixedOn ==
  ASSUME NEW w, NEW v, v = w["fixed"], NEW s, NEW z,
         NEW a \in Stages, NEW b \in Stages, NEW c \in Stages, NEW d \in Stages, NEW e \in Stages,
         Goes("fixed", v, s, a, z)
  PROVE  Moves(w, Way(a, b, c, d, e), s, Way(z, b, c, d, e))
<1>1. PICK f, g : f = Way(a, b, c, d, e) /\ g = Way(z, b, c, d, e)
  OBVIOUS
<1>2. /\ \A p \in PLL : f[p] \in Stages
      /\ \A p \in PLL \ {"fixed"} : g[p] = f[p]
      /\ f["fixed"] = a /\ g["fixed"] = z
  BY <1>1, WayAt DEF PLL
<1>3. s \in Seq(Own("fixed")) /\ Walks(StageSteps("fixed", w["fixed"]), f["fixed"], s, g["fixed"])
  BY <1>2 DEF Goes
<1>4. QED
  BY <1>1, <1>2, <1>3, PieceMoves, ModesOf
LEMMA VcxoOn ==
  ASSUME NEW w, NEW v, v = w["vcxo"], NEW s, NEW z,
         NEW a \in Stages, NEW b \in Stages, NEW c \in Stages, NEW d \in Stages, NEW e \in Stages,
         Goes("vcxo", v, s, b, z)
  PROVE  Moves(w, Way(a, b, c, d, e), s, Way(a, z, c, d, e))
<1>1. PICK f, g : f = Way(a, b, c, d, e) /\ g = Way(a, z, c, d, e)
  OBVIOUS
<1>2. /\ \A p \in PLL : f[p] \in Stages
      /\ \A p \in PLL \ {"vcxo"} : g[p] = f[p]
      /\ f["vcxo"] = b /\ g["vcxo"] = z
  BY <1>1, WayAt DEF PLL
<1>3. s \in Seq(Own("vcxo")) /\ Walks(StageSteps("vcxo", w["vcxo"]), f["vcxo"], s, g["vcxo"])
  BY <1>2 DEF Goes
<1>4. QED
  BY <1>1, <1>2, <1>3, PieceMoves, ModesOf
LEMMA GatewayOn ==
  ASSUME NEW w, NEW v, v = w["gateway"], NEW s, NEW z,
         NEW a \in Stages, NEW b \in Stages, NEW c \in Stages, NEW d \in Stages, NEW e \in Stages,
         Goes("gateway", v, s, c, z)
  PROVE  Moves(w, Way(a, b, c, d, e), s, Way(a, b, z, d, e))
<1>1. PICK f, g : f = Way(a, b, c, d, e) /\ g = Way(a, b, z, d, e)
  OBVIOUS
<1>2. /\ \A p \in PLL : f[p] \in Stages
      /\ \A p \in PLL \ {"gateway"} : g[p] = f[p]
      /\ f["gateway"] = c /\ g["gateway"] = z
  BY <1>1, WayAt DEF PLL
<1>3. s \in Seq(Own("gateway")) /\ Walks(StageSteps("gateway", w["gateway"]), f["gateway"], s, g["gateway"])
  BY <1>2 DEF Goes
<1>4. QED
  BY <1>1, <1>2, <1>3, PieceMoves, ModesOf
LEMMA BmeOn ==
  ASSUME NEW w, NEW v, v = w["bme"], NEW s, NEW z,
         NEW a \in Stages, NEW b \in Stages, NEW c \in Stages, NEW d \in Stages, NEW e \in Stages,
         Goes("bme", v, s, d, z)
  PROVE  Moves(w, Way(a, b, c, d, e), s, Way(a, b, c, z, e))
<1>1. PICK f, g : f = Way(a, b, c, d, e) /\ g = Way(a, b, c, z, e)
  OBVIOUS
<1>2. /\ \A p \in PLL : f[p] \in Stages
      /\ \A p \in PLL \ {"bme"} : g[p] = f[p]
      /\ f["bme"] = d /\ g["bme"] = z
  BY <1>1, WayAt DEF PLL
<1>3. s \in Seq(Own("bme")) /\ Walks(StageSteps("bme", w["bme"]), f["bme"], s, g["bme"])
  BY <1>2 DEF Goes
<1>4. QED
  BY <1>1, <1>2, <1>3, PieceMoves, ModesOf
LEMMA DspOn ==
  ASSUME NEW w, NEW v, v = w["dsp"], NEW s, NEW z,
         NEW a \in Stages, NEW b \in Stages, NEW c \in Stages, NEW d \in Stages, NEW e \in Stages,
         Goes("dsp", v, s, e, z)
  PROVE  Moves(w, Way(a, b, c, d, e), s, Way(a, b, c, d, z))
<1>1. PICK f, g : f = Way(a, b, c, d, e) /\ g = Way(a, b, c, d, z)
  OBVIOUS
<1>2. /\ \A p \in PLL : f[p] \in Stages
      /\ \A p \in PLL \ {"dsp"} : g[p] = f[p]
      /\ f["dsp"] = e /\ g["dsp"] = z
  BY <1>1, WayAt DEF PLL
<1>3. s \in Seq(Own("dsp")) /\ Walks(StageSteps("dsp", w["dsp"]), f["dsp"], s, g["dsp"])
  BY <1>2 DEF Goes
<1>4. QED
  BY <1>1, <1>2, <1>3, PieceMoves, ModesOf
(* Nothing is left to do of a PLL that has not calibrated but by its power *)
(* word.                                                                   *)
NoPower == {o \in SafeOps : Writes(o) => o.reg # "pll_pwr_rst"}

LEMMA EarlyStays ==
  ASSUME NEW w, NEW s \in Seq(NoPower)
  PROVE  Moves(w, AllNew, s, AllNew)
<1>1. \A p \in PLL : AllNew[p] = "new"
  BY WayAt DEF AllNew, PLL
<1>2. ASSUME NEW p \in PLL
      PROVE  Walks(StageSteps(p, w[p]), "new", s, "new")
  <2>1. \A o \in NoPower : StageStep(p, w[p], "new", o, "new")
    BY DEF NoPower, StageStep, Calm
  <2>2. \A o \in NoPower : <<"new", o, "new">> \in StageSteps(p, w[p])
    BY <2>1, IsStageStep DEF NoPower, Stages
  <2>3. QED
    BY <2>2, WalkStays
<1>3. s \in Seq(SafeOps)
  BY DEF NoPower
<1>4. QED
  BY <1>1, <1>2, <1>3 DEF Moves

LEMMA EarlyPieces ==
  ASSUME NEW S, S = Seq(NoPower)
  PROVE  /\ <<>> \in S /\ \A s, t \in S : s \o t \in S
         /\ ClockAndReset \in S /\ ResetThreshold \in S /\ Or("rst_vec", {31}) \in S
         /\ \A c : HostSource(c) \in S /\ Dividers(c) \in S
         /\ Divide400 \in S /\ Divide500 \in S /\ AllClocksOn \in S /\ Analogs \in S
         /\ \A h, l : /\ Store("pll_fixed_analog", Hex(h, l)) \in S
                      /\ Store("pll_vcxo_analog", Hex(h, l)) \in S
                      /\ Store("pll_gateway_analog", Hex(h, l)) \in S
                      /\ Store("pll_bme_analog", Hex(h, l)) \in S
                      /\ Store("pll_dsp_analog", Hex(h, l)) \in S
                      /\ Store("pll_dsp_sigmadelta", Hex(h, l)) \in S
                      /\ Store("pll_vcxo_sigmadelta", Hex(h, l)) \in S
<1>1. <<>> \in S /\ \A s, t \in S : s \o t \in S
  OBVIOUS
<1>2. \A t \in Seq(Unpowered("none")) : t \in S
  <2>1. Unpowered("none") \subseteq NoPower
    BY DEF Unpowered, Own, NoPower
  <2>2. PICK A, B : A = Unpowered("none") /\ B = NoPower
    OBVIOUS
  <2>3. A \subseteq B
    BY <2>1, <2>2
  <2>4. \A t \in Seq(A) : t \in Seq(B)
    BY ONLY <2>3
  <2>5. QED
    BY <2>2, <2>4
<1>3. /\ ClockAndReset \in S /\ ResetThreshold \in S /\ Or("rst_vec", {31}) \in S
      /\ \A c : HostSource(c) \in S
  BY <1>2, CommonPieces
<1>4. ASSUME NEW g \in DOMAIN ResetRegs \ Shared, g # "pll_pwr_rst", NEW h, NEW l
      PROVE  Store(g, Hex(h, l)) \in S
  <2>1. PICK u, o : u = Hex(h, l) /\ o = [op |-> "store", reg |-> g, word |-> u]
    OBVIOUS
  <2>2. u \in SUBSET Ones
    BY <2>1, HexTyped
  <2>3. o \in SafeOps
    BY <1>4, <2>1, <2>2 DEF SafeOps, Operations, Harmless, Shared
  <2>4. o \in NoPower
    BY <1>4, <2>1, <2>3 DEF NoPower
  <2>5. <<o>> \in S
    BY <2>4
  <2>6. QED
    BY <2>1, <2>5 DEF Store
<1>5. {"pll_vcxo_sigmadelta", "pll_dsp_sigmadelta", "pll_post_divider1", "pll_post_divider2",
       "pll_post_divider3", "pll_fixed_analog", "pll_vcxo_analog", "pll_gateway_analog",
       "pll_bme_analog", "pll_dsp_analog"}
        \subseteq DOMAIN ResetRegs \ (Shared \cup {"pll_pwr_rst"})
  BY RegisterNames DEF Shared
<1>6. \A h, l : /\ Store("pll_fixed_analog", Hex(h, l)) \in S
                /\ Store("pll_vcxo_analog", Hex(h, l)) \in S
                /\ Store("pll_gateway_analog", Hex(h, l)) \in S
                /\ Store("pll_bme_analog", Hex(h, l)) \in S
                /\ Store("pll_dsp_analog", Hex(h, l)) \in S
                /\ Store("pll_dsp_sigmadelta", Hex(h, l)) \in S
                /\ Store("pll_vcxo_sigmadelta", Hex(h, l)) \in S
                /\ Store("pll_post_divider1", Hex(h, l)) \in S
                /\ Store("pll_post_divider2", Hex(h, l)) \in S
                /\ Store("pll_post_divider3", Hex(h, l)) \in S
  BY <1>4, <1>5
<1>7. Divide400 \in S /\ Divide500 \in S
  BY <1>1, <1>6 DEF Divide400, Divide500
<1>8. \A c : Dividers(c) \in S
  BY <1>7 DEF Dividers
<1>9. AllClocksOn \in S
  BY <1>6 DEF AllClocksOn
<1>10. Analogs \in S
  BY <1>1, <1>6 DEF Analogs
<1>11. QED
  BY <1>1, <1>3, <1>6, <1>7, <1>8, <1>9, <1>10

(* The whole word of clocks is final for the PLLs that are divided.        *)
Late == [p \in PLL |-> FALSE]
Divides == [p \in PLL |-> p \in Divided]

LEMMA ClocksOnStep ==
  ASSUME NEW p \in PLL, NEW w, w = (p \in Divided), NEW x \in Stages
  PROVE  /\ w /\ x = "new" => Walks(StageSteps(p, w), "new", AllClocksOn, "set")
         /\ w /\ x # "new" => Walks(StageSteps(p, w), x, AllClocksOn, x)
         /\ ~ w => Walks(StageSteps(p, w), x, AllClocksOn, x)
<1>1. PICK o : o = ClocksOn
  OBVIOUS
<1>2. o.op = "store" /\ o.reg = "pll_post_divider3" /\ <<o>> = AllClocksOn
  BY <1>1 DEF ClocksOn, AllClocksOn, Store
<1>3. o \in SafeOps
  <2>1. <<o>> \in Seq(SafeOps)
    BY <1>2, WordPieces
  <2>2. PICK s : s = <<o>>
    OBVIOUS
  <2>3. s \in Seq(SafeOps) /\ Len(s) = 1 /\ s[1] = o
    BY <2>1, <2>2
  <2>4. QED
    BY <2>3
<1>4. /\ Writes(o) /\ ~ Powers(o) /\ Quiet(p, o) /\ Calm(p, o)
      /\ o.reg \notin SettingRegs(p)
  BY <1>2, SettingNames DEF Writes, Powers, Quiet, Calm
<1>5. ClocksSpared(p, w, o) /\ SettingsSpared(p, o)
  BY <1>1, <1>2, <1>4 DEF ClocksSpared, SettingsSpared
<1>6. StageStep(p, w, "new", o, "set")
  BY <1>1 DEF StageStep
<1>7. StageStep(p, w, x, o, x)
  BY <1>4, <1>5 DEF StageStep, Stages
<1>8. <<"new", o, "set">> \in StageSteps(p, w) /\ <<x, o, x>> \in StageSteps(p, w)
  BY <1>3, <1>6, <1>7, IsStageStep DEF Stages
<1>9. QED
  BY <1>2, <1>8, WalkOne

LEMMA ClocksOnMoves ==
  ASSUME NEW a \in Stages, NEW b \in Stages, NEW c \in Stages \ {"new"},
         NEW d \in Stages \ {"new"}, NEW e \in Stages \ {"new"}
  PROVE  /\ Moves(Divides, Way(a, b, "new", "new", "new"), AllClocksOn,
                  Way(a, b, "set", "set", "set"))
         /\ Moves(Divides, Way(a, b, c, d, e), AllClocksOn, Way(a, b, c, d, e))
<1>1. PICK f, g, h, s : /\ f = Way(a, b, "new", "new", "new") /\ g = Way(a, b, "set", "set", "set")
                        /\ h = Way(a, b, c, d, e) /\ s = AllClocksOn
  OBVIOUS
<1>2. s \in Seq(SafeOps)
  BY <1>1, WordPieces
<1>3. "new" \in Stages
  BY DEF Stages
<1>4. ASSUME NEW p \in PLL
      PROVE  /\ Walks(StageSteps(p, Divides[p]), f[p], s, g[p])
             /\ Walks(StageSteps(p, Divides[p]), h[p], s, h[p])
  <2>1. PICK w : w = (p \in Divided)
    OBVIOUS
  <2>2. Divides[p] = w
    BY <2>1 DEF Divides
  <2>3. CASE p \in Divided
    <3>1. f[p] = "new" /\ g[p] = "set" /\ h[p] \in {c, d, e}
      BY <1>1, <2>3, WayAt DEF Divided
    <3>2. h[p] \in Stages /\ h[p] # "new"
      BY <3>1
    <3>3. w
      BY <2>1, <2>3
    <3>4. Walks(StageSteps(p, w), "new", s, "set")
      BY <1>1, <1>3, <2>1, <3>3, ClocksOnStep
    <3>5. Walks(StageSteps(p, w), h[p], s, h[p])
      BY <1>1, <2>1, <3>2, <3>3, ClocksOnStep
    <3>6. QED
      BY <2>2, <3>1, <3>4, <3>5
  <2>4. CASE p \notin Divided
    <3>1. f[p] = h[p] /\ g[p] = h[p] /\ h[p] \in {a, b}
      BY <1>1, <2>4, WayAt DEF Divided, PLL
    <3>2. h[p] \in Stages /\ ~ w
      BY <2>1, <2>4, <3>1
    <3>3. Walks(StageSteps(p, w), h[p], s, h[p])
      BY <1>1, <2>1, <3>2, ClocksOnStep
    <3>4. QED
      BY <2>2, <3>1, <3>3
  <2>5. QED
    BY <2>3, <2>4
<1>5. QED
  BY <1>1, <1>2, <1>4 DEF Moves

LEMMA OneOf ==
  ASSUME NEW U, NEW o, <<o>> \in Seq(U)
  PROVE  o \in U
<1>1. PICK s : s = <<o>>
  OBVIOUS
<1>2. s \in Seq(U) /\ s[1] = o /\ Len(s) = 1
  BY <1>1
<1>3. \A n \in 1 .. Len(s) : s[n] \in U
  BY <1>2
<1>4. QED
  BY <1>2, <1>3

(* With its clocks final, a PLL may still get its settings.                *)
LEMMA SetStays ==
  ASSUME NEW q \in PLL, NEW g \in SettingRegs(q), NEW word \in SUBSET Ones, NEW w
  PROVE  Goes(q, w, Store(g, word), "set", "set")
<1>1. PICK o : o = [op |-> "store", reg |-> g, word |-> word]
  OBVIOUS
<1>2. <<o>> = Store(g, word)
  BY <1>1 DEF Store
<1>3. o \in Unpowered(q)
  <2>1. <<o>> \in Seq(Unpowered(q))
    BY <1>2, OwnSettings
  <2>2. QED
    BY <2>1, OneOf
<1>4. o.reg = g /\ g # "pll_pwr_rst" /\ g # "pll_post_divider3"
  BY <1>1, SettingNames
<1>5. Calm(q, o) /\ ClocksSpared(q, w, o)
  BY <1>4 DEF Calm, ClocksSpared
<1>6. StageStep(q, w, "set", o, "set")
  BY <1>5 DEF StageStep
<1>7. o \in SafeOps /\ o \in Own(q)
  BY <1>3 DEF Unpowered, Own
<1>8. <<"set", o, "set">> \in StageSteps(q, w)
  BY <1>6, <1>7, IsStageStep DEF Stages
<1>9. Walks(StageSteps(q, w), "set", <<o>>, "set")
  BY <1>8, WalkOne
<1>10. <<o>> \in Seq(Own(q))
  BY <1>7
<1>11. QED
  BY <1>2, <1>9, <1>10 DEF Goes

-----------------------------------------------------------------------------
(* The whole of a routine: which PLLs have a final word of clocks.         *)
WaysOf(r) == IF r = "init_plls_parts" THEN Divides ELSE Late

(* How far a routine brings the PLLs.                                      *)
SeenIf(b) == IF b THEN "seen" ELSE "new"
EndOf(r, uartboot, s) ==
  CASE r = "init_plls" /\ uartboot   -> Way("seen", "new", "seen", "new", "new")
    [] r = "init_plls" /\ ~ uartboot -> Way("seen", SeenIf(10 \in s), "seen", "seen", "seen")
    [] r = "init_pll"                -> Way("seen", SeenIf(7 \in s), "seen", "seen", "seen")
    [] OTHER                         -> Way("seen", SeenIf(7 \in s), "run", "seen", "seen")

LEMMA WaysAt ==
  /\ \A p \in PLL : Late[p] = FALSE
  /\ Late["fixed"] = FALSE /\ Late["vcxo"] = FALSE /\ Late["gateway"] = FALSE
  /\ Late["bme"] = FALSE /\ Late["dsp"] = FALSE
  /\ Divides["fixed"] = FALSE /\ Divides["vcxo"] = FALSE /\ Divides["gateway"] = TRUE
  /\ Divides["bme"] = TRUE /\ Divides["dsp"] = TRUE
<1>1. \A p \in PLL : Late[p] = FALSE /\ Divides[p] = (p \in Divided)
  BY DEF Late, Divides
<1>2. \A p \in PLL : p \in Divided <=> p \notin {"fixed", "vcxo"}
  BY DEF Divided, PLL
<1>3. {"fixed", "vcxo", "gateway", "bme", "dsp"} \subseteq PLL
  BY DEF PLL
<1>4. \A p \in {"fixed", "vcxo", "gateway", "bme", "dsp"} :
        Late[p] = FALSE /\ Divides[p] = (p \notin {"fixed", "vcxo"})
  BY <1>1, <1>2, <1>3
<1>5. \A p \in PLL : Late[p] = FALSE
  BY <1>1
<1>6. QED
  BY <1>4, <1>5

LEMMA StageNames ==
  /\ "new" \in Stages /\ "set" \in Stages /\ "run" \in Stages /\ "seen" \in Stages
  /\ \A b : SeenIf(b) \in Stages
BY DEF Stages, SeenIf

LEMMA EndStages ==
  ASSUME NEW r, NEW u, NEW s
  PROVE  \A p \in PLL : EndOf(r, u, s)[p] \in Stages
BY StageNames, WayAt DEF EndOf

LEMMA PllsMove ==
  ASSUME NEW c, NEW u \in BOOLEAN, NEW s, NEW why, why # "soft"
  PROVE  Moves(Late, AllNew, init_plls(c, why, u, s), EndOf("init_plls", u, s))
<1>1. PICK h, e : h = ClockAndReset \o ResetThreshold /\ e = HostSource(c) \o Dividers(c)
  OBVIOUS
<1>2. h \in Seq(NoPower) /\ e \in Seq(NoPower)
  BY <1>1, EarlyPieces
<1>3. Moves(Late, AllNew, h, AllNew) /\ Moves(Late, AllNew, e, AllNew)
  BY <1>2, EarlyStays
<1>4. Moves(Late, AllNew, init_pll0_fixed, Way("seen", "new", "new", "new", "new"))
  BY FixedGoes, FixedOn, WaysAt, StageNames DEF AllNew
<1>5. Moves(Late, Way("seen", "new", "new", "new", "new"), init_pll1_gateway,
            Way("seen", "new", "seen", "new", "new"))
  BY GatewayGoes, GatewayOn, WaysAt, StageNames
<1>6. Moves(Late, AllNew, e \o init_pll0_fixed, Way("seen", "new", "new", "new", "new"))
  BY <1>3, <1>4, MovesJoin
<1>7. Moves(Late, AllNew, (e \o init_pll0_fixed) \o init_pll1_gateway,
            Way("seen", "new", "seen", "new", "new"))
  BY <1>5, <1>6, MovesJoin
<1>8. CASE u
  <2>1. Moves(Late, Way("seen", "new", "seen", "new", "new"), <<>>,
              Way("seen", "new", "seen", "new", "new"))
    BY MovesNot
  <2>2. Moves(Late, AllNew, ((e \o init_pll0_fixed) \o init_pll1_gateway) \o <<>>,
              Way("seen", "new", "seen", "new", "new"))
    BY <1>7, <2>1, MovesJoin
  <2>3. Moves(Late, AllNew, h \o (((e \o init_pll0_fixed) \o init_pll1_gateway) \o <<>>),
              Way("seen", "new", "seen", "new", "new"))
    BY <1>3, <2>2, MovesJoin
  <2>4. init_plls(c, why, u, s) = h \o (((e \o init_pll0_fixed) \o init_pll1_gateway) \o <<>>)
    BY <1>1, <1>8 DEF init_plls
  <2>5. EndOf("init_plls", u, s) = Way("seen", "new", "seen", "new", "new")
    BY <1>8 DEF EndOf
  <2>6. QED
    BY <2>3, <2>4, <2>5
<1>9. CASE ~ u
  <2>1. PICK v : v = SeenIf(10 \in s)
    OBVIOUS
  <2>2. v \in Stages
    BY <2>1, StageNames
  <2>3. Goes("vcxo", FALSE, init_pll2_vcxo(s), "new", v)
    BY <2>1, VcxoGoes DEF SeenIf
  <2>4. Moves(Late, Way("seen", "new", "seen", "new", "new"), init_pll2_vcxo(s),
              Way("seen", v, "seen", "new", "new"))
    BY <2>3, VcxoOn, WaysAt, StageNames
  <2>5. Moves(Late, Way("seen", v, "seen", "new", "new"), init_pll3_bme,
              Way("seen", v, "seen", "seen", "new"))
    BY <2>2, BmeGoes, BmeOn, WaysAt, StageNames
  <2>6. Moves(Late, Way("seen", v, "seen", "seen", "new"), init_pll4_dsp,
              Way("seen", v, "seen", "seen", "seen"))
    BY <2>2, DspGoes, DspOn, WaysAt, StageNames
  <2>7. PICK t : t = (init_pll2_vcxo(s) \o init_pll3_bme) \o init_pll4_dsp
    OBVIOUS
  <2>8. Moves(Late, Way("seen", "new", "seen", "new", "new"), t,
              Way("seen", v, "seen", "seen", "seen"))
    BY <2>4, <2>5, <2>6, <2>7, MovesJoin
  <2>9. Moves(Late, AllNew, ((e \o init_pll0_fixed) \o init_pll1_gateway) \o t,
              Way("seen", v, "seen", "seen", "seen"))
    BY <1>7, <2>8, MovesJoin
  <2>10. Moves(Late, AllNew, h \o (((e \o init_pll0_fixed) \o init_pll1_gateway) \o t),
               Way("seen", v, "seen", "seen", "seen"))
    BY <1>3, <2>9, MovesJoin
  <2>11. init_plls(c, why, u, s) = h \o (((e \o init_pll0_fixed) \o init_pll1_gateway) \o t)
    BY <1>1, <1>9, <2>7 DEF init_plls
  <2>12. EndOf("init_plls", u, s) = Way("seen", v, "seen", "seen", "seen")
    BY <1>9, <2>1 DEF EndOf
  <2>13. QED
    BY <2>10, <2>11, <2>12
<1>10. QED
  BY <1>8, <1>9

(* The pieces that set up no PLL, wherever the PLLs are.                   *)
LEMMA CommonMoves ==
  ASSUME NEW w, NEW f, \A p \in PLL : f[p] \in Stages
  PROVE  /\ Moves(w, f, ClockAndReset, f) /\ Moves(w, f, ResetThreshold, f)
         /\ Moves(w, f, Or("rst_vec", {31}), f)
<1>1. Unpowered("none") \subseteq Own("none")
  BY DEF Unpowered
<1>2. \A t \in Seq(Unpowered("none")) : t \in Seq(Own("none"))
  <2>1. PICK A, B : A = Unpowered("none") /\ B = Own("none")
    OBVIOUS
  <2>2. A \subseteq B
    BY <1>1, <2>1
  <2>3. \A t \in Seq(A) : t \in Seq(B)
    BY ONLY <2>2
  <2>4. QED
    BY <2>1, <2>3
<1>3. /\ ClockAndReset \in Seq(Own("none")) /\ ResetThreshold \in Seq(Own("none"))
      /\ Or("rst_vec", {31}) \in Seq(Own("none"))
  BY <1>2, CommonPieces
<1>4. QED
  BY <1>3, PieceApart

LEMMA PllMoves ==
  ASSUME NEW c, NEW s, NEW why, why # "soft", NEW u
  PROVE  Moves(Late, AllNew, init_pll(c, why, s), EndOf("init_pll", u, s))
<1>1. PICK h, d, e : /\ h = ClockAndReset \o ResetThreshold
                     /\ d = (IF c = 0 THEN Divide500 ELSE Divide400) /\ e = d \o Analogs
  OBVIOUS
<1>2. d \in Seq(NoPower)
  BY <1>1, EarlyPieces
<1>3. h \in Seq(NoPower) /\ e \in Seq(NoPower)
  BY <1>1, <1>2, EarlyPieces
<1>4. Moves(Late, AllNew, h, AllNew) /\ Moves(Late, AllNew, e, AllNew)
  BY <1>3, EarlyStays
<1>5. PICK v : v = SeenIf(7 \in s)
  OBVIOUS
<1>6. v \in Stages
  BY <1>5, StageNames
<1>7. Goes("vcxo", FALSE, SynthPll(s), "new", v)
  BY <1>5, SynthGoes DEF SeenIf
<1>8. Moves(Late, AllNew, FixedPll, Way("seen", "new", "new", "new", "new"))
  BY FixedWordsGo, FixedOn, WaysAt, StageNames DEF AllNew
<1>9. Moves(Late, Way("seen", "new", "new", "new", "new"), SynthPll(s),
            Way("seen", v, "new", "new", "new"))
  BY <1>7, VcxoOn, WaysAt, StageNames
<1>10. /\ Goes("gateway", FALSE, GatewayPll, "new", "seen")
       /\ Goes("bme", FALSE, BmePll, "new", "seen")
       /\ Goes("dsp", FALSE, DspPll, "new", "seen")
  BY WaitGoes DEF Fresh
<1>11. Moves(Late, Way("seen", v, "new", "new", "new"), BmePll,
             Way("seen", v, "new", "seen", "new"))
  BY <1>6, <1>10, BmeOn, WaysAt, StageNames
<1>12. Moves(Late, Way("seen", v, "new", "seen", "new"), GatewayPll,
             Way("seen", v, "seen", "seen", "new"))
  BY <1>6, <1>10, GatewayOn, WaysAt, StageNames
<1>13. Moves(Late, Way("seen", v, "seen", "seen", "new"), DspPll,
             Way("seen", v, "seen", "seen", "seen"))
  BY <1>6, <1>10, DspOn, WaysAt, StageNames
<1>14. PICK f : f = Way("seen", v, "seen", "seen", "seen")
  OBVIOUS
<1>15. \A p \in PLL : f[p] \in Stages
  BY <1>6, <1>14, WayAt, StageNames
<1>16. Moves(Late, AllNew, ((e \o FixedPll) \o SynthPll(s)) \o BmePll,
             Way("seen", v, "new", "seen", "new"))
  BY <1>4, <1>8, <1>9, <1>11, MovesJoin
<1>17. Moves(Late, AllNew, ((((e \o FixedPll) \o SynthPll(s)) \o BmePll) \o GatewayPll)
                             \o DspPll, f)
  BY <1>12, <1>13, <1>14, <1>16, MovesJoin
<1>18. Moves(Late, f, Or("rst_vec", {31}), f)
  BY <1>15, CommonMoves
<1>19. PICK t : t = ((((e \o FixedPll) \o SynthPll(s)) \o BmePll) \o GatewayPll) \o DspPll
  OBVIOUS
<1>20. Moves(Late, AllNew, (h \o t) \o Or("rst_vec", {31}), f)
  <2>1. Moves(Late, AllNew, t, f)
    BY <1>17, <1>19
  <2>2. Moves(Late, AllNew, h \o t, f)
    BY <1>4, <2>1, MovesJoin
  <2>3. QED
    BY <1>18, <2>2, MovesJoin
<1>21. init_pll(c, why, s) = (h \o t) \o Or("rst_vec", {31})
  BY <1>1, <1>19 DEF init_pll
<1>22. EndOf("init_pll", u, s) = f
  BY <1>5, <1>14 DEF EndOf
<1>23. QED
  BY <1>20, <1>21, <1>22

(* The two forms of the assembly that are written word by word.            *)
LEMMA WordsMove ==
  ASSUME NEW c, NEW s, NEW why, why # "soft", NEW u
  PROVE  Moves(Late, AllNew, init_plls_words(c, why, s), EndOf("init_plls_words", u, s))
<1> DEFINE h == ClockAndReset \o ResetThreshold
           e == Store("pll_fixed_analog", Hex(\h003F, \hC442))
                  \o Store("pll_vcxo_analog", Hex(\h001C, \hCA88))
                  \o Store("pll_gateway_analog", Hex(\h002C, \hC642))
                  \o Store("pll_dsp_analog", Hex(\h0026, \hCE20))
                  \o Store("pll_bme_analog", Hex(\h002C, \hC642))
                  \o Dividers(c)
                  \o Store("pll_dsp_sigmadelta", Hex(\h0001, \h2B52))
                  \o Store("pll_vcxo_sigmadelta", Hex(\h0016, \h54D6))
                  \o AllClocksOn
           t == WordsFixedPll(0 .. 3) \o SynthPll(s) \o BmePll
                  \o WordsGatewayPll \o Call("c_uart_init") \o DspPll
<1>1. init_plls_words(c, why, s)
        = h \o (IF why = "soft" THEN <<>> ELSE e \o InTwoStores(t))
  BY DEF init_plls_words
<1>2. h \in Seq(NoPower)
  BY EarlyPieces
<1>3. e \in Seq(NoPower)
  <2>1. PICK S : S = Seq(NoPower)
    OBVIOUS
  <2>2. /\ Dividers(c) \in S /\ AllClocksOn \in S
        /\ \A x, y \in S : x \o y \in S
    BY <2>1, EarlyPieces
  <2>3. PICK a1, a2, a3 : /\ a1 = Store("pll_fixed_analog", Hex(\h003F, \hC442))
                          /\ a2 = Store("pll_vcxo_analog", Hex(\h001C, \hCA88))
                          /\ a3 = Store("pll_gateway_analog", Hex(\h002C, \hC642))
    OBVIOUS
  <2>4. PICK a4, a5 : /\ a4 = Store("pll_dsp_analog", Hex(\h0026, \hCE20))
                      /\ a5 = Store("pll_bme_analog", Hex(\h002C, \hC642))
    OBVIOUS
  <2>5. PICK a6, a7 : /\ a6 = Store("pll_dsp_sigmadelta", Hex(\h0001, \h2B52))
                      /\ a7 = Store("pll_vcxo_sigmadelta", Hex(\h0016, \h54D6))
    OBVIOUS
  <2>6. a1 \in S /\ a2 \in S /\ a3 \in S
    BY <2>1, <2>3, EarlyPieces
  <2>7. a4 \in S /\ a5 \in S /\ a6 \in S /\ a7 \in S
    BY <2>1, <2>4, <2>5, EarlyPieces
  <2>8. a1 \o a2 \o a3 \o a4 \o a5 \in S
    BY <2>2, <2>6, <2>7
  <2>9. a1 \o a2 \o a3 \o a4 \o a5 \o Dividers(c) \o a6 \o a7 \o AllClocksOn \in S
    BY <2>2, <2>7, <2>8
  <2>10. QED
    BY <2>1, <2>3, <2>4, <2>5, <2>9
<1> HIDE DEF h, e, t
<1>4. Moves(Late, AllNew, h, AllNew) /\ Moves(Late, AllNew, e, AllNew)
  BY <1>2, <1>3, EarlyStays
<1>5. PICK v : v = SeenIf(7 \in s)
  OBVIOUS
<1>6. v \in Stages
  BY <1>5, StageNames
<1>7. Goes("vcxo", FALSE, SynthPll(s), "new", v)
  BY <1>5, SynthGoes DEF SeenIf
<1>8. /\ Goes("fixed", FALSE, WordsFixedPll(0 .. 3), "new", "seen")
      /\ Goes("gateway", FALSE, WordsGatewayPll, "new", "run")
      /\ Goes("bme", FALSE, BmePll, "new", "seen")
      /\ Goes("dsp", FALSE, DspPll, "new", "seen")
  BY WaitGoes, WordsGatewayGoes DEF Fresh
<1>9. Moves(Late, AllNew, WordsFixedPll(0 .. 3), Way("seen", "new", "new", "new", "new"))
  BY <1>8, FixedOn, WaysAt, StageNames DEF AllNew
<1>10. Moves(Late, Way("seen", "new", "new", "new", "new"), SynthPll(s),
             Way("seen", v, "new", "new", "new"))
  BY <1>7, VcxoOn, WaysAt, StageNames
<1>11. Moves(Late, Way("seen", v, "new", "new", "new"), BmePll,
             Way("seen", v, "new", "seen", "new"))
  BY <1>6, <1>8, BmeOn, WaysAt, StageNames
<1>12. Moves(Late, Way("seen", v, "new", "seen", "new"), WordsGatewayPll,
             Way("seen", v, "run", "seen", "new"))
  BY <1>6, <1>8, GatewayOn, WaysAt, StageNames
<1>13. Moves(Late, Way("seen", v, "run", "seen", "new"), Call("c_uart_init"),
             Way("seen", v, "run", "seen", "new"))
  <2>1. Goes("gateway", FALSE, Call("c_uart_init"), "run", "run")
    BY GoesCalls, ModesOf
  <2>2. QED
    BY <1>6, <2>1, GatewayOn, WaysAt, StageNames
<1>14. Moves(Late, Way("seen", v, "run", "seen", "new"), DspPll,
             Way("seen", v, "run", "seen", "seen"))
  BY <1>6, <1>8, DspOn, WaysAt, StageNames
<1>16. Moves(Late, AllNew, t, Way("seen", v, "run", "seen", "seen"))
  <2>1. Moves(Late, AllNew, (WordsFixedPll(0 .. 3) \o SynthPll(s)) \o BmePll,
              Way("seen", v, "new", "seen", "new"))
    BY <1>9, <1>10, <1>11, MovesJoin
  <2>2. Moves(Late, AllNew,
              (((WordsFixedPll(0 .. 3) \o SynthPll(s)) \o BmePll) \o WordsGatewayPll)
                \o Call("c_uart_init"), Way("seen", v, "run", "seen", "new"))
    BY <1>12, <1>13, <2>1, MovesJoin
  <2>3. QED
    BY <1>14, <2>2, MovesJoin DEF t
<1>17. Moves(Late, AllNew, InTwoStores(t), Way("seen", v, "run", "seen", "seen"))
  BY <1>16, MovesTwo
<1>18. Moves(Late, AllNew, e \o InTwoStores(t), Way("seen", v, "run", "seen", "seen"))
  BY <1>4, <1>17, MovesJoin
<1>19. Moves(Late, AllNew, h \o (e \o InTwoStores(t)), Way("seen", v, "run", "seen", "seen"))
  BY <1>4, <1>18, MovesJoin
<1>20. init_plls_words(c, why, s) = h \o (e \o InTwoStores(t))
  BY <1>1
<1>21. EndOf("init_plls_words", u, s) = Way("seen", v, "run", "seen", "seen")
  BY <1>5 DEF EndOf
<1>22. QED
  BY <1>19, <1>20, <1>21

(* The third form takes up the PLLs one by one, the clocks in between.     *)
LEMMA PartsMove ==
  ASSUME NEW c, NEW s, NEW why, why # "soft", NEW u
  PROVE  Moves(Divides, AllNew, init_plls_parts(c, why, s), EndOf("init_plls_parts", u, s))
<1> DEFINE e == ResetThreshold \o HostSource(c) \o ClockAndReset \o Dividers(c)
           f1 == Store("pll_fixed_analog", Hex(\h003F, \hC442))
           g1 == Store("pll_gateway_analog", Hex(\h002C, \hC642))
           v1 == Store("pll_vcxo_analog", Hex(\h001C, \hCA88))
           v2 == Store("pll_vcxo_sigmadelta", Hex(\h0016, \h54D6))
           b1 == Store("pll_bme_analog", Hex(\h002C, \hC642))
           d1 == Store("pll_dsp_analog", Hex(\h0026, \hCE20))
           d2 == Store("pll_dsp_sigmadelta", Hex(\h0001, \h2B52))
           f2 == InTwoStores(WordsFixedPll(0 .. 4))
           g2 == InTwoStores(WordsGatewayPll)
           v3 == InTwoStores(SynthPll(s))
           b2 == InTwoStores(BmePll)
           d3 == InTwoStores(DspPll)
           all == e \o f1 \o f2 \o g1 \o AllClocksOn \o g2 \o v1 \o v2 \o v3
                    \o b1 \o b2 \o d1 \o d2 \o AllClocksOn \o d3
<1>1. init_plls_parts(c, why, s) = IF why = "soft" THEN <<>> ELSE all
  BY DEF init_plls_parts
<1> HIDE DEF e, f1, g1, v1, v2, b1, d1, d2, f2, g2, v3, b2, d3, all
<1>3. PICK v : v = SeenIf(7 \in s)
  OBVIOUS
<1>4. v \in Stages
  BY <1>3, StageNames
<1>5. Moves(Divides, AllNew, e \o f1, AllNew)
  <2>1. PICK S : S = Seq(NoPower)
    OBVIOUS
  <2>2. /\ ResetThreshold \in S /\ HostSource(c) \in S /\ ClockAndReset \in S
        /\ Dividers(c) \in S /\ \A x, y \in S : x \o y \in S
    BY <2>1, EarlyPieces
  <2>3. e \in S
    BY <2>2 DEF e
  <2>4. f1 \in S
    BY <2>1, EarlyPieces DEF f1
  <2>5. e \o f1 \in Seq(NoPower)
    BY <2>1, <2>2, <2>3, <2>4
  <2>6. QED
    BY <2>5, EarlyStays
<1>6. Moves(Divides, AllNew, f2, Way("seen", "new", "new", "new", "new"))
  <2>1. Goes("fixed", FALSE, WordsFixedPll(0 .. 4), "new", "seen")
    BY WaitGoes DEF Fresh
  <2>2. Moves(Divides, AllNew, WordsFixedPll(0 .. 4), Way("seen", "new", "new", "new", "new"))
    BY <2>1, FixedOn, WaysAt, StageNames DEF AllNew
  <2>3. QED
    BY <2>2, MovesTwo DEF f2
<1>7. Moves(Divides, Way("seen", "new", "new", "new", "new"), g1,
            Way("seen", "new", "new", "new", "new"))
  <2>1. g1 \in Seq(Unpowered("gateway"))
    BY SettingWords DEF g1
  <2>2. Goes("gateway", TRUE, g1, "new", "new")
    BY <2>1, GoesEarly, ModesOf
  <2>3. QED
    BY <2>2, GatewayOn, WaysAt, StageNames
<1>8. Moves(Divides, Way("seen", "new", "new", "new", "new"), AllClocksOn,
            Way("seen", "new", "set", "set", "set"))
  BY ClocksOnMoves, StageNames
<1>9. Moves(Divides, Way("seen", "new", "set", "set", "set"), g2,
            Way("seen", "new", "run", "set", "set"))
  <2>1. Goes("gateway", TRUE, WordsGatewayPll, "set", "run")
    BY WordsGatewayGoes DEF Fresh
  <2>2. Moves(Divides, Way("seen", "new", "set", "set", "set"), WordsGatewayPll,
              Way("seen", "new", "run", "set", "set"))
    BY <2>1, GatewayOn, WaysAt, StageNames
  <2>3. QED
    BY <2>2, MovesTwo DEF g2
<1>10. /\ Moves(Divides, Way("seen", "new", "run", "set", "set"), v1,
                Way("seen", "new", "run", "set", "set"))
       /\ Moves(Divides, Way("seen", "new", "run", "set", "set"), v2,
                Way("seen", "new", "run", "set", "set"))
  <2>1. v1 \in Seq(Unpowered("vcxo")) /\ v2 \in Seq(Unpowered("vcxo"))
    BY SettingWords DEF v1, v2
  <2>2. Goes("vcxo", FALSE, v1, "new", "new") /\ Goes("vcxo", FALSE, v2, "new", "new")
    BY <2>1, GoesEarly, ModesOf
  <2>3. QED
    BY <2>2, VcxoOn, WaysAt, StageNames
<1>11. Moves(Divides, Way("seen", "new", "run", "set", "set"), v3,
             Way("seen", v, "run", "set", "set"))
  <2>1. Goes("vcxo", FALSE, SynthPll(s), "new", v)
    BY <1>3, SynthGoes DEF SeenIf
  <2>2. Moves(Divides, Way("seen", "new", "run", "set", "set"), SynthPll(s),
              Way("seen", v, "run", "set", "set"))
    BY <2>1, VcxoOn, WaysAt, StageNames
  <2>3. QED
    BY <2>2, MovesTwo DEF v3
<1>12. Moves(Divides, Way("seen", v, "run", "set", "set"), b1,
             Way("seen", v, "run", "set", "set"))
  <2>1. PICK x : x = Hex(\h002C, \hC642)
    OBVIOUS
  <2>2. "pll_bme_analog" \in SettingRegs("bme") /\ x \in SUBSET Ones
    BY <2>1, HexTyped DEF SettingRegs
  <2>4. Goes("bme", TRUE, Store("pll_bme_analog", x), "set", "set")
    BY <2>2, SetStays, ModesOf
  <2>6. Store("pll_bme_analog", x) = b1
    BY <2>1 DEF b1
  <2>5. Goes("bme", TRUE, b1, "set", "set")
    BY <2>4, <2>6
  <2>3. QED
    BY <1>4, <2>5, BmeOn, WaysAt, StageNames
<1>13. Moves(Divides, Way("seen", v, "run", "set", "set"), b2,
             Way("seen", v, "run", "seen", "set"))
  <2>1. Goes("bme", TRUE, BmePll, "set", "seen")
    BY WaitGoes DEF Fresh
  <2>2. Moves(Divides, Way("seen", v, "run", "set", "set"), BmePll,
              Way("seen", v, "run", "seen", "set"))
    BY <1>4, <2>1, BmeOn, WaysAt, StageNames
  <2>3. QED
    BY <2>2, MovesTwo DEF b2
<1>14. /\ Moves(Divides, Way("seen", v, "run", "seen", "set"), d1,
                Way("seen", v, "run", "seen", "set"))
       /\ Moves(Divides, Way("seen", v, "run", "seen", "set"), d2,
                Way("seen", v, "run", "seen", "set"))
  <2>1. PICK x, y : x = Hex(\h0026, \hCE20) /\ y = Hex(\h0001, \h2B52)
    OBVIOUS
  <2>2. /\ "pll_dsp_analog" \in SettingRegs("dsp") /\ x \in SUBSET Ones
        /\ "pll_dsp_sigmadelta" \in SettingRegs("dsp") /\ y \in SUBSET Ones
    BY <2>1, HexTyped DEF SettingRegs
  <2>4. Goes("dsp", TRUE, Store("pll_dsp_analog", x), "set", "set")
    BY <2>2, SetStays, ModesOf
  <2>5. Goes("dsp", TRUE, Store("pll_dsp_sigmadelta", y), "set", "set")
    BY <2>2, SetStays, ModesOf
  <2>7. Store("pll_dsp_analog", x) = d1 /\ Store("pll_dsp_sigmadelta", y) = d2
    BY <2>1 DEF d1, d2
  <2>6. Goes("dsp", TRUE, d1, "set", "set") /\ Goes("dsp", TRUE, d2, "set", "set")
    BY <2>4, <2>5, <2>7
  <2>3. QED
    BY <1>4, <2>6, DspOn, WaysAt, StageNames
<1>15. Moves(Divides, Way("seen", v, "run", "seen", "set"), AllClocksOn,
             Way("seen", v, "run", "seen", "set"))
  BY <1>4, ClocksOnMoves, StageNames
<1>16. Moves(Divides, Way("seen", v, "run", "seen", "set"), d3,
             Way("seen", v, "run", "seen", "seen"))
  <2>1. Goes("dsp", TRUE, DspPll, "set", "seen")
    BY WaitGoes DEF Fresh
  <2>2. Moves(Divides, Way("seen", v, "run", "seen", "set"), DspPll,
              Way("seen", v, "run", "seen", "seen"))
    BY <1>4, <2>1, DspOn, WaysAt, StageNames
  <2>3. QED
    BY <2>2, MovesTwo DEF d3
<1>17. Moves(Divides, AllNew, (((e \o f1) \o f2) \o g1) \o AllClocksOn,
             Way("seen", "new", "set", "set", "set"))
  BY <1>5, <1>6, <1>7, <1>8, MovesJoin
<1>18. Moves(Divides, AllNew,
             ((((((e \o f1) \o f2) \o g1) \o AllClocksOn) \o g2) \o v1) \o v2,
             Way("seen", "new", "run", "set", "set"))
  BY <1>9, <1>10, <1>17, MovesJoin
<1>19. Moves(Divides, AllNew,
             (((((((((e \o f1) \o f2) \o g1) \o AllClocksOn) \o g2) \o v1) \o v2)
                 \o v3) \o b1) \o b2,
             Way("seen", v, "run", "seen", "set"))
  BY <1>11, <1>12, <1>13, <1>18, MovesJoin
<1>20. Moves(Divides, AllNew, all, Way("seen", v, "run", "seen", "seen"))
  BY <1>14, <1>15, <1>16, <1>19, MovesJoin DEF all
<1>21. init_plls_parts(c, why, s) = all
  BY <1>1
<1>22. EndOf("init_plls_parts", u, s) = Way("seen", v, "run", "seen", "seen")
  BY <1>3 DEF EndOf
<1>23. QED
  BY <1>20, <1>21, <1>22

LEMMA ProgramsMove ==
  ASSUME NEW r \in AllRoutines, NEW c, NEW why, why # "soft", NEW u \in BOOLEAN, NEW s
  PROVE  Moves(WaysOf(r), AllNew, ProgramOf(r, c, why, u, s), EndOf(r, u, s))
<1>1. CASE r = "init_plls"
  BY <1>1, PllsMove DEF ProgramOf, WaysOf
<1>2. CASE r = "init_pll"
  BY <1>2, PllMoves DEF ProgramOf, WaysOf
<1>3. CASE r = "init_plls_words"
  BY <1>3, WordsMove DEF ProgramOf, WaysOf
<1>4. CASE r = "init_plls_parts"
  BY <1>4, PartsMove DEF ProgramOf, WaysOf
<1>5. QED
  BY <1>1, <1>2, <1>3, <1>4 DEF AllRoutines

(* After a soft reset a routine leaves the PLLs as they are.               *)
LEMMA SoftMoves ==
  ASSUME NEW r \in AllRoutines, NEW c, NEW u \in BOOLEAN, NEW s, NEW w, NEW f,
         \A p \in PLL : f[p] \in Stages
  PROVE  Moves(w, f, ProgramOf(r, c, "soft", u, s), f)
<1>1. /\ Moves(w, f, ClockAndReset, f) /\ Moves(w, f, ResetThreshold, f)
      /\ Moves(w, f, Or("rst_vec", {31}), f) /\ Moves(w, f, <<>>, f)
  BY CommonMoves, MovesNot
<1>2. Moves(w, f, (ClockAndReset \o ResetThreshold) \o <<>>, f)
  BY <1>1, MovesJoin
<1>3. Moves(w, f, ((ClockAndReset \o ResetThreshold) \o <<>>) \o Or("rst_vec", {31}), f)
  BY <1>1, <1>2, MovesJoin
<1>4. /\ init_plls(c, "soft", u, s) = (ClockAndReset \o ResetThreshold) \o <<>>
      /\ init_plls_words(c, "soft", s) = (ClockAndReset \o ResetThreshold) \o <<>>
  BY DEF init_plls, init_plls_words
<1>5. init_pll(c, "soft", s)
        = ((ClockAndReset \o ResetThreshold) \o <<>>) \o Or("rst_vec", {31})
  BY DEF init_pll
<1>6. init_plls_parts(c, "soft", s) = <<>>
  BY DEF init_plls_parts
<1>7. CASE r \in {"init_plls", "init_plls_words"}
  BY <1>2, <1>4, <1>7 DEF ProgramOf
<1>8. CASE r = "init_pll"
  BY <1>3, <1>5, <1>8 DEF ProgramOf
<1>9. CASE r = "init_plls_parts"
  BY <1>1, <1>6, <1>9 DEF ProgramOf
<1>10. QED
  BY <1>7, <1>8, <1>9 DEF AllRoutines

-----------------------------------------------------------------------------
(* The stages begin with the registers as a power-on leaves them.          *)
LEMMA ResetNew ==
  ASSUME NEW p \in PLL, NEW w
  PROVE  RegsAt(p, w, "new", ResetRegs)
<1>1. PICK b : b = Hex(\h0A28, \hB282)
  OBVIOUS
<1>2. 2 \notin b /\ 8 \notin b /\ 14 \notin b /\ 20 \notin b /\ 26 \notin b
  BY <1>1, HexBits
<1>3. Cal(p) \in {2, 8, 14, 20, 26}
  BY ShiftOf DEF PLL, Cal, CALIBRATION
<1>4. ResetRegs.pll_pwr_rst = b
  BY <1>1 DEF ResetRegs
<1>5. QED
  BY <1>2, <1>3, <1>4 DEF RegsAt

LEMMA WaysTyped ==
  ASSUME NEW r, NEW p \in PLL
  PROVE  WaysOf(r)[p] \in BOOLEAN
<1>1. (p \in Divided) \in BOOLEAN /\ FALSE \in BOOLEAN
  OBVIOUS
<1>2. Late[p] = FALSE /\ Divides[p] = (p \in Divided)
  BY DEF Late, Divides
<1>3. Late[p] \in BOOLEAN /\ Divides[p] \in BOOLEAN
  BY <1>1, <1>2
<1>4. QED
  BY <1>3 DEF WaysOf

(* The stage a program ends at is what it leaves the registers at.         *)
LEMMA LeftAtEnd ==
  ASSUME NEW r \in AllRoutines, NEW c, NEW u \in BOOLEAN, NEW s, NEW p \in PLL
  PROVE  RegsAt(p, WaysOf(r)[p], EndOf(r, u, s)[p], LeftBy(r, c, u, s))
<1> DEFINE w == WaysOf(r)[p]
           Kept == {z \in Stages \X [DOMAIN ResetRegs -> SUBSET Ones] :
                      RegsSafe(z[2]) /\ RegsAt(p, w, z[1], z[2])}
           program == ProgramOf(r, c, "power", u, s)
           end == EndOf(r, u, s)[p]
           left == LeftAfter(ResetRegs, program)
<1>1. "power" # "soft"
  OBVIOUS
<1>2. program \in Seq(SafeOps) /\ Walks(StageSteps(p, w), AllNew[p], program, end)
  BY <1>1, ProgramsMove DEF Moves
<1>3. AllNew[p] = "new"
  BY DEF AllNew, Way, PLL
<1>4. <<"new", ResetRegs>> \in Kept
  BY ResetSafe, ResetNew, StageNames DEF RegsSafe
<1>5. w \in BOOLEAN
  BY WaysTyped
<1>6. ASSUME NEW x, NEW o, NEW y, NEW q, <<x, o, y>> \in StageSteps(p, w), <<x, q>> \in Kept
      PROVE  <<y, Effect(q, o)>> \in Kept
  <2>1. RegsSafe(q) /\ RegsAt(p, w, x, q)
    BY <1>6
  <2>2. o \in SafeOps /\ y \in Stages
    BY <1>6, IsStageStep
  <2> HIDE DEF w
  <2>3. RegsAt(p, w, y, Effect(q, o))
    BY <1>5, <1>6, <2>1, StageRegs
  <2>4. RegsSafe(Effect(q, o))
    BY <2>1, <2>2, EffectSafe
  <2>5. QED
    BY <2>2, <2>3, <2>4 DEF RegsSafe
<1>7. <<end, left>> \in Kept
  <2> HIDE DEF Kept, program, w, end
  <2>1. QED
    BY <1>2, <1>3, <1>4, <1>6, WalkLeaves
<1>8. RegsSafe(left) /\ RegsAt(p, w, end, left)
  <2> HIDE DEF left, end, w
  <2>1. QED
    BY <1>7
<1>9. LeftBy(r, c, u, s) = left
  <2>1. LeftBy(r, c, u, s) = [reg \in DOMAIN ResetRegs |-> left[reg]]
    BY DEF LeftBy, LeftAfter
  <2> HIDE DEF left
  <2>2. QED
    BY <1>8, <2>1 DEF RegsSafe
<1>10. QED
  BY <1>8, <1>9

(* The PLLs a routine waits for are those it sees locked.                  *)
LEMMA SeenAtEnd ==
  ASSUME routine \in AllRoutines, serial \in BOOLEAN, NEW p \in PLL
  PROVE  /\ p \in ToLock <=> EndOf(routine, serial, strap)[p] = "seen"
         /\ EndOf(routine, serial, strap)[p] \in {"new", "run", "seen"}
<1>1. ASSUME NEW a, NEW b, NEW c, NEW d, NEW e
      PROVE  /\ p = "fixed" => Way(a, b, c, d, e)[p] = a
             /\ p = "vcxo" => Way(a, b, c, d, e)[p] = b
             /\ p = "gateway" => Way(a, b, c, d, e)[p] = c
             /\ p = "bme" => Way(a, b, c, d, e)[p] = d
             /\ p = "dsp" => Way(a, b, c, d, e)[p] = e
  BY WayAt
<1>2. p \in {"fixed", "vcxo", "gateway", "bme", "dsp"}
  BY DEF PLL
<1>3. CASE routine = "init_plls" /\ serial
  BY <1>1, <1>2, <1>3 DEF EndOf, ToLock
<1>4. CASE routine = "init_plls" /\ ~ serial
  BY <1>1, <1>2, <1>4 DEF EndOf, ToLock, SeenIf
<1>5. CASE routine = "init_pll"
  BY <1>1, <1>2, <1>5 DEF EndOf, ToLock, SeenIf
<1>6. CASE routine \notin {"init_plls", "init_pll"}
  BY <1>1, <1>2, <1>6 DEF EndOf, ToLock, SeenIf
<1>7. QED
  BY <1>3, <1>4, <1>5, <1>6

-----------------------------------------------------------------------------
(* Every PLL is at the stage from which what is left of the routine brings *)
(* it to its end.                                                          *)
AtStage(p, x) ==
  /\ Walks(StageSteps(p, WaysOf(routine)[p]), x, todo, EndOf(routine, serial, strap)[p])
  /\ RegsAt(p, WaysOf(routine)[p], x, regs)
  /\ StatusAt(x, status[p])

StagesInv ==
  /\ routine \in AllRoutines /\ serial \in BOOLEAN
  /\ \A p \in PLL : \E x \in Stages : AtStage(p, x)

LEMMA InitStages == FbootInit => StagesInv
<1> SUFFICES ASSUME FbootInit PROVE StagesInv
  OBVIOUS
<1>1. PllInit /\ BoardInit
  BY DEF FbootInit, Init
<1>2. /\ routine \in AllRoutines /\ strap \in Straps /\ chip \in Chips
      /\ cause \in ResetCauses /\ serial \in BOOLEAN
  BY <1>1, PllAssumption, BoardAssumption DEF PllInit, BoardInit
<1>3. todo = ProgramOf(routine, chip, cause, serial, strap)
  BY <1>1, <1>2 DEF PllInit, Program
<1>4. PICK f : f = EndOf(routine, serial, strap)
  OBVIOUS
<1>5. ASSUME NEW p \in PLL PROVE \E x \in Stages : AtStage(p, x)
  <2>1. CASE cause = "soft"
    <3>1. \A q \in PLL : f[q] \in Stages
      BY <1>4, EndStages
    <3>2. Walks(StageSteps(p, WaysOf(routine)[p]), f[p], todo, f[p])
      BY <1>2, <1>3, <2>1, <3>1, SoftMoves DEF Moves
    <3>3. regs = LeftBy(routine, chip, serial, strap)
      BY <1>1, <1>2, <2>1 DEF PllInit, Outcome
    <3>4. RegsAt(p, WaysOf(routine)[p], f[p], regs)
      BY <1>2, <1>4, <3>3, LeftAtEnd
    <3>5. StatusAt(f[p], status[p])
      <4>1. status[p] = (IF p \in ToLock THEN {"calibrated", "locked"} ELSE {})
        BY <1>1, <2>1 DEF PllInit
      <4>2. (p \in ToLock <=> f[p] = "seen") /\ f[p] \in {"new", "run", "seen"}
        BY <1>2, <1>4, SeenAtEnd
      <4>3. QED
        BY <4>1, <4>2 DEF StatusAt
    <3>6. QED
      BY <1>4, <3>1, <3>2, <3>4, <3>5 DEF AtStage
  <2>2. CASE cause # "soft"
    <3>1. Walks(StageSteps(p, WaysOf(routine)[p]), AllNew[p], todo, f[p])
      BY <1>2, <1>3, <1>4, <2>2, ProgramsMove DEF Moves
    <3>2. AllNew[p] = "new"
      BY DEF AllNew, Way, PLL
    <3>3. regs = ResetRegs
      BY <1>1, <2>2 DEF PllInit
    <3>4. RegsAt(p, WaysOf(routine)[p], "new", regs)
      BY <3>3, ResetNew
    <3>5. StatusAt("new", status[p])
      BY <1>1, <2>2 DEF PllInit, StatusAt
    <3>6. QED
      BY <1>4, <3>1, <3>2, <3>4, <3>5, StageNames DEF AtStage
  <2>3. QED
    BY <2>1, <2>2
<1>6. QED
  BY <1>2, <1>5 DEF StagesInv

(* What an access leaves of a status.                                      *)
LEMMA ReactsAt ==
  ASSUME NEW p \in PLL, NEW w \in BOOLEAN, NEW x, NEW o, NEW y, RegsSafe(regs),
         <<x, o, y>> \in StageSteps(p, w), RegsAt(p, w, x, regs),
         Writes(o), StatusAt(x, status[p]), NEW a, a = Effect(regs, o).pll_pwr_rst
  PROVE  /\ StatusAt(y, Reacts(p, regs.pll_pwr_rst, a))
         /\ "locked" \in status[p] => "locked" \in Reacts(p, regs.pll_pwr_rst, a)
<1>1. PICK b : b = regs.pll_pwr_rst
  OBVIOUS
<1>2. /\ y \in {"new", "set"} => x \in {"new", "set"} /\ Cal(p) \notin a
      /\ y = "off" => a \cap Low(p) = {}
      /\ y \in {"run", "seen"} => a \cap Low(p) = {Pow(p)}
      /\ x \in {"run", "seen"} => y \in {"run", "seen"}
      /\ x = "seen" => y = "seen"
      /\ x \in {"cal", "off"} => y \in {"cal", "off", "run"}
  BY StagePower
<1>3. x \in Stages /\ y \in Stages /\ StageStep(p, w, x, o, y)
  BY IsStageStep
<1>4. y = "seen" => x = "seen"
  <2>1. o # [op |-> "poll", pll |-> p, flag |-> "locked"]
    BY DEF Writes
  <2>2. QED
    BY <1>3, <2>1 DEF StageStep, Stages
<1>5. Reacts(p, b, a) = {} \/ Reacts(p, b, a) = status[p]
        \/ Reacts(p, b, a) = status[p] \ {"locked"}
  BY DEF Reacts
<1>6. x \in {"run", "seen"} => Reacts(p, b, a) = status[p]
  <2>1. SUFFICES ASSUME x \in {"run", "seen"} PROVE Reacts(p, b, a) = status[p]
    OBVIOUS
  <2>2. a \cap Low(p) = {Pow(p)}
    BY <1>2, <2>1
  <2>3. Pow(p) \in a /\ Lck(p) \notin a /\ Cal(p) \notin a
    BY <2>2, LowBits
  <2>4. Has(p, POWER_UP, a) /\ ~ Has(p, LOCKDETECTOR_DOWN, a) /\ ~ Has(p, CALIBRATION, a)
    BY <2>3 DEF Has, Pow, Lck, Cal
  <2>5. QED
    BY <2>4 DEF Reacts
<1>7. "locked" \in status[p] => x \in {"run", "seen"}
  BY <1>3 DEF StatusAt, Stages
<1>8. StatusAt(y, Reacts(p, b, a))
  <2>1. CASE x \in {"new", "set"}
    <3>1. status[p] = {} /\ Reacts(p, b, a) = {}
      BY <1>5, <2>1 DEF StatusAt
    <3>2. QED
      BY <1>4, <2>1, <3>1 DEF StatusAt
  <2>2. CASE x \in {"cal", "off"}
    <3>1. "locked" \notin status[p] /\ "locked" \notin Reacts(p, b, a)
      BY <1>5, <2>2 DEF StatusAt
    <3>2. QED
      BY <1>2, <2>2, <3>1 DEF StatusAt
  <2>3. CASE x \in {"run", "seen"}
    BY <1>2, <1>4, <1>6, <2>3 DEF StatusAt
  <2>4. QED
    BY <1>3, <2>1, <2>2, <2>3 DEF Stages
<1>9. QED
  BY <1>1, <1>6, <1>7, <1>8

(* A step of a routine on which a PLL is kept.                             *)
KeepsPll(p) ==
  /\ "locked" \in status[p] => "locked" \in status'[p]
  /\ Settled(p) => Spares(p, regs, regs')

LEMMA SettledLate ==
  ASSUME NEW p \in PLL, NEW x \in Stages, AtStage(p, x), Settled(p)
  PROVE  x \notin {"new", "set"}
BY DEF AtStage, RegsAt, StatusAt, Settled, Has, Cal

LEMMA AccessStage ==
  ASSUME PllsInv, StagesInv, Access, serial' = serial, NEW p \in PLL
  PROVE  (\E y \in Stages : AtStage(p, y)') /\ KeepsPll(p)
<1>1. PICK x \in Stages : AtStage(p, x)
  BY DEF StagesInv
<1>2. PICK w : w = WaysOf(routine)[p]
  OBVIOUS
<1>3. PICK e : e = EndOf(routine, serial, strap)[p]
  OBVIOUS
<1>4. /\ todo # <<>> /\ todo' = Tail(todo) /\ regs' = Effect(regs, Head(todo))
      /\ Writes(Head(todo)) /\ routine' = routine /\ strap' = strap
      /\ status'[p] = Reacts(p, regs.pll_pwr_rst, regs'.pll_pwr_rst)
  BY DEF Access, Step, Writes
<1>5. RegsSafe(regs) /\ todo \in Seq(SafeOps)
  BY DEF PllsInv
<1>6. Walks(StageSteps(p, w), x, todo, e) /\ RegsAt(p, w, x, regs) /\ StatusAt(x, status[p])
  BY <1>1, <1>2, <1>3 DEF AtStage
<1>7. PICK y : <<x, Head(todo), y>> \in StageSteps(p, w)
               /\ Walks(StageSteps(p, w), y, Tail(todo), e)
  BY <1>4, <1>5, <1>6, WalkOn
<1>8. w \in BOOLEAN
  BY <1>2, WaysTyped
<1>9. y \in Stages /\ Head(todo) \in SafeOps
  BY <1>7, IsStageStep
<1>10. RegsAt(p, w, y, regs')
  BY <1>4, <1>5, <1>6, <1>7, <1>8, StageRegs
<1>11. PICK o : o = Head(todo)
  OBVIOUS
<1>12. /\ StatusAt(y, status'[p])
       /\ "locked" \in status[p] => "locked" \in status'[p]
  BY <1>4, <1>5, <1>6, <1>7, <1>8, <1>11, ReactsAt
<1>13. Settled(p) => Spares(p, regs, regs')
  <2>1. ASSUME Settled(p) PROVE Spares(p, regs, regs')
    <3>1. x \notin {"new", "set"}
      BY <1>1, <2>1, SettledLate
    <3>2. QED
      BY <1>4, <1>5, <1>6, <1>7, <1>8, <3>1, StageKeeps
  <2>2. QED
    BY <2>1
<1>14. AtStage(p, y)'
  BY <1>2, <1>3, <1>4, <1>7, <1>10, <1>12 DEF AtStage
<1>15. QED
  BY <1>9, <1>12, <1>13, <1>14 DEF KeepsPll

(* Registers and status may stay while the routine goes on.                *)
LEMMA PassStage ==
  ASSUME PllsInv, StagesInv, PollSet \/ CallRoutine, serial' = serial, NEW p \in PLL
  PROVE  (\E y \in Stages : AtStage(p, y)') /\ KeepsPll(p)
<1>1. PICK x \in Stages : AtStage(p, x)
  BY DEF StagesInv
<1>2. PICK w : w = WaysOf(routine)[p]
  OBVIOUS
<1>3. PICK e : e = EndOf(routine, serial, strap)[p]
  OBVIOUS
<1>4. /\ todo # <<>> /\ todo' = Tail(todo) /\ ~ Writes(Head(todo))
      /\ UNCHANGED <<routine, strap, regs, status>>
      /\ \/ Head(todo).op = "poll" /\ Head(todo).flag \in status[Head(todo).pll]
         \/ Head(todo).op = "call"
  BY DEF PollSet, CallRoutine, Step, Writes
<1>5. RegsSafe(regs) /\ todo \in Seq(SafeOps)
  BY DEF PllsInv
<1>6. Walks(StageSteps(p, w), x, todo, e) /\ RegsAt(p, w, x, regs) /\ StatusAt(x, status[p])
  BY <1>1, <1>2, <1>3 DEF AtStage
<1>7. PICK y : <<x, Head(todo), y>> \in StageSteps(p, w)
               /\ Walks(StageSteps(p, w), y, Tail(todo), e)
  BY <1>4, <1>5, <1>6, WalkOn
<1>8. w \in BOOLEAN
  BY <1>2, WaysTyped
<1>9. x \in Stages /\ y \in Stages /\ StageStep(p, w, x, Head(todo), y)
  BY <1>7, IsStageStep
<1>10. Effect(regs, Head(todo)) = regs
  BY <1>4 DEF Effect
<1>11. RegsAt(p, w, y, regs)
  BY <1>5, <1>6, <1>7, <1>8, <1>10, StageRegs
<1>12. StatusAt(y, status[p])
  <2>1. ~ Powers(Head(todo)) /\ Head(todo) # ClocksOn
    BY <1>4 DEF Powers, Writes, ClocksOn
  <2>2. \/ y = x
        \/ x = "new" /\ y = "set"
        \/ x = "run" /\ y = "seen"
             /\ Head(todo) = [op |-> "poll", pll |-> p, flag |-> "locked"]
    BY <1>9, <2>1 DEF StageStep, Stages
  <2>3. QED
    BY <1>4, <1>6, <2>2 DEF StatusAt
<1>13. AtStage(p, y)'
  BY <1>2, <1>3, <1>4, <1>7, <1>11, <1>12 DEF AtStage
<1>14. Spares(p, regs, regs')
  BY <1>4 DEF Spares
<1>15. QED
  BY <1>4, <1>9, <1>13, <1>14 DEF KeepsPll

(* Calibration ends, and a PLL locks, at the stages made for it.           *)
LEMMA HardwareStage ==
  ASSUME PllsInv, StagesInv, NEW q \in PLL, Calibrates(q) \/ Locks(q),
         serial' = serial, NEW p \in PLL
  PROVE  (\E y \in Stages : AtStage(p, y)') /\ KeepsPll(p)
<1>1. PICK x \in Stages : AtStage(p, x)
  BY DEF StagesInv
<1>2. UNCHANGED <<routine, strap, todo, regs>>
  BY DEF Calibrates, Locks
<1>3. Spares(p, regs, regs')
  BY <1>2 DEF Spares
<1>4. status \in [PLL -> SUBSET {"calibrated", "locked"}]
  BY DEF PllsInv
<1>5. CASE p # q
  <2>1. status'[p] = status[p]
    BY <1>4, <1>5 DEF Calibrates, Locks
  <2>2. AtStage(p, x)'
    BY <1>1, <1>2, <2>1 DEF AtStage
  <2>3. QED
    BY <1>3, <2>1, <2>2 DEF KeepsPll
<1>6. CASE p = q /\ Calibrates(q)
  <2>1. Cal(p) \in regs.pll_pwr_rst /\ status'[p] = {"calibrated"}
    BY <1>4, <1>6 DEF Calibrates, Has, Cal
  <2>2. x = "cal"
    <3>1. x \notin {"new", "set"}
      BY <1>1, <2>1 DEF AtStage, RegsAt
    <3>2. x \notin {"off", "run", "seen"}
      <4>1. Cal(p) \in regs.pll_pwr_rst \cap Low(p) /\ Cal(p) # Pow(p)
        BY <2>1, LowBits
      <4>2. QED
        BY <1>1, <4>1 DEF AtStage, RegsAt
    <3>3. QED
      BY <3>1, <3>2 DEF Stages
  <2>3. StatusAt(x, status[p]) /\ StatusAt(x, status'[p])
    BY <1>1, <2>1, <2>2 DEF AtStage, StatusAt
  <2>4. "locked" \notin status[p]
    BY <2>2, <2>3 DEF StatusAt
  <2>5. AtStage(p, x)'
    BY <1>1, <1>2, <2>3 DEF AtStage
  <2>6. QED
    BY <1>3, <2>4, <2>5 DEF KeepsPll
<1>7. CASE p = q /\ Locks(q)
  <2>1. /\ Pow(p) \in regs.pll_pwr_rst /\ Cal(p) \notin regs.pll_pwr_rst
        /\ status[p] = {"calibrated"} /\ status'[p] = {"calibrated", "locked"}
    BY <1>4, <1>7 DEF Locks, Has, Cal, Pow
  <2>2. x \in {"run", "seen"}
    <3>1. x \notin {"new", "set"}
      BY <1>1, <2>1 DEF AtStage, StatusAt
    <3>2. x # "cal"
      BY <1>1, <2>1 DEF AtStage, RegsAt
    <3>3. x # "off"
      <4>1. Pow(p) \in regs.pll_pwr_rst \cap Low(p)
        BY <2>1, LowBits
      <4>2. QED
        BY <1>1, <4>1 DEF AtStage, RegsAt
    <3>4. QED
      BY <3>1, <3>2, <3>3 DEF Stages
  <2>3. StatusAt(x, status'[p])
    BY <2>1, <2>2 DEF StatusAt
  <2>4. AtStage(p, x)'
    BY <1>1, <1>2, <2>3 DEF AtStage
  <2>5. QED
    BY <1>3, <2>1, <2>4 DEF KeepsPll
<1>8. QED
  BY <1>5, <1>6, <1>7

LEMMA SerialKept == [FbootNext]_allVars => serial' = serial
<1> SUFFICES ASSUME [FbootNext]_allVars PROVE serial' = serial
  OBVIOUS
<1>1. UNCHANGED chosen => serial' = serial
  BY DEF chosen, boardVars
<1>2. UNCHANGED vars => UNCHANGED chosen
  BY DEF vars
<1>3. CASE RunStart \/ DetectChip \/ RunPlls \/ PllHardware
  BY <1>1, <1>2, <1>3 DEF RunStart, a_uart_init, DetectChip, detect_SoC, RunPlls,
     AccessRegister, SkipPlls, PollPll, ProgramPlls, CallUartInit, c_uart_init, PllHardware
<1>4. CASE RunDdr \/ DdrHardwareRuns \/ LoadAndJump \/ UNCHANGED allVars
  BY <1>1, <1>2, <1>4 DEF RunDdr, EnterDdr, SearchDdr, ReturnDdr, c_auto_ddr,
     DdrHardwareRuns, LoadAndJump, LoadSerial, LoadNand, Jump, allVars
<1>5. QED
  BY <1>3, <1>4 DEF FbootNext, LoaderRuns

(* Where only other registers are written, every PLL stays where it is.    *)
LEMMA StageLeft ==
  ASSUME StagesInv, UNCHANGED <<routine, strap, todo, status>>, serial' = serial,
         \A g \in PllWords : regs'[g] = regs[g], NEW p \in PLL
  PROVE  (\E y \in Stages : AtStage(p, y)') /\ KeepsPll(p)
<1>1. PICK x \in Stages : AtStage(p, x)
  BY DEF StagesInv
<1>2. PICK w : w = WaysOf(routine)[p]
  OBVIOUS
<1>3. regs'.pll_pwr_rst = regs.pll_pwr_rst /\ regs'.pll_post_divider3 = regs.pll_post_divider3
  BY DEF PllWords
<1>4. RegsAt(p, w, x, regs')
  BY <1>1, <1>2, <1>3 DEF AtStage, RegsAt
<1>5. AtStage(p, x)'
  BY <1>1, <1>2, <1>4 DEF AtStage
<1>6. Spares(p, regs, regs')
  BY DEF Spares, SettingsOf, DividersOf, PllWords, PLL
<1>7. QED
  BY <1>5, <1>6 DEF KeepsPll

LEMMA ScuStage ==
  ASSUME PllsInv, StagesInv, SetUpInv, AccessScu, serial' = serial, NEW p \in PLL
  PROVE  (\E y \in Stages : AtStage(p, y)') /\ KeepsPll(p)
<1>1. PICK o : o = Accesses[at]
  OBVIOUS
<1>2. regs' = Effect(regs, o) /\ UNCHANGED <<routine, strap, todo, status>>
  BY <1>1 DEF AccessScu
<1>3. o \in SafeOps /\ o.reg \in {"rst_mask", "clkgate", "rst_vec"}
  BY <1>1, ScuAccess DEF NoControl
<1>4. RegsSafe(regs)
  BY DEF PllsInv
<1>5. ASSUME NEW g \in PllWords PROVE regs'[g] = regs[g]
  <2>1. g \in DOMAIN ResetRegs \ {"cpu_ctl", "rst_vec"}
    BY RegisterNames DEF PllWords
  <2>2. ~ (Writes(o) /\ o.reg = g)
    BY <1>3 DEF PllWords
  <2>3. QED
    BY <1>2, <1>3, <1>4, <2>1, <2>2, EffectOn
<1>6. QED
  BY <1>2, <1>5, StageLeft

LEMMA StepStages ==
  PllsInv /\ DdrInv /\ StagesInv /\ [FbootNext]_allVars
    => StagesInv' /\ \A p \in PLL : KeepsPll(p)
<1> SUFFICES ASSUME PllsInv, DdrInv, StagesInv, [FbootNext]_allVars, NEW p \in PLL
             PROVE  StagesInv' /\ KeepsPll(p)
  <2>1. "fixed" \in PLL
    BY DEF PLL
  <2>2. QED
    BY <2>1
<1>1. serial' = serial
  BY SerialKept
<1>2. ASSUME NEW q \in PLL
      PROVE  (\E y \in Stages : AtStage(q, y)') /\ KeepsPll(q)
  <2>1. ASSUME UNCHANGED pllVars
        PROVE  (\E y \in Stages : AtStage(q, y)') /\ KeepsPll(q)
    <3>1. /\ UNCHANGED <<routine, strap, todo, status>>
          /\ \A g \in PllWords : regs'[g] = regs[g]
      BY <2>1 DEF pllVars
    <3>2. QED
      BY <1>1, <3>1, StageLeft
  <2>2. CASE RunPlls
    BY <1>1, <2>2, AccessStage, PassStage DEF RunPlls, AccessRegister, PollPll, CallUartInit
  <2>3. CASE PllHardware
    BY <1>1, <2>3, HardwareStage DEF PllHardware
  <2>4. CASE SearchDdr
    <3>1. SetUpInv /\ SetUpDdr
      BY <2>4 DEF SearchDdr, DdrInv
    <3>2. CASE AccessScu
      BY <1>1, <3>1, <3>2, ScuStage
    <3>3. CASE ~ AccessScu
      <4>1. UNCHANGED pllVars
        BY <3>1, <3>3 DEF SetUpDdr, AccessDdr, DelayPasses, PollDdr, Prepared, ReadResult,
                          TestMemory
      <4>2. QED
        BY <2>1, <4>1
    <3>4. QED
      BY <3>2, <3>3
  <2>5. CASE RunStart \/ DetectChip \/ EnterDdr \/ ReturnDdr \/ DdrHardwareRuns \/ LoadAndJump
             \/ UNCHANGED allVars
    <3>1. UNCHANGED pllVars
      BY <2>5 DEF RunStart, DetectChip, EnterDdr, ReturnDdr, DdrHardwareRuns, DdrHardware,
                  PhyReady, SclEnds, LoadAndJump, allVars
    <3>2. QED
      BY <2>1, <3>1
  <2>6. QED
    BY <2>2, <2>3, <2>4, <2>5 DEF FbootNext, LoaderRuns, RunDdr
<1>3. routine' = routine
  <2>1. CASE SearchDdr
    BY <2>1 DEF SearchDdr, SetUpDdr, AccessScu, AccessDdr, DelayPasses, PollDdr, Prepared,
                ReadResult, TestMemory, pllVars
  <2>2. CASE RunPlls \/ PllHardware
    BY <2>2 DEF RunPlls, AccessRegister, PollPll, CallUartInit, Access, PollSet, CallRoutine,
                PllHardware, Calibrates, Locks
  <2>3. CASE RunStart \/ DetectChip \/ EnterDdr \/ ReturnDdr \/ DdrHardwareRuns \/ LoadAndJump
             \/ UNCHANGED allVars
    BY <2>3 DEF RunStart, DetectChip, EnterDdr, ReturnDdr, DdrHardwareRuns, DdrHardware,
                PhyReady, SclEnds, LoadAndJump, allVars, pllVars
  <2>4. QED
    BY <2>1, <2>2, <2>3 DEF FbootNext, LoaderRuns, RunDdr
<1>4. StagesInv'
  BY <1>1, <1>2, <1>3 DEF StagesInv
<1>5. QED
  BY <1>2, <1>4

LEMMA StagesInvariance == FbootSpec => [](HardInv /\ StagesInv)
<1>1. FbootInit => StagesInv
  BY InitStages
<1>2. HardInv /\ StagesInv /\ [FbootNext]_allVars => StagesInv'
  BY StepStages DEF HardInv
<1>3. QED
  BY <1>1, <1>2, HardInvariance, PTL DEF FbootSpec

(* Whatever order the PLLs calibrate and lock in, and whichever of the     *)
(* routines sets them up: a PLL that has locked stays so, and nothing that *)
(* it was calibrated for changes, down to the memory search.               *)
THEOREM KeptTheorem == FbootSpec => PllsKept
<1>1. HardInv /\ StagesInv /\ [FbootNext]_allVars
        => [\A p \in PLL :
              /\ "locked" \in status[p] => "locked" \in status'[p]
              /\ Settled(p) =>
                   /\ SettingsOf(p, regs') = SettingsOf(p, regs)
                   /\ p \in {"gateway", "bme", "dsp"} =>
                        DividersOf(p, regs') = DividersOf(p, regs)]_pllVars
  BY StepStages DEF HardInv, KeepsPll, Spares, Divided
<1>2. QED
  BY <1>1, StagesInvariance, PTL DEF FbootSpec, PllsKept

(* When a routine has returned every PLL it waits for has locked.          *)
THEOREM LockedTheorem ==
  FbootSpec => [](Returned => \A p \in ToLock : "locked" \in status[p])
<1>1. HardInv /\ StagesInv => (Returned => \A p \in ToLock : "locked" \in status[p])
  <2> SUFFICES ASSUME StagesInv, todo = <<>>, NEW p \in ToLock
               PROVE  "locked" \in status[p]
    BY DEF Returned
  <2>1. p \in PLL /\ routine \in AllRoutines /\ serial \in BOOLEAN
    BY DEF ToLock, StagesInv, PLL
  <2>2. PICK x \in Stages : AtStage(p, x)
    BY <2>1 DEF StagesInv
  <2>3. PICK e : e = EndOf(routine, serial, strap)[p]
    OBVIOUS
  <2>4. Walks(StageSteps(p, WaysOf(routine)[p]), x, <<>>, e) /\ StatusAt(x, status[p])
    BY <2>2, <2>3 DEF AtStage
  <2>5. x = e
    BY <2>4, WalkNone
  <2>6. e = "seen"
    BY <2>1, <2>3, SeenAtEnd
  <2>7. QED
    BY <2>4, <2>5, <2>6 DEF StatusAt
<1>2. QED
  BY <1>1, StagesInvariance, PTL

-----------------------------------------------------------------------------
TwoBits(a, b, low, m, n) ==
  a # b /\ m \in Nat /\ n \in Nat /\ m = 2 ^ (a - low) /\ n = 2 ^ (b - low)

LEMMA NumberOfTwo ==
  ASSUME NEW a, NEW b, NEW low, NEW m, NEW n, TwoBits(a, b, low, m, n),
         NEW bits \in SUBSET {a, b}
  PROVE  Number(bits, low) = (IF a \in bits THEN m ELSE 0) + (IF b \in bits THEN n ELSE 0)
<1>1. a # b /\ m = 2 ^ (a - low) /\ n = 2 ^ (b - low)
  BY DEF TwoBits
<1>2. m \in Nat /\ n \in Nat
  BY DEF TwoBits
<1> DEFINE g == CHOOSE g : Adds(g, bits, low)
           w == [s \in SUBSET bits |-> (IF a \in s THEN m ELSE 0) + (IF b \in s THEN n ELSE 0)]
<1>3. Adds(w, bits, low)
  <2>1. ASSUME NEW s \in SUBSET bits
        PROVE  w[s] = IF s = {} THEN 0
                      ELSE LET x == CHOOSE x \in s : TRUE IN 2 ^ (x - low) + w[s \ {x}]
    <3>1. CASE s = {}
      BY <3>1
    <3>2. CASE s # {}
      <4>1. PICK y : y = CHOOSE x \in s : TRUE
        OBVIOUS
      <4>2. y \in s /\ s \ {y} \in SUBSET bits /\ (y = a \/ y = b)
        BY <3>2, <4>1
      <4>3. w[s] = 2 ^ (y - low) + w[s \ {y}]
        <5>1. CASE y = a
          BY <1>1, <1>2, <4>2, <5>1
        <5>2. CASE y = b
          BY <1>1, <1>2, <4>2, <5>2
        <5>3. QED
          BY <4>2, <5>1, <5>2
      <4>4. QED
        BY <3>2, <4>1, <4>3
    <3>3. QED
      BY <3>1, <3>2
  <2>2. w = [s \in SUBSET bits |-> w[s]]
    OBVIOUS
  <2> HIDE DEF w
  <2>3. QED
    BY <2>1, <2>2 DEF Adds
<1>4. Adds(g, bits, low)
  BY <1>3
<1>5. Number(bits, low) = g[bits]
  BY DEF Number, MapThenSumSet, MapThenFoldSet, Adds
<1> HIDE DEF g
<1>6. ASSUME NEW s \in SUBSET bits
      PROVE  g[s] = IF s = {} THEN 0
                    ELSE LET x == CHOOSE x \in s : TRUE IN 2 ^ (x - low) + g[s \ {x}]
  BY <1>4 DEF Adds
<1>7. g[{}] = 0
  BY <1>6
<1>8. ASSUME NEW x \in bits
      PROVE  g[{x}] = 2 ^ (x - low)
  <2>1. (CHOOSE y \in {x} : TRUE) = x /\ {x} \ {x} = {} /\ {x} # {}
    OBVIOUS
  <2>2. g[{x}] = 2 ^ (x - low) + 0
    BY <1>6, <1>7, <2>1
  <2>3. 2 ^ (x - low) \in Nat
    BY <1>1, <1>2
  <2>4. QED
    BY <2>2, <2>3
<1>9. CASE a \in bits /\ b \in bits
  <2>1. bits = {a, b} /\ bits \ {a} = {b} /\ bits \ {b} = {a}
    BY <1>1, <1>9
  <2>2. PICK y : y = CHOOSE x \in bits : TRUE
    OBVIOUS
  <2>3. y = a \/ y = b
    BY <1>9, <2>2
  <2>4. g[bits] = 2 ^ (y - low) + g[bits \ {y}]
    BY <1>6, <1>9, <2>2
  <2>5. g[bits] = m + n
    <3>1. g[{a}] = m /\ g[{b}] = n
      BY <1>1, <1>8, <1>9
    <3>2. CASE y = a
      <4>1. bits \ {y} = {b}
        BY <2>1, <3>2
      <4>2. g[bits] = m + n
        BY <1>1, <2>4, <3>1, <3>2, <4>1
      <4>3. QED
        BY <4>2
    <3>3. CASE y = b
      <4>1. bits \ {y} = {a}
        BY <2>1, <3>3
      <4>2. g[bits] = n + m
        BY <1>1, <2>4, <3>1, <3>3, <4>1
      <4>3. QED
        BY <1>2, <4>2
    <3>4. QED
      BY <2>3, <3>2, <3>3
  <2>6. QED
    BY <1>1, <1>5, <1>9, <2>5
<1>10. CASE a \in bits /\ b \notin bits
  <2>1. bits = {a}
    BY <1>10
  <2>2. g[bits] = m + 0
    BY <1>1, <1>2, <1>8, <1>10, <2>1
  <2>3. QED
    BY <1>1, <1>5, <1>10, <2>2
<1>11. CASE a \notin bits /\ b \in bits
  <2>1. bits = {b}
    BY <1>11
  <2>2. g[bits] = 0 + n
    BY <1>1, <1>2, <1>8, <1>11, <2>1
  <2>3. QED
    BY <1>1, <1>5, <1>11, <2>2
<1>12. CASE a \notin bits /\ b \notin bits
  <2>1. bits = {}
    BY <1>12
  <2>2. g[bits] = 0 + 0
    BY <1>7, <2>1
  <2>3. QED
    BY <1>5, <1>12, <2>2
<1>13. QED
  BY <1>9, <1>10, <1>11, <1>12

(* "25*0.5*96/(3*2)=200M", "25*0.5*80/(2*2)=250M": the bus that the words   *)
(* of the dividers make.                                                   *)
FeedbackOf(c) ==
  IF c \in {CHIP_7173, CHIP_7183, CHIP_7185HP} THEN Hex(\h180B, \h6060)
                                              ELSE Hex(\h180B, \h6050)
PostOf(c) ==
  IF c \in {CHIP_7173, CHIP_7183, CHIP_7185HP} THEN Hex(\h0606, \h3033)
                                              ELSE Hex(\h0606, \h3022)

LEMMA BusWords ==
  ASSUME NEW c, NEW r, r.pll_post_divider1 = FeedbackOf(c), r.pll_post_divider2 = PostOf(c)
  PROVE  BusOf(r) = RatedBus(c)
<1>1. \A n \in 0 .. 7 : n = 0 \/ n = 1 \/ n = 2 \/ n = 3 \/ n = 4 \/ n = 5 \/ n = 6 \/ n = 7
  OBVIOUS
<1>2. \A n \in 4 .. 7 : n = 4 \/ n = 5 \/ n = 6 \/ n = 7
  OBVIOUS
<1>3. /\ 2 ^ 0 = 1 /\ 2 ^ 1 = 2 /\ 2 ^ 4 = 16 /\ 2 ^ 5 = 32 /\ 2 ^ 6 = 64
      /\ 4 - 4 = 0 /\ 5 - 4 = 1 /\ 4 - 0 = 4 /\ 5 - 0 = 5 /\ 6 - 0 = 6
  OBVIOUS
<1>4. CASE c \in {CHIP_7173, CHIP_7183, CHIP_7185HP}
  <2>1. PICK f, d : f = Hex(\h180B, \h6060) /\ d = Hex(\h0606, \h3033)
    OBVIOUS
  <2>2. f \cap (0 .. 7) = {5, 6}
    <3>1. /\ 0 \notin f /\ 1 \notin f /\ 2 \notin f /\ 3 \notin f /\ 4 \notin f
          /\ 5 \in f /\ 6 \in f /\ 7 \notin f
      BY <2>1, HexBits
    <3>2. QED
      BY <1>1, <3>1
  <2>3. d \cap (4 .. 7) = {4, 5}
    <3>1. 4 \in d /\ 5 \in d /\ 6 \notin d /\ 7 \notin d
      BY <2>1, HexBits
    <3>2. QED
      BY <1>2, <3>1
  <2>4. Number({5, 6}, 0) = 96
    <3>1. PICK a, b, k, s : a = 5 /\ b = 6 /\ k = 0 /\ s = {5, 6}
      OBVIOUS
    <3>2. PICK m, n : m = 32 /\ n = 64
      OBVIOUS
    <3>3. TwoBits(a, b, k, m, n) /\ s \in SUBSET {a, b}
      BY <1>3, <3>1, <3>2 DEF TwoBits
    <3>4. Number(s, k) = (IF a \in s THEN m ELSE 0) + (IF b \in s THEN n ELSE 0)
      BY <3>3, NumberOfTwo
    <3>5. QED
      BY <3>1, <3>2, <3>4
  <2>5. Number({4, 5}, 4) = 3
    <3>1. PICK a, b, k, s : a = 4 /\ b = 5 /\ k = 4 /\ s = {4, 5}
      OBVIOUS
    <3>2. PICK m, n : m = 1 /\ n = 2
      OBVIOUS
    <3>3. TwoBits(a, b, k, m, n) /\ s \in SUBSET {a, b}
      BY <1>3, <3>1, <3>2 DEF TwoBits
    <3>4. Number(s, k) = (IF a \in s THEN m ELSE 0) + (IF b \in s THEN n ELSE 0)
      BY <3>3, NumberOfTwo
    <3>5. QED
      BY <3>1, <3>2, <3>4
  <2>6. r.pll_post_divider1 = f /\ r.pll_post_divider2 = d
    BY <1>4, <2>1 DEF FeedbackOf, PostOf
  <2>7. BusOf(r) = 96 \div (2 * 3)
    BY <2>2, <2>3, <2>4, <2>5, <2>6 DEF BusOf
  <2>8. RatedBus(c) = 16
    BY <1>4 DEF RatedBus
  <2>9. QED
    BY <2>7, <2>8
<1>5. CASE c \notin {CHIP_7173, CHIP_7183, CHIP_7185HP}
  <2>1. PICK f, d : f = Hex(\h180B, \h6050) /\ d = Hex(\h0606, \h3022)
    OBVIOUS
  <2>2. f \cap (0 .. 7) = {4, 6}
    <3>1. /\ 0 \notin f /\ 1 \notin f /\ 2 \notin f /\ 3 \notin f /\ 4 \in f
          /\ 5 \notin f /\ 6 \in f /\ 7 \notin f
      BY <2>1, HexBits
    <3>2. QED
      BY <1>1, <3>1
  <2>3. d \cap (4 .. 7) = {5}
    <3>1. 4 \notin d /\ 5 \in d /\ 6 \notin d /\ 7 \notin d
      BY <2>1, HexBits
    <3>2. QED
      BY <1>2, <3>1
  <2>4. Number({4, 6}, 0) = 80
    <3>1. PICK a, b, k, s : a = 4 /\ b = 6 /\ k = 0 /\ s = {4, 6}
      OBVIOUS
    <3>2. PICK m, n : m = 16 /\ n = 64
      OBVIOUS
    <3>3. TwoBits(a, b, k, m, n) /\ s \in SUBSET {a, b}
      BY <1>3, <3>1, <3>2 DEF TwoBits
    <3>4. Number(s, k) = (IF a \in s THEN m ELSE 0) + (IF b \in s THEN n ELSE 0)
      BY <3>3, NumberOfTwo
    <3>5. QED
      BY <3>1, <3>2, <3>4
  <2>5. Number({5}, 4) = 2
    <3>1. PICK a, b, k, s : a = 5 /\ b = 4 /\ k = 4 /\ s = {5}
      OBVIOUS
    <3>2. PICK m, n : m = 2 /\ n = 1
      OBVIOUS
    <3>3. TwoBits(a, b, k, m, n) /\ s \in SUBSET {a, b}
      BY <1>3, <3>1, <3>2 DEF TwoBits
    <3>4. Number(s, k) = (IF a \in s THEN m ELSE 0) + (IF b \in s THEN n ELSE 0)
      BY <3>3, NumberOfTwo
    <3>5. QED
      BY <3>1, <3>2, <3>4
  <2>6. r.pll_post_divider1 = f /\ r.pll_post_divider2 = d
    BY <1>5, <2>1 DEF FeedbackOf, PostOf
  <2>7. BusOf(r) = 80 \div (2 * 2)
    BY <2>2, <2>3, <2>4, <2>5, <2>6 DEF BusOf
  <2>8. RatedBus(c) = 20
    BY <1>5 DEF RatedBus
  <2>9. QED
    BY <2>7, <2>8
<1>6. QED
  BY <1>4, <1>5

-----------------------------------------------------------------------------
(* How far the dividers have come: nothing is calibrated before both have  *)
(* their word, and it is their last.                                       *)
BusStages == {"start", "one", "two"}

Spared == {o \in SafeOps : Writes(o) => o.reg \notin {"pll_post_divider1", "pll_post_divider2"}}

BusStep(c, x, o, y) ==
  \/ x = "start" /\ y = "start" /\ Calm("gateway", o)
  \/ x = "start" /\ y = "one"
       /\ o = [op |-> "store", reg |-> "pll_post_divider1", word |-> FeedbackOf(c)]
  \/ x = "one" /\ y = "two"
       /\ o = [op |-> "store", reg |-> "pll_post_divider2", word |-> PostOf(c)]
  \/ x = "two" /\ y = "two" /\ o \in Spared

BusSteps(c) ==
  {t \in BusStages \X SafeOps \X BusStages : BusStep(c, t[1], t[2], t[3])}

BusAt(c, x, r) ==
  /\ x # "two" => Cal("gateway") \notin r.pll_pwr_rst
  /\ x # "start" => r.pll_post_divider1 = FeedbackOf(c)
  /\ x = "two" => r.pll_post_divider2 = PostOf(c)

LEMMA IsBusStep ==
  ASSUME NEW c, NEW x, NEW o, NEW y
  PROVE  <<x, o, y>> \in BusSteps(c)
           <=> x \in BusStages /\ o \in SafeOps /\ y \in BusStages /\ BusStep(c, x, o, y)
BY DEF BusSteps

LEMMA FeedbackWord ==
  ASSUME NEW r, RegsSafe(r), NEW o \in SafeOps,
         NEW g \in {"pll_post_divider1", "pll_post_divider2"}
  PROVE  /\ o.op = "store" /\ o.reg = g => Effect(r, o)[g] = o.word
         /\ ~ (Writes(o) /\ o.reg = g) => Effect(r, o)[g] = r[g]
<1>1. g \in DOMAIN ResetRegs \ {"cpu_ctl", "rst_vec"}
  BY RegisterNames
<1>2. QED
  BY <1>1, EffectOn

LEMMA BusStepLeaves ==
  ASSUME NEW c, NEW x, NEW o, NEW y, <<x, o, y>> \in BusSteps(c), NEW r, RegsSafe(r),
         BusAt(c, x, r)
  PROVE  BusAt(c, y, Effect(r, o))
<1>1. x \in BusStages /\ o \in SafeOps /\ y \in BusStages /\ BusStep(c, x, o, y)
  BY IsBusStep
<1>2. PICK q : q = Effect(r, o)
  OBVIOUS
<1>3. PICK g, h : g = "pll_post_divider1" /\ h = "pll_post_divider2"
  OBVIOUS
<1>4. /\ o.op = "store" /\ o.reg = g => q[g] = o.word
      /\ ~ (Writes(o) /\ o.reg = g) => q[g] = r[g]
      /\ o.op = "store" /\ o.reg = h => q[h] = o.word
      /\ ~ (Writes(o) /\ o.reg = h) => q[h] = r[h]
  BY <1>1, <1>2, <1>3, FeedbackWord
<1>5. /\ Powers(o) => q.pll_pwr_rst = (r.pll_pwr_rst \ o.clear) \cup o.set
      /\ ~ (Writes(o) /\ o.reg = "pll_pwr_rst") => q.pll_pwr_rst = r.pll_pwr_rst
  BY <1>1, <1>2, PowerWord
<1>6. CASE x = "start" /\ y = "start"
  <2>1. Cal("gateway") \notin r.pll_pwr_rst
    BY <1>6 DEF BusAt
  <2>2. Calm("gateway", o)
    BY <1>1, <1>6 DEF BusStep
  <2>3. (Powers(o) /\ Cal("gateway") \notin o.set) \/ ~ (Writes(o) /\ o.reg = "pll_pwr_rst")
    BY <2>2 DEF Calm, Powers, Writes
  <2>4. Cal("gateway") \notin q.pll_pwr_rst
    BY <1>5, <2>1, <2>3
  <2>5. QED
    BY <1>2, <1>6, <2>4 DEF BusAt
<1>7. CASE x = "start" /\ y = "one"
  <2>1. o = [op |-> "store", reg |-> g, word |-> FeedbackOf(c)]
    BY <1>1, <1>3, <1>7 DEF BusStep
  <2>2. q[g] = FeedbackOf(c) /\ q.pll_pwr_rst = r.pll_pwr_rst
    BY <1>3, <1>4, <1>5, <2>1
  <2>3. QED
    BY <1>2, <1>3, <1>7, <2>2 DEF BusAt
<1>8. CASE x = "one" /\ y = "two"
  <2>1. o = [op |-> "store", reg |-> h, word |-> PostOf(c)]
    BY <1>1, <1>3, <1>8 DEF BusStep
  <2>2. q[h] = PostOf(c) /\ q[g] = r[g]
    BY <1>3, <1>4, <2>1
  <2>3. QED
    BY <1>2, <1>3, <1>8, <2>2 DEF BusAt
<1>9. CASE x = "two" /\ y = "two"
  <2>1. o \in Spared
    BY <1>1, <1>9 DEF BusStep
  <2>2. q[g] = r[g] /\ q[h] = r[h]
    BY <1>3, <1>4, <2>1 DEF Spared
  <2>3. QED
    BY <1>2, <1>3, <1>9, <2>2 DEF BusAt
<1>10. QED
  BY <1>1, <1>6, <1>7, <1>8, <1>9 DEF BusStep

(* The pieces of the routine: what comes before the dividers, the two      *)
(* words, and the PLLs one after another, none of which writes them.       *)
LEMMA BusStays ==
  ASSUME NEW c
  PROVE  /\ \A s \in Seq(NoPower) : Walks(BusSteps(c), "start", s, "start")
         /\ \A s \in Seq(Spared) : Walks(BusSteps(c), "two", s, "two")
<1>1. \A o \in NoPower : <<"start", o, "start">> \in BusSteps(c)
  <2>1. \A o \in NoPower : o \in SafeOps /\ BusStep(c, "start", o, "start")
    BY DEF NoPower, BusStep, Calm
  <2>2. QED
    BY <2>1, IsBusStep DEF BusStages
<1>2. \A o \in Spared : <<"two", o, "two">> \in BusSteps(c)
  <2>1. \A o \in Spared : o \in SafeOps /\ BusStep(c, "two", o, "two")
    BY DEF Spared, BusStep
  <2>2. QED
    BY <2>1, IsBusStep DEF BusStages
<1>3. QED
  BY <1>1, <1>2, WalkStays

LEMMA DividersWalk ==
  ASSUME NEW c
  PROVE  Walks(BusSteps(c), "start", Dividers(c), "two") /\ Dividers(c) \in Seq(SafeOps)
<1>1. PICK f, d : f = FeedbackOf(c) /\ d = PostOf(c)
  OBVIOUS
<1>2. PICK o, q : /\ o = [op |-> "store", reg |-> "pll_post_divider1", word |-> f]
                  /\ q = [op |-> "store", reg |-> "pll_post_divider2", word |-> d]
  OBVIOUS
<1>3. f \in SUBSET Ones /\ d \in SUBSET Ones
  BY <1>1, HexTyped DEF FeedbackOf, PostOf
<1>4. {"pll_post_divider1", "pll_post_divider2"} \subseteq DOMAIN ResetRegs \ Shared
  BY RegisterNames DEF Shared
<1>5. o \in SafeOps /\ q \in SafeOps
  BY <1>2, <1>3, <1>4 DEF SafeOps, Operations, Harmless, Shared
<1>6. BusStep(c, "start", o, "one") /\ BusStep(c, "one", q, "two")
  BY <1>1, <1>2 DEF BusStep
<1>7. <<"start", o, "one">> \in BusSteps(c) /\ <<"one", q, "two">> \in BusSteps(c)
  BY <1>5, <1>6, IsBusStep DEF BusStages
<1>8. <<o>> \in Seq(SafeOps) /\ <<q>> \in Seq(SafeOps)
  BY <1>5
<1>9. Walks(BusSteps(c), "start", <<o>> \o <<q>>, "two")
  BY <1>7, <1>8, WalkOne, WalkJoin
<1>10. Dividers(c) = <<o>> \o <<q>>
  <2>1. <<o>> = Store("pll_post_divider1", f) /\ <<q>> = Store("pll_post_divider2", d)
    BY <1>2 DEF Store
  <2>2. CASE c \in {CHIP_7173, CHIP_7183, CHIP_7185HP}
    <3>1. Dividers(c) = Store("pll_post_divider1", Hex(\h180B, \h6060))
                          \o Store("pll_post_divider2", Hex(\h0606, \h3033))
      BY <2>2 DEF Dividers, Divide400
    <3>2. f = Hex(\h180B, \h6060) /\ d = Hex(\h0606, \h3033)
      BY <1>1, <2>2 DEF FeedbackOf, PostOf
    <3>3. PICK k, l : k = Store("pll_post_divider1", f) /\ l = Store("pll_post_divider2", d)
      OBVIOUS
    <3>4. Dividers(c) = k \o l
      BY <3>1, <3>2, <3>3
    <3>5. <<o>> = k /\ <<q>> = l
      BY <2>1, <3>3
    <3>6. QED
      BY <3>4, <3>5
  <2>3. CASE c \notin {CHIP_7173, CHIP_7183, CHIP_7185HP}
    <3>1. Dividers(c) = Store("pll_post_divider1", Hex(\h180B, \h6050))
                          \o Store("pll_post_divider2", Hex(\h0606, \h3022))
      BY <2>3 DEF Dividers, Divide500
    <3>2. f = Hex(\h180B, \h6050) /\ d = Hex(\h0606, \h3022)
      BY <1>1, <2>3 DEF FeedbackOf, PostOf
    <3>3. PICK k, l : k = Store("pll_post_divider1", f) /\ l = Store("pll_post_divider2", d)
      OBVIOUS
    <3>4. Dividers(c) = k \o l
      BY <3>1, <3>2, <3>3
    <3>5. <<o>> = k /\ <<q>> = l
      BY <2>1, <3>3
    <3>6. QED
      BY <3>4, <3>5
  <2>4. QED
    BY <2>2, <2>3
<1>11. <<o>> \o <<q>> \in Seq(SafeOps)
  BY <1>8
<1>12. QED
  BY <1>9, <1>10, <1>11

LEMMA PllsSpare ==
  ASSUME NEW s
  PROVE  /\ init_pll0_fixed \in Seq(Spared) /\ init_pll1_gateway \in Seq(Spared)
         /\ init_pll2_vcxo(s) \in Seq(Spared) /\ init_pll3_bme \in Seq(Spared)
         /\ init_pll4_dsp \in Seq(Spared)
<1>1. \A q \in PLL : \A t \in Seq(Own(q)) : t \in Seq(Spared)
  <2>1. ASSUME NEW q \in PLL, NEW t \in Seq(Own(q)) PROVE t \in Seq(Spared)
    <3>1. PICK p \in PLL \ {q} : p \in Divided
      BY DEF PLL, Divided
    <3>2. Own(q) \subseteq Spared
      BY <3>1 DEF Own, SettingsSpared, Spared
    <3>3. PICK A, B : A = Own(q) /\ B = Spared
      OBVIOUS
    <3>4. A \subseteq B /\ t \in Seq(A)
      BY <3>2, <3>3
    <3>5. t \in Seq(B)
      BY ONLY <3>4
    <3>6. QED
      BY <3>3, <3>5
  <2>2. QED
    BY <2>1
<1>2. {"fixed", "vcxo", "gateway", "bme", "dsp"} \subseteq PLL
  BY DEF PLL
<1>3. /\ init_pll0_fixed \in Seq(Own("fixed")) /\ init_pll1_gateway \in Seq(Own("gateway"))
      /\ init_pll3_bme \in Seq(Own("bme")) /\ init_pll4_dsp \in Seq(Own("dsp"))
  BY FixedGoes, GatewayGoes, BmeGoes, DspGoes DEF Goes
<1>4. init_pll2_vcxo(s) \in Seq(Own("vcxo"))
  BY VcxoGoes DEF Goes
<1>5. QED
  BY <1>1, <1>2, <1>3, <1>4

BusGoes(c, x, s, y) == s \in Seq(SafeOps) /\ Walks(BusSteps(c), x, s, y)

LEMMA BusJoin ==
  ASSUME NEW c, NEW s, NEW t, NEW x, NEW y, NEW z, BusGoes(c, x, s, y), BusGoes(c, y, t, z)
  PROVE  BusGoes(c, x, s \o t, z)
<1>1. s \in Seq(SafeOps) /\ t \in Seq(SafeOps)
  BY DEF BusGoes
<1>2. s \o t \in Seq(SafeOps)
  BY <1>1
<1>3. Walks(BusSteps(c), x, s \o t, z)
  BY <1>1, WalkJoin DEF BusGoes
<1>4. QED
  BY <1>2, <1>3 DEF BusGoes

LEMMA BusWalk ==
  ASSUME NEW c, NEW u \in BOOLEAN, NEW s, NEW why, why # "soft"
  PROVE  BusGoes(c, "start", init_plls(c, why, u, s), "two")
<1>1. \A z : z \in Seq(NoPower) \/ z \in Seq(Spared) => z \in Seq(SafeOps)
  <2>1. PICK A, B, C : A = NoPower /\ B = Spared /\ C = SafeOps
    OBVIOUS
  <2>2. A \subseteq C /\ B \subseteq C
    BY <2>1 DEF NoPower, Spared
  <2>3. \A z : z \in Seq(A) \/ z \in Seq(B) => z \in Seq(C)
    BY ONLY <2>2
  <2>4. QED
    BY <2>1, <2>3
<1>2. \A z \in Seq(NoPower) : BusGoes(c, "start", z, "start")
  BY <1>1, BusStays DEF BusGoes
<1>3. \A z \in Seq(Spared) : BusGoes(c, "two", z, "two")
  BY <1>1, BusStays DEF BusGoes
<1>4. PICK h, a : h = ClockAndReset \o ResetThreshold /\ a = HostSource(c)
  OBVIOUS
<1>5. PICK b : b = Dividers(c)
  OBVIOUS
<1>6. PICK x, y : x = init_pll0_fixed /\ y = init_pll1_gateway
  OBVIOUS
<1>7. PICK v, m, d : v = init_pll2_vcxo(s) /\ m = init_pll3_bme /\ d = init_pll4_dsp
  OBVIOUS
<1>8. PICK t : t = IF u THEN <<>> ELSE (v \o m) \o d
  OBVIOUS
<1>9. h \in Seq(NoPower) /\ a \in Seq(NoPower)
  BY <1>4, EarlyPieces
<1>10. /\ x \in Seq(Spared) /\ y \in Seq(Spared) /\ v \in Seq(Spared) /\ m \in Seq(Spared)
       /\ d \in Seq(Spared) /\ <<>> \in Seq(Spared)
  BY <1>6, <1>7, PllsSpare
<1>11. /\ BusGoes(c, "two", x, "two") /\ BusGoes(c, "two", y, "two")
       /\ BusGoes(c, "two", v, "two") /\ BusGoes(c, "two", m, "two")
       /\ BusGoes(c, "two", d, "two") /\ BusGoes(c, "two", <<>>, "two")
  BY <1>3, <1>10
<1>12. BusGoes(c, "two", t, "two")
  <2>1. BusGoes(c, "two", (v \o m) \o d, "two")
    BY <1>11, BusJoin
  <2>2. QED
    BY <1>8, <1>11, <2>1
<1>13. BusGoes(c, "start", h, "start") /\ BusGoes(c, "start", a, "start")
  BY <1>2, <1>9
<1>14. BusGoes(c, "start", b, "two")
  BY <1>5, DividersWalk DEF BusGoes
<1>15. BusGoes(c, "start", (a \o b) \o x, "two")
  BY <1>11, <1>13, <1>14, BusJoin
<1>16. BusGoes(c, "start", (((a \o b) \o x) \o y) \o t, "two")
  BY <1>11, <1>12, <1>15, BusJoin
<1>17. BusGoes(c, "start", h \o ((((a \o b) \o x) \o y) \o t), "two")
  BY <1>13, <1>16, BusJoin
<1>18. init_plls(c, why, u, s) = h \o ((((a \o b) \o x) \o y) \o t)
  BY <1>4, <1>5, <1>6, <1>7, <1>8 DEF init_plls
<1>19. QED
  BY <1>17, <1>18

(* What a power-on leaves once the routine is through.                     *)
LEMMA BusLeft ==
  ASSUME NEW c, NEW u \in BOOLEAN, NEW s
  PROVE  BusOf(LeftBy("init_plls", c, u, s)) = RatedBus(c)
<1> DEFINE R == BusSteps(c)
           Kept == {z \in BusStages \X [DOMAIN ResetRegs -> SUBSET Ones] :
                      RegsSafe(z[2]) /\ BusAt(c, z[1], z[2])}
           program == init_plls(c, "power", u, s)
           left == LeftAfter(ResetRegs, program)
<1>1. program \in Seq(SafeOps) /\ Walks(R, "start", program, "two")
  <2>1. "power" # "soft"
    OBVIOUS
  <2>2. QED
    BY <2>1, BusWalk DEF BusGoes
<1>2. <<"start", ResetRegs>> \in Kept
  <2>1. "gateway" \in PLL
    BY DEF PLL
  <2>2. Cal("gateway") \notin ResetRegs.pll_pwr_rst
    BY <2>1, ResetNew DEF RegsAt
  <2>3. BusAt(c, "start", ResetRegs)
    BY <2>2 DEF BusAt
  <2>4. QED
    BY <2>3, ResetSafe DEF RegsSafe, BusStages
<1>3. ASSUME NEW x, NEW o, NEW y, NEW q, <<x, o, y>> \in R, <<x, q>> \in Kept
      PROVE  <<y, Effect(q, o)>> \in Kept
  <2>1. RegsSafe(q) /\ BusAt(c, x, q)
    BY <1>3
  <2>2. o \in SafeOps /\ y \in BusStages
    BY <1>3, IsBusStep
  <2>3. BusAt(c, y, Effect(q, o)) /\ RegsSafe(Effect(q, o))
    BY <1>3, <2>1, <2>2, BusStepLeaves, EffectSafe
  <2>4. QED
    BY <2>2, <2>3 DEF RegsSafe
<1>4. <<"two", left>> \in Kept
  <2> HIDE DEF Kept, program, R
  <2>1. QED
    BY <1>1, <1>2, <1>3, WalkLeaves
<1>5. RegsSafe(left) /\ BusAt(c, "two", left)
  <2> HIDE DEF left
  <2>1. QED
    BY <1>4
<1>6. LeftBy("init_plls", c, u, s) = left
  <2>1. ProgramOf("init_plls", c, "power", u, s) = program
    BY DEF ProgramOf
  <2>2. LeftBy("init_plls", c, u, s) = [reg \in DOMAIN ResetRegs |-> left[reg]]
    BY <2>1 DEF LeftBy, LeftAfter
  <2> HIDE DEF left
  <2>3. QED
    BY <1>5, <2>2 DEF RegsSafe
<1>7. BusOf(left) = RatedBus(c)
  <2> HIDE DEF left
  <2>1. QED
    BY <1>5, BusWords DEF BusAt
<1>8. QED
  BY <1>6, <1>7

-----------------------------------------------------------------------------
(* The bus has the frequency of its dividers from the lock of the gateway  *)
(* PLL on, and that of the oscillator before, when the routine has still   *)
(* to give the dividers their words, or has given them.                    *)
BusFast ==
  /\ "locked" \in status["gateway"]
  /\ BusOf(regs) = RatedBus(chip)
  /\ busClock = RatedBus(chip)

OnItsWay(x) ==
  /\ Walks(BusSteps(chip), x, todo, "two")
  /\ BusAt(chip, x, regs)
  /\ x # "two" => status["gateway"] = {}

BusSlow ==
  /\ busClock = 1
  /\ \E x \in BusStages : OnItsWay(x)
  /\ step # "init_plls" => regs = ResetRegs /\ status["gateway"] = {}

BusInv ==
  /\ cause = "soft" \/ step \notin Early => BusFast
  /\ cause # "soft" /\ step \in Early => BusSlow

MainBus ==
  /\ routine = "init_plls" => BusInv
  /\ dram # "off" => step \notin Early

LEMMA InitBus == FbootInit => MainBus
<1> SUFFICES ASSUME FbootInit PROVE MainBus
  OBVIOUS
<1>1. PllInit /\ BoardInit /\ Init /\ dram = "off"
  BY DEF FbootInit, Init, MemoryOff
<1>2. /\ routine \in AllRoutines /\ strap \in Straps /\ chip \in Chips
      /\ cause \in ResetCauses /\ serial \in BOOLEAN
  BY <1>1, PllAssumption, BoardAssumption DEF PllInit, BoardInit
<1>3. "gateway" \in PLL /\ step = "boot_reset" /\ step \in Early
  BY <1>1 DEF PLL, Init, Early
<1>4. ASSUME routine = "init_plls" PROVE BusInv
  <2>1. CASE cause = "soft"
    <3>1. regs = LeftBy("init_plls", chip, serial, strap)
      BY <1>1, <1>2, <1>4, <2>1 DEF PllInit, Outcome
    <3>2. BusOf(regs) = RatedBus(chip)
      BY <1>2, <3>1, BusLeft
    <3>3. busClock = RatedBus(chip)
      BY <1>1, <2>1 DEF Init
    <3>4. "gateway" \in ToLock
      BY <1>2, <1>3, <1>4 DEF ToLock
    <3>5. "locked" \in status["gateway"]
      BY <1>1, <1>3, <2>1, <3>4 DEF PllInit
    <3>6. QED
      BY <2>1, <3>2, <3>3, <3>5 DEF BusInv, BusFast
  <2>2. CASE cause # "soft"
    <3>1. todo = init_plls(chip, cause, serial, strap)
      BY <1>1, <1>2, <1>4 DEF PllInit, Program, ProgramOf
    <3>2. Walks(BusSteps(chip), "start", todo, "two")
      BY <1>2, <2>2, <3>1, BusWalk DEF BusGoes
    <3>3. regs = ResetRegs /\ status["gateway"] = {} /\ busClock = 1
      BY <1>1, <1>3, <2>2 DEF PllInit, Init
    <3>4. BusAt(chip, "start", regs)
      BY <1>3, <3>3, ResetNew DEF BusAt, RegsAt
    <3>5. OnItsWay("start") /\ "start" \in BusStages
      BY <3>2, <3>3, <3>4 DEF OnItsWay, BusStages
    <3>6. QED
      BY <1>3, <2>2, <3>3, <3>5 DEF BusInv, BusSlow
  <2>3. QED
    BY <2>1, <2>2
<1>5. QED
  BY <1>1, <1>4 DEF MainBus

(* What main() does about the clock of the bus.                            *)
LEMMA MainSteps ==
  ASSUME [Next]_vars
  PROVE  /\ chip' = chip /\ cause' = cause
         /\ step \notin Early => step' \notin Early
         /\ cause = "soft" \/ step \notin Early => busClock' = busClock
<1> USE DEF chosen, boardVars, clocks, Early
<1>1. CASE a_uart_init \/ detect_SoC \/ SkipPlls
  BY <1>1 DEF a_uart_init, detect_SoC, SkipPlls
<1>2. CASE ProgramPlls
  BY <1>2 DEF ProgramPlls
<1>3. CASE c_uart_init \/ c_auto_ddr
  BY <1>3 DEF c_uart_init, c_auto_ddr
<1>4. CASE LoadSerial \/ LoadNand \/ Jump
  BY <1>4 DEF LoadSerial, LoadNand, Jump
<1>5. CASE UNCHANGED vars
  BY <1>5 DEF vars
<1>6. QED
  BY <1>1, <1>2, <1>3, <1>4, <1>5 DEF Next

LEMMA FastKept ==
  ASSUME BusFast, KeepsPll("gateway"), chip' = chip, busClock' = busClock
  PROVE  BusFast'
<1>1. Settled("gateway") /\ "locked" \in status'["gateway"]
  BY DEF BusFast, Settled, KeepsPll
<1>2. DividersOf("gateway", regs') = DividersOf("gateway", regs)
  BY <1>1 DEF KeepsPll, Spares, Divided
<1>3. PICK f, d : f = FeedbackDivider["gateway"] /\ d = PostDividers["gateway"]
  OBVIOUS
<1>4. /\ regs'.pll_post_divider1 \cap f = regs.pll_post_divider1 \cap f
      /\ regs'.pll_post_divider2 \cap d = regs.pll_post_divider2 \cap d
  BY <1>2, <1>3 DEF DividersOf
<1>5. f = 0 .. 7 /\ d = 0 .. 11
  BY <1>3 DEF FeedbackDivider, PostDividers
<1>6. 4 .. 7 \subseteq d
  BY <1>5
<1>7. regs'.pll_post_divider2 \cap (4 .. 7) = regs.pll_post_divider2 \cap (4 .. 7)
  BY <1>4, <1>6
<1>8. BusOf(regs') = BusOf(regs)
  BY <1>4, <1>5, <1>7 DEF BusOf
<1>9. RatedBus(chip)' = RatedBus(chip)
  BY DEF RatedBus
<1>10. QED
  BY <1>1, <1>8, <1>9 DEF BusFast

(* The steps before the poll of the gateway PLL.                           *)
LEMMA BusOn ==
  ASSUME NEW x, OnItsWay(x), todo # <<>>, todo \in Seq(SafeOps), RegsSafe(regs)
  PROVE  \E y \in BusStages :
           /\ x \in BusStages
           /\ Walks(BusSteps(chip), y, Tail(todo), "two")
           /\ BusAt(chip, y, Effect(regs, Head(todo)))
           /\ y # "two" => x # "two"
<1>1. PICK y : /\ <<x, Head(todo), y>> \in BusSteps(chip)
               /\ Walks(BusSteps(chip), y, Tail(todo), "two")
  BY WalkOn DEF OnItsWay
<1>2. x \in BusStages /\ y \in BusStages /\ BusStep(chip, x, Head(todo), y)
  BY <1>1, IsBusStep
<1>3. BusAt(chip, y, Effect(regs, Head(todo)))
  BY <1>1, BusStepLeaves DEF OnItsWay
<1>4. y # "two" => x # "two"
  BY <1>2 DEF BusStep
<1>5. QED
  BY <1>1, <1>2, <1>3, <1>4

LEMMA SlowAccess ==
  ASSUME PllsInv, BusSlow, Access, step = "init_plls", UNCHANGED vars
  PROVE  BusSlow'
<1>1. PICK x \in BusStages : OnItsWay(x)
  BY DEF BusSlow
<1>2. /\ todo # <<>> /\ todo' = Tail(todo) /\ regs' = Effect(regs, Head(todo))
      /\ status'["gateway"] = Reacts("gateway", regs.pll_pwr_rst, regs'.pll_pwr_rst)
  BY DEF Access, Step, PLL
<1>3. todo \in Seq(SafeOps) /\ RegsSafe(regs)
  BY DEF PllsInv
<1>4. PICK y \in BusStages :
           /\ Walks(BusSteps(chip), y, Tail(todo), "two")
           /\ BusAt(chip, y, Effect(regs, Head(todo)))
           /\ y # "two" => x # "two"
  BY <1>1, <1>2, <1>3, BusOn
<1>5. step' = step /\ chip' = chip /\ busClock' = busClock
  BY DEF vars, chosen, boardVars, clocks
<1>6. y # "two" => status'["gateway"] = {}
  <2>1. Reacts("gateway", regs.pll_pwr_rst, regs'.pll_pwr_rst) \subseteq status["gateway"]
    BY DEF Reacts
  <2>2. QED
    BY <1>1, <1>2, <1>4, <2>1 DEF OnItsWay
<1>7. OnItsWay(y)'
  BY <1>2, <1>4, <1>5, <1>6 DEF OnItsWay
<1>8. QED
  BY <1>5, <1>7 DEF BusSlow

LEMMA SlowPoll ==
  ASSUME PllsInv, BusSlow, ClockInv, PollSet, step = "init_plls", cause # "soft",
         IF <<Head(todo)>> = Poll("gateway", "locked") THEN ProgramPlls ELSE UNCHANGED vars
  PROVE  IF <<Head(todo)>> = Poll("gateway", "locked") THEN BusFast' /\ step' \notin Early
                                                       ELSE BusSlow'
<1>1. PICK x \in BusStages : OnItsWay(x)
  BY DEF BusSlow
<1>2. /\ todo # <<>> /\ todo' = Tail(todo) /\ regs' = regs /\ status' = status
      /\ Head(todo).op = "poll" /\ Head(todo).flag \in status[Head(todo).pll]
  BY DEF PollSet, Step
<1>3. todo \in Seq(SafeOps) /\ RegsSafe(regs)
  BY DEF PllsInv
<1>4. CASE <<Head(todo)>> = Poll("gateway", "locked")
  <2>1. ProgramPlls
    BY <1>4
  <2>2. Head(todo) = [op |-> "poll", pll |-> "gateway", flag |-> "locked"]
    BY <1>4 DEF Poll
  <2>3. "locked" \in status["gateway"]
    BY <1>2, <2>2
  <2>4. x = "two"
    BY <1>1, <2>3 DEF OnItsWay
  <2>5. BusOf(regs) = RatedBus(chip)
    BY <1>1, <2>4, BusWords DEF OnItsWay, BusAt
  <2>6. gChipType = chip
    BY DEF ClockInv, Timed
  <2>7. busClock' = RatedBus(chip) /\ step' = "c_uart_init" /\ chip' = chip
    BY <2>1, <2>6 DEF ProgramPlls, chosen, boardVars
  <2>8. RatedBus(chip)' = RatedBus(chip)
    BY <2>7 DEF RatedBus
  <2>9. BusOf(regs') = BusOf(regs)
    BY <1>2
  <2>10. BusFast'
    BY <1>2, <2>3, <2>5, <2>7, <2>8, <2>9 DEF BusFast
  <2>11. QED
    BY <1>4, <2>7, <2>10 DEF Early
<1>5. CASE <<Head(todo)>> # Poll("gateway", "locked")
  <2>1. UNCHANGED vars
    BY <1>5
  <2>2. PICK y \in BusStages :
             /\ Walks(BusSteps(chip), y, Tail(todo), "two")
             /\ BusAt(chip, y, Effect(regs, Head(todo)))
             /\ y # "two" => x # "two"
    BY <1>1, <1>2, <1>3, BusOn
  <2>3. Effect(regs, Head(todo)) = regs
    BY <1>2 DEF Effect
  <2>4. step' = step /\ chip' = chip /\ busClock' = busClock
    BY <2>1 DEF vars, chosen, boardVars, clocks
  <2>5. OnItsWay(y)'
    BY <1>1, <1>2, <2>2, <2>3, <2>4 DEF OnItsWay
  <2>6. QED
    BY <1>5, <2>4, <2>5 DEF BusSlow
<1>6. QED
  BY <1>4, <1>5

LEMMA SlowHardware ==
  ASSUME PllsInv, BusSlow, NEW p \in PLL, Calibrates(p) \/ Locks(p), UNCHANGED vars
  PROVE  BusSlow'
<1>1. PICK x \in BusStages : OnItsWay(x)
  BY DEF BusSlow
<1>2. /\ UNCHANGED <<todo, regs>> /\ step' = step /\ chip' = chip /\ busClock' = busClock
  BY DEF Calibrates, Locks, vars, chosen, boardVars, clocks
<1>3. status \in [PLL -> SUBSET {"calibrated", "locked"}] /\ "gateway" \in PLL
  BY DEF PllsInv, PLL
<1>4. CASE p # "gateway"
  <2>1. status'["gateway"] = status["gateway"]
    BY <1>3, <1>4 DEF Calibrates, Locks
  <2>2. OnItsWay(x)'
    BY <1>1, <1>2, <2>1 DEF OnItsWay
  <2>3. QED
    BY <1>2, <2>1, <2>2 DEF BusSlow
<1>5. CASE p = "gateway"
  <2>1. Cal("gateway") \in regs.pll_pwr_rst \/ status["gateway"] # {}
    BY <1>5 DEF Calibrates, Locks, Has, Cal
  <2>2. x = "two"
    BY <1>1, <2>1 DEF OnItsWay, BusAt
  <2>3. Cal("gateway") \notin ResetRegs.pll_pwr_rst
    BY <1>3, ResetNew DEF RegsAt
  <2>4. step = "init_plls"
    BY <2>1, <2>3 DEF BusSlow
  <2>5. OnItsWay(x)'
    BY <1>1, <1>2, <2>2 DEF OnItsWay
  <2>6. QED
    BY <1>2, <2>4, <2>5 DEF BusSlow
<1>6. QED
  BY <1>4, <1>5

LEMMA SlowLeft ==
  ASSUME BusSlow, UNCHANGED pllVars, chip' = chip, busClock' = busClock,
         step' = "init_plls" \/ step # "init_plls"
  PROVE  BusSlow'
<1>1. PICK x \in BusStages : OnItsWay(x)
  BY DEF BusSlow
<1>2. UNCHANGED <<todo, regs, status>>
  BY DEF pllVars
<1>3. OnItsWay(x)'
  BY <1>1, <1>2 DEF OnItsWay
<1>4. QED
  BY <1>2, <1>3 DEF BusSlow

LEMMA StepSlow ==
  ASSUME PllsInv, ClockInv, BusSlow, routine = "init_plls", step \in Early, cause # "soft",
         dram = "off", [FbootNext]_allVars
  PROVE  (step' \in Early /\ BusSlow') \/ (step' \notin Early /\ BusFast')
<1>1. CASE RunStart
  <2>1. UNCHANGED pllVars /\ (a_uart_init \/ UNCHANGED vars)
    BY <1>1 DEF RunStart
  <2>2. /\ chip' = chip /\ busClock' = busClock
        /\ (step = "boot_reset" /\ step' = "detect_SoC") \/ step' = step
    BY <2>1 DEF a_uart_init, vars, chosen, boardVars, clocks
  <2>3. BusSlow'
    BY <2>1, <2>2, SlowLeft
  <2>4. QED
    BY <2>2, <2>3 DEF Early
<1>2. CASE DetectChip
  <2>1. /\ UNCHANGED pllVars /\ chip' = chip /\ busClock' = busClock /\ step' = "init_plls"
    BY <1>2 DEF DetectChip, detect_SoC, chosen, boardVars, clocks
  <2>2. QED
    BY <2>1, SlowLeft DEF Early
<1>3. CASE AccessRegister
  <2>1. step = "init_plls" /\ Access /\ UNCHANGED vars
    BY <1>3 DEF AccessRegister, Entered, Early
  <2>2. QED
    BY <2>1, SlowAccess DEF vars
<1>4. CASE PollPll
  <2>1. /\ step = "init_plls" /\ PollSet
        /\ IF <<Head(todo)>> = Poll("gateway", "locked") THEN ProgramPlls ELSE UNCHANGED vars
    BY <1>4 DEF PollPll, Entered, Early
  <2>2. QED
    BY <2>1, SlowPoll DEF vars
<1>5. CASE CallUartInit
  BY <1>5 DEF CallUartInit, c_uart_init, Early
<1>6. CASE PllHardware
  <2>1. UNCHANGED vars /\ \E p \in PLL : Calibrates(p) \/ Locks(p)
    BY <1>6 DEF PllHardware
  <2>2. QED
    BY <2>1, SlowHardware DEF vars
<1>7. CASE RunDdr \/ DdrHardwareRuns
  BY <1>7 DEF RunDdr, EnterDdr, SearchDdr, ReturnDdr, DdrHardwareRuns, Early
<1>8. CASE LoadAndJump
  BY <1>8 DEF LoadAndJump, LoadSerial, LoadNand, Jump, Early
<1>9. CASE UNCHANGED allVars
  <2>1. UNCHANGED pllVars /\ UNCHANGED vars
    BY <1>9 DEF allVars
  <2>2. chip' = chip /\ busClock' = busClock /\ step' = step
    BY <2>1 DEF vars, chosen, boardVars, clocks
  <2>3. QED
    BY <2>1, <2>2, SlowLeft
<1>10. QED
  BY <1>1, <1>2, <1>3, <1>4, <1>5, <1>6, <1>7, <1>8, <1>9
     DEF FbootNext, LoaderRuns, RunPlls

LEMMA StepMainBus ==
  HardInv /\ StagesInv /\ ClockInv /\ MainBus /\ [FbootNext]_allVars => MainBus'
<1> SUFFICES ASSUME HardInv, StagesInv, ClockInv, MainBus, [FbootNext]_allVars
             PROVE  MainBus'
  OBVIOUS
<1>1. /\ chip' = chip /\ cause' = cause
      /\ step \notin Early => step' \notin Early
      /\ cause = "soft" \/ step \notin Early => busClock' = busClock
  BY FbootStep, MainSteps
<1>2. StagesInv' /\ KeepsPll("gateway") /\ PllsInv
  BY StepStages DEF HardInv, PLL
<1>3. routine' = routine
  <2>1. CASE SearchDdr
    BY <2>1 DEF SearchDdr, SetUpDdr, AccessScu, AccessDdr, DelayPasses, PollDdr, Prepared,
                ReadResult, TestMemory, pllVars
  <2>2. CASE RunPlls \/ PllHardware
    BY <2>2 DEF RunPlls, AccessRegister, PollPll, CallUartInit, Access, PollSet, CallRoutine,
                PllHardware, Calibrates, Locks
  <2>3. CASE RunStart \/ DetectChip \/ EnterDdr \/ ReturnDdr \/ DdrHardwareRuns \/ LoadAndJump
             \/ UNCHANGED allVars
    BY <2>3 DEF RunStart, DetectChip, EnterDdr, ReturnDdr, DdrHardwareRuns, DdrHardware,
                PhyReady, SclEnds, LoadAndJump, allVars, pllVars
  <2>4. QED
    BY <2>1, <2>2, <2>3 DEF FbootNext, LoaderRuns, RunDdr
<1>4. ASSUME routine = "init_plls" PROVE BusInv'
  <2>1. CASE cause = "soft" \/ step \notin Early
    <3>1. BusFast'
      BY <1>1, <1>2, <1>4, <2>1, FastKept DEF MainBus, BusInv
    <3>2. QED
      BY <1>1, <2>1, <3>1 DEF BusInv
  <2>2. CASE cause # "soft" /\ step \in Early
    <3>1. BusSlow /\ dram = "off"
      BY <1>4, <2>2 DEF MainBus, BusInv
    <3>2. (step' \in Early /\ BusSlow') \/ (step' \notin Early /\ BusFast')
      BY <1>2, <1>4, <2>2, <3>1, StepSlow
    <3>3. Early' = Early
      BY DEF Early
    <3>4. QED
      BY <1>1, <2>2, <3>2, <3>3 DEF BusInv
  <2>3. QED
    BY <2>1, <2>2
<1>5. dram' # "off" => step' \notin Early
  <2>1. CASE EnterDdr
    BY <1>1, <2>1 DEF EnterDdr, Early
  <2>2. CASE ~ EnterDdr
    <3>1. dram = "off" => dram' = "off"
      BY <2>2 DEF FbootNext, LoaderRuns, RunDdr, RunStart, DetectChip, RunPlls, AccessRegister,
         PollPll, CallUartInit, SearchDdr, ReturnDdr, PllHardware, DdrHardwareRuns,
         LoadAndJump, allVars, hardVars, ddrVars, memVars, dramVars
    <3>2. QED
      BY <1>1, <3>1 DEF MainBus
  <2>3. QED
    BY <2>1, <2>2
<1>6. QED
  BY <1>3, <1>4, <1>5 DEF MainBus, Early

(* The clock main() reckons with is the one its own register accesses      *)
(* make: as long as the gateway PLL has not locked the bus is that of the  *)
(* oscillator, and from then on, or after a soft reset, the one that       *)
(* feedback and post divider give, which no later step changes.            *)
THEOREM BusTheorem == FbootSpec => []BusIsProgrammed
<1>1. FbootSpec => []ClockInv
  <2>1. Spec => []ClockInv
    BY InitClock, StepClock, PTL DEF Spec
  <2>2. QED
    BY <2>1, FbootImplements, PTL
<1>2. MainBus => BusIsProgrammed
  <2> SUFFICES ASSUME MainBus, step # "init_plls", routine = "init_plls"
               PROVE  busClock = IF "locked" \in status["gateway"] THEN BusOf(regs) ELSE 1
    BY DEF BusIsProgrammed
  <2>1. CASE cause = "soft" \/ step \notin Early
    BY <2>1 DEF MainBus, BusInv, BusFast
  <2>2. CASE cause # "soft" /\ step \in Early
    BY <2>2 DEF MainBus, BusInv, BusSlow
  <2>3. QED
    BY <2>1, <2>2
<1>3. FbootSpec => []MainBus
  <2>1. FbootInit => MainBus
    BY InitBus
  <2>2. HardInv /\ StagesInv /\ ClockInv /\ MainBus /\ [FbootNext]_allVars => MainBus'
    BY StepMainBus
  <2>3. QED
    BY <1>1, <2>1, <2>2, StagesInvariance, PTL DEF FbootSpec
<1>4. QED
  BY <1>2, <1>3, PTL

-----------------------------------------------------------------------------
(* A number of at most five hexadecimal digits, in eight.                  *)
LEMMA DigitsTyped ==
  ASSUME NEW n \in Nat
  PROVE  Digits(n) \in [1 .. 8 -> Digit]
<1>1. /\ 16 ^ 0 \in Nat \ {0} /\ 16 ^ 1 \in Nat \ {0} /\ 16 ^ 2 \in Nat \ {0}
      /\ 16 ^ 3 \in Nat \ {0} /\ 16 ^ 4 \in Nat \ {0} /\ 16 ^ 5 \in Nat \ {0}
      /\ 16 ^ 6 \in Nat \ {0} /\ 16 ^ 7 \in Nat \ {0}
  OBVIOUS
<1>2. ASSUME NEW d \in 1 .. 8 PROVE (n \div 16 ^ (8 - d)) % 16 \in Digit
  <2>1. PICK k : k = 8 - d
    OBVIOUS
  <2>2. k = 0 \/ k = 1 \/ k = 2 \/ k = 3 \/ k = 4 \/ k = 5 \/ k = 6 \/ k = 7
    BY <2>1
  <2>3. PICK m : m = 16 ^ k
    OBVIOUS
  <2>4. m \in Nat \ {0}
    BY ONLY <1>1, <2>2, <2>3
  <2>5. (n \div m) % 16 \in 0 .. 15
    BY <2>4
  <2>6. QED
    BY <2>1, <2>3, <2>5 DEF Digit
<1>3. QED
  BY <1>2 DEF Digits

LEMMA ShownTyped == Shown \subseteq [1 .. 8 -> Digit]
<1>1. ASSUME NEW b \in Builds PROVE Config[b] \in [1 .. 8 -> Digit]
  <2>1. Config[b] \in Range(Config)
    BY WordAssumption DEF Range
  <2>2. QED
    BY <2>1, WordAssumption
<1>2. ASSUME NEW n \in 1 .. Len(AtReset) PROVE AtReset[n] \in [1 .. 8 -> Digit]
  <2>1. AtReset \in Seq([1 .. 8 -> Digit])
    BY WordAssumption
  <2>2. PICK T : T = [1 .. 8 -> Digit]
    OBVIOUS
  <2>3. AtReset[n] \in T
    BY ONLY <2>1, <2>2, n \in 1 .. Len(AtReset)
  <2>4. QED
    BY <2>2, <2>3
<1>3. ASSUME NEW c \in 0 .. 6
      PROVE  /\ Digits(LineSize(c)) \in [1 .. 8 -> Digit]
             /\ Digits(SetsPerWay(c)) \in [1 .. 8 -> Digit]
  <2>1. PICK m : m = 2 ^ c
    OBVIOUS
  <2>2. m \in Nat
    BY ONLY <2>1, c \in 0 .. 6, PowersOfTwo
  <2>3. 2 * m \in Nat /\ 64 * m \in Nat
    BY ONLY <2>2
  <2>4. LineSize(c) \in Nat /\ SetsPerWay(c) \in Nat
    BY <2>1, <2>3 DEF LineSize, SetsPerWay
  <2>5. QED
    BY <2>4, DigitsTyped
<1>4. ASSUME NEW a \in 0 .. 7 PROVE Digits(a + 1) \in [1 .. 8 -> Digit]
  <2>1. a + 1 \in Nat
    OBVIOUS
  <2>2. QED
    BY <2>1, DigitsTyped
<1>5. PRId \in [1 .. 8 -> Digit]
  BY WordAssumption
<1>6. QED
  BY <1>1, <1>2, <1>3, <1>4, <1>5 DEF Shown

(* Of the digits of a number at most seven are behind at any time, the     *)
(* leading zeros among them, once one was sent.                            *)
StartTyped ==
  /\ cp0 \subseteq {"ERL", "BEV", "IV"} \cup UNION Undefined
  /\ clean \subseteq {"I", "D", "stack"}
  /\ shown \in Seq(Digit)
  /\ skipping \in 0 .. 8
  /\ shown # <<>> => Len(shown) + skipping <= 7

LEMMA InitStartTyped == FbootInit => StartTyped
<1> SUFFICES ASSUME FbootInit PROVE StartTyped
  OBVIOUS
<1>1. PICK u \in Undefined : cp0 = {"ERL", "BEV"} \cup u
  BY DEF FbootInit, StartInit
<1>2. clean = {} /\ shown = <<>> /\ skipping = 0
  BY DEF FbootInit, StartInit
<1>3. QED
  BY <1>1, <1>2 DEF StartTyped

LEMMA StepDigit ==
  ASSUME SInv, StartTyped, PutDigit
  PROVE  StartTyped'
<1>1. PICK n, z : n = Len(shown) + skipping + 1 /\ z = Nibble(n)
  OBVIOUS
<1>2. /\ ~ Booted /\ Next0.op = "hex" /\ UNCHANGED <<cp0, clean>>
      /\ \/ /\ shown = <<>> /\ z = 0 /\ shown' = shown
            /\ skipping' = IF skipping < 8 THEN skipping + 1 ELSE 8
         \/ ~ (shown = <<>> /\ z = 0) /\ shown' = <<>> /\ skipping' = 0
         \/ /\ ~ (shown = <<>> /\ z = 0) /\ n # 8
            /\ shown' = Append(shown, z) /\ skipping' = skipping
  BY <1>1 DEF PutDigit, AtStep
<1>3. Next0.word \in [1 .. 8 -> Digit]
  <2>1. boot \in 1 .. Len(BootSteps[build]) /\ boot > 4
    BY <1>2, NextStep DEF SInv
  <2>2. Begins(BootSteps[build]) /\ Len(BootSteps[build]) \in Nat
    BY BootProgram DEF SInv, Begins
  <2>3. Next0 \in Later
    BY <2>1, <2>2 DEF Begins, Next0
  <2>4. Next0.word \in Shown
    BY <1>2, <2>3 DEF Later, Kinds
  <2>5. QED
    BY <2>4, ShownTyped
<1>4. z \in Digit /\ (n > 8 => z = 0)
  <2>1. n \in Nat \ {0}
    BY <1>1 DEF StartTyped
  <2>2. CASE n <= 8
    <3>1. n \in 1 .. 8
      BY <2>1, <2>2
    <3>2. z = Next0.word[n]
      BY <1>1, <2>2 DEF Nibble
    <3>3. QED
      BY <1>3, <2>2, <2>1, <3>1, <3>2
  <2>3. CASE n > 8
    <3>1. z = 0
      BY <1>1, <2>1, <2>3 DEF Nibble
    <3>2. QED
      BY <3>1 DEF Digit
  <2>4. QED
    BY <2>1, <2>2, <2>3
<1>5. shown \in Seq(Digit) /\ Len(shown) \in Nat /\ skipping \in 0 .. 8
      /\ (shown # <<>> => Len(shown) + skipping <= 7)
  BY DEF StartTyped
<1>6. CASE /\ shown = <<>> /\ z = 0 /\ shown' = shown
           /\ skipping' = IF skipping < 8 THEN skipping + 1 ELSE 8
  BY <1>2, <1>5, <1>6 DEF StartTyped
<1>7. CASE shown' = <<>> /\ skipping' = 0
  BY <1>2, <1>7 DEF StartTyped
<1>8. CASE /\ ~ (shown = <<>> /\ z = 0) /\ n # 8
           /\ shown' = Append(shown, z) /\ skipping' = skipping
  <2>1. n <= 7
    <3>1. shown # <<>> => n <= 8
      BY <1>1, <1>5
    <3>2. shown = <<>> => ~ (n > 8)
      BY <1>4, <1>8
    <3>3. n \in Nat
      BY <1>1, <1>5
    <3>4. QED
      BY <1>8, <3>1, <3>2, <3>3
  <2>2. shown' \in Seq(Digit) /\ Len(shown') = Len(shown) + 1
    BY <1>4, <1>5, <1>8
  <2>3. Len(shown') + skipping' <= 7
    BY <1>1, <1>5, <1>8, <2>1, <2>2
  <2>4. QED
    BY <1>2, <1>5, <1>8, <2>2, <2>3 DEF StartTyped
<1>9. QED
  BY <1>2, <1>6, <1>7, <1>8

LEMMA StepStartTyped == SInv /\ StartTyped /\ [FbootNext]_allVars => StartTyped'
<1> SUFFICES ASSUME SInv, StartTyped, [FbootNext]_allVars PROVE StartTyped'
  OBVIOUS
<1>1. CASE UNCHANGED startVars
  BY <1>1 DEF StartTyped, startVars
<1>2. CASE RunStart
  <2>1. StartNext
    BY <1>2 DEF RunStart
  <2>2. CASE StoreCp0
    <3>1. /\ ~ Booted /\ Next0.op = "mtc0"
          /\ cp0' = (cp0 \ Next0.off) \cup Next0.on
          /\ UNCHANGED <<clean, shown, skipping>>
      BY <2>2 DEF StoreCp0, AtStep
    <3>2. Next0.on \subseteq {"IV", "BEV"}
      <4>1. boot = 1 \/ boot = 2 \/ boot = 3 \/ boot = 4
        BY <3>1, NextStep DEF SInv
      <4>2. QED
        BY <3>1, <4>1, NextStep
    <3>3. cp0' \subseteq {"ERL", "BEV", "IV"} \cup UNION Undefined
      BY <3>1, <3>2 DEF StartTyped
    <3>4. QED
      BY <3>1, <3>3 DEF StartTyped
  <2>3. CASE Passes
    BY <2>3 DEF Passes, StartTyped
  <2>4. CASE PutDigit
    BY <2>4, StepDigit
  <2>5. CASE ClearTags
    BY <2>5 DEF ClearTags, AtStep, StartTyped
  <2>6. QED
    BY <2>1, <2>2, <2>3, <2>4, <2>5 DEF StartNext
<1>3. QED
  BY <1>1, <1>2, StartVarsKept

LEMMA StartTypes == SInv /\ StartTyped => StartTypeOK
<1> SUFFICES ASSUME SInv, StartTyped PROVE StartTypeOK
  OBVIOUS
<1>1. Len(shown) <= 8
  <2>1. Len(shown) \in Nat /\ skipping \in 0 .. 8
    BY DEF StartTyped
  <2>2. CASE shown = <<>>
    BY <2>2
  <2>3. CASE shown # <<>>
    BY <2>1, <2>3 DEF StartTyped
  <2>4. QED
    BY <2>2, <2>3
<1>2. QED
  BY <1>1 DEF SInv, StartTyped, StartTypeOK

(* The registers of the DDR controller are words before the search and in  *)
(* it.                                                                     *)
LEMMA FbootDdrTyped ==
  DdrInv /\ DdrTyped /\ [FbootNext]_allVars => DdrTyped'
<1> SUFFICES ASSUME DdrInv, DdrTyped, [FbootNext]_allVars PROVE DdrTyped'
  OBVIOUS
<1>1. CASE SearchDdr \/ DdrHardwareRuns
  <2>1. SetUpInv
    BY <1>1 DEF SearchDdr, DdrHardwareRuns, DdrInv
  <2>2. SetUpNext
    BY <1>1 DEF SearchDdr, DdrHardwareRuns, SetUpNext, vars, chosen
  <2>3. QED
    BY <2>1, <2>2, StepDdrTyped
<1>2. CASE ~ (SearchDdr \/ DdrHardwareRuns)
  <2>1. UNCHANGED <<ddr, taken>>
    BY <1>2 DEF FbootNext, LoaderRuns, RunStart, DetectChip, RunPlls, AccessRegister,
                PollPll, CallUartInit, PllHardware, RunDdr, EnterDdr, ReturnDdr,
                LoadAndJump, allVars, hardVars, ddrVars, setUpVars
  <2>2. QED
    BY <2>1 DEF DdrTyped
<1>3. QED
  BY <1>1, <1>2

LEMMA PllsTyped == PllsInv => PllTypeOK
<1> SUFFICES ASSUME PllsInv PROVE PllTypeOK
  OBVIOUS
<1>1. PICK T : T = [op : {"store"}, reg : DOMAIN ResetRegs, word : SUBSET Ones]
                     \cup [op : {"modify"}, reg : DOMAIN ResetRegs,
                           clear : SUBSET Ones, set : SUBSET Ones]
                     \cup [op : {"poll"}, pll : PLL, flag : {"calibrated", "locked"}]
                     \cup [op : {"call"}, routine : {"c_uart_init"}]
  OBVIOUS
<1>2. SafeOps \subseteq T
  BY <1>1 DEF SafeOps, Operations
<1>3. todo \in Seq(SafeOps)
  BY DEF PllsInv
<1>4. todo \in Seq(T)
  BY ONLY <1>2, <1>3, Wider
<1>5. QED
  BY <1>1, <1>4 DEF PllsInv, RegsSafe, PllTypeOK

(* Every variable of boot_reset, main() and the routines it calls in full  *)
(* keeps to its type: no register of the system controller, of the DDR     *)
(* controller or of coprocessor 0 ever has a bit it does not have, on any  *)
(* chip, whatever its registers and memory come up with.                   *)
THEOREM FbootTypes == FbootSpec => []FbootTypeOK
<1>1. FbootSpec => []TypeOK
  BY FbootImplements, BootTypes, PTL
<1>2. FbootInit => HardInv /\ SInv /\ StartTyped /\ DdrTyped
  BY InitPllsInv, InitDdrInv, InitSInv, InitStartTyped, DdrBegins DEF HardInv, FbootInit
<1>3. HardInv /\ SInv /\ StartTyped /\ DdrTyped /\ [FbootNext]_allVars
        => (HardInv /\ SInv /\ StartTyped /\ DdrTyped)'
  BY StepPllsInv, StepDdrInv, StepSInv, StepStartTyped, FbootDdrTyped DEF HardInv, PllsInv
<1>4. TypeOK /\ HardInv /\ SInv /\ StartTyped /\ DdrTyped => FbootTypeOK
  <2> SUFFICES ASSUME TypeOK, HardInv, SInv, StartTyped, DdrTyped PROVE FbootTypeOK
    OBVIOUS
  <2>1. PllTypeOK /\ StartTypeOK
    BY PllsTyped, StartTypes DEF HardInv
  <2>2. SetUpTypeOK
    <3>1. at \in Nat \ {0}
      BY DEF HardInv, DdrInv, SetUpInv, DdrInit
    <3>2. QED
      BY <3>1 DEF SetUpTypeOK, DdrTyped
  <2>3. (dram # "off" => DramTypeOK) /\ CacheTypeOK
    <3>1. CASE dram = "off"
      <4>1. build \in Builds /\ dcache = <<>>
        BY <3>1 DEF HardInv, DdrInv, CacheInit
      <4>2. Len(<<>>) <= Ways
        BY CacheAssumption
      <4>3. QED
        BY <3>1, <4>1, <4>2 DEF CacheTypeOK
    <3>2. CASE dram # "off"
      BY <3>2 DEF HardInv, DdrInv, CacheInv, Typed
    <3>3. QED
      BY <3>1, <3>2
  <2>4. QED
    BY <2>1, <2>2, <2>3 DEF FbootTypeOK
<1>5. QED
  BY <1>1, <1>2, <1>3, <1>4, PTL DEF FbootSpec
=============================================================================
