----------------------------- MODULE DramSetUp -----------------------------
(***************************************************************************)
(* What c_auto_ddr() of boot/soc_landshark/dram_ram.c does before it tests *)
(* a configuration: it resets controller and PHY, programs both, starts    *)
(* the power sequence of the chips and has the lanes calibrated.  Module   *)
(* DramDetect takes this for two steps; here it is the sequence of its     *)
(* register accesses, on the registers of the system controller that       *)
(* init_plls left (module Plls) and on those of the DDR controller.        *)
(*                                                                         *)
(* The words are put together from their fields as reg_ddr.h does, and     *)
(* compared with those that dram_rom.S stores and the comments list.       *)
(***************************************************************************)
EXTENDS Caches, Plls

(* A number in the field that begins at a bit.                             *)
Field(number, shift) == {shift + b : b \in Hex(0, number)}

(* The DDR controller and the PHY after a reset.                           *)
ResetDdr ==
  [mem_cfg0    |-> Hex(\h35A4, \h8820), mem_cfg1    |-> Hex(\h2216, \h3424),
   mem_cfg2    |-> Hex(\h4300, \h1642), mem_cfg3    |-> Hex(\h0000, \h0418),
   mem_cfg4    |-> Hex(\h0000, \h0008), mem_cfg5    |-> {},
   mem_cfg6    |-> {},                  mem_cfg7    |-> {},
   prf_ctrl    |-> Hex(\h0320, \h8027), status_perf |-> {},
   scl_start   |-> {},                  scl_latency |-> {},
   scl_cnfg1   |-> {},                  scl_cnfg2   |-> {},
   pad_ctrl    |-> Hex(\h0000, \h0200), dll_recalib |-> Hex(\h0400, \h0000),
   analog_dll1 |-> Hex(\hBBBB, \hBBBB)]

-----------------------------------------------------------------------------
(* The fields of the words, for DDR2 chips at a cycle of 4 ns.             *)
SYS_DRAM_BUS_CLK == 4
Clocks(ns) == ns \div SYS_DRAM_BUS_CLK
CAS_LATENCY == 4
ADDITIVE_LATENCY == 3
RD_CAS_LATENCY == 4
WR_CAS_LATENCY == RD_CAS_LATENCY - 1
DRAM_SYS_CS_BITMASK == 1
DRAM_MAX_LATENCY == 1

(* Refresh to active for chips of 256 Mbit to 2 Gbit.                      *)
a_tRFC == <<\h13, \h1A, \h20, \h31>>

Timing0(c) ==
  Field(Clocks(12), 28) \cup Field(Clocks(45), 23) \cup Field(Clocks(15), 19)
    \cup Field(a_tRFC[c.cS + 1], 13) \cup Field(Clocks(64000000 \div 8192), 0)

(* Slip: the bus width is taken for its code.                              *)
Timing1Narrow(c) ==
  Field(Clocks(8), 28) \cup Field(Clocks(8), 24)
    \cup Field(c.cS + 3, 18) \cup Field(c.cW, 16) \cup Field(c.bW + 1, 12)
    \cup Field(Clocks(16), 8) \cup Field(2, 4) \cup Field(Clocks(16), 0)

Timing1(c) ==
  Field(Clocks(8), 28) \cup Field(Clocks(8), 24)
    \cup Field(c.cS + 3, 18) \cup Field(c.cW, 16) \cup Field(c.bW + 2, 12)
    \cup Field(Clocks(16), 8) \cup Field(2, 4) \cup Field(Clocks(16), 0)

(* Mode register: external delay, DDR2, read latency, slow exit, write     *)
(* recovery, reset of the chips' DLL, CAS latency, burst of four.          *)
WITH_DLL_RESET == Field(1, 8)
ModeWord(dllReset) ==
  Field(1, 31) \cup Field(1, 30) \cup Field(4 + 2, 24) \cup Field(1, 12)
    \cup Field(2, 9) \cup dllReset \cup Field(CAS_LATENCY, 4) \cup Field(2, 0)

ExtendedModeWord == Field(ADDITIVE_LATENCY, 3)
FAW == Field(\hD, 0)
DDRPHY_RDLAT_STG2_1CLK == Field(1, 6)
DDR_SCL_DONE == 0

SCL_MAIN_CLK_DLY == 3 + DRAM_MAX_LATENCY

(* Slip: the two latencies are exchanged.                                  *)
LatencyWordSwapped ==
  Field(SCL_MAIN_CLK_DLY - 1, 4) \cup Field(SCL_MAIN_CLK_DLY, 0)

LatencyWord == Field(SCL_MAIN_CLK_DLY, 4) \cup Field(SCL_MAIN_CLK_DLY - 1, 0)
SclWord1 ==
  Field(DRAM_SYS_CS_BITMASK, 24) \cup Field(4, 12)
    \cup Field(ADDITIVE_LATENCY, 8) \cup Field(RD_CAS_LATENCY, 4) \cup Field(1, 1)
SclWord2 == Field(WR_CAS_LATENCY, 8) \cup Field(DRAM_SYS_CS_BITMASK, 0)
PadWord == Field(1, 9) \cup Field(2, 4)
RecalibWord == Field(3, 28) \cup Field(\h1000, 0)
AnalogWord == Field(1, 24)

SCL_START_GO_DONE == 28
SCL_START_CONTINUOUS_R == 29

RST_CLKGATE_MSK_DDR_CTRL == 27
RST_MSK_DDR_CTRL_AHB == 28
DDR_CTRL_CLK_GATE == 27
DDR_CTRL_CLK_SRC == 29
DdrResets == {RST_CLKGATE_MSK_DDR_CTRL, RST_MSK_DDR_CTRL_AHB}

-----------------------------------------------------------------------------
Delay == <<[op |-> "delay"]>>
WaitSet(r, bit) == <<[op |-> "wait", reg |-> r, bit |-> bit, set |-> TRUE]>>
WaitClear(r, bit) == <<[op |-> "wait", reg |-> r, bit |-> bit, set |-> FALSE]>>

(* Slip: the write protection of the reset bits stays open.                *)
ddr_system_resetOpen ==
  And("rst_mask", DdrResets)
    \o And("clkgate", {DDR_CTRL_CLK_SRC}) \o Or("clkgate", {DDR_CTRL_CLK_GATE})
    \o Delay
    \o Or("rst_vec", DdrResets)

(* The lines that would hold the controller in reset are disabled:         *)
(* "default upon reset".                                                   *)
ddr_system_reset ==
  And("rst_mask", DdrResets)
    \o And("clkgate", {DDR_CTRL_CLK_SRC}) \o Or("clkgate", {DDR_CTRL_CLK_GATE})
    \o Delay
    \o Or("rst_vec", DdrResets)
    \o Or("rst_mask", DdrResets)

ddr_phy_init ==
  Store("scl_latency", LatencyWord)
    \o Store("scl_cnfg1", SclWord1) \o Store("scl_cnfg2", SclWord2)
    \o Store("pad_ctrl", PadWord) \o Store("dll_recalib", RecalibWord)
    \o Store("analog_dll1", AnalogWord)

ddr_phy_polling_idle == WaitSet("status_perf", DDR_SCL_DONE)

(* Slip: the power sequence is started before the last words.              *)
ddr_ctl_initEarly(c) ==
  (IF c.bW = 0 THEN Or("prf_ctrl", DDRPHY_RDLAT_STG2_1CLK) ELSE <<>>)
    \o Store("mem_cfg0", Timing0(c)) \o Store("mem_cfg1", Timing1(c))
    \o Store("mem_cfg2", ModeWord(WITH_DLL_RESET)) \o Store("mem_cfg2", ModeWord({}))
    \o Store("mem_cfg7", {})
    \o Store("mem_cfg3", ExtendedModeWord) \o Store("mem_cfg4", FAW)
    \o Store("mem_cfg5", {}) \o Store("mem_cfg6", {})

(* mem_cfg7 starts the power sequence.                                     *)
ddr_ctl_init(c) ==
  (IF c.bW = 0 THEN Or("prf_ctrl", DDRPHY_RDLAT_STG2_1CLK) ELSE <<>>)
    \o Store("mem_cfg0", Timing0(c)) \o Store("mem_cfg1", Timing1(c))
    \o Store("mem_cfg2", ModeWord(WITH_DLL_RESET)) \o Store("mem_cfg2", ModeWord({}))
    \o Store("mem_cfg3", ExtendedModeWord) \o Store("mem_cfg4", FAW)
    \o Store("mem_cfg5", {}) \o Store("mem_cfg6", {})
    \o Store("mem_cfg7", {})

ddr_ctl_polling_idle == Delay
ddr_scl_polling_start == WaitClear("scl_start", SCL_START_GO_DONE)

(* Slip: the second test is started and its end not waited for.            *)
ddr_scl_write_readNoWait == Store("scl_start", {SCL_START_GO_DONE})

ddr_scl_write_read ==
  Store("scl_start", {SCL_START_GO_DONE}) \o ddr_scl_polling_start

ddr_scl_read_read ==
  Store("scl_start", {SCL_START_CONTINUOUS_R, SCL_START_GO_DONE})
    \o ddr_scl_polling_start

(* What is done before the calibration, and for it.                        *)
Prepare(c) ==
  ddr_system_reset \o ddr_phy_init \o ddr_phy_polling_idle
    \o ddr_ctl_init(c) \o ddr_ctl_polling_idle
Calibration == ddr_scl_read_read \o ddr_scl_write_read

(* init_ddr_hw of dram_rom.S, which nothing calls.  It waits for the PHY   *)
(* until DDR_SCL_DONE is clear.                                            *)
init_ddr_hw(narrow) ==
  Store("dll_recalib", Hex(\h3000, \h1000))
    \o Store("analog_dll1", Hex(\h0100, \h0000))
    \o Store("pad_ctrl", Hex(0, \h0220))
    \o Store("scl_cnfg1", Hex(\h0100, \h4342))
    \o Store("scl_cnfg2", Hex(0, \h0301))
    \o Store("scl_latency", Hex(0, \h0043))
    \o WaitClear("status_perf", DDR_SCL_DONE)
    \o Store("mem_cfg4", Hex(0, \h000D))
    \o Store("mem_cfg0", Hex(\h3524, \h07A0))
    \o (IF narrow
        THEN Store("mem_cfg1", Hex(\h2216, \h1424))
               \o Store("prf_ctrl", Hex(\h0320, \h8067))
        ELSE Store("mem_cfg1", Hex(\h2216, \h3424)))
    \o Store("mem_cfg2", Hex(\hC600, \h1542)) \o Store("mem_cfg2", Hex(\hC600, \h1442))
    \o Store("mem_cfg3", Hex(0, \h0018))
    \o Store("mem_cfg7", {})
    \o Delay
    \o Calibration

-----------------------------------------------------------------------------
VARIABLES
  at,      \* the access that is next
  ddr,     \* registers of the DDR controller and of the PHY
  taken    \* words the last power sequence began with

setUpVars == <<at, ddr, taken>>

Preparing == [k \in DOMAIN Configs |-> Prepare(Configs[k])]
Calibrating == Calibration

(* What is left to do at this point of the search.                         *)
Accesses ==
  CASE dram = "try" /\ Fits -> Preparing[try]
    [] dram = "scl"          -> Calibrating
    [] OTHER                 -> <<>>

Done == at > Len(Accesses)

(* The words that tell the controller what chips there are.                *)
WordsTaken ==
  {"mem_cfg0", "mem_cfg1", "mem_cfg2", "mem_cfg3", "mem_cfg4", "prf_ctrl"}

SetUpTypeOK ==
  /\ at \in Nat \ {0}
  /\ ddr \in [DOMAIN ResetDdr -> SUBSET Ones]
  /\ taken \in [WordsTaken -> SUBSET Ones]

DdrInit ==
  /\ at = 1
  /\ ddr = ResetDdr
  /\ taken = [r \in WordsTaken |-> {}]

(* Out of reset and clocked.                                               *)
Runs == DdrResets \subseteq regs.rst_vec /\ DDR_CTRL_CLK_GATE \in regs.clkgate

Words == [r \in WordsTaken |-> ddr[r]]

Doing(kind) == ~ Done /\ Accesses[at].op \in kind /\ at' = at + 1

AccessScu ==
  /\ Doing({"store", "modify"})
  /\ Accesses[at].reg \in DOMAIN regs
  /\ regs' = Effect(regs, Accesses[at])
  /\ UNCHANGED <<memVars, ddr, taken, routine, strap, todo, status>>

(* A controller in reset takes no word.                                    *)
AccessDdr ==
  /\ Doing({"store", "modify"})
  /\ Accesses[at].reg \in DOMAIN ddr
  /\ ddr' = IF Runs THEN Effect(ddr, Accesses[at]) ELSE ddr
  /\ taken' = IF Accesses[at].reg = "mem_cfg7" THEN Words ELSE taken
  /\ UNCHANGED <<memVars, pllVars>>

DelayPasses ==
  /\ Doing({"delay"})
  /\ UNCHANGED <<memVars, pllVars, ddr, taken>>

PollDdr ==
  /\ Doing({"wait"})
  /\ Accesses[at].set <=> Accesses[at].bit \in ddr[Accesses[at].reg]
  /\ UNCHANGED <<memVars, pllVars, ddr, taken>>

Prepared ==
  /\ dram = "try" /\ Done
  /\ SetUp
  /\ at' = 1
  /\ UNCHANGED <<pllVars, cacheVars, ddr, taken>>

(* The result bits as the register has them when they are read.            *)
ReadResult ==
  /\ dram = "scl" /\ Done
  /\ ResultRead(column_mask(config) \subseteq ddr.scl_start)
  /\ InvalidateIf(dram' = "write")
  /\ at' = 1
  /\ UNCHANGED <<pllVars, ddr, taken>>

TestMemory ==
  /\ ((SkipTooLarge \/ Exhausted) /\ UNCHANGED cacheVars) \/ Write \/ Read
  /\ UNCHANGED <<pllVars, at, ddr, taken>>

SetUpDdr ==
  \/ AccessScu \/ AccessDdr \/ DelayPasses \/ PollDdr
  \/ Prepared \/ ReadResult
  \/ TestMemory

(* The PHY is ready some time after its reset; a test of the lanes ends,   *)
(* and tells the good ones if it wrote before it read.                     *)
PhyReady ==
  /\ Runs /\ DDR_SCL_DONE \notin ddr.status_perf
  /\ ddr' = [ddr EXCEPT !.status_perf = @ \cup {DDR_SCL_DONE}]
  /\ UNCHANGED <<memVars, pllVars, at, taken>>

GoodLanes == IF fault.kind = "lane" THEN Lanes \ {fault.lane} ELSE Lanes

SclEnds ==
  /\ Runs /\ SCL_START_GO_DONE \in ddr.scl_start
  /\ \E result \in IF SCL_START_CONTINUOUS_R \in ddr.scl_start
                   THEN {{}, Lanes} ELSE {GoodLanes} :
       ddr' = [ddr EXCEPT !.scl_start = (@ \ {SCL_START_GO_DONE}) \cup result]
  /\ UNCHANGED <<memVars, pllVars, at, taken>>

DdrHardware == PhyReady \/ SclEnds

(* The search alone, when init_plls has returned.                          *)
SetUpInit ==
  /\ BoardInit /\ DramInit /\ CacheInit /\ DdrInit
  /\ routine = "init_plls" /\ strap \in Straps /\ todo = <<>>
  /\ regs = LeftBy(routine, chip, serial, strap)
  /\ status = [p \in PLL |-> {"calibrated", "locked"}]

SetUpNext == (SetUpDdr \/ DdrHardware) /\ UNCHANGED boardVars

SetUpSpec ==
  SetUpInit /\ [][SetUpNext]_<<boardVars, pllVars, memVars, setUpVars>>

-----------------------------------------------------------------------------
(***************************************************************************)
(* Properties.                                                             *)
(***************************************************************************)
Believed == dram \in {"scl", "write", "read", "ok"}

(* "user can program Controller registers ... then Controller returns to   *)
(* idle state" (dram_ram.c): from the calibration to the end of the test   *)
(* the chips were initialised with the words the controller holds, and it  *)
(* is out of a reset that nothing can put it into again by accident.       *)
TakenAsHeld ==
  Believed => /\ taken = Words
              /\ Runs /\ DdrResets \subseteq regs.rst_mask
              /\ DDR_CTRL_CLK_SRC \notin regs.clkgate

(* What the controller was told of the chips is what the test sweeps: the  *)
(* capacity, by the codes of size, chip and bus width in reg_ddr.h, the    *)
(* lanes looked at, the refresh time of chips of that size, and the        *)
(* additional latency of a narrow bus, whatever was tried before.          *)
Number(bits, low) == MapThenSumSet(LAMBDA b : 2 ^ (b - low), bits)

RefreshClocks == [code \in 3 .. 6 |-> <<19, 26, 32, 49>>[code - 2]]

MemoryAsSwept ==
  Believed =>
    LET size  == Number(taken.mem_cfg1 \cap (18 .. 20), 18)
        width == Number(taken.mem_cfg1 \cap (16 .. 17), 16)
        bus   == Number(taken.mem_cfg1 \cap (12 .. 13), 12)
    IN  /\ totalSize(config) * Unit = 2 ^ (22 + size) * 2 ^ (bus - width)
        /\ 8 * Cardinality(column_mask(config)) = 2 ^ (bus + 2)
        /\ Number(taken.mem_cfg0 \cap (13 .. 18), 13) = RefreshClocks[size]
        /\ 6 \in taken.prf_ctrl <=> bus = 2

(* For chips of 1 Gbit by 16 the words of the C routine and those of the   *)
(* assembly are the same, but for the timings in the first and the code of *)
(* a narrow bus, which is 1 there and 2 here.                              *)
Assembled ==
  [narrow \in BOOLEAN |->
     FoldLeft(Effect, ResetDdr,
              SelectSeq(init_ddr_hw(narrow), LAMBDA o : o.op \in {"store", "modify"}))]

WordsAgree ==
  Believed /\ config.cS = 2 /\ config.cW = 2 =>
    \A r \in DOMAIN ddr \ {"mem_cfg0", "mem_cfg5", "mem_cfg6", "status_perf", "scl_start"} :
      LET both == IF r = "mem_cfg1" THEN Ones \ (12 .. 13) ELSE Ones
      IN  ddr[r] \cap both = Assembled[config.bW = 0][r] \cap both

(* Without a cache the accesses amount to the steps of DramDetect: in      *)
(* particular what is read from the result bits is the result of the       *)
(* finished write-read test, not of the one before it.                     *)
ImplementsSearch ==
  [][dram # "off" /\ build = "uncached" => DramNext]_dramVars

(* "During this time "Controller" RESET must be asserted to prevent any    *)
(* accessing to SDRAM" (dram_ram.c).                                       *)
ControllerHeld ==
  dram = "try" /\ at < Len(ddr_system_reset) /\ ~ Done
    /\ Accesses[at] = Head(Delay)
    => DdrResets \cap regs.rst_vec = {}
=============================================================================
