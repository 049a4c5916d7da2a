-------------------------------- MODULE Plls --------------------------------
(***************************************************************************)
(* Raising the clocks: init_plls() of boot/soc_landshark/pll_ram.c, which  *)
(* main() calls, the two older forms of it that follow it in the file and  *)
(* are not compiled, and init_pll of pll_rom.S, the same set-up for a      *)
(* loader that has no memory yet.                                          *)
(*                                                                         *)
(* A routine is the sequence of what it does to the system controller: a   *)
(* register stored, a register read, modified and stored, a status polled. *)
(* A step is one of them; todo is what is left.  The five PLLs share the   *)
(* power register and the post dividers, each with bits of its own.  A     *)
(* register is the set of its one-bits.  The PLLs themselves are hardware: *)
(* they calibrate and lock when their bits of the power register say so.   *)
(***************************************************************************)
EXTENDS Board, Sequences, SequencesExt

CONSTANTS
  Routines,  \* members of AllRoutines: those that are run
  Straps     \* the straps with numbers 7 and 10 that can be set together

AllRoutines == {"init_plls", "init_pll", "init_plls_words", "init_plls_parts"}

ASSUME PllAssumption ==
  /\ Routines \subseteq AllRoutines
  /\ Straps \subseteq SUBSET {7, 10}

PLL == {"fixed", "vcxo", "gateway", "bme", "dsp"}

(* Where a PLL has its bits in pll_pwr_rst, and what they are.             *)
Shift == [fixed |-> 0, vcxo |-> 6, gateway |-> 12, bme |-> 18, dsp |-> 24]
POWER_UP == 0
LOCKDETECTOR_DOWN == 1
CALIBRATION == 2
SIGMADELTA_DOWN == 3
POSTDIVIDER_UP == 4

BitsOf(p, bits) == {Shift[p] + b : b \in bits}

(* A 32-bit word of two halves.                                            *)
Hex(high, low) ==
  {b \in 0 .. 31 : (IF b < 16 THEN low \div 2 ^ b
                              ELSE high \div 2 ^ (b - 16)) % 2 = 1}
Ones == 0 .. 31
VCXO_COMMON_CLOCK == 21
AMC_CS0_MAP == 8
GIGE2_XMII == {16, 17}

(* Bits of the post dividers: what is clocked, and past which stages.      *)
Enable ==
  [GIGE |-> 0, USB |-> 1, SYN_REF |-> 2, HOST_MIPS |-> 3, BME_MIPS |-> 4,
   DSP |-> 5, AP |-> 6, BME_FD |-> 7, SYS |-> 8, VCXO |-> 9, SPI0 |-> 10,
   SPI_SLOW |-> 11]
BypassDiv2 == [gateway |-> 12, bme |-> 13, dsp |-> 14]
BypassSigmaDelta == [gateway |-> 21, bme |-> 22, dsp |-> 23]
FeedbackDivider == [gateway |-> 0 .. 7, bme |-> 8 .. 15, dsp |-> 16 .. 23]
PostDividers == [gateway |-> 0 .. 11, bme |-> 12 .. 23, dsp |-> 24 .. 29]

(* The units that have one bit for reset and clock gate.                   *)
ResetAndGate ==
  [GIGE0_AP |-> 2, GIGE1_AP |-> 3, GIGE2_AP |-> 4, SPA_AP |-> 5, BMU_AP |-> 6,
   CLASS_AP |-> 7, HOST_AP |-> 9, DSP |-> 10, PCIE |-> 12, SATA |-> 13,
   USB |-> 14, BME_VCXO |-> 24, BME_FREQ_DM |-> 25, BME_MIPS |-> 26,
   DDR_CTRL |-> 27]

(* The system controller after a power-on.                                 *)
ResetRegs ==
  [pll_pwr_rst            |-> Hex(\h0A28, \hB282),
   pll_vcxo_sigmadelta    |-> Hex(\h0016, \h54D6),
   pll_dsp_sigmadelta     |-> Hex(\h003E, \h2D62),
   pll_post_divider1      |-> Hex(\h1809, \h6860),
   pll_post_divider2      |-> Hex(\h0406, \h3032),
   pll_post_divider3      |-> Hex(\h4D00, \h0FFF),
   pll_fixed_analog       |-> Hex(\h003F, \hC442),
   pll_vcxo_analog        |-> Hex(\h000C, \hCA88),
   pll_gateway_analog     |-> Hex(\h0020, \hC642),
   pll_bme_analog         |-> Hex(\h002D, \hC642),
   pll_dsp_analog         |-> Hex(\h0026, \hCE20),
   rst_mask               |-> Ones,
   rst_vec                |-> {0, 1},
   cpu_ctl_mask           |-> Hex(\hFFFF, \hFF00),
   cpu_ctl                |-> Hex(\hC6C0, \h0000),
   clkgate                |-> Hex(\h0FFF, \hFFFC),
   bme_map0               |-> {},
   por_status             |-> {},
   spare0                 |-> {}]

-----------------------------------------------------------------------------
(* What a routine is made of.                                              *)
Store(r, word) == <<[op |-> "store", reg |-> r, word |-> word]>>
Modify(r, clear, set) ==
  <<[op |-> "modify", reg |-> r, clear |-> clear, set |-> set]>>
Or(r, set) == Modify(r, {}, set)
And(r, clear) == Modify(r, clear, {})
Poll(p, flag) == <<[op |-> "poll", pll |-> p, flag |-> flag]>>
Call(routine) == <<[op |-> "call", routine |-> routine]>>

(* Bits with a one in the mask keep their value whatever is stored.        *)
Masked(regs, r, word) ==
  CASE r = "cpu_ctl" -> (regs.cpu_ctl \cap regs.cpu_ctl_mask)
                          \cup (word \ regs.cpu_ctl_mask)
    [] r = "rst_vec" -> (regs.rst_vec \cap regs.rst_mask)
                          \cup (word \ regs.rst_mask)
    [] OTHER         -> word

Effect(regs, o) ==
  CASE o.op = "store"  -> [regs EXCEPT ![o.reg] = Masked(regs, o.reg, o.word)]
    [] o.op = "modify" -> [regs EXCEPT ![o.reg] =
                             Masked(regs, o.reg, (@ \ o.clear) \cup o.set)]
    [] OTHER           -> regs

(* Slip: the complement of the mask is forgotten.                          *)
ClockAndResetOpen ==
  Store("bme_map0", Hex(\hAF80, \h0000))
    \o Store("cpu_ctl_mask", Hex(\h0003, \h0100))
    \o Store("cpu_ctl", Hex(\h0002, \h0100))
    \o Store("cpu_ctl_mask", Ones)
    \o Store("rst_mask", Hex(\hC7DC, \hF370))
    \o Store("clkgate", Hex(\h08FF, \hFFFC))
    \o Store("rst_vec", Hex(\h1823, \h0C8F))

(* Slip: the clock of the memory controller is gated.                      *)
ClockAndResetGated ==
  Store("bme_map0", Hex(\hAF80, \h0000))
    \o Store("cpu_ctl_mask", Hex(\hFFFC, \hFEFF))
    \o Store("cpu_ctl", Hex(\h0002, \h0100))
    \o Store("cpu_ctl_mask", Ones)
    \o Store("rst_mask", Hex(\hC7DC, \hF370))
    \o Store("clkgate", Hex(\h00FF, \hFFFC))
    \o Store("rst_vec", Hex(\h1823, \h0C8F))

(* What both routines do after every reset.                                *)
ClockAndReset ==
  Store("bme_map0", Hex(\hAF80, \h0000))
    \o Store("cpu_ctl_mask", Hex(\hFFFC, \hFEFF))
    \o Store("cpu_ctl", Hex(\h0002, \h0100))
    \o Store("cpu_ctl_mask", Ones)
    \o Store("rst_mask", Hex(\hC7DC, \hF370))
    \o Store("clkgate", Hex(\h08FF, \hFFFC))
    \o Store("rst_vec", Hex(\h1823, \h0C8F))

ResetThreshold == Store("por_status", {5})

Divide400 == Store("pll_post_divider1", Hex(\h180B, \h6060))
               \o Store("pll_post_divider2", Hex(\h0606, \h3033))
Divide500 == Store("pll_post_divider1", Hex(\h180B, \h6050))
               \o Store("pll_post_divider2", Hex(\h0606, \h3022))

(* The VCXO passes its input clock on and is powered without calibration.  *)
OpenCommonClock ==
  And("cpu_ctl_mask", {VCXO_COMMON_CLOCK})
    \o Or("cpu_ctl", {VCXO_COMMON_CLOCK})
    \o Or("cpu_ctl_mask", {VCXO_COMMON_CLOCK})

-----------------------------------------------------------------------------
(* init_plls.  A PLL is calibrated with its lock detector down and then,   *)
(* its bits cleared once more, run with the lock detector up.  mode is     *)
(* what stays as it is: sigma-delta down, post-divider up.                 *)
PowerUp(p, bits) ==
  And("pll_pwr_rst", BitsOf(p, 0 .. 5))
    \o FlattenSeq([k \in DOMAIN bits |-> Or("pll_pwr_rst", BitsOf(p, bits[k]))])
    \o Or("pll_pwr_rst", BitsOf(p, {POWER_UP}))

CalibrateAndLock(p, mode) ==
  PowerUp(p, mode \o <<{CALIBRATION, LOCKDETECTOR_DOWN}>>)
    \o Poll(p, "calibrated")
    \o PowerUp(p, mode)
    \o Poll(p, "locked")

init_pll0_fixed ==
  Store("pll_fixed_analog", Hex(\h003F, \hC442))
    \o Or("pll_post_divider3", {Enable.GIGE, Enable.USB})
    \o CalibrateAndLock("fixed", <<>>)

(* Slip: the sigma-delta is bypassed when the PLL has locked.              *)
init_pll1_gatewayLate ==
  Store("pll_gateway_analog", Hex(\h002C, \hC642))
    \o And("pll_post_divider3", {BypassDiv2.gateway})
    \o Or("pll_post_divider3", {Enable.SYS, Enable.AP, Enable.HOST_MIPS})
    \o Or("pll_post_divider3", {Enable.SPI_SLOW, Enable.SPI0})
    \o CalibrateAndLock("gateway", <<{SIGMADELTA_DOWN, POSTDIVIDER_UP}>>)
    \o Or("pll_post_divider3", {BypassSigmaDelta.gateway})
    \o Call("c_uart_init")

(* Slip: the status of another PLL is polled.                              *)
init_pll1_gatewayPollsBme ==
  Store("pll_gateway_analog", Hex(\h002C, \hC642))
    \o Or("pll_post_divider3", {BypassSigmaDelta.gateway})
    \o And("pll_post_divider3", {BypassDiv2.gateway})
    \o Or("pll_post_divider3", {Enable.SYS, Enable.AP, Enable.HOST_MIPS})
    \o Or("pll_post_divider3", {Enable.SPI_SLOW, Enable.SPI0})
    \o PowerUp("gateway", <<{SIGMADELTA_DOWN, POSTDIVIDER_UP},
                            {CALIBRATION, LOCKDETECTOR_DOWN}>>)
    \o Poll("gateway", "calibrated")
    \o PowerUp("gateway", <<{SIGMADELTA_DOWN, POSTDIVIDER_UP}>>)
    \o Poll("bme", "locked")
    \o Call("c_uart_init")

(* The host, the system bus and the UART run from the gateway PLL.         *)
init_pll1_gateway ==
  Store("pll_gateway_analog", Hex(\h002C, \hC642))
    \o Or("pll_post_divider3", {BypassSigmaDelta.gateway})
    \o And("pll_post_divider3", {BypassDiv2.gateway})
    \o Or("pll_post_divider3", {Enable.SYS, Enable.AP, Enable.HOST_MIPS})
    \o Or("pll_post_divider3", {Enable.SPI_SLOW, Enable.SPI0})
    \o CalibrateAndLock("gateway", <<{SIGMADELTA_DOWN, POSTDIVIDER_UP}>>)
    \o Call("c_uart_init")

(* Slip: the bits of the VCXO are taken to be seven.                       *)
init_pll2_vcxoWide(strap) ==
  Store("pll_vcxo_analog", Hex(\h001C, \hCA88))
    \o Store("pll_vcxo_sigmadelta", Hex(\h0016, \h54D6))
    \o Or("pll_post_divider3", {Enable.SYN_REF})
    \o Or("pll_post_divider3", {Enable.VCXO})
    \o And("pll_pwr_rst", BitsOf("vcxo", 0 .. 6))
    \o IF 10 \in strap
       THEN CalibrateAndLock("vcxo", <<>>)
       ELSE OpenCommonClock
              \o PowerUp("vcxo", <<{SIGMADELTA_DOWN}, {LOCKDETECTOR_DOWN}>>)

(* Strap 10 tells whether the front end has a clock of its own.            *)
init_pll2_vcxo(strap) ==
  Store("pll_vcxo_analog", Hex(\h001C, \hCA88))
    \o Store("pll_vcxo_sigmadelta", Hex(\h0016, \h54D6))
    \o Or("pll_post_divider3", {Enable.SYN_REF})
    \o Or("pll_post_divider3", {Enable.VCXO})
    \o IF 10 \in strap
       THEN CalibrateAndLock("vcxo", <<>>)
       ELSE OpenCommonClock
              \o PowerUp("vcxo", <<{SIGMADELTA_DOWN}, {LOCKDETECTOR_DOWN}>>)

init_pll3_bme ==
  Store("pll_bme_analog", Hex(\h002C, \hC642))
    \o Or("pll_post_divider3", {BypassSigmaDelta.bme})
    \o And("pll_post_divider3", {BypassDiv2.bme})
    \o Or("pll_post_divider3", {Enable.BME_MIPS, Enable.BME_FD})
    \o CalibrateAndLock("bme", <<{SIGMADELTA_DOWN, POSTDIVIDER_UP}>>)

init_pll4_dsp ==
  Store("pll_dsp_analog", Hex(\h0026, \hCE20))
    \o Store("pll_dsp_sigmadelta", Hex(\h0001, \h2B52))
    \o And("pll_post_divider3", {BypassSigmaDelta.dsp})
    \o And("pll_post_divider3", {BypassDiv2.dsp})
    \o Or("pll_post_divider3", {Enable.DSP})
    \o CalibrateAndLock("dsp", <<{POSTDIVIDER_UP}>>)

(* Slip: one chip of the slower family gets the dividers of the faster.    *)
DividersOneFamily(c) ==
  IF c \in {CHIP_7173, CHIP_7183} THEN Divide400 ELSE Divide500

Dividers(c) ==
  IF c \in {CHIP_7173, CHIP_7183, CHIP_7185HP} THEN Divide400 ELSE Divide500

(* On two chips the host is switched over to the BME PLL.                  *)
HostSource(c) ==
  IF c \in {CHIP_7175, CHIP_7185HP} THEN Store("spare0", Hex(\h0000, \h4009))
                                    ELSE <<>>

init_plls(c, rst_cause, uartboot, strap) ==
  ClockAndReset \o ResetThreshold
    \o IF rst_cause = "soft"
       THEN <<>>
       ELSE HostSource(c) \o Dividers(c)
              \o init_pll0_fixed \o init_pll1_gateway
              \o IF uartboot
                 THEN <<>>
                 ELSE init_pll2_vcxo(strap) \o init_pll3_bme \o init_pll4_dsp

-----------------------------------------------------------------------------
(* init_pll, in assembly.  Settings and clocks come first, a PLL's bits    *)
(* are changed by a single store, and the clocks of the chip are chosen by *)
(* all three bits of its type.                                             *)
Analogs ==
  Store("pll_fixed_analog", Hex(\h003F, \hC442))
    \o Store("pll_vcxo_analog", Hex(\h001C, \hCA88))
    \o Store("pll_gateway_analog", Hex(\h002C, \hC642))
    \o Store("pll_bme_analog", Hex(\h002C, \hC642))
    \o Store("pll_dsp_analog", Hex(\h0026, \hCE20))
    \o Store("pll_dsp_sigmadelta", Hex(\h0001, \h2B52))
    \o Store("pll_vcxo_sigmadelta", Hex(\h0016, \h54D6))
    \o Store("pll_post_divider3", Hex(\h4D60, \h0FFF))

StoreAndWait(p, clear, calibrate, run) ==
  Modify("pll_pwr_rst", clear, calibrate)
    \o Poll(p, "calibrated")
    \o Modify("pll_pwr_rst", clear, run)
    \o Poll(p, "locked")

FixedPll ==
  Modify("pll_pwr_rst", 0 .. 5, {0, 1, 2})
    \o Poll("fixed", "calibrated") \o Poll("fixed", "calibrated")
    \o Modify("pll_pwr_rst", 0 .. 3, {0})
    \o Poll("fixed", "locked")

SynthPll(strap) ==
  IF 7 \in strap
  THEN StoreAndWait("vcxo", 4 .. 11, {6, 7, 8}, {6})
  ELSE OpenCommonClock \o Modify("pll_pwr_rst", 4 .. 11, {6, 7, 9})

BmePll == StoreAndWait("bme", 18 .. 23, {18, 19, 20, 21}, {18, 21, 22})

(* Slip: the status of the PLL before is polled for the lock.              *)
GatewayPollsBme ==
  Modify("pll_pwr_rst", 12 .. 16, {12, 13, 14, 15, 16})
    \o Poll("gateway", "calibrated")
    \o Modify("pll_pwr_rst", 12 .. 16, {12, 15, 16})
    \o Poll("bme", "locked")

GatewayPll ==
  StoreAndWait("gateway", 12 .. 16, {12, 13, 14, 15, 16}, {12, 15, 16})

(* Slip: the post divider stays down.                                      *)
DspPllNoDivider == StoreAndWait("dsp", 24 .. 31, {24, 25, 26, 28}, {24})

DspPll == StoreAndWait("dsp", 24 .. 31, {24, 25, 26, 28}, {24, 28})

init_pll(c, rst_cause, strap) ==
  ClockAndReset \o ResetThreshold
    \o (IF rst_cause = "soft"
        THEN <<>>
        ELSE (IF c = 0 THEN Divide500 ELSE Divide400)
               \o Analogs \o FixedPll \o SynthPll(strap)
               \o BmePll \o GatewayPll \o DspPll)
    \o Or("rst_vec", {31})

-----------------------------------------------------------------------------
(* The older forms of init_plls, with the words of the assembly, but in C: *)
(* bits are cleared by one store and set by another.  Both poll the BME    *)
(* PLL for the lock of the gateway PLL.                                    *)
InTwoStores(program) ==
  FlattenSeq([k \in DOMAIN program |->
    IF program[k].op = "modify" /\ program[k].clear # {} /\ program[k].set # {}
    THEN And(program[k].reg, program[k].clear) \o Or(program[k].reg, program[k].set)
    ELSE <<program[k]>>])

WordsFixedPll(clear) ==
  StoreAndWait("fixed", clear, {0, 1, 2}, {0})

WordsGatewayPll ==
  Modify("pll_pwr_rst", 12 .. 16, 12 .. 16)
    \o Poll("gateway", "calibrated")
    \o Modify("pll_pwr_rst", 12 .. 16, {12, 15, 16})
    \o Poll("bme", "locked")

AllClocksOn == Store("pll_post_divider3", Hex(\h4D60, \h0FFF))

init_plls_words(c, rst_cause, strap) ==
  ClockAndReset \o ResetThreshold
    \o IF rst_cause = "soft"
       THEN <<>>
       ELSE Store("pll_fixed_analog", Hex(\h003F, \hC442))
              \o Store("pll_vcxo_analog", Hex(\h001C, \hCA88))
              \o Store("pll_gateway_analog", Hex(\h002C, \hC642))
              \o Store("pll_dsp_analog", Hex(\h0026, \hCE20))
              \o Store("pll_bme_analog", Hex(\h002C, \hC642))
              \o Dividers(c)
              \o Store("pll_dsp_sigmadelta", Hex(\h0001, \h2B52))
              \o Store("pll_vcxo_sigmadelta", Hex(\h0016, \h54D6))
              \o AllClocksOn
              \o InTwoStores(WordsFixedPll(0 .. 3) \o SynthPll(strap) \o BmePll
                               \o WordsGatewayPll \o Call("c_uart_init") \o DspPll)

(* PLL by PLL; nothing at all is done after a soft reset.                  *)
init_plls_parts(c, rst_cause, strap) ==
  IF rst_cause = "soft"
  THEN <<>>
  ELSE ResetThreshold \o HostSource(c) \o ClockAndReset \o Dividers(c)
         \o Store("pll_fixed_analog", Hex(\h003F, \hC442))
         \o InTwoStores(WordsFixedPll(0 .. 4))
         \o Store("pll_gateway_analog", Hex(\h002C, \hC642))
         \o AllClocksOn
         \o InTwoStores(WordsGatewayPll)
         \o Store("pll_vcxo_analog", Hex(\h001C, \hCA88))
         \o Store("pll_vcxo_sigmadelta", Hex(\h0016, \h54D6))
         \o InTwoStores(SynthPll(strap))
         \o Store("pll_bme_analog", Hex(\h002C, \hC642))
         \o InTwoStores(BmePll)
         \o Store("pll_dsp_analog", Hex(\h0026, \hCE20))
         \o Store("pll_dsp_sigmadelta", Hex(\h0001, \h2B52))
         \o AllClocksOn
         \o InTwoStores(DspPll)

-----------------------------------------------------------------------------
VARIABLES
  routine,  \* the one that is run
  strap,    \* those of the straps 7 and 10 that are set
  todo,     \* what is left of the routine
  regs,     \* registers of the system controller
  status    \* of each PLL

pllVars == <<routine, strap, todo, regs, status>>

(* Every routine there is, and what it leaves after a power-on.            *)
ProgramOf(r, c, why, uartboot, s) ==
  CASE r = "init_plls"       -> init_plls(c, why, uartboot, s)
    [] r = "init_pll"        -> init_pll(c, why, s)
    [] r = "init_plls_words" -> init_plls_words(c, why, s)
    [] r = "init_plls_parts" -> init_plls_parts(c, why, s)

Program ==
  [x \in AllRoutines \X Chips \X ResetCauses \X BOOLEAN \X Straps |->
     ProgramOf(x[1], x[2], x[3], x[4], x[5])]

LeftBy(r, c, uartboot, s) ==
  LET left == FoldLeft(Effect, ResetRegs, ProgramOf(r, c, "power", uartboot, s))
  IN  [reg \in DOMAIN ResetRegs |-> left[reg]]

Outcome ==
  [x \in AllRoutines \X Chips \X BOOLEAN \X Straps |-> LeftBy(x[1], x[2], x[3], x[4])]

Returned == todo = <<>>

(* The PLLs a routine waits for.                                           *)
ToLock ==
  CASE routine = "init_plls" /\ serial -> {"fixed", "gateway"}
    [] routine = "init_plls" /\ ~ serial ->
         {p \in PLL : p = "vcxo" => 10 \in strap}
    [] routine = "init_pll" -> {p \in PLL : p = "vcxo" => 7 \in strap}
    [] OTHER -> {p \in PLL \ {"gateway"} : p = "vcxo" => 7 \in strap}

PllTypeOK ==
  /\ routine \in Routines /\ strap \in Straps
  /\ todo \in Seq([op : {"store"}, reg : DOMAIN ResetRegs, word : SUBSET Ones]
             \cup [op : {"modify"}, reg : DOMAIN ResetRegs,
                   clear : SUBSET Ones, set : SUBSET Ones]
             \cup [op : {"poll"}, pll : PLL, flag : {"calibrated", "locked"}]
             \cup [op : {"call"}, routine : {"c_uart_init"}])
  /\ regs \in [DOMAIN ResetRegs -> SUBSET Ones]
  /\ status \in [PLL -> SUBSET {"calibrated", "locked"}]

(* A soft reset leaves registers and PLLs as the loader set them up after  *)
(* the power-on.  The chips of other families have no clocks in assembly.  *)
PllInit ==
  /\ routine \in Routines
  /\ routine = "init_pll" => chip # 8
  /\ routine # "init_plls" => ~ serial
  /\ strap \in Straps
  /\ todo = Program[<<routine, chip, cause, serial, strap>>]
  /\ regs = IF cause = "soft" THEN Outcome[<<routine, chip, serial, strap>>]
                              ELSE ResetRegs
  /\ status = [p \in PLL |-> IF cause = "soft" /\ p \in ToLock
                            THEN {"calibrated", "locked"} ELSE {}]

(* What a store to the power register does to a PLL: calibration starts    *)
(* anew, and a PLL without power or lock detector is not locked.           *)
Has(p, bit, word) == Shift[p] + bit \in word

Reacts(p, before, after) ==
  IF Has(p, CALIBRATION, after) /\ ~ Has(p, CALIBRATION, before) THEN {}
  ELSE IF Has(p, POWER_UP, after) /\ ~ Has(p, LOCKDETECTOR_DOWN, after)
  THEN status[p]
  ELSE status[p] \ {"locked"}

Step(kind) == todo # <<>> /\ Head(todo).op \in kind /\ todo' = Tail(todo)

Access ==
  /\ Step({"store", "modify"})
  /\ regs' = Effect(regs, Head(todo))
  /\ status' = [p \in PLL |-> Reacts(p, regs.pll_pwr_rst, regs'.pll_pwr_rst)]
  /\ UNCHANGED <<routine, strap>>

PollSet ==
  /\ Step({"poll"})
  /\ Head(todo).flag \in status[Head(todo).pll]
  /\ UNCHANGED <<routine, strap, regs, status>>

CallRoutine ==
  /\ Step({"call"})
  /\ UNCHANGED <<routine, strap, regs, status>>

Calibrates(p) ==
  /\ Has(p, POWER_UP, regs.pll_pwr_rst) /\ Has(p, CALIBRATION, regs.pll_pwr_rst)
  /\ "calibrated" \notin status[p]
  /\ status' = [status EXCEPT ![p] = {"calibrated"}]
  /\ UNCHANGED <<routine, strap, todo, regs>>

Locks(p) ==
  /\ Has(p, POWER_UP, regs.pll_pwr_rst)
  /\ ~ Has(p, CALIBRATION, regs.pll_pwr_rst)
  /\ ~ Has(p, LOCKDETECTOR_DOWN, regs.pll_pwr_rst)
  /\ status[p] = {"calibrated"}
  /\ status' = [status EXCEPT ![p] = {"calibrated", "locked"}]
  /\ UNCHANGED <<routine, strap, todo, regs>>

PllNext ==
  /\ \/ Access \/ PollSet \/ CallRoutine
     \/ \E p \in PLL : Calibrates(p) \/ Locks(p)
  /\ UNCHANGED boardVars

PllSpec == BoardInit /\ PllInit /\ [][PllNext]_<<boardVars, pllVars>>

-----------------------------------------------------------------------------
(***************************************************************************)
(* Properties.                                                             *)
(***************************************************************************)

(* A PLL that is set up is left alone.  Dividers, bypasses, analog control *)
(* and sigma-delta are final when its calibration starts, or it would not  *)
(* be one for the frequency the PLL runs at; and once it has locked it     *)
(* stays so while the others, which share the power register, are set up:  *)
(* no mask of either routine reaches beyond the bits of its PLL.           *)
SettingsOf(p, r) ==
  CASE p = "fixed"   -> <<r.pll_fixed_analog>>
    [] p = "vcxo"    -> <<r.pll_vcxo_analog, r.pll_vcxo_sigmadelta>>
    [] p = "gateway" -> <<r.pll_gateway_analog>>
    [] p = "bme"     -> <<r.pll_bme_analog>>
    [] p = "dsp"     -> <<r.pll_dsp_analog, r.pll_dsp_sigmadelta>>

DividersOf(p, r) ==
  <<r.pll_post_divider1 \cap FeedbackDivider[p],
    r.pll_post_divider2 \cap PostDividers[p],
    r.pll_post_divider3 \cap {BypassDiv2[p], BypassSigmaDelta[p]}>>

Settled(p) ==
  \/ status[p] # {}
  \/ /\ Has(p, CALIBRATION, regs.pll_pwr_rst)
     /\ Has(p, POWER_UP, regs.pll_pwr_rst)

PllsKept ==
  [][\A p \in PLL :
       /\ "locked" \in status[p] => "locked" \in status'[p]
       /\ Settled(p) =>
            /\ SettingsOf(p, regs') = SettingsOf(p, regs)
            /\ p \in {"gateway", "bme", "dsp"} =>
                 DividersOf(p, regs') = DividersOf(p, regs)]_pllVars

(* "Configure GMII2" and "Enable VCXO for Common Clock" store whole words  *)
(* to the control register: the mask keeps every other bit as it was.      *)
ControlKept ==
  [][LET Others == Ones \ (GIGE2_XMII \cup {AMC_CS0_MAP, VCXO_COMMON_CLOCK})
     IN  regs'.cpu_ctl \cap Others = regs.cpu_ctl \cap Others]_pllVars

(* "Enable clocks and bring modules out of reset" (pll_ram.c): no unit is  *)
(* out of reset without its clock, neither in the clock set-up nor when    *)
(* the memory controller is reset later.                                   *)
OutOfResetIsClocked ==
  \A u \in DOMAIN ResetAndGate :
    ResetAndGate[u] \in regs.rst_vec => ResetAndGate[u] \in regs.clkgate

(* When a routine returns after a power-on every PLL it set up has locked, *)
(* not only those whose status it looked at last.  The C routine, its      *)
(* older forms and the assembly, written bit by bit or word by word, leave *)
(* the same clocks behind, with both straps alike.                         *)
(* The assembly goes by another bit of the chip type (soc_rom.S lists 175  *)
(* and 185SE with 500 MHz, and it gives them the dividers of 400).  The    *)
(* third form cannot be run: it waits for the BME PLL before it has power. *)
PllRegs ==
  {"pll_pwr_rst", "pll_vcxo_sigmadelta", "pll_dsp_sigmadelta",
   "pll_post_divider1", "pll_post_divider2", "pll_post_divider3",
   "pll_fixed_analog", "pll_vcxo_analog", "pll_gateway_analog",
   "pll_bme_analog", "pll_dsp_analog", "cpu_ctl_mask", "cpu_ctl", "clkgate"}

SameClocks(r1, r2) == \A r \in PllRegs : r1[r] = r2[r]

RoutinesAgree ==
  Returned =>
    /\ \A p \in ToLock : "locked" \in status[p]
    /\ routine # "init_plls" /\ (7 \in strap <=> 10 \in strap) =>
         LET Same == Outcome[<<"init_plls", chip, FALSE, strap>>]
         IN  /\ \/ routine = "init_pll" /\ chip \in {CHIP_7175, CHIP_7185SE}
                \/ SameClocks(regs, Same)
             /\ SameClocks(Outcome[<<"init_plls_parts", chip, FALSE, strap>>], Same)
=============================================================================
