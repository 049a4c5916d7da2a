------------------------------ MODULE BootMain ------------------------------
(***************************************************************************)
(* main() of loader/fboot.c: the chip is detected, the clocks are raised   *)
(* (init_plls, c_uart_init), the memory is found (c_auto_ddr), an image is *)
(* fetched and jumped to.  The module is about what the steps silently     *)
(* leave for one another: the clock the processor runs at, the divisor of  *)
(* the UART, and gSysClock, from which every timeout is computed.          *)
(*                                                                         *)
(* Frequencies are multiples of the 12.5 MHz the system bus has before the *)
(* PLLs are programmed: 200 MHz is 16, 250 MHz is 20.  The COUNT register  *)
(* advances at half the frequency of the processor.                        *)
(***************************************************************************)
EXTENDS Board

CONSTANTS
  Divisors,        \* UART divisors the boot ROM can have left, for 12.5 MHz
  Leftover,        \* what memory outside the loaded binary may hold
  MAX_UBOOT_SIZE,  \* in blocks of the download (4096)
  MaxLength        \* bound on the blocks of a download

ByteMod == 256

(* The divisor for 9600 baud at 12.5 MHz.                                  *)
UART_DIV_LOW_12M5 == 81

ASSUME BootAssumption ==
  /\ Divisors \subseteq 1 .. ByteMod * ByteMod - 1
  /\ Leftover \subseteq Nat
  /\ MAX_UBOOT_SIZE \in Nat /\ MaxLength \in Nat

VARIABLES
  step,       \* the call main() makes next; "hang", or "jumped"
  gChipType,
  gSysClock,
  busClock,   \* frequency of the system bus, which clocks the UART
  tickRate,   \* frequency at which COUNT advances
  divisor,    \* divisor in the UART: dlh and dll
  console,    \* rate the terminal at the other end is set to
  loaded      \* "nothing", "part" or "all" of an image is in memory

clocks == <<busClock, tickRate, divisor>>
chosen == <<boardVars, console>>
vars == <<step, chosen, gChipType, gSysClock, clocks, loaded>>

(* What the gateway PLL is programmed to: the bus, and the processor at    *)
(* twice its frequency.  On two chips the processor is switched to the     *)
(* 600 MHz of the BME PLL, which only the NAND loader programs; what it    *)
(* runs at with the serial loader the code does not tell.                  *)
RatedBus(c) == IF c \in {CHIP_7173, CHIP_7183, CHIP_7185HP} THEN 16 ELSE 20
RatedTicks(c) ==
  IF c \in {CHIP_7175, CHIP_7185HP} THEN {24} \cup (IF serial THEN 16 .. 23 ELSE {})
  ELSE {RatedBus(c)}

(* A rate is kept when bus and divisor grow by the same factor.            *)
SameRate == divisor = console * busClock

TypeOK ==
  /\ step \in {"boot_reset", "detect_SoC", "init_plls", "c_uart_init",
               "c_auto_ddr", "load", "jump", "jumped", "hang"}
  /\ chip \in Chips /\ cause \in ResetCauses
  /\ console \in Divisors \cup {UART_DIV_LOW_12M5} /\ serial \in SerialBoots
  /\ gChipType \in Leftover \cup Chips
  /\ gSysClock \in Leftover \cup {16, 20}
  /\ busClock \in {1, 16, 20} /\ tickRate \in {1} \cup 16 .. 24
  /\ divisor \in Nat
  /\ loaded \in {"nothing", "part", "all"}

(* A soft reset leaves the PLLs as they were.  The console works when the  *)
(* serial loader is entered: it came that way.  The NAND loader sets it.   *)
Init ==
  /\ step = "boot_reset"
  /\ BoardInit
  /\ console \in IF serial THEN Divisors ELSE {UART_DIV_LOW_12M5}
  /\ gChipType \in Leftover
  /\ gSysClock \in Leftover
  /\ busClock = IF cause = "soft" THEN RatedBus(chip) ELSE 1
  /\ tickRate \in IF cause = "soft" THEN RatedTicks(chip) ELSE {1}
  /\ IF serial THEN divisor = console * busClock ELSE divisor \in Leftover
  /\ loaded = "nothing"

-----------------------------------------------------------------------------
(* The NAND loader's start.S sets the divisor for the bus of a power-on.   *)
a_uart_init ==
  /\ step = "boot_reset"
  /\ divisor' = IF serial THEN divisor ELSE UART_DIV_LOW_12M5
  /\ step' = "detect_SoC"
  /\ UNCHANGED <<chosen, gChipType, gSysClock, busClock, tickRate, loaded>>

detect_SoC ==
  /\ step = "detect_SoC"
  /\ gChipType' = chip
  /\ step' = "init_plls"
  /\ UNCHANGED <<chosen, gSysClock, clocks, loaded>>

(* "Skip programming PLL if SOFT RESET": the return comes first.           *)
SkipPlls ==
  /\ step = "init_plls"
  /\ cause = "soft"
  /\ step' = "c_auto_ddr"
  /\ UNCHANGED <<chosen, gChipType, gSysClock, clocks, loaded>>

(* Slip: gSysClock is not that of every chip of the slower family.         *)
ProgramPllsOneFamily ==
  /\ step = "init_plls"
  /\ cause # "soft"
  /\ gSysClock' = IF gChipType = CHIP_7185HP THEN 16 ELSE 20
  /\ busClock' = RatedBus(gChipType)
  /\ tickRate' \in RatedTicks(gChipType)
  /\ step' = "c_uart_init"
  /\ UNCHANGED <<chosen, gChipType, divisor, loaded>>

(* Slip: gSysClock is the clock of the processor.                          *)
ProgramPllsCoreClock ==
  /\ step = "init_plls"
  /\ cause # "soft"
  /\ gSysClock' = 2 * RatedBus(gChipType)
  /\ busClock' = RatedBus(gChipType)
  /\ tickRate' \in RatedTicks(gChipType)
  /\ step' = "c_uart_init"
  /\ UNCHANGED <<chosen, gChipType, divisor, loaded>>

(* The dividers, gSysClock, and the PLLs up to the lock of the gateway     *)
(* PLL, from which point on the bus has its rated frequency.               *)
ProgramPlls ==
  /\ step = "init_plls"
  /\ cause # "soft"
  /\ gSysClock' = RatedBus(gChipType)
  /\ busClock' = RatedBus(gChipType)
  /\ tickRate' \in RatedTicks(gChipType)
  /\ step' = "c_uart_init"
  /\ UNCHANGED <<chosen, gChipType, divisor, loaded>>

(* The factor is chosen by gSysClock.                                      *)
Scaled(dll) == IF gSysClock = 16 THEN dll * 16 ELSE dll * 16 + dll * 4

(* Slip: the divisor is scaled for one bus frequency only.                 *)
c_uart_initFixed ==
  /\ step = "c_uart_init"
  /\ divisor' = (divisor % ByteMod) * 20
  /\ step' = "c_auto_ddr"
  /\ UNCHANGED <<chosen, gChipType, gSysClock, busClock, tickRate, loaded>>

(* dll alone is read, and dlh and dll are written.                         *)
c_uart_init ==
  /\ step = "c_uart_init"
  /\ divisor' = Scaled(divisor % ByteMod) % (ByteMod * ByteMod)
  /\ step' = "c_auto_ddr"
  /\ UNCHANGED <<chosen, gChipType, gSysClock, busClock, tickRate, loaded>>

c_auto_ddr ==
  /\ step = "c_auto_ddr"
  /\ step' \in {"load", "hang"}
  /\ UNCHANGED <<chosen, gChipType, gSysClock, clocks, loaded>>

(* xmodem_load returns when the sender has ended the file; a file that is  *)
(* too long has been written to memory by then.                            *)
LoadSerial ==
  /\ step = "load" /\ serial
  /\ \E length \in 0 .. MaxLength :
       /\ step' = IF length > MAX_UBOOT_SIZE THEN "hang" ELSE "jump"
       /\ loaded' = IF length = 0 THEN "nothing" ELSE "all"
  /\ UNCHANGED <<chosen, gChipType, gSysClock, clocks>>

(* read_uboot may fail before or in the middle of the image; its result is *)
(* not looked at.                                                          *)
LoadNand ==
  /\ step = "load" /\ ~ serial
  /\ loaded' \in {"nothing", "part", "all"}
  /\ step' = "jump"
  /\ UNCHANGED <<chosen, gChipType, gSysClock, clocks>>

Jump ==
  /\ step = "jump"
  /\ step' = "jumped"
  /\ UNCHANGED <<chosen, gChipType, gSysClock, clocks, loaded>>

Next ==
  \/ a_uart_init
  \/ detect_SoC
  \/ SkipPlls \/ ProgramPlls \/ c_uart_init
  \/ c_auto_ddr
  \/ LoadSerial \/ LoadNand
  \/ Jump

Spec == Init /\ [][Next]_vars

-----------------------------------------------------------------------------
(* Apart from the moment between the lock of the PLL and c_uart_init, at   *)
(* which "must re-initialize DLAB before any more print-out" stands, the   *)
(* terminal can read what the loader prints: the divisor follows the bus   *)
(* on every chip, and the serial download goes on at the rate it began.    *)
(* After a soft reset of the NAND loader see ConsoleAfterReset.            *)
ConsoleReadable ==
  step \notin {"boot_reset", "c_uart_init"} /\ (serial \/ cause = "power")
    => SameRate

(* start.S sets the divisor for a "12.5 MHz system clock" (uart_boot.h):   *)
(* when it enters main() the rate is the one chosen there.                 *)
ConsoleAfterReset == step = "detect_SoC" => SameRate

(* "COUNT register increments at core_clock / 2" (xmodem.c): the second    *)
(* that xmodem_load waits is gSysClock ticks.  After a power-on gSysClock  *)
(* is the frequency of the bus when a download begins, on every chip, and  *)
(* that of COUNT wherever the processor runs at twice the bus.  On the two *)
(* chips that take the processor's clock from another PLL it need not be   *)
(* the latter, and after a soft reset neither (ClockSet).                  *)
SecondIsSecond ==
  step = "load" /\ cause = "power" =>
    /\ gSysClock = busClock
    /\ chip \notin {CHIP_7175, CHIP_7185HP} => gSysClock = tickRate

(* "Also start here to wait 1 second before sending the first NAK"         *)
(* (xmodem.c, Purge): a wait needs a clock that was set.                   *)
ClockSet == step = "load" => gSysClock \in {16, 20}
=============================================================================
